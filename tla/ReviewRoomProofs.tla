---------------------------- MODULE ReviewRoomProofs ----------------------------
(***************************************************************************)
(* What pages show and whom they hear, for any number of pages, messages,  *)
(* lost connections and moves of the ticket.                               *)
(***************************************************************************)
EXTENDS ReviewRoom, SequenceTheorems, FiniteSetTheorems, TLAPS

Row == [by : Moderators \cup {Author}, text : Numbers]

\* The history has the text each comment has.
Table ==
    /\ comments \in Seq(Row)
    /\ texts \in Seq(SUBSET Numbers)
    /\ Len(texts) = Len(comments)
    /\ \A i \in DOMAIN comments : comments[i].text \in texts[i]

\* Comments there are, with a text they have or had; edits of comments there are;
\* news of such comments.
Entries == {e \in [id : DOMAIN comments, text : Numbers] : e.text \in texts[e.id]}
Messages == {h \in [n : Numbers, page : Pages, nth : Nat, kind : {"create", "update"},
                    id : Nat \cup {None}] :
                h.kind = "update" => h.id \in DOMAIN comments}
Events == [event : {"create", "update", "OK"}, entry : Entries] \cup {[event |-> "error"]}

OnTheWay ==
    /\ toServer \in [Pages -> Seq(Messages)]
    /\ running \subseteq Messages
    /\ stored \subseteq Messages \X Entries
    /\ toPage \in [Pages -> Seq(Events)]

OnPages ==
    /\ answer \in [Pages -> Seq(Entries)]
    /\ shown \in [Pages -> Seq(Entries)]

Sockets ==
    /\ socket \in [Pages -> {"none", "connecting", "open", "down", "closed"}]
    /\ nth \in [Pages -> Nat]
    /\ drops \in Nat
    /\ sent \in Nat

KInv == Table /\ OnTheWay /\ OnPages /\ Sockets

\* Nothing was sent, stored or shown at the start.
LEMMA InitKInv == Init => KInv
<1> SUFFICES ASSUME Init
             PROVE  KInv
  OBVIOUS
<1>1. \A S : <<>> \in Seq(S)
  BY EmptySeq
<1>2. Table
  <2>1. DOMAIN comments = {} /\ Len(texts) = Len(comments)
    BY DEF Init
  <2> QED
    BY <1>1, <2>1 DEF Init, Table
<1>3. OnTheWay
  BY <1>1 DEF Init, OnTheWay
<1>4. OnPages
  BY <1>1 DEF Init, OnPages
<1>5. Sockets
  BY DEF Init, Sockets
<1> QED
  BY <1>2, <1>3, <1>4, <1>5 DEF KInv

\* While no comment is written, what there is stays what it is.
LEMMA Unwritten == ASSUME KInv, UNCHANGED table
                   PROVE  /\ Table'
                          /\ Entries' = Entries
                          /\ Messages' = Messages
                          /\ Events' = Events
BY DEF KInv, table, Table, Entries, Messages, Events

\* The ticket moves, a socket joins, is lost or connects again, a page opens.
LEMMA SocketKInv == ASSUME KInv, NEW p \in Pages,
                           \/ \E m \in Moderators \cup {None} : Assign(m)
                           \/ Open(p) \/ Join(p) \/ Drop(p) \/ Reconnect(p)
                    PROVE  KInv'
<1>1. UNCHANGED table
  BY DEF Assign, Open, Join, Drop, Reconnect
<1>2. Table' /\ Entries' = Entries /\ Messages' = Messages /\ Events' = Events
  BY <1>1, Unwritten
<1>3. OnPages'
  BY <1>2 DEF KInv, OnPages, Assign, Open, Join, Drop, Reconnect, page
<1>4. Sockets'
  BY DEF KInv, Sockets, Assign, Open, Join, Drop, Reconnect, sockets
<1>5. <<>> \in Seq(Messages) /\ <<>> \in Seq(Events)
  BY EmptySeq
<1>6. OnTheWay'
  BY <1>2, <1>5 DEF KInv, OnTheWay, Assign, Open, Join, Drop, Reconnect, handlers
<1> QED
  BY <1>2, <1>3, <1>4, <1>6 DEF KInv

\* A page that is left shows nothing, and nothing is on its way to it.
LEMMA CloseKInv == ASSUME KInv, NEW p \in Pages, Closed(p),
                          UNCHANGED <<ticket, table, nth, drops, toServer, handlers, sent>>
                   PROVE  KInv'
<1>1. Table' /\ Entries' = Entries /\ Messages' = Messages /\ Events' = Events
  BY Unwritten
<1>2. <<>> \in Seq(Entries) /\ <<>> \in Seq(Events)
  BY EmptySeq
<1>3. OnPages'
  BY <1>1, <1>2 DEF KInv, OnPages, Closed
<1>4. Sockets'
  BY DEF KInv, Sockets, Closed
<1>5. OnTheWay'
  BY <1>1, <1>2 DEF KInv, OnTheWay, Closed, handlers
<1> QED
  BY <1>1, <1>3, <1>4, <1>5 DEF KInv

\* The answer has the comments there are, with the texts they have.
LEMMA ListKInv == ASSUME KInv, NEW p \in Pages, ReadComments(p) \/ ShowComments(p)
                  PROVE  KInv'
<1>1. UNCHANGED <<table, sockets, toServer, handlers, toPage, sent>>
  BY DEF ReadComments, ShowComments
<1>2. Table' /\ Entries' = Entries /\ Messages' = Messages /\ Events' = Events
  BY <1>1, Unwritten
<1>3. OnTheWay' /\ Sockets'
  BY <1>1, <1>2 DEF KInv, OnTheWay, Sockets, sockets, handlers
<1>4. <<>> \in Seq(Entries)
  BY EmptySeq
<1>5. [i \in DOMAIN comments |-> [id |-> i, text |-> comments[i].text]] \in Seq(Entries)
  <2>1. Len(comments) \in Nat /\ DOMAIN comments = 1 .. Len(comments)
    BY LenProperties DEF KInv, Table
  <2>2. \A i \in 1 .. Len(comments) : comments[i] \in Row
    BY ElementOfSeq DEF KInv, Table
  <2>3. \A i \in 1 .. Len(comments) :
            [id |-> i, text |-> comments[i].text] \in Entries
    BY <2>1, <2>2 DEF KInv, Table, Entries, Row
  <2> QED
    BY <2>1, <2>3, IsASeq
<1>6. OnPages'
  BY <1>2, <1>4, <1>5 DEF KInv, OnPages, ReadComments, ShowComments
<1> QED
  BY <1>2, <1>3, <1>6 DEF KInv

\* A message edits a comment the page shows, which is one there is.
LEMMA SendKInv == ASSUME KInv, NEW p \in Pages,
                         AddComment(p) \/ \E id \in DOMAIN comments : SaveCommentEdits(p, id)
                  PROVE  KInv'
<1>1. PICK kind \in {"create", "update"}, id \in Nat \cup {None} :
          /\ Emit(p, kind, id)
          /\ kind = "update" => id \in DOMAIN comments
  <2>1. DOMAIN comments \subseteq Nat
    BY LenProperties DEF KInv, Table
  <2> QED
    BY <2>1 DEF AddComment, SaveCommentEdits
<1> DEFINE h == [n |-> sent + 1, page |-> p, nth |-> nth[p], kind |-> kind, id |-> id]
<1>2. h \in Messages
  <2>1. sent + 1 \in Numbers /\ nth[p] \in Nat
    BY <1>1, Bounds DEF KInv, Sockets, Emit, Numbers
  <2> QED
    BY <1>1, <2>1 DEF Messages
<1>3. /\ UNCHANGED <<table, sockets, handlers, toPage, page>>
      /\ toServer' = [toServer EXCEPT ![p] = Append(@, h)]
      /\ sent' = sent + 1
  BY <1>1 DEF Emit
<1> HIDE DEF h
<1>4. Table' /\ Entries' = Entries /\ Messages' = Messages /\ Events' = Events
  BY <1>3, Unwritten
<1>5. Append(toServer[p], h) \in Seq(Messages)
  BY <1>2, AppendProperties DEF KInv, OnTheWay
<1>6. OnTheWay'
  BY <1>3, <1>4, <1>5 DEF KInv, OnTheWay, handlers
<1>7. OnPages' /\ Sockets'
  BY <1>3, <1>4 DEF KInv, OnPages, Sockets, sockets, page
<1> QED
  BY <1>4, <1>6, <1>7 DEF KInv

\* The error is one more event on its way.
LEMMA ErrorQueued == ASSUME KInv, NEW p \in Pages
                     PROVE  Append(toPage[p], [event |-> "error"]) \in Seq(Events)
<1>1. [event |-> "error"] \in Events
  BY DEF Events
<1> QED
  BY <1>1, AppendProperties DEF KInv, OnTheWay

\* A handler takes the first message of its page.
LEMMA StartKInv == ASSUME KInv, NEW p \in Pages, Start(p)
                   PROVE  KInv'
<1>1. UNCHANGED <<table, socket, nth, drops, stored, page, sent>>
  BY DEF Start
<1>2. Table' /\ Entries' = Entries /\ Messages' = Messages /\ Events' = Events
  BY <1>1, Unwritten
<1>3. Head(toServer[p]) \in Messages /\ Tail(toServer[p]) \in Seq(Messages)
  BY HeadTailProperties DEF KInv, OnTheWay, Start
<1>4. running' \subseteq Messages /\ toServer' \in [Pages -> Seq(Messages)]
  BY <1>3 DEF KInv, OnTheWay, Start
<1>5. toPage' \in [Pages -> Seq(Events)]
  BY ErrorQueued DEF KInv, OnTheWay, Start, Fail
<1>6. OnTheWay'
  BY <1>1, <1>2, <1>4, <1>5 DEF KInv, OnTheWay
<1>7. OnPages' /\ Sockets'
  BY <1>1, <1>2 DEF KInv, OnPages, Sockets, page
<1> QED
  BY <1>2, <1>6, <1>7 DEF KInv

\* What is written adds a comment, or a text to one there is, and nothing is
\* taken away.
LEMMA WriteGrows == ASSUME KInv, NEW h \in Messages, Write(h)
                    PROVE  /\ Table'
                           /\ Entries \subseteq Entries'
                           /\ Messages \subseteq Messages'
                           /\ Written(h) \in Entries'
<1> USE DEF Written
<1>1. /\ h.n \in Numbers /\ h.page \in Pages
      /\ h.kind = "update" => h.id \in DOMAIN comments
  BY DEF Messages
<1>2. /\ Len(comments) \in Nat /\ Len(texts) = Len(comments)
      /\ DOMAIN comments = 1 .. Len(comments)
      /\ DOMAIN texts = 1 .. Len(comments)
      /\ \A i \in DOMAIN comments : comments[i] \in Row /\ texts[i] \in SUBSET Numbers
  BY LenProperties, ElementOfSeq DEF KInv, Table
<1>3. CASE InsertComment(h)
  <2> DEFINE row == [by |-> Owner[h.page], text |-> h.n]
  <2>1. row \in Row /\ row.text = h.n
    BY <1>1, OwnersAreAccounts DEF Row
  <2>2. h.kind = "create" /\ comments' = Append(comments, row)
        /\ texts' = Append(texts, {h.n})
    BY <1>3 DEF InsertComment
  <2> HIDE DEF row
  <2>3. /\ comments' \in Seq(Row)
        /\ DOMAIN comments' = 1 .. Len(comments) + 1
        /\ \A i \in DOMAIN comments : comments'[i] = comments[i]
        /\ comments'[Len(comments) + 1] = row
    BY <1>2, <2>1, <2>2, AppendProperties, LenProperties DEF KInv, Table
  <2>4. /\ texts' \in Seq(SUBSET Numbers)
        /\ Len(texts') = Len(comments')
        /\ \A i \in DOMAIN comments : texts'[i] = texts[i]
        /\ texts'[Len(comments) + 1] = {h.n}
    BY <1>1, <1>2, <2>1, <2>2, AppendProperties, LenProperties DEF KInv, Table
  <2>5. DOMAIN comments \subseteq DOMAIN comments'
        /\ Len(comments) + 1 \in DOMAIN comments'
    BY <1>2, <2>3
  <2>6. \A i \in DOMAIN comments' : i \in DOMAIN comments \/ i = Len(comments) + 1
    BY <1>2, <2>3
  <2>7. Table'
    BY <2>1, <2>3, <2>4, <2>6 DEF KInv, Table
  <2>8. Entries \subseteq Entries' /\ Messages \subseteq Messages'
    BY <2>4, <2>5 DEF Entries, Messages
  <2>9. Written(h) \in Entries'
    BY <1>1, <2>2, <2>4, <2>5 DEF Entries
  <2> QED
    BY <2>7, <2>8, <2>9
<1>4. CASE UpdateComment(h)
  <2> DEFINE row == [comments[h.id] EXCEPT !.text = h.n]
             known == texts[h.id] \cup {h.n}
  <2>1. /\ h.kind = "update"
        /\ comments' = [comments EXCEPT ![h.id] = row]
        /\ texts' = [texts EXCEPT ![h.id] = known]
    BY <1>4 DEF UpdateComment
  <2>2. h.id \in DOMAIN comments /\ row \in Row /\ row.text = h.n
        /\ known \in SUBSET Numbers
    BY <1>1, <1>2, <2>1 DEF Row
  <2>3. h.n \in known /\ texts[h.id] \subseteq known
    OBVIOUS
  <2> HIDE DEF row, known
  <2>4. /\ comments' \in Seq(Row) /\ Len(comments') = Len(comments)
        /\ \A i \in DOMAIN comments :
             comments'[i] = IF i = h.id THEN row ELSE comments[i]
    BY <1>2, <2>1, <2>2, ExceptSeq DEF KInv, Table
  <2>5. /\ texts' \in Seq(SUBSET Numbers) /\ Len(texts') = Len(comments)
        /\ \A i \in DOMAIN comments :
             texts'[i] = IF i = h.id THEN known ELSE texts[i]
    BY <1>2, <2>1, <2>2, ExceptSeq DEF KInv, Table
  <2>6. DOMAIN comments' = DOMAIN comments
    BY <1>2, <2>4, LenProperties
  <2>7. Table'
    BY <2>2, <2>3, <2>4, <2>5, <2>6 DEF KInv, Table
  <2>8. Entries \subseteq Entries' /\ Messages \subseteq Messages'
    BY <2>3, <2>5, <2>6 DEF Entries, Messages
  <2>9. Written(h) \in Entries'
    BY <1>1, <2>1, <2>2, <2>3, <2>5, <2>6 DEF Entries
  <2> QED
    BY <2>7, <2>8, <2>9
<1> QED
  BY <1>3, <1>4 DEF Write
\* Sets that grow make room for what was in them.
LEMMA GrowingSeqs == ASSUME NEW S, NEW T, S \subseteq T, NEW f \in [Pages -> Seq(S)]
                     PROVE  f \in [Pages -> Seq(T)]
<1>1. \A p \in Pages : f[p] \in Seq(T)
  BY SeqMonotonic
<1> QED
  BY <1>1

\* What is on its way and on the pages is still there after a write.
LEMMA GrowingKInv == ASSUME KInv, Entries \subseteq Entries', Messages \subseteq Messages'
                     PROVE  /\ Events \subseteq Events'
                            /\ toServer \in [Pages -> Seq(Messages')]
                            /\ running \subseteq Messages'
                            /\ stored \subseteq Messages' \X Entries'
                            /\ toPage \in [Pages -> Seq(Events')]
                            /\ answer \in [Pages -> Seq(Entries')]
                            /\ shown \in [Pages -> Seq(Entries')]
<1>1. Events \subseteq Events'
  BY DEF Events
<1>2. running \subseteq Messages' /\ stored \subseteq Messages' \X Entries'
  BY DEF KInv, OnTheWay
<1>3. toServer \in [Pages -> Seq(Messages')]
  BY GrowingSeqs DEF KInv, OnTheWay
<1>4. toPage \in [Pages -> Seq(Events')]
  BY <1>1, GrowingSeqs DEF KInv, OnTheWay
<1>5. answer \in [Pages -> Seq(Entries')] /\ shown \in [Pages -> Seq(Entries')]
  BY GrowingSeqs DEF KInv, OnPages
<1> QED
  BY <1>1, <1>2, <1>3, <1>4, <1>5

\* A handler that wrote has what it wrote in hand.
LEMMA StoreKInv == ASSUME KInv, NEW h \in running, Store(h)
                   PROVE  KInv'
<1>1. h \in Messages /\ Write(h) /\ running' \subseteq running
      /\ stored' = stored \cup {<<h, Written(h)>>}
      /\ UNCHANGED <<ticket, sockets, unheard, toServer, toPage, page, sent>>
  BY DEF KInv, OnTheWay, Store
<1>2. Table' /\ Entries \subseteq Entries' /\ Messages \subseteq Messages'
      /\ Written(h) \in Entries'
  BY <1>1, WriteGrows
<1>3. OnTheWay'
  BY <1>1, <1>2, GrowingKInv DEF OnTheWay
<1>4. OnPages'
  BY <1>1, <1>2, GrowingKInv DEF OnPages, page
<1>5. Sockets'
  BY <1>1 DEF KInv, Sockets, sockets
<1> QED
  BY <1>2, <1>3, <1>4, <1>5 DEF KInv

\* A handler that failed, whether its statement was committed or not.
LEMMA FailKInv == ASSUME KInv, NEW h \in running, HandlerFails(h) \/ StoreUnconfirmed(h)
                  PROVE  KInv'
<1>1. h \in Messages /\ h.page \in Pages /\ Failed(h)
  BY DEF KInv, OnTheWay, Messages, HandlerFails, StoreUnconfirmed
<1>2. running' \subseteq running
      /\ UNCHANGED <<ticket, socket, nth, drops, stored, toServer, page, sent>>
  BY <1>1 DEF Failed
<1>3. Table' /\ Entries \subseteq Entries' /\ Messages \subseteq Messages'
  <2>1. CASE HandlerFails(h)
    BY <2>1, Unwritten DEF HandlerFails
  <2>2. CASE StoreUnconfirmed(h)
    BY <1>1, <2>2, WriteGrows DEF StoreUnconfirmed
  <2> QED
    BY <2>1, <2>2
<1>4. toPage' \in [Pages -> Seq(Events)]
  BY <1>1, ErrorQueued DEF KInv, OnTheWay, Failed, Fail
<1>5. toPage' \in [Pages -> Seq(Events')]
  BY <1>3, <1>4, GrowingKInv, GrowingSeqs
<1>6. OnTheWay'
  BY <1>2, <1>3, <1>5, GrowingKInv DEF OnTheWay
<1>7. OnPages'
  BY <1>2, <1>3, GrowingKInv DEF OnPages, page
<1>8. Sockets'
  BY <1>2 DEF KInv, Sockets
<1> QED
  BY <1>3, <1>6, <1>7, <1>8 DEF KInv

\* The room hears of what was written.
LEMMA BroadcastKInv == ASSUME KInv, NEW s \in stored, Broadcast(s[1], s[2])
                       PROVE  KInv'
<1> DEFINE h == s[1]
           reply == [event |-> IF h.kind = "create" THEN "create" ELSE "OK",
                     entry |-> s[2]]
           news == [event |-> h.kind, entry |-> s[2]]
<1>1. h \in Messages /\ s[2] \in Entries /\ h.kind \in {"create", "update"}
  BY DEF KInv, OnTheWay, Messages
<1>2. news \in Events /\ reply \in Events
  BY <1>1 DEF Events
<1>3. /\ stored' \subseteq stored
      /\ UNCHANGED <<ticket, table, sockets, toServer, running, page, sent>>
      /\ toPage' = [p \in Pages |-> toPage'[p]]
      /\ \A p \in Pages : \/ toPage'[p] = toPage[p]
                          \/ toPage'[p] = Append(toPage[p], news)
                          \/ toPage'[p] = Append(toPage[p], reply)
  BY DEF Broadcast
<1> HIDE DEF h, reply, news
<1>4. Table' /\ Entries' = Entries /\ Messages' = Messages /\ Events' = Events
  BY <1>3, Unwritten
<1>5. ASSUME NEW p \in Pages
      PROVE  toPage'[p] \in Seq(Events)
  <2>1. toPage[p] \in Seq(Events)
    BY DEF KInv, OnTheWay
  <2>2. Append(toPage[p], news) \in Seq(Events) /\ Append(toPage[p], reply) \in Seq(Events)
    BY <1>2, <2>1, AppendProperties
  <2> QED
    BY <1>3, <2>1, <2>2
<1>6. OnTheWay'
  BY <1>3, <1>4, <1>5 DEF KInv, OnTheWay
<1>7. OnPages' /\ Sockets'
  BY <1>3, <1>4 DEF KInv, OnPages, Sockets, sockets, page
<1> QED
  BY <1>4, <1>6, <1>7 DEF KInv

\* An event adds an entry to what is shown, or puts it in place of others.
LEMMA ApplyEntries == ASSUME KInv, NEW p \in Pages, NEW e \in Events, e.event # "error"
                      PROVE  Apply(p, e) \in Seq(Entries)
<1>1. e \in [event : {"create", "update", "OK"}, entry : Entries]
  BY DEF Events
<1>2. e.entry \in Entries /\ e.event \in {"create", "update", "OK"}
      /\ shown[p] \in Seq(Entries)
  BY <1>1 DEF KInv, OnPages
<1>3. Append(shown[p], e.entry) \in Seq(Entries)
  BY <1>2, AppendProperties
<1>4. WithText(shown[p], e.entry) \in Seq(Entries)
  <2>1. Len(shown[p]) \in Nat /\ DOMAIN shown[p] = 1 .. Len(shown[p])
    BY <1>2, LenProperties
  <2>2. \A i \in 1 .. Len(shown[p]) : shown[p][i] \in Entries
    BY <1>2, ElementOfSeq
  <2>3. \A i \in 1 .. Len(shown[p]) :
            (IF shown[p][i].id = e.entry.id THEN e.entry ELSE shown[p][i]) \in Entries
    BY <1>2, <2>2
  <2> QED
    BY <2>1, <2>3, IsASeq DEF WithText
<1> QED
  BY <1>2, <1>3, <1>4 DEF Apply

\* The page shows what it hears of, or is left.
LEMMA ReceiveKInv == ASSUME KInv, NEW p \in Pages, Receive(p)
                     PROVE  KInv'
<1> DEFINE e == Head(toPage[p])
<1>1. toPage[p] # <<>>
      /\ UNCHANGED <<ticket, table, nth, drops, toServer, handlers, sent>>
  BY DEF Receive
<1>2. e \in Events /\ Tail(toPage[p]) \in Seq(Events)
  BY <1>1, HeadTailProperties DEF KInv, OnTheWay
<1>3. CASE e.event = "error"
  <2>1. Closed(p)
    BY <1>3 DEF Receive
  <2> QED
    BY <1>1, <2>1, CloseKInv
<1>4. CASE e.event # "error"
  <2>1. /\ toPage' = [toPage EXCEPT ![p] = Tail(@)]
        /\ shown' = [shown EXCEPT ![p] = Apply(p, e)]
        /\ UNCHANGED <<room, socket, list, answer>>
    BY <1>4 DEF Receive
  <2> HIDE DEF e
  <2>2. Table' /\ Entries' = Entries /\ Messages' = Messages /\ Events' = Events
    BY <1>1, Unwritten
  <2>3. Apply(p, e) \in Seq(Entries)
    BY <1>2, <1>4, ApplyEntries
  <2>4. OnPages'
    BY <2>1, <2>2, <2>3 DEF KInv, OnPages
  <2>5. OnTheWay'
    BY <1>1, <1>2, <2>1, <2>2 DEF KInv, OnTheWay, handlers
  <2>6. Sockets'
    BY <1>1, <2>1 DEF KInv, Sockets
  <2> QED
    BY <2>2, <2>4, <2>5, <2>6 DEF KInv
<1> QED
  BY <1>3, <1>4

\* Every step of pages, handlers and the ticket.
LEMMA NextKInv == KInv /\ [Next]_vars => KInv'
<1> SUFFICES ASSUME KInv, [Next]_vars
             PROVE  KInv'
  OBVIOUS
<1>1. ASSUME NEW p \in Pages, PageStep(p)
      PROVE  KInv'
  <2>1. CASE Open(p) \/ Drop(p) \/ Reconnect(p)
    BY <2>1, SocketKInv
  <2>2. CASE ReadComments(p) \/ ShowComments(p)
    BY <2>2, ListKInv
  <2>3. CASE AddComment(p) \/ \E id \in DOMAIN comments : SaveCommentEdits(p, id)
    BY <2>3, SendKInv
  <2>4. CASE Receive(p)
    BY <2>4, ReceiveKInv
  <2>5. CASE ClosePage(p)
    BY <2>5, CloseKInv DEF ClosePage
  <2> QED
    BY <1>1, <2>1, <2>2, <2>3, <2>4, <2>5 DEF PageStep
<1>2. ASSUME NEW p \in Pages, Join(p) \/ Reject(p) \/ Start(p)
      PROVE  KInv'
  BY <1>2, SocketKInv, CloseKInv, StartKInv DEF Reject
<1>3. ASSUME NEW h \in running, RunHandler(h)
      PROVE  KInv'
  BY <1>3, StoreKInv, FailKInv DEF RunHandler
<1>4. ASSUME NEW s \in stored, Broadcast(s[1], s[2])
      PROVE  KInv'
  BY <1>4, BroadcastKInv
<1>5. ASSUME NEW m \in Moderators \cup {None}, Assign(m)
      PROVE  KInv'
  <2>1. UNCHANGED <<table, sockets, toServer, handlers, toPage, page, sent>>
    BY <1>5 DEF Assign
  <2>2. Table' /\ Entries' = Entries /\ Messages' = Messages /\ Events' = Events
    BY <2>1, Unwritten
  <2> QED
    BY <2>1, <2>2 DEF KInv, OnTheWay, OnPages, Sockets, sockets, handlers, page
<1>6. CASE UNCHANGED vars
  <2>1. Table' /\ Entries' = Entries /\ Messages' = Messages /\ Events' = Events
    BY <1>6, Unwritten DEF vars
  <2> QED
    BY <1>6, <2>1 DEF vars, KInv, OnTheWay, OnPages, Sockets, sockets, handlers, page
<1> QED
  BY <1>1, <1>2, <1>3, <1>4, <1>5, <1>6 DEF Next, ServerStep

\* What is on its way or on a page is of comments there are.
THEOREM Known == Spec => []KInv
  BY InitKInv, NextKInv, PTL DEF Spec

\* No page ever shows a comment that was refused or a text its comment never had,
\* in whatever order handlers write and broadcast (review.gateway.ts).
THEOREM OnlyStoredIsShown == Spec => []ShownWasStored
<1>1. KInv => ShownWasStored
  <2> SUFFICES ASSUME KInv, NEW p \in Pages, NEW i \in DOMAIN shown[p]
               PROVE  /\ shown[p][i].id \in DOMAIN comments
                      /\ shown[p][i].text \in texts[shown[p][i].id]
    BY DEF ShownWasStored
  <2>1. shown[p] \in Seq(Entries)
    BY DEF KInv, OnPages
  <2>2. shown[p][i] \in Entries
    BY <2>1, LenProperties, ElementOfSeq
  <2> QED
    BY <2>2 DEF Entries
<1> QED
  BY <1>1, Known, PTL
-----------------------------------------------------------------------------
(* Whom a page hears.                                                      *)

Warned(p) == \E i \in DOMAIN toPage[p] : toPage[p][i].event = "error"

Hears(p) == socket[p] = "open" /\ p \notin room => Warned(p)

\* An event appended leaves a warning there is, and may be one.
LEMMA AppendWarns == ASSUME KInv, NEW p \in Pages, NEW e \in Events,
                            toPage'[p] = Append(toPage[p], e),
                            Warned(p) \/ e.event = "error"
                     PROVE  Warned(p)'
<1>1. toPage[p] \in Seq(Events)
  BY DEF KInv, OnTheWay
<1>2. /\ Len(toPage[p]) \in Nat
      /\ DOMAIN toPage[p] = 1 .. Len(toPage[p])
      /\ DOMAIN toPage'[p] = 1 .. Len(toPage[p]) + 1
      /\ \A i \in 1 .. Len(toPage[p]) : toPage'[p][i] = toPage[p][i]
      /\ toPage'[p][Len(toPage[p]) + 1] = e
  BY <1>1, AppendProperties, LenProperties
<1> QED
  BY <1>2 DEF Warned

\* A page that leaves hears nothing, and the others are left alone.
LEMMA ClosedHears == ASSUME KInv, NEW p \in Pages, Closed(p), NEW q \in Pages, Hears(q)
                     PROVE  Hears(q)'
<1>1. CASE q = p
  BY <1>1 DEF KInv, Sockets, Closed, Hears
<1>2. CASE q # p
  BY <1>2 DEF KInv, Sockets, OnTheWay, Closed, Hears, Warned
<1> QED
  BY <1>1, <1>2

\* Whose socket leaves the room after a failure is told.
LEMMA FailHears == ASSUME KInv, NEW p \in Pages, Fail(p), UNCHANGED socket,
                          NEW q \in Pages, Hears(q)
                   PROVE  Hears(q)'
<1>1. [event |-> "error"] \in Events /\ [event |-> "error"].event = "error"
  BY DEF Events
<1>2. CASE q = p
  <2>1. toPage'[q] = Append(toPage[q], [event |-> "error"])
    BY <1>2 DEF KInv, OnTheWay, Fail
  <2>2. Warned(q)'
    BY <1>1, <2>1, AppendWarns
  <2> QED
    BY <2>2 DEF Hears
<1>3. CASE q # p
  BY <1>3 DEF KInv, OnTheWay, Fail, Hears, Warned
<1> QED
  BY <1>2, <1>3

\* A broadcast leaves the warnings there are.
LEMMA BroadcastHears == ASSUME KInv, NEW s \in stored, Broadcast(s[1], s[2]),
                               NEW q \in Pages, Hears(q)
                        PROVE  Hears(q)'
<1> DEFINE h == s[1]
           reply == [event |-> IF h.kind = "create" THEN "create" ELSE "OK",
                     entry |-> s[2]]
           news == [event |-> h.kind, entry |-> s[2]]
<1>1. h \in Messages /\ s[2] \in Entries /\ h.kind \in {"create", "update"}
  BY DEF KInv, OnTheWay, Messages
<1>2. news \in Events /\ reply \in Events
  BY <1>1 DEF Events
<1>3. /\ UNCHANGED sockets
      /\ \/ toPage'[q] = toPage[q]
         \/ toPage'[q] = Append(toPage[q], news)
         \/ toPage'[q] = Append(toPage[q], reply)
  BY DEF Broadcast
<1> HIDE DEF h, reply, news
<1>4. Warned(q) => Warned(q)'
  <2>1. CASE toPage'[q] = toPage[q]
    BY <2>1 DEF Warned
  <2>2. CASE toPage'[q] # toPage[q]
    BY <1>2, <1>3, <2>2, AppendWarns
  <2> QED
    BY <2>1, <2>2
<1> QED
  BY <1>3, <1>4 DEF Hears, sockets

\* An event that is no warning is taken off what is on its way.
LEMMA ReceiveHears == ASSUME KInv, NEW p \in Pages, Receive(p), NEW q \in Pages, Hears(q)
                      PROVE  Hears(q)'
<1> DEFINE e == Head(toPage[p])
<1>1. CASE e.event = "error"
  <2>1. Closed(p)
    BY <1>1 DEF Receive
  <2> QED
    BY <2>1, ClosedHears
<1>2. CASE e.event # "error"
  <2>1. /\ toPage[p] # <<>>
        /\ toPage' = [toPage EXCEPT ![p] = Tail(@)]
        /\ UNCHANGED <<room, socket>>
    BY <1>2 DEF Receive
  <2>2. CASE q # p
    BY <2>1, <2>2 DEF KInv, OnTheWay, Hears, Warned
  <2>3. CASE q = p
    <3>1. toPage[q] \in Seq(Events) /\ toPage'[q] = Tail(toPage[q])
      BY <2>1, <2>3 DEF KInv, OnTheWay
    <3>2. /\ Len(toPage[q]) \in Nat
          /\ DOMAIN toPage[q] = 1 .. Len(toPage[q])
          /\ toPage[q][1].event # "error"
      BY <1>2, <2>1, <2>3, <3>1, LenProperties
    <3>3. /\ DOMAIN toPage'[q] = 1 .. Len(toPage[q]) - 1
          /\ \A i \in 1 .. Len(toPage[q]) - 1 : toPage'[q][i] = toPage[q][i + 1]
      <4>1. /\ Tail(toPage[q]) \in Seq(Events)
            /\ Len(Tail(toPage[q])) = Len(toPage[q]) - 1
            /\ \A i \in 1 .. Len(Tail(toPage[q])) : Tail(toPage[q])[i] = toPage[q][i + 1]
        BY <2>1, <2>3, <3>1, HeadTailProperties
      <4>2. DOMAIN Tail(toPage[q]) = 1 .. Len(Tail(toPage[q]))
        BY <4>1, LenProperties
      <4> QED
        BY <3>1, <4>1, <4>2
    <3>4. Warned(q) => Warned(q)'
      <4> SUFFICES ASSUME NEW i \in DOMAIN toPage[q], toPage[q][i].event = "error"
                   PROVE  Warned(q)'
        BY DEF Warned
      <4>1. i - 1 \in 1 .. Len(toPage[q]) - 1 /\ (i - 1) + 1 = i
        BY <3>2
      <4>2. toPage'[q][i - 1] = toPage[q][i]
        BY <3>3, <4>1
      <4> QED
        BY <3>3, <4>1, <4>2 DEF Warned
    <3> QED
      BY <2>1, <3>4 DEF Hears
  <2> QED
    BY <2>2, <2>3
<1> QED
  BY <1>1, <1>2

\* No step makes a page deaf without a warning.
LEMMA NextHears == ASSUME KInv, [Next]_vars, NEW q \in Pages, Hears(q)
                   PROVE  Hears(q)'
<1>1. ASSUME UNCHANGED <<room, socket, toPage>>
      PROVE  Hears(q)'
  BY <1>1 DEF Hears, Warned
<1>2. ASSUME NEW p \in Pages, PageStep(p)
      PROVE  Hears(q)'
  <2>1. CASE ReadComments(p) \/ ShowComments(p)
    BY <1>1, <2>1 DEF ReadComments, ShowComments, sockets
  <2>2. CASE AddComment(p) \/ \E id \in DOMAIN comments : SaveCommentEdits(p, id)
    BY <1>1, <2>2 DEF AddComment, SaveCommentEdits, Emit, sockets
  <2>3. CASE Open(p) \/ Reconnect(p)
    BY <2>3 DEF KInv, Sockets, Open, Reconnect, Hears, Warned
  <2>4. CASE Drop(p)
    BY <2>4 DEF KInv, Sockets, OnTheWay, Drop, Hears, Warned
  <2>5. CASE Receive(p)
    BY <2>5, ReceiveHears
  <2>6. CASE ClosePage(p)
    BY <2>6, ClosedHears DEF ClosePage
  <2> QED
    BY <1>2, <2>1, <2>2, <2>3, <2>4, <2>5, <2>6 DEF PageStep
<1>3. ASSUME NEW p \in Pages, Join(p) \/ Reject(p) \/ Start(p)
      PROVE  Hears(q)'
  <2>1. CASE Join(p)
    BY <2>1 DEF KInv, Sockets, Join, Hears, Warned
  <2>2. CASE Reject(p)
    BY <2>2, ClosedHears DEF Reject
  <2>3. CASE Start(p)
    BY <1>1, <2>3, FailHears DEF Start
  <2> QED
    BY <1>3, <2>1, <2>2, <2>3
<1>4. ASSUME NEW h \in running, RunHandler(h)
      PROVE  Hears(q)'
  <2>1. CASE Store(h)
    BY <1>1, <2>1 DEF Store, sockets
  <2>2. CASE HandlerFails(h) \/ StoreUnconfirmed(h)
    <3>1. Failed(h) /\ h.page \in Pages
      BY <2>2 DEF KInv, OnTheWay, Messages, HandlerFails, StoreUnconfirmed
    <3> QED
      BY <1>1, <3>1, FailHears DEF Failed
  <2> QED
    BY <1>4, <2>1, <2>2 DEF RunHandler
<1>5. ASSUME NEW s \in stored, Broadcast(s[1], s[2])
      PROVE  Hears(q)'
  BY <1>5, BroadcastHears
<1>6. ASSUME NEW m \in Moderators \cup {None}, Assign(m)
      PROVE  Hears(q)'
  BY <1>1, <1>6 DEF Assign, sockets
<1>7. CASE UNCHANGED vars
  BY <1>1, <1>7 DEF vars, sockets
<1> QED
  BY <1>2, <1>3, <1>4, <1>5, <1>6, <1>7 DEF Next, ServerStep

\* A page that is connected and out of the room has the error on its way that
\* makes it leave, however connections are lost and handlers fail
\* (review.gateway.ts, the rejection of a message).
THEOREM NobodyIsDeaf == Spec => []NoSilentDeafness
<1> DEFINE AllHear == \A q \in Pages : Hears(q)
<1>1. Init => AllHear
  BY DEF Init, Hears
<1>2. KInv /\ AllHear /\ [Next]_vars => AllHear'
  BY NextHears
<1>3. AllHear => NoSilentDeafness
  BY DEF Hears, Warned, NoSilentDeafness
<1> QED
  BY <1>1, <1>2, <1>3, Known, PTL DEF Spec
-----------------------------------------------------------------------------
(* What a page has yet to show.                                            *)

\* Comments stored whose handler has yet to broadcast them; those a page was
\* answered with or shows; those it is about to hear of.
Waiting == {s[2].id : s \in {t \in stored : t[1].kind = "create"}}
IdsOf(entries) == {entries[i].id : i \in DOMAIN entries}
Listed(p) == IF list[p] = "answered" THEN IdsOf(answer[p]) ELSE IdsOf(shown[p])
Coming(p) == {toPage[p][i].entry.id :
                i \in {j \in DOMAIN toPage[p] : toPage[p][j].event = "create"}}

\* What pages in the room have to have or to hear of.
Owed == DOMAIN comments \ (unheard \cup Waiting)

\* A socket that has left the room is not let in again before it was lost.
KeepsUp(p) ==
    calm[p] /\ list[p] \in {"answered", "shown"} =>
        /\ socket[p] = "open"
        /\ p \in room => Owed \subseteq Listed(p) \cup Coming(p)

InRoom == room \subseteq Pages /\ \A p \in room : socket[p] = "open"
Lists == /\ list \in [Pages -> {"none", "asked", "answered", "shown"}]
         /\ calm \in [Pages -> BOOLEAN]

MInv == InRoom /\ Lists /\ \A p \in Pages : KeepsUp(p)

\* Only sockets that are connected are in the room.
LEMMA NextInRoom == ASSUME KInv, MInv, [Next]_vars
                    PROVE  InRoom' /\ Lists'
<1>1. ASSUME UNCHANGED <<room, socket, list, calm>>
      PROVE  InRoom' /\ Lists'
  BY <1>1 DEF MInv, InRoom, Lists
<1>2. ASSUME NEW p \in Pages, Closed(p)
      PROVE  InRoom' /\ Lists'
  BY <1>2 DEF KInv, Sockets, MInv, InRoom, Lists, Closed
<1>3. ASSUME NEW p \in Pages, Fail(p), UNCHANGED <<socket, list, calm>>
      PROVE  InRoom' /\ Lists'
  BY <1>3 DEF MInv, InRoom, Lists, Fail
<1>4. ASSUME NEW p \in Pages, PageStep(p)
      PROVE  InRoom' /\ Lists'
  <2>1. CASE ReadComments(p)
    BY <2>1 DEF ReadComments, sockets, MInv, InRoom, Lists
  <2>2. CASE ShowComments(p)
    BY <2>2 DEF ShowComments, sockets, MInv, InRoom, Lists
  <2>3. CASE AddComment(p) \/ \E id \in DOMAIN comments : SaveCommentEdits(p, id)
    BY <1>1, <2>3 DEF AddComment, SaveCommentEdits, Emit, sockets, page
  <2>4. CASE Open(p)
    BY <2>4 DEF KInv, Sockets, Open, MInv, InRoom, Lists
  <2>5. CASE Reconnect(p)
    BY <2>5 DEF KInv, Sockets, Reconnect, page, MInv, InRoom, Lists
  <2>6. CASE Drop(p)
    BY <2>6 DEF KInv, Sockets, Drop, MInv, InRoom, Lists
  <2>7. CASE Receive(p)
    <3>1. CASE Closed(p)
      BY <1>2, <3>1
    <3>2. CASE ~Closed(p)
      <4>1. /\ UNCHANGED <<room, socket, list>>
            /\ calm' = [calm EXCEPT ![p] = @ /\ list[p] = "shown"]
        BY <2>7, <3>2 DEF Receive
      <4> QED
        BY <4>1 DEF MInv, InRoom, Lists
    <3> QED
      BY <3>1, <3>2
  <2>8. CASE ClosePage(p)
    BY <1>2, <2>8 DEF ClosePage
  <2> QED
    BY <1>4, <2>1, <2>2, <2>3, <2>4, <2>5, <2>6, <2>7, <2>8 DEF PageStep
<1>5. ASSUME NEW p \in Pages, Join(p) \/ Reject(p) \/ Start(p)
      PROVE  InRoom' /\ Lists'
  <2>1. CASE Join(p)
    BY <2>1 DEF KInv, Sockets, Join, page, MInv, InRoom, Lists
  <2>2. CASE Reject(p)
    BY <1>2, <2>2 DEF Reject
  <2>3. CASE Start(p)
    BY <1>1, <1>3, <2>3 DEF Start, page
  <2> QED
    BY <1>5, <2>1, <2>2, <2>3
<1>6. ASSUME NEW h \in running, RunHandler(h)
      PROVE  InRoom' /\ Lists'
  <2>1. CASE Store(h)
    BY <1>1, <2>1 DEF Store, sockets, page
  <2>2. CASE HandlerFails(h) \/ StoreUnconfirmed(h)
    <3>1. Failed(h) /\ h.page \in Pages
      BY <2>2 DEF KInv, OnTheWay, Messages, HandlerFails, StoreUnconfirmed
    <3> QED
      BY <1>1, <1>3, <3>1 DEF Failed, page
  <2> QED
    BY <1>6, <2>1, <2>2 DEF RunHandler
<1>7. ASSUME NEW s \in stored, Broadcast(s[1], s[2])
      PROVE  InRoom' /\ Lists'
  BY <1>1, <1>7 DEF Broadcast, sockets, page
<1>8. ASSUME NEW m \in Moderators \cup {None}, Assign(m)
      PROVE  InRoom' /\ Lists'
  BY <1>1, <1>8 DEF Assign, sockets, page
<1>9. CASE UNCHANGED vars
  BY <1>1, <1>9 DEF vars, sockets, page
<1> QED
  BY <1>4, <1>5, <1>6, <1>7, <1>8, <1>9 DEF Next, ServerStep

\* A page keeps up while it hears no less and owes no more.
LEMMA QuietKeepsUp ==
  ASSUME NEW q \in Pages, KeepsUp(q), calm'[q] => calm[q],
         UNCHANGED <<comments, unheard, stored>>,
         list'[q] = list[q], answer'[q] = answer[q], shown'[q] = shown[q],
         socket'[q] = socket[q], q \in room' => q \in room /\ toPage'[q] = toPage[q]
  PROVE  KeepsUp(q)'
<1>1. Owed' = Owed /\ Listed(q)' = Listed(q)
  BY DEF Owed, Waiting, Listed, IdsOf
<1>2. q \in room' => Coming(q)' = Coming(q)
  BY DEF Coming
<1> QED
  BY <1>1, <1>2 DEF KeepsUp

\* A page that is left shows nothing, and the others keep up as before.
LEMMA ClosedKeepsUp ==
  ASSUME KInv, MInv, NEW p \in Pages, Closed(p), UNCHANGED <<table, handlers>>,
         NEW q \in Pages
  PROVE  KeepsUp(q)'
<1>1. CASE q = p
  BY <1>1 DEF MInv, Lists, Closed, KeepsUp
<1>2. CASE q # p
  <2>1. /\ calm'[q] = calm[q] /\ list'[q] = list[q] /\ answer'[q] = answer[q]
        /\ shown'[q] = shown[q] /\ socket'[q] = socket[q] /\ toPage'[q] = toPage[q]
        /\ q \in room' => q \in room
    BY <1>2 DEF MInv, Lists, KInv, OnPages, OnTheWay, Sockets, Closed
  <2> QED
    BY <2>1, QuietKeepsUp DEF MInv, table, handlers
<1> QED
  BY <1>1, <1>2

\* A page whose socket leaves the room is owed nothing.
LEMMA FailKeepsUp ==
  ASSUME KInv, MInv, NEW p \in Pages, Fail(p),
         UNCHANGED <<comments, unheard, stored, socket, page>>, NEW q \in Pages
  PROVE  KeepsUp(q)'
<1>1. q \in room' => q \in room /\ q # p
  BY DEF Fail
<1>2. q # p => toPage'[q] = toPage[q]
  BY DEF KInv, OnTheWay, Fail
<1> QED
  BY <1>1, <1>2, QuietKeepsUp DEF MInv, page

\* The comments there are when the list is read; only who joined before is calm.
LEMMA ReadKeepsUp == ASSUME KInv, MInv, NEW p \in Pages, ReadComments(p), NEW q \in Pages
                     PROVE  KeepsUp(q)'
<1>1. UNCHANGED <<table, sockets, handlers, toPage, shown>>
  BY DEF ReadComments
<1>2. CASE q = p
  <2> SUFFICES ASSUME calm'[p]
               PROVE  socket[p] = "open" /\ Owed' \subseteq Listed(p)'
    BY <1>1, <1>2 DEF KeepsUp, sockets
  <2>1. p \in room /\ Owner[p] \in Participants
    BY DEF MInv, Lists, ReadComments
  <2>2. list'[p] = "answered"
        /\ answer'[p] = [i \in DOMAIN comments |-> [id |-> i, text |-> comments[i].text]]
    BY <2>1 DEF MInv, Lists, KInv, OnPages, ReadComments
  <2>3. IdsOf(answer'[p]) = DOMAIN comments
    <3>1. DOMAIN answer'[p] = DOMAIN comments
          /\ \A i \in DOMAIN comments : answer'[p][i].id = i
      BY <2>2
    <3> QED
      BY <3>1 DEF IdsOf
  <2>4. Listed(p)' = DOMAIN comments
    BY <2>2, <2>3 DEF Listed, IdsOf
  <2>5. Owed' \subseteq DOMAIN comments
    BY <1>1 DEF Owed, table
  <2> QED
    BY <2>1, <2>4, <2>5 DEF MInv, InRoom
<1>3. CASE q # p
  <2>1. calm'[q] = calm[q] /\ list'[q] = list[q] /\ answer'[q] = answer[q]
    BY <1>3 DEF MInv, Lists, KInv, OnPages, ReadComments
  <2> QED
    BY <1>1, <2>1, QuietKeepsUp DEF MInv, table, sockets, handlers
<1> QED
  BY <1>2, <1>3

\* What was answered is shown.
LEMMA ShowKeepsUp == ASSUME KInv, MInv, NEW p \in Pages, ShowComments(p), NEW q \in Pages
                     PROVE  KeepsUp(q)'
<1>1. UNCHANGED <<table, sockets, handlers, toPage, calm>>
  BY DEF ShowComments
<1>2. CASE q = p
  <2>1. list[p] = "answered" /\ list'[p] = "shown" /\ shown'[p] = answer[p]
    BY DEF MInv, Lists, KInv, OnPages, ShowComments
  <2>2. Listed(p)' = Listed(p)
    BY <2>1 DEF Listed, IdsOf
  <2>3. Owed' = Owed /\ Coming(p)' = Coming(p)
    BY <1>1 DEF Owed, Waiting, Coming, table, handlers
  <2>4. KeepsUp(p)
    BY DEF MInv
  <2> QED
    BY <1>1, <1>2, <2>1, <2>2, <2>3, <2>4 DEF KeepsUp, sockets
<1>3. CASE q # p
  <2>1. list'[q] = list[q] /\ answer'[q] = answer[q] /\ shown'[q] = shown[q]
    BY <1>3 DEF MInv, Lists, KInv, OnPages, ShowComments
  <2> QED
    BY <1>1, <2>1, QuietKeepsUp DEF MInv, table, sockets, handlers
<1> QED
  BY <1>2, <1>3

\* A comment stored is to be announced, or is one whose handler did not learn of it.
LEMMA WriteOwed == ASSUME KInv, NEW h \in running, Write(h)
                   PROVE  \A i \in DOMAIN comments' :
                             i \in DOMAIN comments \/ (h.kind = "create" /\ i = Written(h).id)
<1>1. CASE InsertComment(h)
  <2>1. comments' = Append(comments, [by |-> Owner[h.page], text |-> h.n])
        /\ Written(h).id = Len(comments) + 1 /\ h.kind = "create"
    BY <1>1 DEF InsertComment, Written
  <2>2. DOMAIN comments = 1 .. Len(comments) /\ Len(comments) \in Nat
    BY LenProperties DEF KInv, Table
  <2>3. DOMAIN comments' = 1 .. Len(comments) + 1
    <3>1. Owner[h.page] \in Moderators \cup {Author} /\ h.n \in Numbers
      BY OwnersAreAccounts DEF KInv, OnTheWay, Messages
    <3>2. [by |-> Owner[h.page], text |-> h.n] \in Row
      BY <3>1 DEF Row
    <3> QED
      BY <2>1, <3>2, AppendProperties, LenProperties DEF KInv, Table
  <2> QED
    BY <2>1, <2>2, <2>3
<1>2. CASE UpdateComment(h)
  BY <1>2 DEF UpdateComment
<1> QED
  BY <1>1, <1>2 DEF Write

\* A handler that stored a comment has yet to announce it.
LEMMA StoreKeepsUp == ASSUME KInv, MInv, NEW h \in running, Store(h), NEW q \in Pages
                      PROVE  KeepsUp(q)'
<1>1. /\ Write(h) /\ stored' = stored \cup {<<h, Written(h)>>}
      /\ UNCHANGED <<sockets, unheard, toPage, page>>
  BY DEF Store
<1>2. Waiting \subseteq Waiting' /\ (h.kind = "create" => Written(h).id \in Waiting')
  <2>1. \A s \in stored : s \in stored'
    BY <1>1
  <2>2. <<h, Written(h)>> \in stored'
    BY <1>1
  <2>3. h.kind = "create" => Written(h).id \in Waiting'
    <3>1. <<h, Written(h)>>[1] = h /\ <<h, Written(h)>>[2] = Written(h)
      OBVIOUS
    <3> QED
      BY <2>2, <3>1 DEF Waiting
  <2> QED
    BY <2>1, <2>3 DEF Waiting
<1>3. Owed' \subseteq Owed
  BY <1>1, <1>2, WriteOwed DEF Owed
<1>4. Listed(q)' = Listed(q) /\ Coming(q)' = Coming(q)
  BY <1>1 DEF Listed, IdsOf, Coming, page
<1> QED
  BY <1>1, <1>3, <1>4 DEF MInv, KeepsUp, sockets, page

\* A handler that failed announces nothing, and nothing is owed of what it stored.
LEMMA FailedKeepsUp ==
  ASSUME KInv, MInv, NEW h \in running, HandlerFails(h) \/ StoreUnconfirmed(h),
         NEW q \in Pages
  PROVE  KeepsUp(q)'
<1>1. /\ Failed(h) /\ h.page \in Pages
      /\ UNCHANGED <<socket, stored, page>>
  BY DEF KInv, OnTheWay, Messages, HandlerFails, StoreUnconfirmed, Failed
<1>2. Owed' \subseteq Owed
  <2>1. CASE HandlerFails(h)
    BY <1>1, <2>1 DEF HandlerFails, Owed, Waiting, table
  <2>2. CASE StoreUnconfirmed(h)
    <3>1. Write(h) /\ unheard' = unheard \cup {Written(h).id} /\ Waiting' = Waiting
      BY <1>1, <2>2 DEF StoreUnconfirmed, Waiting
    <3> QED
      BY <3>1, WriteOwed DEF Owed
  <2> QED
    BY <2>1, <2>2
<1>3. Listed(q)' = Listed(q)
  BY <1>1 DEF Listed, IdsOf, page
<1>4. q \in room' => q \in room /\ Coming(q)' = Coming(q)
  <2>1. q \in room' => q \in room /\ toPage'[q] = toPage[q]
    BY <1>1 DEF KInv, OnTheWay, Failed, Fail
  <2> QED
    BY <2>1 DEF Coming
<1> QED
  BY <1>1, <1>2, <1>3, <1>4 DEF MInv, KeepsUp, page

\* An event appended is one more to hear.
LEMMA AppendComing == ASSUME KInv, NEW p \in Pages, NEW e \in Events,
                             toPage'[p] = Append(toPage[p], e)
                      PROVE  /\ Coming(p) \subseteq Coming(p)'
                             /\ e.event = "create" => e.entry.id \in Coming(p)'
<1>1. toPage[p] \in Seq(Events)
  BY DEF KInv, OnTheWay
<1>2. /\ Len(toPage[p]) \in Nat
      /\ DOMAIN toPage[p] = 1 .. Len(toPage[p])
      /\ DOMAIN toPage'[p] = 1 .. Len(toPage[p]) + 1
      /\ \A i \in 1 .. Len(toPage[p]) : toPage'[p][i] = toPage[p][i]
      /\ toPage'[p][Len(toPage[p]) + 1] = e
  BY <1>1, AppendProperties, LenProperties
<1>3. ASSUME NEW i \in DOMAIN toPage[p], toPage[p][i].event = "create"
      PROVE  toPage[p][i].entry.id \in Coming(p)'
  <2>1. i \in DOMAIN toPage'[p] /\ toPage'[p][i] = toPage[p][i]
    BY <1>2
  <2> QED
    BY <1>3, <2>1 DEF Coming
<1>4. ASSUME e.event = "create"
      PROVE  e.entry.id \in Coming(p)'
  <2>1. Len(toPage[p]) + 1 \in DOMAIN toPage'[p]
    BY <1>2
  <2> QED
    BY <1>2, <1>4, <2>1 DEF Coming
<1> QED
  BY <1>3, <1>4 DEF Coming

\* An event taken off is one less to hear.
LEMMA TailComing == ASSUME KInv, NEW p \in Pages, toPage[p] # <<>>,
                           toPage'[p] = Tail(toPage[p]),
                           NEW id \in Coming(p), id \notin Coming(p)'
                    PROVE  /\ Head(toPage[p]).event = "create"
                           /\ id = Head(toPage[p]).entry.id
<1>1. toPage[p] \in Seq(Events)
  BY DEF KInv, OnTheWay
<1>2. /\ Len(toPage[p]) \in Nat
      /\ DOMAIN toPage[p] = 1 .. Len(toPage[p])
      /\ Head(toPage[p]) = toPage[p][1]
  BY <1>1, LenProperties
<1>3. /\ DOMAIN toPage'[p] = 1 .. Len(toPage[p]) - 1
      /\ \A i \in 1 .. Len(toPage[p]) - 1 : toPage'[p][i] = toPage[p][i + 1]
  <2>1. /\ Tail(toPage[p]) \in Seq(Events)
        /\ Len(Tail(toPage[p])) = Len(toPage[p]) - 1
        /\ \A i \in 1 .. Len(Tail(toPage[p])) : Tail(toPage[p])[i] = toPage[p][i + 1]
    BY <1>1, HeadTailProperties
  <2>2. DOMAIN Tail(toPage[p]) = 1 .. Len(Tail(toPage[p]))
    BY <2>1, LenProperties
  <2> QED
    BY <2>1, <2>2
<1>4. PICK i \in DOMAIN toPage[p] : /\ toPage[p][i].event = "create"
                                    /\ id = toPage[p][i].entry.id
  BY DEF Coming
<1>5. CASE i = 1
  BY <1>2, <1>4, <1>5
<1>6. CASE i # 1
  <2>1. i - 1 \in 1 .. Len(toPage[p]) - 1 /\ (i - 1) + 1 = i
    BY <1>2, <1>6
  <2>2. i - 1 \in DOMAIN toPage'[p] /\ toPage'[p][i - 1] = toPage[p][i]
    BY <1>3, <2>1
  <2>3. id \in Coming(p)'
    BY <1>4, <2>2 DEF Coming
  <2> QED
    BY <2>3
<1> QED
  BY <1>5, <1>6

\* An event takes nothing off a page, and adds the comment it brings.
LEMMA ApplyIds == ASSUME KInv, NEW p \in Pages, NEW e \in Events, e.event # "error"
                  PROVE  /\ IdsOf(shown[p]) \subseteq IdsOf(Apply(p, e))
                         /\ e.event = "create" => e.entry.id \in IdsOf(Apply(p, e))
<1>1. e \in [event : {"create", "update", "OK"}, entry : Entries]
  BY DEF Events
<1>2. e.entry \in Entries /\ e.event \in {"create", "update", "OK"}
      /\ shown[p] \in Seq(Entries)
  BY <1>1 DEF KInv, OnPages
<1>3. CASE e.event = "create"
  <2>1. /\ Len(shown[p]) \in Nat /\ DOMAIN shown[p] = 1 .. Len(shown[p])
        /\ DOMAIN Append(shown[p], e.entry) = 1 .. Len(shown[p]) + 1
        /\ \A i \in 1 .. Len(shown[p]) : Append(shown[p], e.entry)[i] = shown[p][i]
        /\ Append(shown[p], e.entry)[Len(shown[p]) + 1] = e.entry
    BY <1>2, AppendProperties, LenProperties
  <2>2. Len(shown[p]) + 1 \in DOMAIN Append(shown[p], e.entry)
    BY <2>1
  <2>3. \A i \in DOMAIN shown[p] : i \in DOMAIN Append(shown[p], e.entry)
    BY <2>1
  <2>4. Apply(p, e) = Append(shown[p], e.entry)
    BY <1>3 DEF Apply
  <2>5. e.entry.id \in IdsOf(Append(shown[p], e.entry))
    BY <2>1, <2>2 DEF IdsOf
  <2>6. IdsOf(shown[p]) \subseteq IdsOf(Append(shown[p], e.entry))
    BY <2>1, <2>3 DEF IdsOf
  <2> QED
    BY <2>4, <2>5, <2>6
<1>4. CASE e.event # "create"
  <2>1. Apply(p, e) = WithText(shown[p], e.entry)
    BY <1>2, <1>4 DEF Apply
  <2>2. DOMAIN WithText(shown[p], e.entry) = DOMAIN shown[p]
        /\ \A i \in DOMAIN shown[p] : WithText(shown[p], e.entry)[i].id = shown[p][i].id
    BY DEF WithText
  <2>3. IdsOf(shown[p]) \subseteq IdsOf(WithText(shown[p], e.entry))
    BY <2>2 DEF IdsOf
  <2> QED
    BY <1>4, <2>1, <2>3
<1> QED
  BY <1>3, <1>4

\* Whoever is in the room hears of what is no longer to be announced.
LEMMA BroadcastKeepsUp == ASSUME KInv, MInv, NEW s \in stored, Broadcast(s[1], s[2]),
                                 NEW q \in Pages
                          PROVE  KeepsUp(q)'
<1> DEFINE h == s[1]
           reply == [event |-> IF h.kind = "create" THEN "create" ELSE "OK",
                     entry |-> s[2]]
           news == [event |-> h.kind, entry |-> s[2]]
<1>1. h \in Messages /\ s[2] \in Entries /\ h.kind \in {"create", "update"}
      /\ s = <<s[1], s[2]>>
  BY DEF KInv, OnTheWay, Messages
<1>2. /\ news \in Events /\ reply \in Events
      /\ news.entry = s[2] /\ reply.entry = s[2]
      /\ h.kind = "create" => news.event = "create" /\ reply.event = "create"
  BY <1>1 DEF Events
<1>3. /\ stored' = stored \ {s}
      /\ UNCHANGED <<table, sockets, page>>
      /\ q \in room => \/ toPage'[q] = Append(toPage[q], news)
                       \/ toPage'[q] = Append(toPage[q], reply)
  BY <1>1 DEF Broadcast
<1>4. h.kind # "create" => Waiting \subseteq Waiting'
  BY <1>3 DEF Waiting
<1>5. \A id \in Waiting : id \in Waiting' \/ id = s[2].id
  BY <1>3 DEF Waiting
<1> HIDE DEF h, reply, news
<1>6. q \in room => /\ Coming(q) \subseteq Coming(q)'
                    /\ h.kind = "create" => s[2].id \in Coming(q)'
  BY <1>2, <1>3, AppendComing
<1>7. q \in room => Owed' \subseteq Owed \cup Coming(q)'
  <2>1. Owed' = DOMAIN comments \ (unheard \cup Waiting')
    BY <1>3 DEF Owed, table
  <2> QED
    BY <1>4, <1>5, <1>6, <2>1 DEF Owed
<1>8. Listed(q)' = Listed(q)
  BY <1>3 DEF Listed, IdsOf, page
<1> QED
  BY <1>3, <1>6, <1>7, <1>8 DEF MInv, KeepsUp, sockets, page

\* What a page hears of, it shows.
LEMMA ReceiveKeepsUp == ASSUME KInv, MInv, NEW p \in Pages, Receive(p), NEW q \in Pages
                        PROVE  KeepsUp(q)'
<1> DEFINE e == Head(toPage[p])
<1>1. toPage[p] # <<>> /\ UNCHANGED <<table, handlers>>
  BY DEF Receive
<1>2. e \in Events
  BY <1>1, HeadTailProperties DEF KInv, OnTheWay
<1>3. CASE e.event = "error"
  <2>1. Closed(p)
    BY <1>3 DEF Receive
  <2> QED
    BY <1>1, <2>1, ClosedKeepsUp
<1>4. CASE e.event # "error"
  <2>1. /\ toPage' = [toPage EXCEPT ![p] = Tail(@)]
        /\ shown' = [shown EXCEPT ![p] = Apply(p, e)]
        /\ calm' = [calm EXCEPT ![p] = @ /\ list[p] = "shown"]
        /\ UNCHANGED <<room, socket, list, answer>>
    BY <1>4 DEF Receive
  <2> HIDE DEF e
  <2>2. CASE q # p
    <3>1. calm'[q] = calm[q] /\ shown'[q] = shown[q] /\ toPage'[q] = toPage[q]
      BY <2>1, <2>2 DEF MInv, Lists, KInv, OnPages, OnTheWay
    <3> QED
      BY <1>1, <2>1, <3>1, QuietKeepsUp DEF MInv, table, handlers
  <2>3. CASE q = p
    <3> SUFFICES ASSUME calm'[p], p \in room
                 PROVE  Owed' \subseteq Listed(p)' \cup Coming(p)'
      BY <2>1, <2>3 DEF MInv, Lists, KeepsUp
    <3>1. list[p] = "shown" /\ calm[p] /\ toPage'[p] = Tail(toPage[p])
          /\ shown'[p] = Apply(p, e)
      BY <2>1 DEF MInv, Lists, KInv, OnPages, OnTheWay
    <3>2. Owed' \subseteq Listed(p) \cup Coming(p)
      <4>1. Owed' = Owed
        BY <1>1 DEF Owed, Waiting, table, handlers
      <4> QED
        BY <3>1, <4>1 DEF MInv, KeepsUp
    <3>3. Listed(p) = IdsOf(shown[p]) /\ Listed(p)' = IdsOf(Apply(p, e))
      BY <2>1, <3>1 DEF Listed, IdsOf
    <3>4. \A id \in Coming(p) : id \notin Coming(p)' =>
              e.event = "create" /\ id = e.entry.id
      BY <1>1, <3>1, TailComing DEF e
    <3> QED
      BY <1>2, <1>4, <3>2, <3>3, <3>4, ApplyIds
  <2> QED
    BY <2>2, <2>3
<1> QED
  BY <1>3, <1>4

\* No step lets a page that keeps up fall behind.
LEMMA NextKeepsUp == ASSUME KInv, MInv, [Next]_vars, NEW q \in Pages
                     PROVE  KeepsUp(q)'
<1>1. ASSUME UNCHANGED <<table, room, socket, handlers, toPage, page>>
      PROVE  KeepsUp(q)'
  BY <1>1, QuietKeepsUp DEF MInv, table, handlers, page
<1>2. ASSUME NEW p \in Pages, PageStep(p)
      PROVE  KeepsUp(q)'
  <2>1. CASE Open(p)
    <3>1. q # p => socket'[q] = socket[q] /\ list'[q] = list[q]
      BY <2>1 DEF Open, MInv, Lists, KInv, Sockets
    <3>2. q = p => list'[q] = "asked"
      BY <2>1 DEF Open, MInv, Lists
    <3>3. UNCHANGED <<table, room, handlers, toPage, answer, shown, calm>>
      BY <2>1 DEF Open
    <3>4. CASE q # p
      BY <3>1, <3>3, <3>4, QuietKeepsUp DEF MInv, table, handlers
    <3> QED
      BY <3>2, <3>4 DEF KeepsUp
  <2>2. CASE ReadComments(p)
    BY <2>2, ReadKeepsUp
  <2>3. CASE ShowComments(p)
    BY <2>3, ShowKeepsUp
  <2>4. CASE AddComment(p) \/ \E id \in DOMAIN comments : SaveCommentEdits(p, id)
    BY <1>1, <2>4 DEF AddComment, SaveCommentEdits, Emit, sockets
  <2>5. CASE Receive(p)
    BY <2>5, ReceiveKeepsUp
  <2>6. CASE ClosePage(p)
    BY <2>6, ClosedKeepsUp DEF ClosePage
  <2>7. CASE Drop(p)
    <3>1. q = p => ~calm'[q]
      BY <2>7 DEF Drop, MInv, Lists
    <3>2. q # p => /\ calm'[q] = calm[q] /\ socket'[q] = socket[q]
                   /\ toPage'[q] = toPage[q]
      BY <2>7 DEF Drop, MInv, Lists, KInv, Sockets, OnTheWay
    <3>3. room' \subseteq room /\ UNCHANGED <<table, handlers, list, answer, shown>>
      BY <2>7 DEF Drop
    <3>4. CASE q # p
      BY <3>2, <3>3, <3>4, QuietKeepsUp DEF MInv, table, handlers
    <3> QED
      BY <3>1, <3>4 DEF KeepsUp
  <2>8. CASE Reconnect(p)
    <3>1. UNCHANGED <<table, room, handlers, toPage, page>> /\ socket[p] = "down"
      BY <2>8 DEF Reconnect
    <3>2. q # p => socket'[q] = socket[q]
      BY <2>8 DEF Reconnect, KInv, Sockets
    <3>3. CASE q # p
      BY <3>1, <3>2, <3>3, QuietKeepsUp DEF MInv, table, handlers, page
    <3>4. CASE q = p
      BY <3>1, <3>4 DEF MInv, KeepsUp, page
    <3> QED
      BY <3>3, <3>4
  <2> QED
    BY <1>2, <2>1, <2>2, <2>3, <2>4, <2>5, <2>6, <2>7, <2>8 DEF PageStep
<1>3. ASSUME NEW p \in Pages, Join(p) \/ Reject(p) \/ Start(p)
      PROVE  KeepsUp(q)'
  <2>1. CASE Join(p)
    <3>1. UNCHANGED <<table, handlers, toPage, page>> /\ socket[p] = "connecting"
      BY <2>1 DEF Join
    <3>2. q # p => socket'[q] = socket[q] /\ (q \in room' => q \in room)
      BY <2>1 DEF Join, KInv, Sockets
    <3>3. CASE q # p
      BY <3>1, <3>2, <3>3, QuietKeepsUp DEF MInv, table, handlers, page
    <3>4. CASE q = p
      BY <3>1, <3>4 DEF MInv, KeepsUp, page
    <3> QED
      BY <3>3, <3>4
  <2>2. CASE Reject(p)
    BY <2>2, ClosedKeepsUp DEF Reject
  <2>3. CASE Start(p)
    <3>1. UNCHANGED <<table, socket, stored, page>>
          /\ (Fail(p) \/ UNCHANGED <<room, toPage>>)
      BY <2>3 DEF Start
    <3>2. CASE Fail(p)
      BY <3>1, <3>2, FailKeepsUp DEF table
    <3>3. CASE UNCHANGED <<room, toPage>>
      BY <3>1, <3>3, QuietKeepsUp DEF MInv, table, page
    <3> QED
      BY <3>1, <3>2, <3>3
  <2> QED
    BY <1>3, <2>1, <2>2, <2>3
<1>4. ASSUME NEW h \in running, RunHandler(h)
      PROVE  KeepsUp(q)'
  BY <1>4, StoreKeepsUp, FailedKeepsUp DEF RunHandler
<1>5. ASSUME NEW s \in stored, Broadcast(s[1], s[2])
      PROVE  KeepsUp(q)'
  BY <1>5, BroadcastKeepsUp
<1>6. ASSUME NEW m \in Moderators \cup {None}, Assign(m)
      PROVE  KeepsUp(q)'
  BY <1>1, <1>6 DEF Assign, sockets
<1>7. CASE UNCHANGED vars
  BY <1>1, <1>7 DEF vars, sockets
<1> QED
  BY <1>2, <1>3, <1>4, <1>5, <1>6, <1>7 DEF Next, ServerStep

\* Every page keeps up in every run of the room.
LEMMA Joined == Spec => []MInv
<1>1. Init => MInv
  BY DEF Init, MInv, InRoom, Lists, KeepsUp
<1>2. KInv /\ MInv /\ [Next]_vars => MInv'
  BY NextInRoom, NextKeepsUp DEF MInv
<1> QED
  BY <1>1, <1>2, Known, PTL DEF Spec

\* A page that joined before its list was read and heard nothing before it was
\* shown, shows every comment but those to be announced and those whose handler did
\* not learn of them, whatever the others do (getTicketComments, the broadcasts of
\* review.gateway.ts, the handlers of the review pages).
THEOREM ShowsAllThereIs == Spec => []NothingMissed
<1>1. KInv /\ MInv => NothingMissed
  <2> SUFFICES ASSUME MInv, NEW p \in Pages, calm[p], list[p] = "shown", p \in room,
                      toPage[p] = <<>>
               PROVE  DOMAIN comments \ (unheard \cup Announcing)
                          \subseteq {shown[p][i].id : i \in DOMAIN shown[p]}
    BY DEF NothingMissed
  <2>1. Waiting \subseteq Announcing
    BY DEF Waiting, Announcing
  <2>2. DOMAIN toPage[p] = {}
    OBVIOUS
  <2>3. Coming(p) = {}
    BY <2>2 DEF Coming
  <2>4. Owed \subseteq IdsOf(shown[p])
    BY <2>3 DEF MInv, KeepsUp, Listed
  <2> QED
    BY <2>1, <2>4 DEF Owed, IdsOf
<1> QED
  BY <1>1, Joined, Known, PTL

-----------------------------------------------------------------------------
(* One message, one comment: the bounds that TypeOK states.                *)

\* Messages that wait, or are handled, have numbers of their own.
Queued(p) == DOMAIN toServer[p]
Numbered ==
    /\ \A p \in Pages : \A i \in Queued(p) : toServer[p][i].n =< sent
    /\ \A h \in running : h.n =< sent
    /\ \A p, q \in Pages : \A i \in Queued(p), j \in Queued(q) :
          toServer[p][i].n = toServer[q][j].n => p = q /\ i = j
    /\ \A h \in running, p \in Pages : \A i \in Queued(p) : toServer[p][i].n # h.n
    /\ \A g, h \in running : g.n = h.n => g = h

\* f tells the message of each comment, which is not waiting or handled any more.
Made(f) ==
    /\ f \in [1 .. Len(comments) -> 1 .. sent]
    /\ \A i, j \in 1 .. Len(comments) : f[i] = f[j] => i = j
    /\ \A i \in 1 .. Len(comments) :
          /\ \A h \in running : h.n # f[i]
          /\ \A p \in Pages : \A j \in Queued(p) : toServer[p][j].n # f[i]

OncePerMessage == Numbered /\ \E f : Made(f)

\* No message makes two comments: there are no more comments than messages.
LEMMA CommentsBounded == ASSUME KInv, OncePerMessage
                         PROVE  Len(comments) =< sent
<1>1. Len(comments) \in Nat /\ sent \in Nat
  BY LenProperties DEF KInv, Table, Sockets
<1>2. PICK f : Made(f)
  BY DEF OncePerMessage
<1>3. f \in Injection(1 .. Len(comments), 1 .. sent)
  BY <1>2 DEF Made, Injection, IsInjective
<1>4. \A n \in Nat : IsFiniteSet(1 .. n) /\ Cardinality(1 .. n) = n
  <2> TAKE n \in Nat
  <2>1. /\ IsFiniteSet(1 .. n)
        /\ Cardinality(1 .. n) = IF 1 > n THEN 0 ELSE n - 1 + 1
    BY FS_Interval
  <2> QED
    BY <2>1
<1> QED
  BY <1>1, <1>3, <1>4, FS_Injection

\* What neither sends, takes up nor makes a comment.
LEMMA NumbersStay == ASSUME KInv, OncePerMessage, UNCHANGED <<toServer, sent>>,
                            running' \subseteq running, Len(comments') = Len(comments)
                     PROVE  OncePerMessage'
<1>1. Numbered'
  BY DEF OncePerMessage, Numbered, Queued
<1>2. PICK f : Made(f)
  BY DEF OncePerMessage
<1>3. Made(f)'
  BY <1>2 DEF Made, Queued
<1> QED
  BY <1>1, <1>3 DEF OncePerMessage

\* A comment that is added is the message's whose handler added it.
LEMMA NumberUsed == ASSUME KInv, OncePerMessage, UNCHANGED <<toServer, sent>>,
                           NEW h \in running, running' = running \ {h}, Write(h)
                    PROVE  OncePerMessage'
<1>1. comments \in Seq(Row) /\ Len(comments) \in Nat /\ sent \in Nat
  BY LenProperties DEF KInv, Table, Sockets
<1>2. CASE UpdateComment(h)
  <2>1. Len(comments') = Len(comments)
    BY <1>1, <1>2, ExceptSeq DEF UpdateComment
  <2> QED
    BY <2>1, NumbersStay
<1>3. CASE InsertComment(h)
  <2> DEFINE row == [by |-> Owner[h.page], text |-> h.n]
             L == Len(comments)
  <2>1. row \in Row
    BY OwnersAreAccounts DEF KInv, OnTheWay, Messages, Row
  <2>2. Len(comments') = L + 1
    BY <1>1, <1>3, <2>1, AppendProperties DEF InsertComment
  <2>3. PICK f : Made(f)
    BY DEF OncePerMessage
  <2>g. PICK g : g = [i \in 1 .. L + 1 |-> IF i = L + 1 THEN h.n ELSE f[i]]
    OBVIOUS
  <2>4. h.n \in 1 .. sent
    BY <1>1 DEF KInv, OnTheWay, Messages, Numbers, OncePerMessage, Numbered
  <2>5. g \in [1 .. L + 1 -> 1 .. sent]
    BY <1>1, <2>3, <2>4, <2>g DEF Made
  <2>6. \A i, j \in 1 .. L + 1 : g[i] = g[j] => i = j
    BY <1>1, <2>3, <2>g DEF Made
  <2>7. ASSUME NEW i \in 1 .. L + 1
        PROVE  /\ \A k \in running' : k.n # g[i]
               /\ \A p \in Pages : \A j \in Queued(p) : toServer[p][j].n # g[i]
    BY <1>1, <2>3, <2>g DEF Made, OncePerMessage, Numbered
  <2>8. Made(g)'
    <3>1. 1 .. Len(comments') = 1 .. L + 1 /\ 1 .. sent' = 1 .. sent
      BY <2>2
    <3> HIDE DEF L
    <3>2. g \in [1 .. Len(comments') -> 1 .. sent']
      BY <2>5, <3>1
    <3>3. \A i, j \in 1 .. Len(comments') : g[i] = g[j] => i = j
      BY <2>6, <3>1
    <3>4. \A i \in 1 .. Len(comments') :
             /\ \A k \in running' : k.n # g[i]
             /\ \A p \in Pages : \A j \in DOMAIN toServer'[p] : toServer'[p][j].n # g[i]
      BY <2>7, <3>1 DEF Queued
    <3> QED
      BY <3>2, <3>3, <3>4 DEF Made, Queued
  <2>9. Numbered'
    BY DEF OncePerMessage, Numbered, Queued
  <2> QED
    BY <2>8, <2>9 DEF OncePerMessage
<1> QED
  BY <1>2, <1>3 DEF Write

\* A message that is sent has the next number.
LEMMA NumberTaken == ASSUME KInv, OncePerMessage, NEW p \in Pages, NEW kind, NEW id,
                            Emit(p, kind, id)
                     PROVE  OncePerMessage'
<1> DEFINE h == [n |-> sent + 1, page |-> p, nth |-> nth[p], kind |-> kind, id |-> id]
<1>1. /\ sent' = sent + 1 /\ UNCHANGED <<comments, running>>
      /\ toServer' = [toServer EXCEPT ![p] = Append(@, h)]
  BY DEF Emit, table, handlers
<1>2. sent \in Nat /\ h.n = sent + 1
  BY DEF KInv, Sockets
<1> HIDE DEF h
<1>3. \A q \in Pages : Queued(q) = 1 .. Len(toServer[q]) /\ Len(toServer[q]) \in Nat
  BY DEF KInv, OnTheWay, Queued
<1>4. ASSUME NEW q \in Pages, NEW i \in Queued(q)'
      PROVE  \/ i \in Queued(q) /\ toServer'[q][i] = toServer[q][i]
             \/ q = p /\ i = Len(toServer[p]) + 1 /\ toServer'[q][i] = h
  <2>1. CASE q # p
    BY <1>1, <2>1 DEF KInv, OnTheWay, Queued
  <2>2. CASE q = p
    <3>1. toServer[p] \in Seq(Messages) /\ toServer'[p] = Append(toServer[p], h)
      BY <1>1 DEF KInv, OnTheWay
    <3>2. /\ Queued(p)' = 1 .. Len(toServer[p]) + 1
          /\ \A j \in 1 .. Len(toServer[p]) : toServer'[p][j] = toServer[p][j]
          /\ toServer'[p][Len(toServer[p]) + 1] = h
      BY <3>1 DEF Queued
    <3> QED
      BY <1>3, <2>2, <3>2
  <2> QED
    BY <2>1, <2>2
<1>5. \A q \in Pages : \A i \in Queued(q) : toServer[q][i].n \in Nat
  <2> TAKE q \in Pages
  <2> TAKE i \in Queued(q)
  <2>1. toServer[q][i] \in Messages
    BY <1>3, ElementOfSeq DEF KInv, OnTheWay
  <2> QED
    BY <2>1 DEF Messages, Numbers
<1>6. \A g \in running : g.n \in Nat
  BY DEF KInv, OnTheWay, Messages, Numbers
<1>7. Numbered'
  <2>1. \A q \in Pages : \A i \in Queued(q)' : toServer'[q][i].n =< sent + 1
    BY <1>2, <1>4, <1>5 DEF OncePerMessage, Numbered
  <2>2. \A g \in running : g.n =< sent + 1
    BY <1>2, <1>6 DEF OncePerMessage, Numbered
  <2>3. ASSUME NEW q \in Pages, NEW r \in Pages, NEW i \in Queued(q)', NEW j \in Queued(r)',
               toServer'[q][i].n = toServer'[r][j].n
        PROVE  q = r /\ i = j
    BY <1>2, <1>4, <1>5, <2>3 DEF OncePerMessage, Numbered
  <2>4. \A g \in running, q \in Pages : \A i \in Queued(q)' : toServer'[q][i].n # g.n
    BY <1>2, <1>4, <1>6 DEF OncePerMessage, Numbered
  <2> QED
    BY <1>1, <2>1, <2>2, <2>3, <2>4 DEF OncePerMessage, Numbered, Queued
<1>8. PICK f : Made(f)
  BY DEF OncePerMessage
<1>9. Made(f)'
  <2>1. f \in [1 .. Len(comments) -> 1 .. sent + 1]
    BY <1>2, <1>8 DEF Made
  <2>2. \A i \in 1 .. Len(comments) : f[i] \in 1 .. sent
    BY <1>8 DEF Made
  <2>3. \A i \in 1 .. Len(comments), q \in Pages : \A j \in Queued(q)' :
            toServer'[q][j].n # f[i]
    BY <1>2, <1>4, <1>8, <2>2 DEF Made
  <2> QED
    BY <1>1, <1>8, <2>1, <2>3 DEF Made, Queued
<1> QED
  BY <1>7, <1>9 DEF OncePerMessage

\* A message that is taken up is not waiting any more; those that wait move up.
LEMMA NumberMoves == ASSUME KInv, OncePerMessage, NEW p \in Pages,
                            UNCHANGED <<comments, sent>>,
                            \/ /\ toServer' = [toServer EXCEPT ![p] = <<>>]
                               /\ running' = running
                            \/ /\ toServer[p] # <<>>
                               /\ toServer' = [toServer EXCEPT ![p] = Tail(@)]
                               /\ \/ running' = running
                                  \/ running' = running \cup {Head(toServer[p])}
                     PROVE  OncePerMessage'
<1>1. \A q \in Pages : /\ toServer[q] \in Seq(Messages)
                       /\ Queued(q) = 1 .. Len(toServer[q]) /\ Len(toServer[q]) \in Nat
  BY DEF KInv, OnTheWay, Queued
<1>2. \A q \in Pages : q # p => toServer'[q] = toServer[q]
  BY DEF KInv, OnTheWay
<1>3. PICK d \in {0, 1} :
         /\ \A i \in Queued(p)' : i \in Nat /\ i + d \in Queued(p)
                                  /\ toServer'[p][i] = toServer[p][i + d]
         /\ d = 0 => running' = running
         /\ d = 1 => /\ 1 \in Queued(p) /\ \A i \in Queued(p)' : i + 1 > 1
                     /\ \/ running' = running
                        \/ running' = running \cup {toServer[p][1]}
  <2>1. CASE /\ toServer' = [toServer EXCEPT ![p] = <<>>]
             /\ running' = running
    <3>1. Queued(p)' = {}
      BY <2>1 DEF KInv, OnTheWay, Queued
    <3> QED
      BY <2>1, <3>1
  <2>2. CASE /\ toServer[p] # <<>>
             /\ toServer' = [toServer EXCEPT ![p] = Tail(@)]
             /\ \/ running' = running
                \/ running' = running \cup {Head(toServer[p])}
    <3>1. toServer'[p] = Tail(toServer[p])
      BY <2>2 DEF KInv, OnTheWay
    <3> DEFINE s == toServer[p]
    <3>2. s \in Seq(Messages) /\ s # <<>> /\ toServer'[p] = Tail(s)
      BY <1>1, <2>2, <3>1
    <3>3. /\ Tail(s) \in Seq(Messages) /\ Len(Tail(s)) = Len(s) - 1 /\ Len(s) > 0
          /\ Head(s) = s[1]
          /\ \A i \in 1 .. Len(s) - 1 : Tail(s)[i] = s[i + 1]
      <4> HIDE DEF s
      <4> QED
        BY <3>2
    <3>4. /\ Queued(p)' = 1 .. Len(s) - 1 /\ Len(s) > 0
          /\ Head(s) = s[1]
          /\ \A i \in 1 .. Len(s) - 1 : toServer'[p][i] = s[i + 1]
      BY <3>2, <3>3 DEF Queued
    <3> QED
      BY <1>1, <2>2, <3>4
  <2> QED
    BY <2>1, <2>2
<1>4. Numbered'
  <2>1. \A q \in Pages : \A i \in Queued(q)' : toServer'[q][i].n =< sent
    BY <1>2, <1>3 DEF OncePerMessage, Numbered, Queued
  <2>2. \A g \in running' : g.n =< sent
    BY <1>3 DEF OncePerMessage, Numbered
  <2>3. ASSUME NEW q \in Pages, NEW r \in Pages, NEW i \in Queued(q)', NEW j \in Queued(r)',
               toServer'[q][i].n = toServer'[r][j].n
        PROVE  q = r /\ i = j
    <3>1. CASE q # p /\ r # p
      BY <1>2, <2>3, <3>1 DEF OncePerMessage, Numbered, Queued
    <3>2. CASE q = p /\ r # p
      BY <1>2, <1>3, <2>3, <3>2 DEF OncePerMessage, Numbered, Queued
    <3>3. CASE q # p /\ r = p
      BY <1>2, <1>3, <2>3, <3>3 DEF OncePerMessage, Numbered, Queued
    <3>4. CASE q = p /\ r = p
      <4>1. i + d = j + d
        BY <1>3, <2>3, <3>4 DEF OncePerMessage, Numbered
      <4> QED
        BY <1>3, <3>4, <4>1
    <3> QED
      BY <3>1, <3>2, <3>3, <3>4
  <2>4. ASSUME NEW g \in running', NEW q \in Pages, NEW i \in Queued(q)'
        PROVE  toServer'[q][i].n # g.n
    <3>1. CASE g \in running
      BY <1>2, <1>3, <3>1 DEF OncePerMessage, Numbered, Queued
    <3>2. CASE g \notin running
      <4>1. d = 1 /\ 1 \in Queued(p) /\ g = toServer[p][1]
        BY <1>3, <3>2
      <4>2. CASE q = p
        BY <1>3, <4>1, <4>2 DEF OncePerMessage, Numbered
      <4>3. CASE q # p
        BY <1>2, <4>1, <4>3 DEF OncePerMessage, Numbered, Queued
      <4> QED
        BY <4>2, <4>3
    <3> QED
      BY <3>1, <3>2
  <2>5. \A g, h \in running' : g.n = h.n => g = h
    BY <1>3 DEF OncePerMessage, Numbered
  <2> QED
    BY <2>1, <2>2, <2>3, <2>4, <2>5 DEF Numbered, Queued
<1>5. PICK f : Made(f)
  BY DEF OncePerMessage
<1>6. Made(f)'
  <2>1. \A i \in 1 .. Len(comments) : \A h \in running' : h.n # f[i]
    BY <1>3, <1>5 DEF Made
  <2>2. \A i \in 1 .. Len(comments), q \in Pages : \A j \in Queued(q)' :
            toServer'[q][j].n # f[i]
    BY <1>2, <1>3, <1>5 DEF Made, Queued
  <2> QED
    BY <1>5, <2>1, <2>2 DEF Made, Queued
<1> QED
  BY <1>4, <1>6 DEF OncePerMessage

\* Every step handles a message at most once.
LEMMA NextOncePerMessage == ASSUME KInv, OncePerMessage, [Next]_vars
                            PROVE  OncePerMessage'
<1>1. ASSUME UNCHANGED <<toServer, sent, running, comments>>
      PROVE  OncePerMessage'
  BY <1>1, NumbersStay
<1>2. ASSUME NEW p \in Pages, PageStep(p)
      PROVE  OncePerMessage'
  <2>1. CASE AddComment(p) \/ \E id \in DOMAIN comments : SaveCommentEdits(p, id)
    BY <2>1, NumberTaken DEF AddComment, SaveCommentEdits
  <2>2. CASE Drop(p)
    BY <2>2, NumberMoves DEF Drop, table, handlers
  <2>3. CASE Open(p) \/ ReadComments(p) \/ ShowComments(p) \/ Receive(p) \/ ClosePage(p)
             \/ Reconnect(p)
    BY <1>1, <2>3 DEF Open, ReadComments, ShowComments, Receive, ClosePage, Reconnect,
                      table, handlers
  <2> QED
    BY <1>2, <2>1, <2>2, <2>3 DEF PageStep
<1>3. ASSUME NEW p \in Pages, Join(p) \/ Reject(p) \/ Start(p)
      PROVE  OncePerMessage'
  <2>1. CASE Join(p) \/ Reject(p)
    BY <1>1, <2>1 DEF Join, Reject, table, handlers
  <2>2. CASE Start(p)
    BY <2>2, NumberMoves DEF Start, table
  <2> QED
    BY <1>3, <2>1, <2>2
<1>4. ASSUME NEW h \in running, RunHandler(h)
      PROVE  OncePerMessage'
  <2>1. running' = running \ {h} /\ UNCHANGED <<toServer, sent>>
    BY <1>4 DEF RunHandler, Store, HandlerFails, StoreUnconfirmed, Failed
  <2>2. Write(h) \/ UNCHANGED comments
    BY <1>4 DEF RunHandler, Store, HandlerFails, StoreUnconfirmed, table
  <2> QED
    BY <2>1, <2>2, NumberUsed, NumbersStay
<1>5. ASSUME NEW s \in stored, Broadcast(s[1], s[2])
      PROVE  OncePerMessage'
  BY <1>1, <1>5 DEF Broadcast, table
<1>6. ASSUME NEW m \in Moderators \cup {None}, Assign(m)
      PROVE  OncePerMessage'
  BY <1>1, <1>6 DEF Assign, table, handlers
<1>7. CASE UNCHANGED vars
  BY <1>1, <1>7 DEF vars, table, handlers
<1> QED
  BY <1>2, <1>3, <1>4, <1>5, <1>6, <1>7 DEF Next, ServerStep

\* No message was sent at the start.
LEMMA InitOncePerMessage == Init => OncePerMessage
<1> SUFFICES ASSUME Init
             PROVE  OncePerMessage
  OBVIOUS
<1>1. Len(comments) = 0 /\ sent = 0 /\ running = {} /\ \A p \in Pages : Queued(p) = {}
  BY DEF Init, Queued
<1>2. Numbered
  BY <1>1 DEF Numbered
<1>3. \E f : f \in [1 .. 0 -> 1 .. 0]
  <2>1. [i \in 1 .. 0 |-> i] \in [1 .. 0 -> 1 .. 0]
    OBVIOUS
  <2> QED
    BY <2>1
<1>4. PICK f : f \in [1 .. 0 -> 1 .. 0]
  BY <1>3
<1>5. 1 .. Len(comments) = {} /\ f \in [1 .. Len(comments) -> 1 .. sent]
  BY <1>1, <1>4
<1>6. Made(f)
  BY <1>5 DEF Made
<1> QED
  BY <1>2, <1>6 DEF OncePerMessage

-----------------------------------------------------------------------------
(* Type correctness.                                                       *)

Counters ==
    /\ assigned_to \in Moderators \cup {None}
    /\ moves \in 0 .. MaxMoves /\ sent \in 0 .. MaxMessages /\ drops \in 0 .. MaxDrops
    /\ nth \in [Pages -> 0 .. MaxDrops]
    /\ unheard \subseteq DOMAIN comments

Carried ==
    /\ toServer \in [Pages -> Seq(Message)]
    /\ running \subseteq Message
    /\ stored \subseteq Message \X Entry

Bounded == DOMAIN comments \subseteq Ids /\ Entries \subseteq Entry

\* Numbers of messages are enough for ids of comments.
LEMMA IdsSuffice == ASSUME KInv, OncePerMessage, Counters
                    PROVE  Bounded
<1>1. /\ Len(comments) \in Nat /\ DOMAIN comments = 1 .. Len(comments)
      /\ Len(comments) =< sent /\ sent =< MaxMessages /\ sent \in Nat
  BY CommentsBounded, LenProperties, Bounds DEF KInv, Table, Counters
<1>2. DOMAIN comments \subseteq Ids
  BY <1>1, Bounds DEF Ids
<1> QED
  BY <1>2 DEF Bounded, Entries, Entry

\* Counters stay within their bounds, and comments are not taken away.
LEMMA NextCounters == ASSUME KInv, Counters, [Next]_vars
                      PROVE  Counters'
<1>1. ASSUME UNCHANGED <<ticket, sent, drops, nth, unheard>>,
             DOMAIN comments \subseteq DOMAIN comments'
      PROVE  Counters'
  BY <1>1 DEF Counters, ticket
<1>2. ASSUME NEW h \in running, Write(h)
      PROVE  DOMAIN comments \subseteq DOMAIN comments' /\ Written(h).id \in DOMAIN comments'
  <2>1. h \in Messages
    BY DEF KInv, OnTheWay
  <2>2. Entries \subseteq Entries' /\ Written(h) \in Entries' /\ Table'
    BY <1>2, <2>1, WriteGrows
  <2>3. Written(h).id \in DOMAIN comments'
    BY <2>2 DEF Entries
  <2>4. \A i \in DOMAIN comments : [id |-> i, text |-> comments[i].text] \in Entries
    <3>1. \A i \in DOMAIN comments : comments[i] \in Row /\ comments[i].text \in texts[i]
      BY ElementOfSeq, LenProperties DEF KInv, Table
    <3> QED
      BY <3>1 DEF Entries, Row
  <2>5. \A i \in DOMAIN comments : [id |-> i, text |-> comments[i].text] \in Entries'
    BY <2>2, <2>4
  <2>6. DOMAIN comments \subseteq DOMAIN comments'
    BY <2>5 DEF Entries
  <2> QED
    BY <2>3, <2>6
<1>3. ASSUME NEW p \in Pages, PageStep(p)
      PROVE  Counters'
  <2>1. CASE AddComment(p) \/ \E id \in DOMAIN comments : SaveCommentEdits(p, id)
    <3>1. \E kind, id : Emit(p, kind, id)
      BY <2>1 DEF AddComment, SaveCommentEdits
    <3>2. sent' = sent + 1 /\ sent < MaxMessages /\ UNCHANGED <<ticket, table, sockets>>
      BY <3>1 DEF Emit
    <3> QED
      BY <3>2, Bounds DEF Counters, ticket, table, sockets
  <2>2. CASE Drop(p)
    BY <2>2, Bounds DEF Drop, Counters, ticket, table
  <2>3. CASE Reconnect(p)
    BY <2>3 DEF Reconnect, Counters, ticket, table
  <2>4. CASE Open(p) \/ ReadComments(p) \/ ShowComments(p) \/ Receive(p) \/ ClosePage(p)
    BY <1>1, <2>4 DEF Open, ReadComments, ShowComments, Receive, ClosePage, table, sockets
  <2> QED
    BY <1>3, <2>1, <2>2, <2>3, <2>4 DEF PageStep
<1>4. ASSUME NEW p \in Pages, Join(p) \/ Reject(p) \/ Start(p)
      PROVE  Counters'
  BY <1>1, <1>4 DEF Join, Reject, Start, table
<1>5. ASSUME NEW h \in running, RunHandler(h)
      PROVE  Counters'
  <2>1. CASE Store(h)
    BY <1>1, <1>2, <2>1 DEF Store, sockets
  <2>2. CASE HandlerFails(h)
    BY <1>1, <2>2 DEF HandlerFails, Failed, table
  <2>3. CASE StoreUnconfirmed(h)
    BY <1>2, <2>3 DEF StoreUnconfirmed, Failed, Counters, ticket
  <2> QED
    BY <1>5, <2>1, <2>2, <2>3 DEF RunHandler
<1>6. ASSUME NEW s \in stored, Broadcast(s[1], s[2])
      PROVE  Counters'
  BY <1>1, <1>6 DEF Broadcast, table, sockets
<1>7. ASSUME NEW m \in Moderators \cup {None}, Assign(m)
      PROVE  Counters'
  BY <1>7, Bounds DEF Assign, Counters, table, sockets
<1>8. CASE UNCHANGED vars
  BY <1>1, <1>8 DEF vars, table, sockets
<1> QED
  BY <1>3, <1>4, <1>5, <1>6, <1>7, <1>8 DEF Next, ServerStep

\* Messages keep within the bounds on their way, and what was stored with them.
LEMMA NextCarried == ASSUME KInv, Counters, Bounded, Bounded', Carried, [Next]_vars
                     PROVE  Carried'
<1>1. ASSUME UNCHANGED <<toServer, running>>, stored' \subseteq stored
      PROVE  Carried'
  BY <1>1 DEF Carried
<1>2. ASSUME NEW p \in Pages, PageStep(p)
      PROVE  Carried'
  <2>1. CASE AddComment(p) \/ \E id \in DOMAIN comments : SaveCommentEdits(p, id)
    <3>1. PICK kind \in {"create", "update"}, id \in Ids \cup {None} : Emit(p, kind, id)
      BY <2>1 DEF AddComment, SaveCommentEdits, Bounded
    <3> DEFINE h == [n |-> sent + 1, page |-> p, nth |-> nth[p], kind |-> kind, id |-> id]
    <3>2. h \in Message
      BY <3>1, Bounds DEF Emit, Counters, Message, Numbers
    <3>3. Append(toServer[p], h) \in Seq(Message)
      <4> HIDE DEF h
      <4> QED
        BY <3>2, AppendProperties DEF Carried
    <3> QED
      BY <3>1, <3>3 DEF Emit, handlers, Carried
  <2>2. CASE Drop(p)
    BY <2>2 DEF Drop, handlers, Carried
  <2>3. CASE Open(p) \/ ReadComments(p) \/ ShowComments(p) \/ Receive(p) \/ ClosePage(p)
             \/ Reconnect(p)
    BY <1>1, <2>3 DEF Open, ReadComments, ShowComments, Receive, ClosePage, Reconnect, handlers
  <2> QED
    BY <1>2, <2>1, <2>2, <2>3 DEF PageStep
<1>3. ASSUME NEW p \in Pages, Join(p) \/ Reject(p) \/ Start(p)
      PROVE  Carried'
  <2>1. CASE Join(p) \/ Reject(p)
    BY <1>1, <2>1 DEF Join, Reject, handlers
  <2>2. CASE Start(p)
    <3>1. Head(toServer[p]) \in Message /\ Tail(toServer[p]) \in Seq(Message)
      BY <2>2, HeadTailProperties DEF Start, Carried
    <3> QED
      BY <2>2, <3>1 DEF Start, Carried
  <2> QED
    BY <1>3, <2>1, <2>2
<1>4. ASSUME NEW h \in running, RunHandler(h)
      PROVE  Carried'
  <2>1. CASE Store(h)
    <3>1. Written(h) \in Entries'
      BY <2>1, WriteGrows DEF Store, KInv, OnTheWay
    <3>2. Written(h) \in Entry
      BY <3>1 DEF Bounded
    <3> QED
      BY <2>1, <3>2 DEF Store, Carried
  <2>2. CASE HandlerFails(h) \/ StoreUnconfirmed(h)
    BY <2>2 DEF HandlerFails, StoreUnconfirmed, Failed, Carried
  <2> QED
    BY <1>4, <2>1, <2>2 DEF RunHandler
<1>5. ASSUME NEW s \in stored, Broadcast(s[1], s[2])
      PROVE  Carried'
  BY <1>1, <1>5 DEF Broadcast
<1>6. ASSUME NEW m \in Moderators \cup {None}, Assign(m)
      PROVE  Carried'
  BY <1>1, <1>6 DEF Assign, handlers
<1>7. CASE UNCHANGED vars
  BY <1>1, <1>7 DEF vars, handlers
<1> QED
  BY <1>2, <1>3, <1>4, <1>5, <1>6, <1>7 DEF Next, ServerStep

\* A handler runs at most once for a message, whatever is lost or fails in between:
\* there are never more comments than messages (review.gateway.ts).
THEOREM AtMostOneComment == Spec => []OncePerMessage
  BY InitOncePerMessage, NextOncePerMessage, Known, PTL DEF Spec

\* Type correctness: ids of comments, texts and sockets stay within what messages
\* and lost connections account for.
THEOREM TypesHold == Spec => []TypeOK
<1>1. Init => Counters /\ Carried
  <2>1. <<>> \in Seq(Message)
    OBVIOUS
  <2> QED
    BY <2>1, Bounds DEF Init, Counters, Carried
<1>2. KInv /\ Counters /\ Bounded /\ Bounded' /\ Carried /\ [Next]_vars => Carried'
  BY NextCarried
<1>3. KInv /\ InRoom /\ Lists /\ Counters /\ Bounded /\ Carried => TypeOK
  <2> SUFFICES ASSUME KInv, InRoom, Lists, Counters, Bounded, Carried
               PROVE  TypeOK
    OBVIOUS
  <2>1. Events \subseteq Event
    BY DEF Bounded, Events, Event
  <2>2. toPage \in [Pages -> Seq(Event)]
    BY <2>1, GrowingSeqs DEF KInv, OnTheWay
  <2>3. answer \in [Pages -> Seq(Entry)] /\ shown \in [Pages -> Seq(Entry)]
    BY GrowingSeqs DEF KInv, OnPages, Bounded
  <2>4. comments \in Seq([by : Moderators \cup {Author}, text : Numbers])
    BY DEF KInv, Table, Row
  <2> QED
    BY <2>2, <2>3, <2>4 DEF TypeOK, KInv, Table, Sockets, InRoom, Lists, Counters, Carried
<1>4. MInv => InRoom /\ Lists
  BY DEF MInv
<1> QED
  BY <1>1, <1>2, <1>3, <1>4, IdsSuffice, NextCounters, AtMostOneComment, Joined, Known, PTL
  DEF Spec

-----------------------------------------------------------------------------
(* The room implements ReviewDiscussion.                                    *)

\* What waits has a number of its own, of a message there was.
LEMMA NumbersTell == ASSUME KInv, Numbered
                     PROVE  /\ \A g, h \in Waits : g.n = h.n => g = h
                            /\ Waits \subseteq Messages
<1>1. \A h \in Waits : \/ h \in running
                       \/ \E p \in Pages : \E i \in Queued(p) : h = toServer[p][i]
  BY DEF Waits, Queued
<1>2. Waits \subseteq Messages
  <2>1. ASSUME NEW p \in Pages, NEW i \in Queued(p)
        PROVE  toServer[p][i] \in Messages
    <3>1. toServer[p] \in Seq(Messages)
      BY DEF KInv, OnTheWay
    <3> QED
      BY <3>1, LenProperties DEF Queued
  <2>2. running \subseteq Messages
    BY DEF KInv, OnTheWay
  <2> QED
    BY <1>1, <2>1, <2>2
<1>3. ASSUME NEW g \in Waits, NEW h \in Waits, g.n = h.n
      PROVE  g = h
  <2>1. CASE g \in running /\ h \in running
    BY <1>3, <2>1 DEF Numbered
  <2>2. CASE g \in running /\ h \notin running
    BY <1>1, <1>3, <2>2 DEF Numbered
  <2>3. CASE g \notin running /\ h \in running
    BY <1>1, <1>3, <2>3 DEF Numbered
  <2>4. CASE g \notin running /\ h \notin running
    BY <1>1, <1>3, <2>4 DEF Numbered
  <2> QED
    BY <2>1, <2>2, <2>3, <2>4
<1> QED
  BY <1>2, <1>3

\* What neither sends, takes up, writes nor shows.
LEMMA DiscussionRests ==
    ASSUME UNCHANGED <<assigned_to, sent, toServer, running, comments, texts, shown>>
    PROVE  UNCHANGED Discussion!vars
<1>1. awaited' = awaited /\ views' = views
  BY DEF awaited, views, Waits
<1> QED
  BY <1>1 DEF Discussion!vars

\* Messages are taken up, or lost.
LEMMA MessagesLost ==
    ASSUME UNCHANGED <<assigned_to, sent, comments, texts, shown>>, Waits' \subseteq Waits
    PROVE  Discussion!Lose
<1>1. awaited' \subseteq awaited /\ views' = views
  BY DEF awaited, views
<1> QED
  BY <1>1 DEF Discussion!Lose

\* A page shows something else.
LEMMA PageSees ==
    ASSUME KInv, KInv', NEW p \in Pages, NEW s, shown' = [shown EXCEPT ![p] = s],
           UNCHANGED <<assigned_to, sent, toServer, running, comments, texts>>
    PROVE  Discussion!See(p)
<1>1. awaited' = awaited
  BY DEF awaited, Waits
<1>2. views' = [views EXCEPT ![p] = views'[p]]
  <2>1. \A q \in Pages : q # p => shown'[q] = shown[q]
    BY DEF KInv, OnPages
  <2>2. \A q \in Pages : q # p => views'[q] = views[q]
    BY <2>1 DEF views
  <2>3. views = [q \in Pages |-> views[q]] /\ views' = [q \in Pages |-> views'[q]]
    BY DEF views
  <2> QED
    BY <2>2, <2>3
<1>3. ASSUME NEW i \in DOMAIN shown'[p]
      PROVE  <<shown'[p][i].id, shown'[p][i].text>> \in Discussion!Versions
  <2>1. shown'[p] \in Seq(Entries')
    BY DEF KInv, OnPages
  <2>2. shown'[p][i] \in Entries'
    BY <2>1, LenProperties
  <2>3. shown'[p][i].id \in DOMAIN comments /\ shown'[p][i].text \in texts[shown'[p][i].id]
    BY <2>2 DEF Entries
  <2> QED
    BY <2>3 DEF Discussion!Versions
<1>4. views'[p] \subseteq Discussion!Versions
  BY <1>3 DEF views
<1> QED
  BY <1>1, <1>2, <1>4 DEF Discussion!See

\* A page sends a message.
LEMMA PageSends ==
    ASSUME KInv, NEW p \in Pages, NEW kind, NEW id, Emit(p, kind, id)
    PROVE  \E n \in Numbers, a \in Discussion!Accounts : Discussion!Send(n, a)
<1> DEFINE h == [n |-> sent + 1, page |-> p, nth |-> nth[p], kind |-> kind, id |-> id]
<1>1. /\ sent \in Nat /\ sent < MaxMessages /\ sent' = sent + 1
      /\ toServer' = [toServer EXCEPT ![p] = Append(@, h)]
      /\ UNCHANGED <<assigned_to, comments, texts, running, shown>>
  BY DEF Emit, ticket, table, handlers, page, KInv, Sockets
<1>2. sent + 1 \in Numbers /\ sent + 1 \notin 1 .. sent
      /\ 1 .. sent' = 1 .. sent \cup {sent + 1}
  BY <1>1, Bounds DEF Numbers
<1>3. Owner[p] \in Discussion!Accounts
  BY OwnersAreAccounts DEF Discussion!Accounts
<1>4. h.n = sent + 1 /\ h.page = p
  OBVIOUS
<1> HIDE DEF h
<1>5. \A q \in Pages : {toServer'[q][i] : i \in DOMAIN toServer'[q]}
                         = {toServer[q][i] : i \in DOMAIN toServer[q]}
                             \cup (IF q = p THEN {h} ELSE {})
  <2> TAKE q \in Pages
  <2>1. toServer \in [Pages -> Seq(Messages)]
    BY DEF KInv, OnTheWay
  <2>2. CASE q # p
    BY <1>1, <2>1, <2>2
  <2>3. CASE q = p
    <3>1. toServer[p] \in Seq(Messages \cup {h}) /\ h \in Messages \cup {h}
      BY <2>1
    <3>2. PICK s : s = toServer[p]
      OBVIOUS
    <3>3. PICK t : t = Append(s, h)
      OBVIOUS
    <3>4. toServer'[p] = t
      BY <1>1, <2>1, <3>2, <3>3
    <3>5. /\ t \in Seq(Messages \cup {h}) /\ Len(t) = Len(s) + 1
          /\ \A i \in 1 .. Len(s) : t[i] = s[i]
          /\ t[Len(s) + 1] = h
      BY <3>1, <3>2, <3>3, AppendProperties
    <3>6. DOMAIN s = 1 .. Len(s) /\ Len(s) \in Nat /\ DOMAIN t = 1 .. Len(t)
      BY <3>1, <3>2, <3>5, LenProperties
    <3>7. DOMAIN t = DOMAIN s \cup {Len(s) + 1}
      BY <3>5, <3>6
    <3>8. {t[i] : i \in DOMAIN t} = {s[i] : i \in DOMAIN s} \cup {h}
      BY <3>5, <3>6, <3>7
    <3> QED
      BY <2>3, <3>2, <3>4, <3>8
  <2> QED
    BY <2>2, <2>3
<1>6. Waits' = Waits \cup {h}
  BY <1>1, <1>5 DEF Waits
<1>7. awaited' = awaited \cup {<<sent + 1, Owner[p]>>} /\ views' = views
  BY <1>1, <1>4, <1>6 DEF awaited, views
<1>8. Discussion!Send(sent + 1, Owner[p])
  BY <1>1, <1>2, <1>7 DEF Discussion!Send
<1> QED
  BY <1>2, <1>3, <1>8

\* A statement writes what its message says.
LEMMA MessageWritten ==
    ASSUME KInv, Numbered, NEW h \in running, Write(h), running' = running \ {h},
           UNCHANGED <<assigned_to, sent, toServer, shown>>
    PROVE  \E n \in Numbers, a \in Discussion!Accounts :
              Discussion!Post(n, a) \/ \E i \in DOMAIN comments : Discussion!Edit(n, a, i)
<1>1. h \in Messages /\ h \in Waits /\ h.n \in Numbers /\ h.page \in Pages
      /\ (h.kind = "update" => h.id \in DOMAIN comments)
  BY DEF KInv, OnTheWay, Messages, Waits
<1> DEFINE a == Owner[h.page]
<1>2. a \in Discussion!Accounts
  BY <1>1, OwnersAreAccounts DEF Discussion!Accounts
<1>3. Waits' = Waits \ {h}
  <2>1. \A p \in Pages : \A i \in DOMAIN toServer[p] : toServer[p][i] # h
    BY DEF Numbered, Queued
  <2> QED
    BY <2>1 DEF Waits
<1>4. awaited' = awaited \ {<<h.n, a>>} /\ <<h.n, a>> \in awaited
  <2>1. \A g \in Waits : g.n = h.n => g = h
    BY <1>1, NumbersTell
  <2>2. <<h.n, a>> \in awaited
    BY <1>1 DEF awaited
  <2>3. ASSUME NEW x \in awaited, x # <<h.n, a>>
        PROVE  x \in awaited'
    BY <1>3, <2>3 DEF awaited
  <2>4. ASSUME NEW x \in awaited'
        PROVE  x \in awaited /\ x # <<h.n, a>>
    <3>1. PICK g \in Waits : g # h /\ x = <<g.n, Owner[g.page]>>
      BY <1>3, <2>4 DEF awaited
    <3> QED
      BY <2>1, <3>1 DEF awaited
  <2> QED
    BY <2>2, <2>3, <2>4
<1>5. views' = views
  BY DEF views
<1>6. Discussion!CarryOut(h.n, a)
  BY <1>4, <1>5 DEF Discussion!CarryOut
<1>7. CASE InsertComment(h)
  <2>1. Discussion!Post(h.n, a)
    BY <1>6, <1>7 DEF InsertComment, Participants, Discussion!Post
  <2> QED
    BY <1>1, <1>2, <2>1
<1>8. CASE UpdateComment(h)
  <2>1. h.id \in DOMAIN comments
    BY <1>1, <1>8 DEF UpdateComment
  <2>2. Discussion!Edit(h.n, a, h.id)
    BY <1>6, <1>8 DEF UpdateComment, Discussion!Edit
  <2> QED
    BY <1>1, <1>2, <2>1, <2>2
<1> QED
  BY <1>7, <1>8 DEF Write

\* Every step of the room is one of the discussion, or none.
LEMMA NextDiscussed ==
    ASSUME KInv, KInv', Numbered, [Next]_vars
    PROVE  [Discussion!Next]_(Discussion!vars)
<1> USE DEF ticket, table, handlers, page
<1>1. ASSUME NEW p \in Pages, PageStep(p)
      PROVE  [Discussion!Next]_(Discussion!vars)
  <2>1. CASE Open(p) \/ ReadComments(p) \/ Reconnect(p)
    BY <2>1, DiscussionRests DEF Open, ReadComments, Reconnect
  <2>2. CASE ShowComments(p)
    BY <2>2, PageSees DEF ShowComments, Discussion!Next
  <2>3. CASE AddComment(p) \/ \E id \in DOMAIN comments : SaveCommentEdits(p, id)
    BY <2>3, PageSends DEF AddComment, SaveCommentEdits, Discussion!Next
  <2>4. CASE Receive(p)
    <3>1. \E s : shown' = [shown EXCEPT ![p] = s]
      BY <2>4 DEF Receive, Closed
    <3>2. UNCHANGED <<assigned_to, sent, toServer, running, comments, texts>>
      BY <2>4 DEF Receive
    <3> QED
      BY <3>1, <3>2, PageSees DEF Discussion!Next
  <2>5. CASE ClosePage(p)
    BY <2>5, PageSees DEF ClosePage, Closed, Discussion!Next
  <2>6. CASE Drop(p)
    <3>1. toServer' = [toServer EXCEPT ![p] = <<>>] /\ running' = running
          /\ UNCHANGED <<assigned_to, sent, comments, texts, shown>>
      BY <2>6 DEF Drop
    <3>2. Waits' \subseteq Waits
      BY <3>1 DEF Waits, KInv, OnTheWay
    <3> QED
      BY <3>1, <3>2, MessagesLost DEF Discussion!Next
  <2> QED
    BY <1>1, <2>1, <2>2, <2>3, <2>4, <2>5, <2>6 DEF PageStep
<1>2. ASSUME NEW p \in Pages, Join(p) \/ Reject(p) \/ Start(p)
      PROVE  [Discussion!Next]_(Discussion!vars)
  <2>1. CASE Join(p)
    BY <2>1, DiscussionRests DEF Join
  <2>2. CASE Reject(p)
    BY <2>2, PageSees DEF Reject, Closed, Discussion!Next
  <2>3. CASE Start(p)
    <3>1. /\ toServer[p] # <<>> /\ toServer' = [toServer EXCEPT ![p] = Tail(@)]
          /\ running' \subseteq running \cup {Head(toServer[p])}
          /\ UNCHANGED <<assigned_to, sent, comments, texts, shown>>
      BY <2>3 DEF Start
    <3>2. toServer \in [Pages -> Seq(Messages)]
      BY DEF KInv, OnTheWay
    <3>3. PICK s \in Seq(Messages) : s = toServer[p]
      BY <3>2
    <3>4. /\ DOMAIN s = 1 .. Len(s) /\ Len(s) \in Nat /\ Len(s) # 0
          /\ DOMAIN Tail(s) = 1 .. Len(s) - 1
          /\ \A i \in 1 .. Len(s) - 1 : Tail(s)[i] = s[i + 1]
          /\ Head(s) = s[1]
      <4>1. s # <<>> /\ Tail(s) \in Seq(Messages) /\ Len(Tail(s)) = Len(s) - 1
            /\ \A i \in 1 .. Len(Tail(s)) : Tail(s)[i] = s[i + 1]
        BY <3>1, <3>3, HeadTailProperties
      <4>2. DOMAIN s = 1 .. Len(s) /\ Len(s) \in Nat /\ DOMAIN Tail(s) = 1 .. Len(Tail(s))
        BY <4>1, LenProperties
      <4>3. Len(s) # 0 /\ Head(s) = s[1]
        BY <4>1, EmptySeq
      <4> QED
        BY <4>1, <4>2, <4>3
    <3>5. Head(s) \in Waits
      BY <3>3, <3>4 DEF Waits
    <3>6. \A i \in DOMAIN Tail(s) : Tail(s)[i] \in Waits
      <4> TAKE i \in DOMAIN Tail(s)
      <4>1. i + 1 \in DOMAIN s /\ Tail(s)[i] = s[i + 1]
        BY <3>4
      <4> QED
        BY <3>3, <4>1 DEF Waits
    <3>7. \A q \in Pages : \A i \in DOMAIN toServer'[q] : toServer'[q][i] \in Waits
      <4> TAKE q \in Pages
      <4>1. CASE q = p
        BY <3>1, <3>2, <3>3, <3>6, <4>1
      <4>2. CASE q # p
        BY <3>1, <3>2, <4>2 DEF Waits
      <4> QED
        BY <4>1, <4>2
    <3>8. \A g \in running' : g \in Waits
      BY <3>1, <3>3, <3>5 DEF Waits
    <3>9. Waits' \subseteq Waits
      BY <3>7, <3>8 DEF Waits
    <3> QED
      BY <3>1, <3>9, MessagesLost DEF Discussion!Next
  <2> QED
    BY <1>2, <2>1, <2>2, <2>3
<1>3. ASSUME NEW h \in running, RunHandler(h)
      PROVE  [Discussion!Next]_(Discussion!vars)
  <2>1. running' = running \ {h} /\ UNCHANGED <<assigned_to, sent, toServer, shown>>
    BY <1>3 DEF RunHandler, Store, HandlerFails, StoreUnconfirmed, Failed
  <2>2. CASE Write(h)
    BY <2>1, <2>2, MessageWritten DEF Discussion!Next
  <2>3. CASE UNCHANGED <<comments, texts>>
    <3>1. Waits' \subseteq Waits
      BY <2>1 DEF Waits
    <3> QED
      BY <2>1, <2>3, <3>1, MessagesLost DEF Discussion!Next
  <2> QED
    BY <1>3, <2>2, <2>3 DEF RunHandler, Store, HandlerFails, StoreUnconfirmed
<1>4. ASSUME NEW s \in stored, Broadcast(s[1], s[2])
      PROVE  [Discussion!Next]_(Discussion!vars)
  BY <1>4, DiscussionRests DEF Broadcast
<1>5. ASSUME NEW m \in Moderators \cup {None}, Assign(m)
      PROVE  [Discussion!Next]_(Discussion!vars)
  <2>1. awaited' = awaited /\ views' = views
    BY <1>5 DEF Assign, awaited, views, Waits
  <2>2. Discussion!Assign
    BY <1>5, <2>1 DEF Assign, Discussion!Assign
  <2> QED
    BY <2>2 DEF Discussion!Next
<1>6. CASE UNCHANGED vars
  BY <1>6, DiscussionRests DEF vars
<1> QED
  BY <1>1, <1>2, <1>3, <1>4, <1>5, <1>6 DEF Next, ServerStep

\* The room implements ReviewDiscussion: a message has one effect at most, that which
\* its sender may have, and what pages show was in the table (review.gateway.ts,
\* comment.service.ts).
THEOREM KeepsDiscussion == Spec => Discussed
<1>1. Init => Discussion!Init
  <2> SUFFICES ASSUME Init PROVE Discussion!Init
    OBVIOUS
  <2>1. sent = 0 /\ running = {} /\ \A p \in Pages : toServer[p] = <<>> /\ shown[p] = <<>>
    BY DEF Init
  <2>2. Waits = {}
    BY <2>1 DEF Waits
  <2>3. awaited = {}
    BY <2>2 DEF awaited
  <2>4. views = [p \in Pages |-> {}]
    BY <2>1 DEF views
  <2>5. 1 .. sent = {}
    BY <2>1
  <2> QED
    BY <2>3, <2>4, <2>5 DEF Init, Discussion!Init
<1>2. OncePerMessage => Numbered
  BY DEF OncePerMessage
<1>3. KInv /\ KInv' /\ OncePerMessage /\ [Next]_vars => [Discussion!Next]_(Discussion!vars)
  BY <1>2, NextDiscussed
<1> QED
  BY <1>1, <1>3, Known, AtMostOneComment, PTL DEF Spec, Discussed, Discussion!Spec

-----------------------------------------------------------------------------
(* What follows from it.                                                    *)

\* A text is of one comment, and of a message that waits no more.
OneEffect ==
    /\ \A i \in DOMAIN texts : texts[i] \subseteq 1 .. sent
    /\ \A i, j \in DOMAIN texts : i # j => texts[i] \cap texts[j] = {}
    /\ \A x \in awaited, i \in DOMAIN texts : x[1] \notin texts[i]

\* Who waits, waits with a number that was used, and no other waits with it.
LEMMA AwaitedOnce ==
    ASSUME KInv, Numbered
    PROVE  /\ \A x \in awaited : x[1] \in 1 .. sent
           /\ \A x, y \in awaited : x[1] = y[1] => x = y
<1>1. \A g, h \in Waits : g.n = h.n => g = h
  BY NumbersTell
<1>2. ASSUME NEW h \in Waits
      PROVE  h.n \in 1 .. sent
  <2>1. h.n \in Nat /\ 1 =< h.n /\ sent \in Nat
    BY NumbersTell, Bounds DEF Messages, Numbers, KInv, Sockets
  <2>2. h.n =< sent
    BY DEF Numbered, Waits, Queued
  <2> QED
    BY <2>1, <2>2
<1> QED
  BY <1>1, <1>2 DEF awaited

\* A message that waits has had no effect, and has one when it is carried out.
LEMMA NextOneEffect ==
    ASSUME KInv, Numbered, OneEffect, [Discussion!Next]_(Discussion!vars)
    PROVE  OneEffect'
<1>1. /\ \A x \in awaited : x[1] \in 1 .. sent
      /\ \A x, y \in awaited : x[1] = y[1] => x = y
  BY AwaitedOnce
<1>2. /\ texts \in Seq(SUBSET Numbers) /\ Len(texts) = Len(comments)
      /\ DOMAIN texts = 1 .. Len(texts) /\ DOMAIN comments = DOMAIN texts
      /\ Len(texts) \in Nat /\ sent \in Nat
  BY LenProperties DEF KInv, Table, Sockets
<1>3. CASE /\ awaited' \subseteq awaited /\ UNCHANGED texts
           /\ 1 .. sent' = 1 .. sent
  <2> USE <1>3
  <2>1. \A i \in DOMAIN texts' : texts'[i] \subseteq 1 .. sent'
    BY DEF OneEffect
  <2>2. \A x \in awaited', i \in DOMAIN texts' : x[1] \notin texts'[i]
    BY DEF OneEffect
  <2>3. \A i, j \in DOMAIN texts' : i # j => texts'[i] \cap texts'[j] = {}
    BY DEF OneEffect
  <2> QED
    BY <2>1, <2>2, <2>3 DEF OneEffect
<1>4. ASSUME NEW n \in Numbers, NEW a, Discussion!Send(n, a)
      PROVE  OneEffect'
  <2>1. /\ n \notin 1 .. sent /\ 1 .. sent' = 1 .. sent \cup {n}
        /\ awaited' = awaited \cup {<<n, a>>} /\ UNCHANGED texts
    BY <1>4 DEF Discussion!Send
  <2>2. \A i \in DOMAIN texts' : texts'[i] \subseteq 1 .. sent'
    BY <2>1 DEF OneEffect
  <2>3. ASSUME NEW x \in awaited', NEW i \in DOMAIN texts'
        PROVE  x[1] \notin texts'[i]
    <3>1. CASE x = <<n, a>>
      BY <2>1, <3>1 DEF OneEffect
    <3>2. CASE x \in awaited
      BY <2>1, <3>2 DEF OneEffect
    <3> QED
      BY <2>1, <3>1, <3>2
  <2>4. \A i, j \in DOMAIN texts' : i # j => texts'[i] \cap texts'[j] = {}
    BY <2>1 DEF OneEffect
  <2> QED
    BY <2>2, <2>3, <2>4 DEF OneEffect
<1>5. ASSUME NEW n \in Numbers, NEW a, Discussion!CarryOut(n, a),
             NEW k \in DOMAIN texts', DOMAIN texts \subseteq DOMAIN texts',
             texts'[k] = IF k \in DOMAIN texts THEN texts[k] \cup {n} ELSE {n},
             \A i \in DOMAIN texts' : i # k => i \in DOMAIN texts /\ texts'[i] = texts[i]
      PROVE  OneEffect'
  <2>1. /\ <<n, a>> \in awaited /\ awaited' = awaited \ {<<n, a>>}
        /\ 1 .. sent' = 1 .. sent
    BY <1>5 DEF Discussion!CarryOut
  <2>2. n \in 1 .. sent /\ \A i \in DOMAIN texts : n \notin texts[i]
    BY <1>1, <2>1 DEF OneEffect
  <2>3. \A x \in awaited' : x \in awaited /\ x[1] # n
    BY <1>1, <2>1
  <2>4. \A i \in DOMAIN texts' : texts'[i] \subseteq 1 .. sent'
    BY <1>5, <2>1, <2>2 DEF OneEffect
  <2>5. \A x \in awaited', i \in DOMAIN texts' : x[1] \notin texts'[i]
    BY <1>5, <2>3 DEF OneEffect
  <2>6. ASSUME NEW i \in DOMAIN texts', NEW j \in DOMAIN texts', i # j
        PROVE  texts'[i] \cap texts'[j] = {}
    <3>1. CASE i # k /\ j # k
      BY <1>5, <2>6, <3>1 DEF OneEffect
    <3>2. CASE i = k
      BY <1>5, <2>2, <2>6, <3>2 DEF OneEffect
    <3>3. CASE j = k
      BY <1>5, <2>2, <2>6, <3>3 DEF OneEffect
    <3> QED
      BY <3>1, <3>2, <3>3
  <2> QED
    BY <2>4, <2>5, <2>6 DEF OneEffect
<1>6. ASSUME NEW n \in Numbers, NEW a, Discussion!Post(n, a)
      PROVE  OneEffect'
  <2>1. Discussion!CarryOut(n, a) /\ texts' = Append(texts, {n})
    BY <1>6 DEF Discussion!Post
  <2>2. {n} \in SUBSET Numbers
    OBVIOUS
  <2>3. /\ texts' \in Seq(SUBSET Numbers) /\ Len(texts') = Len(texts) + 1
        /\ \A i \in 1 .. Len(texts) : texts'[i] = texts[i]
        /\ texts'[Len(texts) + 1] = {n}
    BY <1>2, <2>1, <2>2, AppendProperties
  <2>4. DOMAIN texts' = 1 .. Len(texts) + 1
    BY <2>3, LenProperties
  <2>5. /\ Len(texts) + 1 \in DOMAIN texts' /\ Len(texts) + 1 \notin DOMAIN texts
        /\ DOMAIN texts \subseteq DOMAIN texts'
        /\ \A i \in DOMAIN texts' : i # Len(texts) + 1 => i \in DOMAIN texts
    BY <1>2, <2>4
  <2> QED
    BY <1>2, <1>5, <2>1, <2>3, <2>5
<1>7. ASSUME NEW n \in Numbers, NEW a, NEW i \in DOMAIN comments, Discussion!Edit(n, a, i)
      PROVE  OneEffect'
  <2>1. Discussion!CarryOut(n, a) /\ texts' = [texts EXCEPT ![i] = @ \cup {n}]
    BY <1>7 DEF Discussion!Edit
  <2>2. /\ DOMAIN texts' = DOMAIN texts /\ i \in DOMAIN texts
        /\ texts'[i] = texts[i] \cup {n}
        /\ \A j \in DOMAIN texts : j # i => texts'[j] = texts[j]
    BY <1>2, <2>1
  <2> QED
    BY <1>5, <2>1, <2>2
<1>8. CASE Discussion!Assign \/ Discussion!Lose \/ (\E r \in Pages : Discussion!See(r))
           \/ UNCHANGED Discussion!vars
  <2>1. awaited' \subseteq awaited /\ UNCHANGED texts /\ 1 .. sent' = 1 .. sent
    BY <1>8 DEF Discussion!Assign, Discussion!Lose, Discussion!See, Discussion!vars
  <2> QED
    BY <1>3, <2>1
<1> QED
  BY <1>4, <1>6, <1>7, <1>8 DEF Discussion!Next

\* No message has two effects, however handlers interleave and whatever is lost: the
\* text it carries is of one comment only, and it waits no longer.
THEOREM EffectsAreSingle == Spec => []OneEffect
<1>1. Init => OneEffect
  BY DEF Init, OneEffect
<1>2. KInv /\ KInv' /\ OncePerMessage /\ OneEffect /\ [Next]_vars => OneEffect'
  BY NextDiscussed, NextOneEffect DEF OncePerMessage
<1> QED
  BY <1>1, <1>2, Known, AtMostOneComment, PTL DEF Spec

\* A comment stays and stays its author's; its text changes only to that of a message
\* of its author's that waited to be carried out.
CommentsStay ==
    [][\A i \in DOMAIN comments :
          /\ i \in DOMAIN comments' /\ comments'[i].by = comments[i].by
          /\ texts[i] \subseteq texts'[i]
          /\ comments'[i].text # comments[i].text =>
                 <<comments'[i].text, comments[i].by>> \in awaited]_vars

\* Comments are neither deleted nor taken over, and nobody's text is changed but by
\* its author, whatever socket the message came from.
THEOREM CommentsRemain == Spec => CommentsStay
<1> DEFINE Stays == \A i \in DOMAIN comments :
                       /\ i \in DOMAIN comments' /\ comments'[i].by = comments[i].by
                       /\ texts[i] \subseteq texts'[i]
                       /\ comments'[i].text # comments[i].text =>
                              <<comments'[i].text, comments[i].by>> \in awaited
<1>1. ASSUME KInv, [Discussion!Next]_(Discussion!vars)
      PROVE  Stays
  <2>1. /\ comments \in Seq(Row) /\ texts \in Seq(SUBSET Numbers)
        /\ DOMAIN comments = DOMAIN texts /\ DOMAIN texts = 1 .. Len(texts)
        /\ DOMAIN comments = 1 .. Len(comments)
        /\ Len(comments) \in Nat
    BY <1>1, LenProperties DEF KInv, Table
  <2>2. CASE UNCHANGED <<comments, texts>>
    BY <2>2
  <2>3. ASSUME NEW n \in Numbers, NEW a \in Discussion!Accounts, Discussion!Post(n, a)
        PROVE  Stays
    <3>1. /\ comments' = Append(comments, [by |-> a, text |-> n])
          /\ texts' = Append(texts, {n})
      BY <2>3 DEF Discussion!Post
    <3>2. [by |-> a, text |-> n] \in Row
      BY DEF Row, Discussion!Accounts
    <3>3. /\ comments' \in Seq(Row) /\ Len(comments') = Len(comments) + 1
          /\ \A i \in 1 .. Len(comments) : comments'[i] = comments[i]
      BY <2>1, <3>1, <3>2, AppendProperties
    <3>4. \A i \in 1 .. Len(texts) : texts'[i] = texts[i]
      BY <2>1, <3>1, AppendProperties
    <3>5. DOMAIN comments' = 1 .. Len(comments) + 1
      BY <3>3, LenProperties
    <3> QED
      BY <2>1, <3>3, <3>4, <3>5
  <2>4. ASSUME NEW n \in Numbers, NEW a, NEW k \in DOMAIN comments, Discussion!Edit(n, a, k)
        PROVE  Stays
    <3>1. /\ comments' = [comments EXCEPT ![k].text = n]
          /\ texts' = [texts EXCEPT ![k] = @ \cup {n}]
          /\ comments[k].by = a /\ <<n, a>> \in awaited
      BY <2>4 DEF Discussion!Edit, Discussion!CarryOut
    <3>2. comments[k] \in Row
      BY <2>1
    <3>3. /\ comments'[k].by = comments[k].by /\ comments'[k].text = n
          /\ texts'[k] = texts[k] \cup {n}
      BY <2>1, <3>1, <3>2 DEF Row
    <3>4. /\ DOMAIN comments' = DOMAIN comments
          /\ \A i \in DOMAIN comments : i # k => comments'[i] = comments[i]
          /\ \A i \in DOMAIN texts : i # k => texts'[i] = texts[i]
      BY <2>1, <3>1
    <3>5. ASSUME NEW i \in DOMAIN comments
          PROVE  /\ i \in DOMAIN comments' /\ comments'[i].by = comments[i].by
                 /\ texts[i] \subseteq texts'[i]
                 /\ comments'[i].text # comments[i].text =>
                        <<comments'[i].text, comments[i].by>> \in awaited
      <4>1. CASE i = k
        BY <3>1, <3>3, <3>4, <4>1
      <4>2. CASE i # k
        BY <2>1, <3>4, <4>2
      <4> QED
        BY <4>1, <4>2
    <3> QED
      BY <3>5
  <2>5. ASSUME NEW n, NEW a, Discussion!Send(n, a)
        PROVE  UNCHANGED <<comments, texts>>
    BY <2>5 DEF Discussion!Send
  <2>6. ASSUME Discussion!Assign \/ Discussion!Lose \/ (\E r \in Pages : Discussion!See(r))
               \/ UNCHANGED Discussion!vars
        PROVE  UNCHANGED <<comments, texts>>
    BY <2>6 DEF Discussion!Assign, Discussion!Lose, Discussion!See, Discussion!vars
  <2> HIDE DEF Stays
  <2> QED
    BY <1>1, <2>2, <2>3, <2>4, <2>5, <2>6 DEF Discussion!Next
<1>2. KInv /\ KInv' /\ OncePerMessage /\ [Next]_vars => [Stays]_vars
  BY <1>1, NextDiscussed DEF OncePerMessage
<1>3. Spec => [][Stays]_vars
  BY <1>2, Known, AtMostOneComment, PTL DEF Spec
<1> QED
  BY <1>3 DEF CommentsStay

-----------------------------------------------------------------------------
(* Every message is answered, or its socket is gone.                        *)

QueueOf(p) == {toServer[p][i] : i \in DOMAIN toServer[p]}

\* A message in a page's queue is that page's, and what was stored is its text.
Own ==
    /\ \A p \in Pages : \A h \in QueueOf(p) : h.page = p
    /\ \A s \in stored : s[2].text = s[1].n

\* What is in hand waits for its start, for its statement, or for what follows it.
LEMMA InHandIs == /\ Waits = running \cup UNION {QueueOf(p) : p \in Pages}
                  /\ InHand = running \cup {s[1] : s \in stored}
                                \cup UNION {QueueOf(p) : p \in Pages}
BY DEF InHand, Waits, QueueOf

\* A message is added to its queue, or its first is taken.
LEMMA QueueSteps ==
    ASSUME KInv, NEW p \in Pages
    PROVE  /\ \A h : toServer' = [toServer EXCEPT ![p] = Append(@, h)] =>
                  /\ QueueOf(p)' = QueueOf(p) \cup {h}
                  /\ \A q \in Pages \ {p} : QueueOf(q)' = QueueOf(q)
           /\ toServer[p] # <<>> /\ toServer' = [toServer EXCEPT ![p] = Tail(@)] =>
                  /\ QueueOf(p) = QueueOf(p)' \cup {Head(toServer[p])}
                  /\ \A q \in Pages \ {p} : QueueOf(q)' = QueueOf(q)
<1>1. PICK s \in Seq(Messages) : s = toServer[p]
  BY DEF KInv, OnTheWay
<1>2. DOMAIN s = 1 .. Len(s) /\ Len(s) \in Nat
  BY LenProperties
<1>3. ASSUME NEW h, toServer' = [toServer EXCEPT ![p] = Append(@, h)]
      PROVE  /\ QueueOf(p)' = QueueOf(p) \cup {h}
             /\ \A q \in Pages \ {p} : QueueOf(q)' = QueueOf(q)
  <2>1. toServer'[p] = Append(s, h) /\ \A q \in Pages \ {p} : toServer'[q] = toServer[q]
    BY <1>1, <1>3 DEF KInv, OnTheWay
  <2>2. /\ DOMAIN Append(s, h) = 1 .. Len(s) + 1
        /\ \A i \in 1 .. Len(s) : Append(s, h)[i] = s[i]
        /\ Append(s, h)[Len(s) + 1] = h
    BY <1>2
  <2>3. ASSUME NEW g
        PROVE  g \in QueueOf(p)' <=> g \in QueueOf(p) \cup {h}
    BY <1>1, <1>2, <2>1, <2>2 DEF QueueOf
  <2> QED
    BY <2>1, <2>3 DEF QueueOf
<1>4. ASSUME toServer[p] # <<>>, toServer' = [toServer EXCEPT ![p] = Tail(@)]
      PROVE  /\ QueueOf(p) = QueueOf(p)' \cup {Head(toServer[p])}
             /\ \A q \in Pages \ {p} : QueueOf(q)' = QueueOf(q)
  <2>1. toServer'[p] = Tail(s) /\ \A q \in Pages \ {p} : toServer'[q] = toServer[q]
    BY <1>1, <1>4 DEF KInv, OnTheWay
  <2>2. /\ Tail(s) \in Seq(Messages) /\ Len(Tail(s)) = Len(s) - 1
        /\ \A i \in 1 .. Len(Tail(s)) : Tail(s)[i] = s[i + 1]
    BY <1>1, <1>4, HeadTailProperties
  <2>3. DOMAIN Tail(s) = 1 .. Len(s) - 1 /\ Len(s) # 0 /\ Head(s) = s[1]
    BY <1>1, <1>2, <1>4, <2>2, EmptySeq, LenProperties
  <2>4. ASSUME NEW g
        PROVE  g \in QueueOf(p) <=> g \in QueueOf(p)' \/ g = Head(s)
    <3>1. ASSUME NEW i \in DOMAIN s
          PROVE  \/ s[i] = Head(s)
                 \/ \E j \in DOMAIN Tail(s) : s[i] = Tail(s)[j]
      <4>1. CASE i = 1
        BY <2>3, <4>1
      <4>2. CASE i # 1
        <5>1. i - 1 \in DOMAIN Tail(s) /\ Tail(s)[i - 1] = s[i]
          BY <1>2, <2>2, <2>3, <4>2
        <5> QED
          BY <5>1
      <4> QED
        BY <4>1, <4>2
    <3>2. ASSUME NEW j \in DOMAIN Tail(s)
          PROVE  \E i \in DOMAIN s : Tail(s)[j] = s[i]
      <4>1. j + 1 \in DOMAIN s /\ Tail(s)[j] = s[j + 1]
        BY <1>2, <2>2, <2>3
      <4> QED
        BY <4>1
    <3>3. 1 \in DOMAIN s /\ Head(s) = s[1]
      BY <1>2, <2>3
    <3> QED
      BY <1>1, <2>1, <3>1, <3>2, <3>3 DEF QueueOf
  <2> QED
    BY <1>1, <2>1, <2>4 DEF QueueOf
<1> QED
  BY <1>3, <1>4

\* Messages keep to their queues, and what is stored to its message.
LEMMA NextOwn == ASSUME KInv, Own, [Next]_vars
                 PROVE  Own'
<1> USE DEF handlers
<1>1. ASSUME \A q \in Pages : QueueOf(q)' \subseteq QueueOf(q), stored' \subseteq stored
      PROVE  Own'
  BY <1>1 DEF Own
<1>2. ASSUME UNCHANGED toServer, stored' \subseteq stored
      PROVE  Own'
  BY <1>1, <1>2 DEF QueueOf
<1>3. ASSUME NEW p \in Pages, PageStep(p)
      PROVE  Own'
  <2>1. CASE AddComment(p) \/ \E id \in DOMAIN comments : SaveCommentEdits(p, id)
    <3>1. PICK kind, id : Emit(p, kind, id)
      BY <2>1 DEF AddComment, SaveCommentEdits
    <3>2. PICK h : h = [n |-> sent + 1, page |-> p, nth |-> nth[p], kind |-> kind, id |-> id]
      OBVIOUS
    <3>3. /\ h.page = p /\ UNCHANGED stored
          /\ toServer' = [toServer EXCEPT ![p] = Append(@, h)]
      BY <3>1, <3>2 DEF Emit
    <3>4. /\ QueueOf(p)' = QueueOf(p) \cup {h}
          /\ \A q \in Pages \ {p} : QueueOf(q)' = QueueOf(q)
      BY <3>3, QueueSteps
    <3>5. ASSUME NEW q \in Pages, NEW g \in QueueOf(q)'
          PROVE  g.page = q
      BY <3>3, <3>4 DEF Own
    <3> QED
      BY <3>3, <3>5 DEF Own
  <2>2. CASE Drop(p)
    <3>1. QueueOf(p)' = {} /\ \A q \in Pages \ {p} : QueueOf(q)' = QueueOf(q)
      BY <2>2 DEF Drop, QueueOf, KInv, OnTheWay
    <3> QED
      BY <1>1, <2>2, <3>1 DEF Drop
  <2>3. CASE Open(p) \/ ReadComments(p) \/ ShowComments(p) \/ Receive(p) \/ ClosePage(p)
             \/ Reconnect(p)
    BY <1>2, <2>3 DEF Open, ReadComments, ShowComments, Receive, ClosePage, Reconnect
  <2> QED
    BY <1>3, <2>1, <2>2, <2>3 DEF PageStep
<1>4. ASSUME NEW p \in Pages, Join(p) \/ Reject(p) \/ Start(p)
      PROVE  Own'
  <2>1. CASE Start(p)
    BY <1>1, <2>1, QueueSteps DEF Start
  <2> QED
    BY <1>2, <1>4, <2>1 DEF Join, Reject
<1>5. ASSUME NEW h \in running, RunHandler(h)
      PROVE  Own'
  <2>1. CASE Store(h)
    BY <2>1 DEF Store, Own, QueueOf, Written
  <2> QED
    <3>1. CASE Failed(h)
      BY <1>2, <3>1 DEF Failed
    <3> QED
      BY <1>5, <2>1, <3>1 DEF RunHandler, HandlerFails, StoreUnconfirmed
<1>6. ASSUME NEW s \in stored, Broadcast(s[1], s[2])
      PROVE  Own'
  BY <1>2, <1>6 DEF Broadcast
<1>7. ASSUME NEW m \in Moderators \cup {None}, Assign(m)
      PROVE  Own'
  BY <1>2, <1>7 DEF Assign
<1>8. CASE UNCHANGED vars
  BY <1>2, <1>8 DEF vars
<1> QED
  BY <1>3, <1>4, <1>5, <1>6, <1>7, <1>8 DEF Next, ServerStep

\* What the server does with a message it is done with.
LastAnswers(h) == /\ toPage[h.page] # <<>>
                  /\ Answers(toPage[h.page][Len(toPage[h.page])], h)

\* What is appended for a page is the last it will hear.
LEMMA AppendedAnswers ==
    ASSUME KInv, NEW h, h.page \in Pages, NEW e, toPage'[h.page] = Append(toPage[h.page], e),
           Answers(e, h)
    PROVE  LastAnswers(h)'
<1>1. PICK s \in Seq(Events) : s = toPage[h.page]
  BY DEF KInv, OnTheWay
<1>2. Len(s) \in Nat
  BY LenProperties
<1>3. /\ Append(s, e) # <<>> /\ Len(Append(s, e)) = Len(s) + 1
      /\ Append(s, e)[Len(s) + 1] = e
  BY <1>2
<1> QED
  BY <1>1, <1>3 DEF LastAnswers, Answers

\* The error that makes a page leave answers whatever it sent.
LEMMA ErrorAnswers ==
    ASSUME KInv, NEW h, h.page \in Pages, Fail(h.page)
    PROVE  LastAnswers(h)'
<1>1. toPage'[h.page] = Append(toPage[h.page], [event |-> "error"])
  BY DEF Fail, KInv, OnTheWay
<1> QED
  BY <1>1, AppendedAnswers DEF Answers

\* One step lets go of a message only with an answer, or with its socket.
LEMMA NextAnswers ==
    ASSUME KInv, Own, [Next]_vars, NEW h \in InHand \ InHand'
    PROVE  ~Current(h)' \/ LastAnswers(h)'
<1> USE DEF handlers
<1>1. ASSUME UNCHANGED toServer, running \subseteq running', stored \subseteq stored'
      PROVE  FALSE
  BY <1>1 DEF InHand, Waits
<1>2. h \in Messages /\ h.page \in Pages
  <2>1. \A p \in Pages : QueueOf(p) \subseteq Messages
    <3> TAKE p \in Pages
    <3>1. toServer[p] \in Seq(Messages)
      BY DEF KInv, OnTheWay
    <3> QED
      BY <3>1, LenProperties DEF QueueOf
  <2>2. h \in Messages
    BY <2>1, InHandIs DEF KInv, OnTheWay
  <2> QED
    BY <2>2 DEF Messages
<1>3. ASSUME NEW p \in Pages, PageStep(p)
      PROVE  ~Current(h)' \/ LastAnswers(h)'
  <2>1. CASE AddComment(p) \/ \E id \in DOMAIN comments : SaveCommentEdits(p, id)
    <3>1. PICK kind, id : Emit(p, kind, id)
      BY <2>1 DEF AddComment, SaveCommentEdits
    <3>2. /\ UNCHANGED <<running, stored>>
          /\ \E g : toServer' = [toServer EXCEPT ![p] = Append(@, g)]
      BY <3>1 DEF Emit
    <3>3. \A q \in Pages : QueueOf(q) \subseteq QueueOf(q)'
      BY <3>2, QueueSteps
    <3>4. InHand' = running' \cup {s[1] : s \in stored'}
                      \cup UNION {QueueOf(q)' : q \in Pages}
      BY DEF InHand, Waits, QueueOf
    <3> QED
      BY <3>2, <3>3, <3>4, InHandIs
  <2>2. CASE Drop(p)
    <3>1. /\ UNCHANGED <<running, stored>> /\ socket'[p] = "down"
          /\ \A q \in Pages \ {p} : QueueOf(q)' = QueueOf(q)
      BY <2>2 DEF Drop, QueueOf, KInv, OnTheWay, Sockets
    <3>2. InHand' = running' \cup {s[1] : s \in stored'}
                      \cup UNION {QueueOf(q)' : q \in Pages}
      BY DEF InHand, Waits, QueueOf
    <3>3. h \in QueueOf(p)
      BY <3>1, <3>2, InHandIs
    <3>4. h.page = p
      BY <3>3 DEF Own
    <3> QED
      BY <3>1, <3>4 DEF Current
  <2>3. CASE Open(p) \/ ReadComments(p) \/ ShowComments(p) \/ Receive(p) \/ ClosePage(p)
             \/ Reconnect(p)
    BY <1>1, <2>3 DEF Open, ReadComments, ShowComments, Receive, ClosePage, Reconnect
  <2> QED
    BY <1>3, <2>1, <2>2, <2>3 DEF PageStep
<1>4. ASSUME NEW p \in Pages, Join(p) \/ Reject(p) \/ Start(p)
      PROVE  ~Current(h)' \/ LastAnswers(h)'
  <2>1. CASE Start(p)
    <3>1. /\ toServer[p] # <<>> /\ toServer' = [toServer EXCEPT ![p] = Tail(@)]
          /\ UNCHANGED stored /\ running \subseteq running'
          /\ Fail(p) \/ Head(toServer[p]) \in running'
      BY <2>1 DEF Start
    <3>2. /\ QueueOf(p) = QueueOf(p)' \cup {Head(toServer[p])}
          /\ \A q \in Pages \ {p} : QueueOf(q)' = QueueOf(q)
      BY <3>1, QueueSteps
    <3>3. InHand' = running' \cup {s[1] : s \in stored'}
                      \cup UNION {QueueOf(q)' : q \in Pages}
      BY DEF InHand, Waits, QueueOf
    <3>4. h = Head(toServer[p]) /\ h \in QueueOf(p) /\ h \notin running'
      BY <3>1, <3>2, <3>3, InHandIs
    <3>5. h.page = p /\ Fail(h.page)
      BY <3>1, <3>4 DEF Own
    <3> QED
      BY <1>2, <3>5, ErrorAnswers
  <2> QED
    BY <1>1, <1>4, <2>1 DEF Join, Reject
<1>5. ASSUME NEW g \in running, RunHandler(g)
      PROVE  ~Current(h)' \/ LastAnswers(h)'
  <2>1. running' = running \ {g} /\ UNCHANGED toServer /\ stored \subseteq stored'
    BY <1>5 DEF RunHandler, Store, HandlerFails, StoreUnconfirmed, Failed
  <2>2. h = g
    BY <2>1 DEF InHand, Waits
  <2>3. CASE Store(g)
    <3>1. <<g, Written(g)>> \in stored'
      BY <2>3 DEF Store
    <3>2. g \in InHand'
      BY <3>1 DEF InHand
    <3> QED
      BY <2>2, <3>2
  <2>4. CASE Failed(g)
    <3>1. UNCHANGED <<nth, socket>> /\ (Current(g) => Fail(g.page))
      BY <2>4 DEF Failed
    <3> QED
      BY <1>2, <2>2, <3>1, ErrorAnswers DEF Current
  <2> QED
    BY <1>5, <2>3, <2>4 DEF RunHandler, HandlerFails, StoreUnconfirmed
<1>6. ASSUME NEW s \in stored, Broadcast(s[1], s[2])
      PROVE  ~Current(h)' \/ LastAnswers(h)'
  <2>1. /\ UNCHANGED <<toServer, running, socket, nth>> /\ stored' = stored \ {<<s[1], s[2]>>}
        /\ s = <<s[1], s[2]>>
    BY <1>6 DEF Broadcast, sockets, KInv, OnTheWay
  <2>2. h = s[1]
    BY <2>1 DEF InHand, Waits
  <2>3. CASE Current(h)
    <3>1. PICK reply : reply = [event |-> IF h.kind = "create" THEN "create" ELSE "OK",
                                entry |-> s[2]]
      OBVIOUS
    <3>2. toPage'[h.page] = Append(toPage[h.page], reply)
      BY <1>2, <1>6, <2>2, <2>3, <3>1 DEF Broadcast
    <3>3. Answers(reply, h)
      BY <2>2, <3>1 DEF Answers, Own
    <3> QED
      BY <1>2, <3>2, <3>3, AppendedAnswers
  <2>4. CASE ~Current(h)
    BY <2>1, <2>4 DEF Current
  <2> QED
    BY <2>3, <2>4
<1>7. ASSUME NEW m \in Moderators \cup {None}, Assign(m)
      PROVE  ~Current(h)' \/ LastAnswers(h)'
  BY <1>1, <1>7 DEF Assign
<1>8. CASE UNCHANGED vars
  BY <1>1, <1>8 DEF vars
<1> QED
  BY <1>3, <1>4, <1>5, <1>6, <1>7, <1>8 DEF Next, ServerStep

\* No handler ends without a word to the socket its message came from, whichever step
\* fails and whoever joins, leaves or reconnects meanwhile (review.gateway.ts): what
\* EveryMessageAnswered asks beyond this is that steps are taken at all.
THEOREM NoSilence == Spec => DoneIsAnswered
<1>1. Init => Own
  <2> SUFFICES ASSUME Init PROVE Own
    OBVIOUS
  <2>1. \A p \in Pages : QueueOf(p) = {}
    BY DEF Init, QueueOf
  <2> QED
    BY <2>1 DEF Init, Own
<1>2. KInv /\ Own /\ [Next]_vars => Own'
  BY NextOwn
<1> DEFINE Done == \A h \in InHand \ InHand' :
                      \/ ~Current(h)'
                      \/ /\ toPage'[h.page] # <<>>
                         /\ Answers(toPage'[h.page][Len(toPage'[h.page])], h)
<1>3. KInv /\ Own /\ [Next]_vars => [Done]_vars
  <2> SUFFICES ASSUME KInv, Own, [Next]_vars
               PROVE  Done
    OBVIOUS
  <2>1. \A h : LastAnswers(h)' => /\ toPage'[h.page] # <<>>
                                  /\ Answers(toPage'[h.page][Len(toPage'[h.page])], h)
    BY DEF LastAnswers, Answers
  <2> QED
    BY <2>1, NextAnswers
<1>4. Spec => [][Done]_vars
  BY <1>1, <1>2, <1>3, Known, PTL DEF Spec
<1> QED
  BY <1>4 DEF DoneIsAnswered
=============================================================================
