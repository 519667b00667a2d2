-------------------------- MODULE KanbanBoardProofs --------------------------
(***************************************************************************)
(* What the moderators' board shows, for any number of tickets, card       *)
(* objects, requests, visits and changes from other pages.                 *)
(***************************************************************************)
EXTENDS KanbanBoard, SequenceTheorems, TLAPS

\* One list has the ticket, with one card, whose field names that list; the lists
\* of the drop handlers agree.
Placed(t) ==
    \E list \in BoardLists, c \in DOMAIN card :
        /\ Places(shown, t) = {list} /\ OfTicket(shown[list], t) = {c}
        /\ Places(kept, t) = {list} /\ OfTicket(kept[list], t) = {c}
        /\ card[c].boardList = list

Complete ==
    page = "open" => \A t \in DOMAIN ticket :
        /\ Places(kept, t) # {} /\ Places(shown, t) # {}
        /\ t \notin approved => Placed(t)

\* Answers find the card they are about, unless the page was opened again.
RequestsKnowCards ==
    \A i \in DOMAIN requests :
        requests[i].kind = "approve" /\ requests[i].card # Null =>
            /\ page = "open"
            /\ requests[i].card \in DOMAIN card
            /\ card[requests[i].card].ticket = requests[i].ticket

TablesOK == IsTable(ticket, TicketIds, TicketRow) /\ DOMAIN fetched \subseteq DOMAIN ticket

BInv == TablesOK /\ BoardTypeOK /\ RequestsKnowCards /\ Complete

-----------------------------------------------------------------------------
(* What the board and the table owe each other.                            *)

\* An answer nobody waits for any more.
Forgotten(r) == r.kind = "approve" /\ r.answered /\ r.card = Null

\* The screen has the ticket in one list, with one moderator.
Shows(t, list, moderator) ==
    /\ Places(shown, t) = {list}
    /\ \A c \in OfTicket(shown[list], t) : card[c].moderatorId = moderator

\* What a request that is on its way says of the screen and the table.
Accounted(t, r) ==
    \/ Forgotten(r)
    \/ r.kind = "move" /\ Shows(t, r.list, MovedTo(ticket[t], Me, r.list).assignedTo)
    \/ /\ r.kind = "approve" /\ r.card # Null
       /\ r.card \in shown[r.list]
       /\ Shows(t, r.list, ticket[t].assignedTo)
       /\ ticket[t].boardList = IF r.answered THEN "ACCEPTED" ELSE r.list

\* A ticket nothing disturbed has at most one request, which says how the screen
\* differs from the table.
Undisturbed(t) ==
    /\ \A i, j \in About(t) : i # j => Forgotten(requests[i]) \/ Forgotten(requests[j])
    /\ \A i \in About(t) : Accounted(t, requests[i])
    /\ (\A i \in About(t) : Forgotten(requests[i])) =>
           Shows(t, ticket[t].boardList, ticket[t].assignedTo)

FetchedIsTrue(t) ==
    /\ \A i \in About(t) : Forgotten(requests[i])
    /\ fetched[t] = ticket[t]

SInv ==
    /\ page = "open" => \A t \in DOMAIN ticket \ disturbed : Undisturbed(t)
    /\ page = "fetching" => \A t \in DOMAIN fetched \ disturbed : FetchedIsTrue(t)

-----------------------------------------------------------------------------
(* Lemmas about the queue of requests and the tables.                      *)

\* Sequence r is s without the element at place i: the others, and no two of them
\* from the same place.
Without(S, s, i, r) ==
    /\ r \in Seq(S) /\ Len(r) = Len(s) - 1
    /\ \A j \in DOMAIN r : \E k \in DOMAIN s : k # i /\ r[j] = s[k]
    /\ \A j1, j2 \in DOMAIN r : j1 # j2 =>
          \E k1, k2 \in DOMAIN s : /\ k1 # k2 /\ k1 # i /\ k2 # i
                                   /\ r[j1] = s[k1] /\ r[j2] = s[k2]
    /\ \A k \in DOMAIN s : k # i => \E j \in DOMAIN r : r[j] = s[k]

\* The requests behind the one that is taken out move up, and no other is lost.
LEMMA RemovedAt ==
    ASSUME NEW S, NEW s \in Seq(S), NEW i \in DOMAIN s, NEW r, r = RemoveAt(s, i)
    PROVE  Without(S, s, i, r)
<1>1. DOMAIN s = 1 .. Len(s) /\ Len(s) \in Nat /\ i \in 1 .. Len(s)
  BY LenProperties
<1> DEFINE a == SubSeq(s, 1, i - 1)
           b == SubSeq(s, i + 1, Len(s))
<1>2. a \in Seq(S) /\ Len(a) = i - 1 /\ \A j \in 1 .. i - 1 : a[j] = s[j]
  BY <1>1, SubSeqProperties
<1>3. b \in Seq(S) /\ Len(b) = Len(s) - i /\ \A j \in 1 .. Len(s) - i : b[j] = s[i + j]
  BY <1>1, SubSeqProperties
<1>4. r = a \o b
  BY DEF RemoveAt
<1> HIDE DEF a, b
<1>5. /\ r \in Seq(S) /\ Len(r) = Len(s) - 1
      /\ \A j \in 1 .. Len(s) - 1 : r[j] = IF j <= i - 1 THEN a[j] ELSE b[j - (i - 1)]
  <2>1. /\ r \in Seq(S) /\ Len(r) = Len(a) + Len(b)
        /\ \A j \in 1 .. Len(a) + Len(b) : r[j] = IF j <= Len(a) THEN a[j] ELSE b[j - Len(a)]
    <3>1. /\ a \o b \in Seq(S) /\ Len(a \o b) = Len(a) + Len(b)
          /\ \A j \in 1 .. Len(a) + Len(b) :
                (a \o b)[j] = IF j <= Len(a) THEN a[j] ELSE b[j - Len(a)]
      BY <1>2, <1>3, ConcatProperties
    <3> QED
      BY <1>4, <3>1
  <2>2. Len(a) + Len(b) = Len(s) - 1
    BY <1>1, <1>2, <1>3
  <2> QED
    BY <1>2, <2>1, <2>2
<1>6. DOMAIN r = 1 .. Len(s) - 1
  BY <1>5, LenProperties
<1> DEFINE Old(j) == IF j < i THEN j ELSE j + 1
<1>7. \A j \in DOMAIN r : Old(j) \in DOMAIN s /\ Old(j) # i /\ r[j] = s[Old(j)]
  <2> SUFFICES ASSUME NEW j \in DOMAIN r
               PROVE  Old(j) \in DOMAIN s /\ Old(j) # i /\ r[j] = s[Old(j)]
    OBVIOUS
  <2>1. CASE j < i
    BY <1>1, <1>2, <1>5, <1>6, <2>1
  <2>2. CASE ~(j < i)
    <3>1. j - (i - 1) \in 1 .. Len(s) - i /\ i + (j - (i - 1)) = j + 1
      BY <1>1, <1>6, <2>2
    <3>2. b[j - (i - 1)] = s[i + (j - (i - 1))]
      BY <1>3, <3>1
    <3> QED
      BY <1>1, <1>5, <1>6, <2>2, <3>1, <3>2
  <2> QED
    BY <2>1, <2>2
<1>8. \A j1, j2 \in DOMAIN r : j1 # j2 => Old(j1) # Old(j2)
  BY <1>1, <1>6
<1>9. \A k \in DOMAIN s : k # i => \E j \in DOMAIN r : Old(j) = k
  <2> SUFFICES ASSUME NEW k \in DOMAIN s, k # i
               PROVE  \E j \in DOMAIN r : Old(j) = k
    OBVIOUS
  <2> DEFINE j == IF k < i THEN k ELSE k - 1
  <2>1. j \in DOMAIN r /\ Old(j) = k
    BY <1>1, <1>6
  <2> QED
    BY <2>1
<1> HIDE DEF Old
<1> QED
  BY <1>5, <1>7, <1>8, <1>9 DEF Without

\* Moderation's two updates change one ticket, to one of the same table.
LEMMA TicketsMove ==
    ASSUME IsTable(ticket, TicketIds, TicketRow), NEW m \in Moderators, NEW t,
           NEW list \in BoardLists, UpdateTicket(m, t, list) \/ ApproveTicket(m, t)
    PROVE  /\ IsTable(ticket', TicketIds, TicketRow)
           /\ DOMAIN ticket' = DOMAIN ticket
           /\ \A u \in DOMAIN ticket : u # t => ticket'[u] = ticket[u]
<1>1. t \in DOMAIN ticket /\ ticket[t] \in TicketRow
  BY DEF UpdateTicket, ApproveTicket, IsTable
<1>2. MovedTo(ticket[t], m, list) \in TicketRow
  BY <1>1 DEF MovedTo, TicketRow
<1>3. [ticket[t] EXCEPT !.boardList = "ACCEPTED"] \in TicketRow
  BY <1>1 DEF TicketRow, BoardLists
<1> QED
  BY <1>1, <1>2, <1>3 DEF UpdateTicket, ApproveTicket, IsTable

\* Cards on the lists are card objects there are.
LEMMA ListsHaveCards ==
    ASSUME BoardTypeOK
    PROVE  /\ DOMAIN card \subseteq Cards
           /\ \A c \in DOMAIN card : card[c] \in Card
           /\ \A list \in BoardLists : /\ kept[list] \subseteq DOMAIN card
                                       /\ shown[list] \subseteq DOMAIN card
  BY DEF BoardTypeOK, IsTable

-----------------------------------------------------------------------------
(* Drag and drop.                                                          *)

\* What is held is on a list or was a card already.
LEMMA HeldOnes ==
    ASSUME NEW boards, NEW reqs, NEW k \in HeldBy(boards, reqs)
    PROVE  k \in DOMAIN card \/ \E list \in BoardLists : k \in boards[list]
  BY DEF HeldBy

\* Object d takes the place of card c.
Replaces(d, c, from, to) ==
    /\ kept' = ListsAfterDrop(kept, c, d, from, to)
    /\ card' = [k \in HeldBy(kept', requests) \cup {d} |->
                   IF k = d THEN CardAfterDrop(c, from, to) ELSE card[k]]

\* Object d of ticket u is in list `to` of the handlers' lists where card c was in
\* `from`; the other objects and tickets are as they were.
Carried(d, c, u, from, to) ==
    /\ c \in DOMAIN card /\ d \in Cards /\ d \in DOMAIN card'
    /\ d = c \/ d \notin DOMAIN card
    /\ card'[d] \in Card /\ card'[d].ticket = u
    /\ card'[d].boardList = to
    /\ card'[d].moderatorId = CASE to = "PENDING" -> Null
                                [] from = "PENDING" -> Me
                                [] OTHER -> card[c].moderatorId
    /\ kept' \in Lists
    /\ \A list \in BoardLists : kept'[list] \subseteq DOMAIN card'
    /\ \A k \in DOMAIN card' \ {d} : k \in DOMAIN card /\ card'[k] = card[k]
    /\ \A t : t # u => \A list \in BoardLists :
          OfTicket(kept[list], t)' = OfTicket(kept[list], t)
    /\ \A list \in BoardLists :
          OfTicket(kept[list], u)' = IF list = from THEN {}
                                     ELSE IF list = to
                                     THEN OfTicket(kept[to], u) \cup {d}
                                     ELSE OfTicket(kept[list], u)

\* What a drop does to the objects and to the lists of the handlers.
LEMMA DropCards ==
    ASSUME BoardTypeOK, NEW from \in BoardLists, NEW to \in BoardLists, from # to,
           NEW c \in shown[from], NEW d \in DroppedObjects(c, from, to),
           NEW u, card[c].ticket = u, Replaces(d, c, from, to)
    PROVE  Carried(d, c, u, from, to)
<1> USE DEF Replaces
<1>1. /\ c \in DOMAIN card /\ card[c] \in Card
      /\ DOMAIN card \subseteq Cards
      /\ \A list \in BoardLists : kept[list] \subseteq DOMAIN card
  BY ListsHaveCards
<1>2. /\ d \in Cards /\ d \in DOMAIN card' /\ (d = c \/ d \notin DOMAIN card)
      /\ card'[d] = CardAfterDrop(c, from, to)
  BY <1>1 DEF DroppedObjects
<1>3. /\ card'[d] \in Card /\ card'[d].ticket = u
      /\ card'[d].boardList = to
      /\ card'[d].moderatorId = CASE to = "PENDING" -> Null
                                  [] from = "PENDING" -> Me
                                  [] OTHER -> card[c].moderatorId
  BY <1>1, <1>2, MeModerates DEF CardAfterDrop, Card
<1>4. kept \in [BoardLists -> SUBSET Cards]
  BY DEF BoardTypeOK, Lists
<1>5. \A list \in BoardLists :
         kept'[list] = IF list = from THEN kept[from] \ OfTicket(kept[from], u)
                       ELSE IF list = to THEN kept[to] \cup {d}
                       ELSE kept[list]
  BY <1>4 DEF ListsAfterDrop
<1>6. kept' \in Lists
  BY <1>2, <1>4 DEF ListsAfterDrop, Lists
<1>7. \A list \in BoardLists : kept'[list] \subseteq DOMAIN card'
  BY DEF HeldBy
<1>8. \A k \in DOMAIN card' \ {d} : k \in DOMAIN card /\ card'[k] = card[k]
  <2> TAKE k \in DOMAIN card' \ {d}
  <2>1. k \in HeldBy(kept', requests) /\ card'[k] = card[k]
    OBVIOUS
  <2>2. ASSUME NEW list \in BoardLists, k \in kept'[list]
        PROVE  k \in DOMAIN card
    BY <1>1, <1>5, <2>2
  <2>3. k \in DOMAIN card \/ \E list \in BoardLists : k \in kept'[list]
    BY <2>1, HeldOnes
  <2> QED
    BY <2>1, <2>2, <2>3
<1>9. \A list \in BoardLists : \A k \in kept'[list] : k # d => card'[k] = card[k]
  BY <1>7, <1>8
<1>10. ASSUME NEW t, t # u, NEW list \in BoardLists
       PROVE  OfTicket(kept[list], t)' = OfTicket(kept[list], t)
  <2>1. \A k \in kept'[list] : card'[k].ticket = t => k \in kept[list] /\ card[k].ticket = t
    <3> TAKE k \in kept'[list]
    <3> HAVE card'[k].ticket = t
    <3>1. k # d
      BY <1>3, <1>10
    <3>2. card'[k] = card[k]
      BY <1>9, <3>1
    <3>3. k \in kept[list]
      BY <1>5, <3>1
    <3> QED
      BY <3>2, <3>3
  <2>2. \A k \in kept[list] : card[k].ticket = t => k \in kept'[list] /\ card'[k].ticket = t
    BY <1>1, <1>2, <1>5, <1>9, <1>10 DEF OfTicket
  <2> QED
    BY <2>1, <2>2 DEF OfTicket
<1>11. ASSUME NEW list \in BoardLists
       PROVE  OfTicket(kept[list], u)' = IF list = from THEN {}
                                         ELSE IF list = to THEN OfTicket(kept[to], u) \cup {d}
                                         ELSE OfTicket(kept[list], u)
  <2>1. CASE list = from
    <3>1. \A k \in kept'[from] : k \in kept[from] /\ card[k].ticket # u
      BY <1>5 DEF OfTicket
    <3>2. \A k \in kept'[from] : card'[k] = card[k]
      BY <1>1, <1>2, <1>9, <3>1
    <3>3. {k \in kept'[from] : card'[k].ticket = u} = {}
      BY <3>1, <3>2
    <3> QED
      BY <2>1, <3>3 DEF OfTicket
  <2>2. CASE list = to
    <3>1. kept'[to] = kept[to] \cup {d}
      BY <1>5
    <3>2. \A k \in kept[to] : k # d => card'[k] = card[k]
      BY <1>9, <3>1
    <3>3. {k \in kept'[to] : card'[k].ticket = u}
             = {k \in kept[to] : card[k].ticket = u} \cup {d}
      BY <1>1, <1>2, <1>3, <3>1, <3>2
    <3> QED
      BY <2>2, <3>3 DEF OfTicket
  <2>3. CASE list # from /\ list # to
    <3>1. kept'[list] = kept[list]
      BY <1>5, <2>3
    <3>2. \A k \in kept[list] : card'[k].ticket = u <=> card[k].ticket = u
      BY <1>1, <1>2, <1>3, <1>9, <3>1
    <3> QED
      BY <2>3, <3>1, <3>2 DEF OfTicket
  <2> QED
    BY <2>1, <2>2, <2>3
<1> QED
  BY <1>1, <1>2, <1>3, <1>6, <1>7, <1>8, <1>10, <1>11 DEF Carried

-----------------------------------------------------------------------------
(* Lemmas about the requests on their way.                                 *)

\* A request taken out of the queue leaves the others of every ticket.
LEMMA OthersStay ==
    ASSUME requests \in Seq(Request), NEW i \in DOMAIN requests,
           requests' = RemoveAt(requests, i)
    PROVE  /\ requests' \in Seq(Request) /\ Len(requests') = Len(requests) - 1
           /\ \A t : \A j \in About(t)' : \E k \in About(t) :
                 k # i /\ requests'[j] = requests[k]
           /\ \A t : \A j1, j2 \in About(t)' : j1 # j2 =>
                 \E k1, k2 \in About(t) :
                    /\ k1 # k2 /\ k1 # i /\ k2 # i
                    /\ requests'[j1] = requests[k1] /\ requests'[j2] = requests[k2]
           /\ \A t : \A k \in About(t) : k # i =>
                 \E j \in About(t)' : requests'[j] = requests[k]
<1>0. Without(Request, requests, i, requests')
  BY RemovedAt
<1>1. /\ requests' \in Seq(Request) /\ Len(requests') = Len(requests) - 1
      /\ \A j \in DOMAIN requests' : \E k \in DOMAIN requests :
            k # i /\ requests'[j] = requests[k]
      /\ \A j1, j2 \in DOMAIN requests' : j1 # j2 =>
            \E k1, k2 \in DOMAIN requests :
               /\ k1 # k2 /\ k1 # i /\ k2 # i
               /\ requests'[j1] = requests[k1] /\ requests'[j2] = requests[k2]
      /\ \A k \in DOMAIN requests : k # i =>
            \E j \in DOMAIN requests' : requests'[j] = requests[k]
  BY <1>0 DEF Without
<1>2. \A t : About(t)' = {j \in DOMAIN requests' : requests'[j].ticket = t}
  BY DEF About
<1>3. \A t : \A k : k \in About(t) <=> k \in DOMAIN requests /\ requests[k].ticket = t
  BY DEF About
<1>4. \A t : \A j \in About(t)' : \E k \in About(t) : k # i /\ requests'[j] = requests[k]
  <2> TAKE t
  <2> TAKE j \in About(t)'
  <2>1. j \in DOMAIN requests' /\ requests'[j].ticket = t
    BY <1>2
  <2>2. PICK k \in DOMAIN requests : k # i /\ requests'[j] = requests[k]
    BY <1>1, <2>1
  <2> QED
    BY <1>3, <2>1, <2>2
<1>5. \A t : \A j1, j2 \in About(t)' : j1 # j2 =>
         \E k1, k2 \in About(t) :
            /\ k1 # k2 /\ k1 # i /\ k2 # i
            /\ requests'[j1] = requests[k1] /\ requests'[j2] = requests[k2]
  <2> TAKE t
  <2> TAKE j1, j2 \in About(t)'
  <2> HAVE j1 # j2
  <2>1. /\ j1 \in DOMAIN requests' /\ requests'[j1].ticket = t
        /\ j2 \in DOMAIN requests' /\ requests'[j2].ticket = t
    BY <1>2
  <2>2. PICK k1, k2 \in DOMAIN requests :
            /\ k1 # k2 /\ k1 # i /\ k2 # i
            /\ requests'[j1] = requests[k1] /\ requests'[j2] = requests[k2]
    BY <1>1, <2>1
  <2> QED
    BY <1>3, <2>1, <2>2
<1>6. \A t : \A k \in About(t) : k # i => \E j \in About(t)' : requests'[j] = requests[k]
  <2> TAKE t
  <2> TAKE k \in About(t)
  <2> HAVE k # i
  <2>1. PICK j \in DOMAIN requests' : requests'[j] = requests[k]
    BY <1>1, <1>3
  <2> QED
    BY <1>2, <1>3, <2>1
<1> QED
  BY <1>1, <1>4, <1>5, <1>6

\* A request put at the end of the queue.
LEMMA OneMore ==
    ASSUME requests \in Seq(Request), NEW r \in Request,
           requests' = Append(requests, r)
    PROVE  /\ requests' \in Seq(Request) /\ Len(requests') = Len(requests) + 1
           /\ DOMAIN requests' = DOMAIN requests \cup {Len(requests) + 1}
           /\ Len(requests) + 1 \notin DOMAIN requests
           /\ requests'[Len(requests) + 1] = r
           /\ \A i \in DOMAIN requests : requests'[i] = requests[i]
<1>1. DOMAIN requests = 1 .. Len(requests) /\ Len(requests) \in Nat
  BY LenProperties
<1>2. /\ Append(requests, r) \in Seq(Request)
      /\ Len(Append(requests, r)) = Len(requests) + 1
      /\ \A i \in 1 .. Len(requests) : Append(requests, r)[i] = requests[i]
      /\ Append(requests, r)[Len(requests) + 1] = r
  BY AppendProperties
<1>3. DOMAIN requests' = 1 .. Len(requests')
  BY <1>2, LenProperties
<1> QED
  BY <1>1, <1>2, <1>3

\* A queue with the same places, each with a request.
LEMMA SamePlaces ==
    ASSUME requests \in Seq(Request), NEW q, DOMAIN q = DOMAIN requests,
           q = [i \in DOMAIN q |-> q[i]], \A i \in DOMAIN q : q[i] \in Request
    PROVE  q \in Seq(Request) /\ Len(q) = Len(requests)
<1>1. DOMAIN requests = 1 .. Len(requests) /\ Len(requests) \in Nat
  BY LenProperties
<1>2. q \in [1 .. Len(requests) -> Request]
  BY <1>1
<1>3. q \in Seq(Request)
  BY <1>1, <1>2, SeqDef
<1>4. DOMAIN q = 1 .. Len(q) /\ Len(q) \in Nat
  BY <1>3, LenProperties
<1> QED
  BY <1>1, <1>3, <1>4
-----------------------------------------------------------------------------
(* What the board holds: BInv is inductive.                                *)

\* The page is not open, the tables hold what BoardInit says.
LEMMA BoardStart == BoardInit => BInv
<1> SUFFICES ASSUME BoardInit PROVE BInv
  OBVIOUS
<1>1. ticket \in [DebateIds -> TicketRow]
  BY DEF BoardInit
<1>2. TablesOK
  BY <1>1, CardsSuffice DEF TablesOK, IsTable, BoardInit, EmptyTable
<1>3. requests = << >> /\ requests \in Seq(Request) /\ Len(requests) = 0
  BY EmptySeq DEF BoardInit
<1>4. DOMAIN requests = {}
  BY <1>3, LenProperties
<1>5. BoardTypeOK
  BY <1>3, BoardBounds DEF BoardInit, BoardTypeOK, IsTable, EmptyTable, NoCards, Lists
<1>6. RequestsKnowCards /\ Complete
  BY <1>4 DEF RequestsKnowCards, Complete, BoardInit
<1> QED
  BY <1>2, <1>5, <1>6 DEF BInv

\* Requests keep what they ask for, and lose their card.
LEMMA OpenKeepsBoard == BInv /\ Open => BInv'
<1> SUFFICES ASSUME BInv, Open PROVE BInv'
  OBVIOUS
<1> USE DEF BInv
<1>1. /\ requests \in Seq(Request)
      /\ \A i \in DOMAIN requests : requests[i] \in Request
  BY ElementOfSeq, LenProperties DEF BoardTypeOK
<1>2. /\ DOMAIN requests' = DOMAIN requests
      /\ requests' = [i \in DOMAIN requests' |-> requests'[i]]
      /\ \A i \in DOMAIN requests' :
            requests'[i] = IF requests[i].kind = "approve"
                           THEN [requests[i] EXCEPT !.card = Null] ELSE requests[i]
  BY DEF Open
<1>3. \A i \in DOMAIN requests' : requests'[i] \in Request
  BY <1>1, <1>2 DEF Request
<1>4. requests' \in Seq(Request) /\ Len(requests') = Len(requests)
  BY <1>1, <1>2, <1>3, SamePlaces
<1>5. TablesOK'
  BY DEF TablesOK, Open, tableVars, EmptyTable
<1>6. BoardTypeOK'
  BY <1>4, BoardBounds
  DEF BoardTypeOK, Open, IsTable, EmptyTable, NoCards, Lists
<1>7. RequestsKnowCards'
  BY <1>1, <1>2 DEF RequestsKnowCards, Request
<1>8. Complete'
  BY DEF Complete, Open
<1> QED
  BY <1>5, <1>6, <1>7, <1>8

\* A statement of the API reads some of the tickets.
LEMMA FetchKeepsBoard == \A tickets \in SUBSET DOMAIN ticket : BInv /\ Fetch(tickets) => BInv'
<1> SUFFICES ASSUME NEW tickets \in SUBSET DOMAIN ticket, BInv, Fetch(tickets)
             PROVE  BInv'
  OBVIOUS
<1> USE DEF BInv
<1>1. /\ page' = page /\ page = "fetching" /\ UNCHANGED <<requests, ticket>>
      /\ UNCHANGED <<card, kept, shown, sent, visits, elsewhere, approved>>
  BY DEF Fetch, tableVars, lists, counts
<1>2. TablesOK'
  BY <1>1 DEF TablesOK, Fetch
<1>3. IsTable(fetched, TicketIds, TicketRow)'
  BY DEF Fetch, BoardTypeOK, TablesOK, IsTable
<1>4. disturbed' \subseteq TicketIds
  BY DEF Fetch, BoardTypeOK, TablesOK, IsTable
<1>5. BoardTypeOK'
  BY <1>1, <1>3, <1>4 DEF BoardTypeOK, IsTable
<1>6. RequestsKnowCards' /\ Complete'
  BY <1>1 DEF RequestsKnowCards, Complete
<1> QED
  BY <1>2, <1>5, <1>6

\* Every row becomes one card in the list the row names.
LEMMA LoadedCards ==
    ASSUME BInv, Load
    PROVE  /\ DOMAIN card' = DOMAIN ticket /\ DOMAIN ticket' = DOMAIN ticket
           /\ DOMAIN fetched = DOMAIN ticket
           /\ \A t \in DOMAIN ticket : \E list \in BoardLists :
                 /\ fetched[t] \in TicketRow /\ fetched[t].boardList = list
                 /\ card'[t] = [ticket |-> t, boardList |-> list,
                                moderatorId |-> fetched[t].assignedTo]
                 /\ Places(shown, t)' = {list} /\ OfTicket(shown[list], t)' = {t}
                 /\ Places(kept, t)' = {list} /\ OfTicket(kept[list], t)' = {t}
<1>1. /\ DOMAIN fetched = DOMAIN ticket /\ DOMAIN ticket' = DOMAIN ticket
      /\ DOMAIN card' = DOMAIN fetched /\ shown' = kept'
      /\ \A t \in DOMAIN fetched :
            card'[t] = [ticket |-> t, boardList |-> fetched[t].boardList,
                        moderatorId |-> fetched[t].assignedTo]
      /\ \A list \in BoardLists :
            kept'[list] = {t \in DOMAIN fetched : fetched[t].boardList = list}
  BY DEF Load, tableVars
<1>2. \A t \in DOMAIN fetched : fetched[t] \in TicketRow /\ fetched[t].boardList \in BoardLists
  BY DEF BInv, BoardTypeOK, IsTable, TicketRow
<1>3. ASSUME NEW t \in DOMAIN fetched, NEW list \in BoardLists
      PROVE  {c \in kept'[list] : card'[c].ticket = t}
                = IF list = fetched[t].boardList THEN {t} ELSE {}
  BY <1>1, <1>3
<1>4. ASSUME NEW t \in DOMAIN fetched
      PROVE  {list \in BoardLists : {c \in kept'[list] : card'[c].ticket = t} # {}}
                = {fetched[t].boardList}
  BY <1>2, <1>3
<1>5. ASSUME NEW t \in DOMAIN fetched, NEW list \in BoardLists, fetched[t].boardList = list
      PROVE  /\ Places(shown, t)' = {list} /\ OfTicket(shown[list], t)' = {t}
             /\ Places(kept, t)' = {list} /\ OfTicket(kept[list], t)' = {t}
  BY <1>1, <1>3, <1>4, <1>5 DEF Places, OfTicket
<1> QED
  BY <1>1, <1>2, <1>5

\* The answers arrive: every ticket gets one card, in the list of its row.
LEMMA LoadKeepsBoard == BInv /\ Load => BInv'
<1> SUFFICES ASSUME BInv, Load PROVE BInv'
  OBVIOUS
<1> USE DEF BInv
<1>1. /\ DOMAIN card' = DOMAIN ticket /\ DOMAIN ticket' = DOMAIN ticket
      /\ DOMAIN fetched = DOMAIN ticket
      /\ \A t \in DOMAIN ticket : \E list \in BoardLists :
            /\ fetched[t] \in TicketRow /\ fetched[t].boardList = list
            /\ card'[t] = [ticket |-> t, boardList |-> list,
                           moderatorId |-> fetched[t].assignedTo]
            /\ Places(shown, t)' = {list} /\ OfTicket(shown[list], t)' = {t}
            /\ Places(kept, t)' = {list} /\ OfTicket(kept[list], t)' = {t}
  BY LoadedCards
<1>2. /\ page = "fetching" /\ page' = "open"
      /\ UNCHANGED <<ticket, requests, sent, visits, elsewhere, approved, disturbed>>
  BY DEF Load, tableVars, counts
<1>3. TablesOK'
  BY <1>2 DEF TablesOK, Load, EmptyTable
<1>4. IsTable(card', Cards, Card)
  BY <1>1, CardsSuffice DEF Load, IsTable, TablesOK, Card, TicketRow
<1>5. /\ kept' \in Lists /\ shown' \in Lists
      /\ \A list \in BoardLists : kept'[list] \cup shown'[list] \subseteq DOMAIN card'
  BY <1>1, CardsSuffice DEF Load, Lists, TablesOK, IsTable
<1>6. BoardTypeOK'
  BY <1>2, <1>4, <1>5 DEF BoardTypeOK, Load, EmptyTable, IsTable
<1>7. \A i \in DOMAIN requests : requests[i].kind = "approve" => requests[i].card = Null
  BY <1>2 DEF RequestsKnowCards
<1>8. RequestsKnowCards'
  BY <1>2, <1>7 DEF RequestsKnowCards
<1>9. ASSUME NEW t \in DOMAIN ticket
      PROVE  (Places(kept, t) # {} /\ Places(shown, t) # {} /\ Placed(t))'
  <2>1. PICK list \in BoardLists :
            /\ card'[t].boardList = list
            /\ Places(shown, t)' = {list} /\ OfTicket(shown[list], t)' = {t}
            /\ Places(kept, t)' = {list} /\ OfTicket(kept[list], t)' = {t}
    BY <1>1
  <2> QED
    BY <1>1, <2>1 DEF Placed
<1>10. Complete'
  BY <1>1, <1>9 DEF Complete
<1> QED
  BY <1>3, <1>6, <1>8, <1>10

\* A drop, as far as the properties see it: one object d for the card, of ticket u,
\* which the list it was dropped on has now; every other ticket is on the lists the
\* handlers had.
Dropped(d, c, u, from, to) ==
    /\ c \in DOMAIN card /\ d \in DOMAIN card'
    /\ d = c \/ d \notin DOMAIN card
    /\ card'[d] \in Card /\ card'[d].ticket = u
    /\ card'[d].boardList = to
    /\ card'[d].moderatorId = CASE to = "PENDING" -> Null
                                [] from = "PENDING" -> Me
                                [] OTHER -> card[c].moderatorId
    /\ kept' \in Lists
    /\ \A list \in BoardLists : kept'[list] \subseteq DOMAIN card'
    /\ \A k \in DOMAIN card' \ {d} : k \in DOMAIN card /\ card'[k] = card[k]
    /\ \A k \in HeldBy(kept', requests) : k \in DOMAIN card'
    /\ \A t : t # u => \A list \in BoardLists :
          /\ OfTicket(shown[list], t)' = OfTicket(kept[list], t)
          /\ OfTicket(kept[list], t)' = OfTicket(kept[list], t)
    /\ \A list \in BoardLists :
          /\ OfTicket(kept[list], u)' = IF list = from THEN {}
                                        ELSE IF list = to THEN OfTicket(kept[to], u) \cup {d}
                                        ELSE OfTicket(kept[list], u)
          /\ OfTicket(shown[list], u)' = OfTicket(kept[list], u)'

\* That is what Drop does.
LEMMA DropSeen ==
    ASSUME BInv, NEW from \in BoardLists, NEW to \in BoardLists,
           NEW c \in shown[from], Drop(c, from, to), NEW u, card[c].ticket = u
    PROVE  \E d \in Cards : Dropped(d, c, u, from, to)
<1>1. PICK d \in DroppedObjects(c, from, to) : Replaces(d, c, from, to)
  BY DEF Drop, Replaces
<1>2. from # to /\ shown' = kept' /\ BoardTypeOK
  BY DEF Drop, BInv
<1>0. Carried(d, c, u, from, to)
  BY <1>1, <1>2, DropCards
<1>3. /\ c \in DOMAIN card /\ d \in Cards /\ d \in DOMAIN card'
      /\ d = c \/ d \notin DOMAIN card
      /\ card'[d] \in Card /\ card'[d].ticket = u
      /\ card'[d].boardList = to
      /\ card'[d].moderatorId = CASE to = "PENDING" -> Null
                                  [] from = "PENDING" -> Me
                                  [] OTHER -> card[c].moderatorId
      /\ kept' \in Lists
      /\ \A list \in BoardLists : kept'[list] \subseteq DOMAIN card'
      /\ \A k \in DOMAIN card' \ {d} : k \in DOMAIN card /\ card'[k] = card[k]
      /\ \A t : t # u => \A list \in BoardLists :
            OfTicket(kept[list], t)' = OfTicket(kept[list], t)
      /\ \A list \in BoardLists :
            OfTicket(kept[list], u)' = IF list = from THEN {}
                                       ELSE IF list = to THEN OfTicket(kept[to], u) \cup {d}
                                       ELSE OfTicket(kept[list], u)
  BY <1>0 DEF Carried
<1>4. \A t : \A list \in BoardLists : OfTicket(shown[list], t)' = OfTicket(kept[list], t)'
  BY <1>2 DEF OfTicket
<1>5. \A k \in HeldBy(kept', requests) : k \in DOMAIN card'
  BY <1>1 DEF Replaces
<1>6. \A t : t # u => \A list \in BoardLists :
         /\ OfTicket(shown[list], t)' = OfTicket(kept[list], t)
         /\ OfTicket(kept[list], t)' = OfTicket(kept[list], t)
  BY <1>3, <1>4 DEF OfTicket
<1>7. \A list \in BoardLists :
         /\ OfTicket(kept[list], u)' = IF list = from THEN {}
                                       ELSE IF list = to THEN OfTicket(kept[to], u) \cup {d}
                                       ELSE OfTicket(kept[list], u)
         /\ OfTicket(shown[list], u)' = OfTicket(kept[list], u)'
  BY <1>3, <1>4 DEF OfTicket
<1>8. Dropped(d, c, u, from, to)
  BY <1>3, <1>5, <1>6, <1>7 DEF OfTicket, Dropped
<1> QED
  BY <1>3, <1>8

\* A drop moves the card on the lists drops start from, and shows these.
LEMMA DropKeepsBoard ==
    ASSUME BInv, NEW from \in BoardLists, NEW to \in BoardLists,
           NEW c \in shown[from], Drop(c, from, to)
    PROVE  BInv'
<1> USE DEF BInv
<1>1. PICK u : card[c].ticket = u
  OBVIOUS
<1>2. PICK d \in Cards : Dropped(d, c, u, from, to)
  BY <1>1, DropSeen
<1> USE DEF Dropped
<1>3. /\ page = "open" /\ page' = "open" /\ shown' = kept' /\ from # to
      /\ requests' = Append(requests, [kind |-> "move", ticket |-> u, list |-> to])
      /\ sent' = sent + 1 /\ sent < MaxRequests
      /\ UNCHANGED <<ticket, fetched, visits, elsewhere, approved>>
  BY <1>1 DEF Drop, Send, tableVars
<1>4. card \in [DOMAIN card -> Card] /\ c \in DOMAIN card /\ u \in TicketIds
  BY <1>1, <1>2, ListsHaveCards DEF Card, BoardTypeOK, IsTable
<1>5. TablesOK'
  BY <1>3 DEF TablesOK
<1> DEFINE r == [kind |-> "move", ticket |-> u, list |-> to]
<1>6. r \in Request
  BY <1>4 DEF Request
<1>7. /\ requests' \in Seq(Request) /\ Len(requests') = Len(requests) + 1
      /\ DOMAIN requests' = DOMAIN requests \cup {Len(requests) + 1}
      /\ requests'[Len(requests) + 1] = r
      /\ \A i \in DOMAIN requests : requests'[i] = requests[i]
  <2>1. requests \in Seq(Request) /\ requests' = Append(requests, r)
    BY <1>3 DEF BoardTypeOK
  <2> HIDE DEF r
  <2> QED
    BY <1>6, <2>1, OneMore
<1>8. BoardTypeOK'
  <2>1. IsTable(card', Cards, Card)
    <3>1. \A k \in DOMAIN card' : k \in Cards /\ card'[k] \in Card
      BY <1>2, ListsHaveCards
    <3>2. card' = [k \in DOMAIN card' |-> card'[k]]
      BY DEF Drop
    <3> QED
      BY <3>1, <3>2 DEF IsTable
  <2>2. disturbed' \subseteq TicketIds
    BY <1>1, <1>4 DEF Drop, BoardTypeOK
  <2>3. Len(requests') <= sent' /\ sent' \in 0 .. MaxRequests
    <3>1. Len(requests) \in Nat /\ Len(requests) <= sent /\ sent \in 0 .. MaxRequests
      BY LenProperties DEF BoardTypeOK
    <3> QED
      BY <1>3, <1>7, <3>1, BoardBounds
  <2> QED
    BY <1>2, <1>3, <1>7, <2>1, <2>2, <2>3 DEF BoardTypeOK
<1>9. RequestsKnowCards'
  <2> SUFFICES ASSUME NEW i \in DOMAIN requests', requests'[i].kind = "approve",
                      requests'[i].card # Null
               PROVE  /\ requests'[i].card \in DOMAIN card'
                      /\ card'[requests'[i].card].ticket = requests'[i].ticket
    BY <1>3 DEF RequestsKnowCards
  <2>1. i \in DOMAIN requests /\ requests'[i] = requests[i]
    BY <1>7
  <2>2. PICK k : k = requests[i].card
    OBVIOUS
  <2>3. k \in DOMAIN card /\ card[k].ticket = requests[i].ticket
    BY <2>1, <2>2 DEF RequestsKnowCards
  <2>4. k \in HeldBy(kept', requests)
    BY <2>1, <2>2, <2>3 DEF HeldBy
  <2>5. k \in DOMAIN card' /\ card'[k].ticket = card[k].ticket
    BY <1>1, <1>2, <2>3, <2>4
  <2> QED
    BY <2>1, <2>2, <2>3, <2>5
<1>10. ASSUME NEW t \in DOMAIN ticket, t # u
       PROVE  (/\ Places(kept, t) # {} /\ Places(shown, t) # {}
               /\ t \notin approved => Placed(t))'
  <2>1. Places(kept, t)' = Places(kept, t) /\ Places(shown, t)' = Places(kept, t)
    BY <1>2, <1>10 DEF Places
  <2>2. ASSUME NEW k \in DOMAIN card, NEW list \in BoardLists, OfTicket(kept[list], t) = {k}
        PROVE  k \in DOMAIN card' /\ card'[k].boardList = card[k].boardList
    <3>1. card[k].ticket = t /\ k # c /\ k # d
      BY <1>1, <1>2, <1>10, <2>2 DEF OfTicket
    <3>2. k \in kept'[list]
      <4>1. OfTicket(kept[list], t)' = OfTicket(kept[list], t)
        BY <1>2, <1>10 DEF OfTicket
      <4>2. OfTicket(kept[list], t)' = {k}
        BY <2>2, <4>1
      <4> QED
        BY <4>2 DEF OfTicket
    <3> QED
      BY <1>2, <3>1, <3>2
  <2>3. Places(kept, t) # {} /\ (t \notin approved => Placed(t))
    BY <1>3 DEF Complete
  <2>4. CASE t \notin approved
    <3>1. PICK list \in BoardLists, k \in DOMAIN card :
              /\ Places(kept, t) = {list} /\ OfTicket(kept[list], t) = {k}
              /\ card[k].boardList = list
      BY <2>3, <2>4 DEF Placed
    <3>2. k \in DOMAIN card' /\ card'[k].boardList = list
      BY <2>2, <3>1
    <3>3. OfTicket(kept[list], t)' = {k} /\ OfTicket(shown[list], t)' = {k}
      BY <1>2, <1>10, <3>1
    <3> QED
      BY <2>1, <3>1, <3>2, <3>3 DEF Placed
  <2>5. CASE t \in approved
    BY <1>3, <2>1, <2>3, <2>5
  <2> QED
    BY <2>4, <2>5
<1>11. ASSUME u \in DOMAIN ticket
       PROVE  (/\ Places(kept, u) # {} /\ Places(shown, u) # {}
               /\ u \notin approved => Placed(u))'
  <2>1. Places(shown, u)' = Places(kept, u)' /\ to \in Places(kept, u)'
    BY <1>2, <1>3 DEF Places
  <2>2. CASE u \notin approved
    <3>1. PICK list \in BoardLists, k \in DOMAIN card :
              /\ Places(shown, u) = {list} /\ OfTicket(shown[list], u) = {k}
              /\ Places(kept, u) = {list}
      BY <1>3, <1>11, <2>2 DEF Complete, Placed
    <3>2. c \in OfTicket(shown[from], u)
      BY <1>1 DEF OfTicket
    <3>3. list = from
      BY <3>1, <3>2 DEF Places
    <3>4. \A l \in BoardLists : l # from => OfTicket(kept[l], u) = {}
      BY <3>1, <3>3 DEF Places
    <3>5. /\ OfTicket(kept[to], u)' = {d} /\ OfTicket(shown[to], u)' = {d}
          /\ \A l \in BoardLists : l # to => OfTicket(kept[l], u)' = {}
      BY <1>2, <1>3, <3>4
    <3>6. Places(kept, u)' = {to}
      BY <3>5 DEF Places
    <3> QED
      BY <1>2, <2>1, <3>5, <3>6 DEF Placed
  <2>3. CASE u \in approved
    BY <1>3, <2>1, <2>3
  <2> QED
    BY <2>2, <2>3
<1>12. Complete'
  BY <1>3, <1>10, <1>11 DEF Complete
<1> QED
  BY <1>5, <1>8, <1>9, <1>12

\* What the screen shows rests on the objects and the lists alone.
LEMMA SameScreen ==
    ASSUME Complete, UNCHANGED <<page, card, kept, shown, approved>>,
           DOMAIN ticket' = DOMAIN ticket
    PROVE  Complete'
  BY DEF Complete, Placed, Places, OfTicket

\* The table moves, the page does not notice.
LEMMA TableMoves ==
    ASSUME BInv, UNCHANGED <<page, fetched, lists, approved, sent, visits>>,
           IsTable(ticket', TicketIds, TicketRow), DOMAIN ticket' = DOMAIN ticket,
           elsewhere' \in 0 .. MaxElsewhere, disturbed' \subseteq TicketIds,
           requests' \in Seq(Request), Len(requests') <= Len(requests),
           \A i \in DOMAIN requests' : \E j \in DOMAIN requests :
               /\ requests'[i].ticket = requests[j].ticket
               /\ requests'[i].kind = requests[j].kind
               /\ requests'[i].kind = "approve" => requests'[i].card = requests[j].card
    PROVE  BInv'
<1> USE DEF BInv
<1>1. UNCHANGED <<page, fetched, card, kept, shown, approved, sent, visits>>
  BY DEF lists
<1>2. Len(requests') <= sent
  <2>1. /\ Len(requests) \in Nat /\ Len(requests') \in Nat
        /\ Len(requests) <= sent /\ sent \in 0 .. MaxRequests
    BY LenProperties DEF BoardTypeOK
  <2> QED
    BY <2>1, BoardBounds
<1>3. TablesOK'
  BY <1>1 DEF TablesOK
<1>4. BoardTypeOK'
  BY <1>1, <1>2 DEF BoardTypeOK, IsTable
<1>5. RequestsKnowCards'
  BY <1>1 DEF RequestsKnowCards
<1>6. Complete'
  BY <1>1, SameScreen
<1> QED
  BY <1>3, <1>4, <1>5, <1>6

\* An approval sends its request and leaves the lists as they are.
LEMMA ApproveKeepsBoard ==
    ASSUME BInv, NEW list \in BoardLists, NEW c \in shown[list], Approve(c, list)
    PROVE  BInv'
<1> USE DEF BInv
<1>1. PICK u : card[c].ticket = u
  OBVIOUS
<1> DEFINE r == [kind |-> "approve", ticket |-> u, list |-> list,
                 card |-> c, answered |-> FALSE]
<1>2. /\ c \in DOMAIN card /\ c \in Cards /\ u \in TicketIds
  BY <1>1, ListsHaveCards DEF Card
<1>3. r \in Request
  BY <1>2 DEF Request
<1>4. /\ UNCHANGED <<ticket, page, fetched, card, kept, shown, visits, elsewhere, approved>>
      /\ requests' = Append(requests, r) /\ page = "open"
      /\ sent < MaxRequests /\ sent' = sent + 1
  BY <1>1 DEF Approve, Send, tableVars, lists
<1>5. /\ requests' \in Seq(Request) /\ Len(requests') = Len(requests) + 1
      /\ DOMAIN requests' = DOMAIN requests \cup {Len(requests) + 1}
      /\ requests'[Len(requests) + 1] = r
      /\ \A i \in DOMAIN requests : requests'[i] = requests[i]
  <2>1. requests \in Seq(Request)
    BY DEF BoardTypeOK
  <2> HIDE DEF r
  <2> QED
    BY <1>3, <1>4, <2>1, OneMore
<1>6. TablesOK'
  BY <1>4 DEF TablesOK
<1>7. Len(requests') <= sent' /\ sent' \in 0 .. MaxRequests
  <2>1. Len(requests) \in Nat /\ Len(requests) <= sent /\ sent \in 0 .. MaxRequests
    BY LenProperties DEF BoardTypeOK
  <2> QED
    BY <1>4, <1>5, <2>1, BoardBounds
<1>8. disturbed' \subseteq TicketIds
  BY <1>1, <1>2 DEF Approve, BoardTypeOK
<1>9. BoardTypeOK'
  BY <1>4, <1>5, <1>7, <1>8 DEF BoardTypeOK, IsTable
<1>10. RequestsKnowCards'
  BY <1>1, <1>2, <1>4, <1>5 DEF RequestsKnowCards
<1>11. Complete'
  BY <1>4, SameScreen
<1> QED
  BY <1>6, <1>9, <1>10, <1>11

\* An answer that still has its card c, of ticket u: on the screen the ticket leaves the
\* list it was approved on for ACCEPTED, the handlers' lists stay.
Answered(c, u, from) ==
    /\ page = "open" /\ c \in DOMAIN card /\ card[c].ticket = u
    /\ u \in TicketIds /\ from \in BoardLists
    /\ UNCHANGED <<ticket, fetched, page, kept, sent, visits, elsewhere, disturbed>>
    /\ DOMAIN card' = DOMAIN card /\ approved' = approved \cup {u}
    /\ IsTable(card, Cards, Card)'
    /\ \A k \in DOMAIN card : /\ card'[k].ticket = card[k].ticket
                              /\ card'[k].moderatorId = card[k].moderatorId
                              /\ k # c => card'[k] = card[k]
    /\ shown' \in Lists
    /\ \A list \in BoardLists : shown'[list] \subseteq DOMAIN card
    /\ \A t : \A list \in BoardLists : OfTicket(kept[list], t)' = OfTicket(kept[list], t)
    /\ \A t : t # u => \A list \in BoardLists :
          OfTicket(shown[list], t)' = OfTicket(shown[list], t)
    /\ \A list \in BoardLists :
          OfTicket(shown[list], u)' = IF list = "ACCEPTED"
                                      THEN OfTicket(shown[list], u) \cup {c}
                                      ELSE IF list = from THEN {}
                                      ELSE OfTicket(shown[list], u)

\* That is what Answer does.
LEMMA AnswerSeen ==
    ASSUME BInv, NEW i \in DOMAIN requests, Answer(i), requests[i].card # Null,
           NEW u, requests[i].ticket = u, NEW from, requests[i].list = from,
           NEW c, requests[i].card = c
    PROVE  Answered(c, u, from)
<1> USE DEF BInv
<1>1. requests[i] \in Request /\ requests[i].kind = "approve"
  BY ElementOfSeq, LenProperties DEF BoardTypeOK, Answer
<1>2. /\ page = "open" /\ c \in DOMAIN card /\ card[c].ticket = u
      /\ u \in TicketIds /\ from \in BoardLists
  BY <1>1 DEF RequestsKnowCards, Request
<1>3. /\ UNCHANGED <<ticket, fetched, page, kept, sent, visits, elsewhere, disturbed>>
      /\ approved' = approved \cup {u}
      /\ card' = [card EXCEPT ![c].boardList = "ACCEPTED"]
      /\ shown' = ListsAfterApproval(c, from)
  BY <1>2 DEF Answer, tableVars, counts
<1>4. /\ IsTable(card, Cards, Card)
      /\ \A list \in BoardLists :
            kept[list] \subseteq DOMAIN card /\ shown[list] \subseteq DOMAIN card
      /\ shown \in [BoardLists -> SUBSET Cards]
  BY DEF BoardTypeOK, Lists
<1>5. /\ DOMAIN card' = DOMAIN card /\ IsTable(card', Cards, Card)
      /\ \A k \in DOMAIN card : /\ card'[k].ticket = card[k].ticket
                                /\ card'[k].moderatorId = card[k].moderatorId
                                /\ k # c => card'[k] = card[k]
  <2>1. card \in [DOMAIN card -> Card] /\ DOMAIN card \subseteq Cards /\ card[c] \in Card
    BY <1>2, <1>4 DEF IsTable
  <2> DEFINE e == [card[c] EXCEPT !.boardList = "ACCEPTED"]
  <2>2. e \in Card /\ e.ticket = card[c].ticket /\ e.moderatorId = card[c].moderatorId
    BY <2>1 DEF Card, BoardLists
  <2>3. card' = [card EXCEPT ![c] = e]
    BY <1>3
  <2> HIDE DEF e
  <2>4. DOMAIN card' = DOMAIN card /\ card' \in [DOMAIN card' -> Card]
    BY <1>2, <2>1, <2>2, <2>3
  <2> QED
    BY <1>2, <2>1, <2>2, <2>3, <2>4 DEF IsTable
<1>6. /\ shown' \in [BoardLists -> SUBSET Cards]
      /\ \A list \in BoardLists :
            shown'[list] = IF list = "ACCEPTED" THEN shown[list] \cup {c}
                           ELSE IF list = from THEN shown[list] \ OfTicket(shown[list], u)
                           ELSE shown[list]
  <2>1. PICK left : left = IF from = "ACCEPTED" THEN shown[from]
                           ELSE shown[from] \ OfTicket(shown[from], u)
    OBVIOUS
  <2>2. shown' = [shown EXCEPT ![from] = left, !["ACCEPTED"] = @ \cup {c}]
    BY <1>2, <1>3, <2>1 DEF ListsAfterApproval
  <2>3. c \in Cards /\ left \subseteq Cards /\ "ACCEPTED" \in BoardLists
    BY <1>2, <1>4, <2>1 DEF IsTable, BoardLists
  <2> QED
    BY <1>2, <1>4, <2>1, <2>2, <2>3
<1>7. shown' \in Lists
  BY <1>6 DEF Lists
<1>8. \A list \in BoardLists : shown'[list] \subseteq DOMAIN card
  BY <1>2, <1>4, <1>6
<1>9. \A t : \A list \in BoardLists : OfTicket(kept[list], t)' = OfTicket(kept[list], t)
  BY <1>3, <1>4, <1>5 DEF OfTicket
<1>10. \A t : t # u => \A list \in BoardLists :
          OfTicket(shown[list], t)' = OfTicket(shown[list], t)
  <2> SUFFICES ASSUME NEW t, t # u, NEW list \in BoardLists
               PROVE  OfTicket(shown[list], t)' = OfTicket(shown[list], t)
    OBVIOUS
  <2>0. \A k \in shown'[list] : k \in DOMAIN card /\ card'[k].ticket = card[k].ticket
    BY <1>5, <1>8
  <2>3. \A k \in shown'[list] : k = c \/ k \in shown[list]
    BY <1>6
  <2>1. \A k \in shown'[list] : card'[k].ticket = t => k \in shown[list] /\ card[k].ticket = t
    BY <1>2, <2>0, <2>3
  <2>2. \A k \in shown[list] : card[k].ticket = t => k \in shown'[list] /\ card'[k].ticket = t
    BY <1>4, <1>5, <1>6 DEF OfTicket
  <2> QED
    BY <2>1, <2>2 DEF OfTicket
<1>11. \A list \in BoardLists :
          OfTicket(shown[list], u)' = IF list = "ACCEPTED"
                                      THEN OfTicket(shown[list], u) \cup {c}
                                      ELSE IF list = from THEN {}
                                      ELSE OfTicket(shown[list], u)
  <2> SUFFICES ASSUME NEW list \in BoardLists
               PROVE  OfTicket(shown[list], u)' = IF list = "ACCEPTED"
                                                  THEN OfTicket(shown[list], u) \cup {c}
                                                  ELSE IF list = from THEN {}
                                                  ELSE OfTicket(shown[list], u)
    OBVIOUS
  <2>0. \A k \in shown'[list] : k \in DOMAIN card /\ card'[k].ticket = card[k].ticket
    BY <1>5, <1>8
  <2>4. OfTicket(shown[list], u)' = {k \in shown'[list] : card[k].ticket = u}
    BY <2>0 DEF OfTicket
  <2>1. CASE list = "ACCEPTED"
    BY <1>2, <1>6, <2>1, <2>4 DEF OfTicket
  <2>2. CASE list # "ACCEPTED" /\ list = from
    BY <1>6, <2>2, <2>4 DEF OfTicket
  <2>3. CASE list # "ACCEPTED" /\ list # from
    BY <1>6, <2>3, <2>4 DEF OfTicket
  <2> QED
    BY <2>1, <2>2, <2>3
<1> QED
  BY <1>2, <1>3, <1>5, <1>7, <1>8, <1>9, <1>10, <1>11 DEF Answered, OfTicket

\* The answer to an approval moves the card to ACCEPTED on the screen.
LEMMA AnswerKeepsBoard ==
    ASSUME BInv, NEW i \in DOMAIN requests, Answer(i)
    PROVE  BInv'
<1> USE DEF BInv
<1>1. requests \in Seq(Request) /\ requests' = RemoveAt(requests, i)
  BY DEF BoardTypeOK, Answer
<1>2. /\ requests' \in Seq(Request) /\ Len(requests') = Len(requests) - 1
      /\ \A j \in DOMAIN requests' : \E k \in DOMAIN requests :
            k # i /\ requests'[j] = requests[k]
  <2> HIDE DEF BInv
  <2>1. Without(Request, requests, i, requests')
    BY <1>1, RemovedAt
  <2> QED
    BY <2>1 DEF Without
<1>3. Len(requests) \in Nat /\ Len(requests') <= Len(requests)
  BY <1>1, <1>2, LenProperties
<1>4. CASE requests[i].card = Null
  <2>1. /\ UNCHANGED <<page, fetched, lists, approved, sent, visits, ticket, elsewhere,
                       disturbed>>
    BY <1>4 DEF Answer, tableVars, counts, lists
  <2>2. /\ IsTable(ticket', TicketIds, TicketRow) /\ DOMAIN ticket' = DOMAIN ticket
        /\ elsewhere' \in 0 .. MaxElsewhere /\ disturbed' \subseteq TicketIds
    BY <2>1 DEF TablesOK, BoardTypeOK
  <2> QED
    BY <1>2, <1>3, <2>1, <2>2, TableMoves
<1>5. CASE requests[i].card # Null
  <2>1. PICK u, from, c : /\ requests[i].ticket = u /\ requests[i].list = from
                          /\ requests[i].card = c
    OBVIOUS
  <2>9. Answered(c, u, from)
    BY <1>5, <2>1, AnswerSeen
  <2>2. /\ page = "open" /\ c \in DOMAIN card /\ card[c].ticket = u
        /\ u \in TicketIds /\ from \in BoardLists
        /\ UNCHANGED <<ticket, fetched, page, kept, sent, visits, elsewhere, disturbed>>
        /\ DOMAIN card' = DOMAIN card /\ approved' = approved \cup {u}
        /\ IsTable(card, Cards, Card)'
        /\ \A k \in DOMAIN card : /\ card'[k].ticket = card[k].ticket
                                  /\ card'[k].moderatorId = card[k].moderatorId
                                  /\ k # c => card'[k] = card[k]
        /\ shown' \in Lists
        /\ \A list \in BoardLists : shown'[list] \subseteq DOMAIN card
        /\ \A t : \A list \in BoardLists : OfTicket(kept[list], t)' = OfTicket(kept[list], t)
        /\ \A t : t # u => \A list \in BoardLists :
              OfTicket(shown[list], t)' = OfTicket(shown[list], t)
        /\ \A list \in BoardLists :
              OfTicket(shown[list], u)' = IF list = "ACCEPTED"
                                          THEN OfTicket(shown[list], u) \cup {c}
                                          ELSE IF list = from THEN {}
                                          ELSE OfTicket(shown[list], u)
    BY <2>9 DEF Answered
  <2>3. TablesOK'
    BY <2>2 DEF TablesOK
  <2>4. Len(requests') <= sent
    <3>1. Len(requests) <= sent /\ sent \in 0 .. MaxRequests
      BY DEF BoardTypeOK
    <3> QED
      BY <1>2, <1>3, <3>1, BoardBounds
  <2>5. BoardTypeOK'
    BY <1>2, <2>2, <2>4 DEF BoardTypeOK, IsTable
  <2>6. RequestsKnowCards'
    BY <1>2, <2>2 DEF RequestsKnowCards
  <2>7. ASSUME NEW t \in DOMAIN ticket
        PROVE  (/\ Places(kept, t) # {} /\ Places(shown, t) # {}
                /\ t \notin approved => Placed(t))'
    <3>1. Places(kept, t)' = Places(kept, t)
      BY <2>2 DEF Places, OfTicket
    <3>2. /\ Places(kept, t) # {} /\ Places(shown, t) # {}
          /\ t \notin approved => Placed(t)
      BY <2>2 DEF Complete
    <3>3. CASE t = u
      <4>1. "ACCEPTED" \in Places(shown, t)'
        <5>1. c \in OfTicket(shown["ACCEPTED"], u)'
          BY <2>2 DEF BoardLists, OfTicket
        <5> QED
          BY <3>3, <5>1 DEF Places, BoardLists
      <4> QED
        BY <2>2, <3>1, <3>2, <3>3, <4>1
    <3>4. CASE t # u
      <4>1. Places(shown, t)' = Places(shown, t)
        BY <2>2, <3>4 DEF Places, OfTicket
      <4>2. CASE t \notin approved
        <5>1. PICK list \in BoardLists, k \in DOMAIN card :
                  /\ Places(shown, t) = {list} /\ OfTicket(shown[list], t) = {k}
                  /\ Places(kept, t) = {list} /\ OfTicket(kept[list], t) = {k}
                  /\ card[k].boardList = list
          BY <3>2, <4>2 DEF Placed
        <5>2. k # c
          BY <2>2, <3>4, <5>1 DEF OfTicket
        <5>3. OfTicket(shown[list], t)' = {k} /\ OfTicket(kept[list], t)' = {k}
          <6>1. OfTicket(shown[list], t)' = OfTicket(shown[list], t)
            BY <2>9, <3>4 DEF Answered
          <6>2. OfTicket(kept[list], t)' = OfTicket(kept[list], t)
            BY <2>9 DEF Answered
          <6> QED
            BY <5>1, <6>1, <6>2
        <5> QED
          BY <2>2, <3>1, <4>1, <5>1, <5>2, <5>3 DEF Placed
      <4>3. CASE t \in approved
        BY <2>2, <3>1, <3>2, <4>1, <4>3
      <4> QED
        BY <4>2, <4>3
    <3> QED
      BY <3>3, <3>4
  <2>8. Complete'
    BY <2>2, <2>7 DEF Complete
  <2> QED
    BY <2>3, <2>5, <2>6, <2>8
<1> QED
  BY <1>4, <1>5

\* The API handles a request, or fails at it.
LEMMA HandlersKeepBoard ==
    ASSUME BInv, NEW i \in DOMAIN requests, HandleMove(i) \/ HandleApprove(i) \/ Fail(i)
    PROVE  BInv'
<1> USE DEF BInv
<1>1. /\ requests \in Seq(Request) /\ DOMAIN requests = 1 .. Len(requests)
      /\ \A j \in DOMAIN requests : requests[j] \in Request
  BY ElementOfSeq, LenProperties DEF BoardTypeOK
<1>2. UNCHANGED <<page, fetched, lists, approved, sent, visits, elsewhere>>
  BY DEF HandleMove, HandleApprove, Fail, counts
<1>3. elsewhere' \in 0 .. MaxElsewhere
  BY <1>2 DEF BoardTypeOK
<1>4. requests[i].ticket \in TicketIds /\ requests[i].list \in BoardLists
  BY <1>1 DEF Request
<1>5. disturbed' \subseteq TicketIds
  BY <1>4 DEF HandleMove, HandleApprove, Fail, BoardTypeOK
<1>6. IsTable(ticket', TicketIds, TicketRow) /\ DOMAIN ticket' = DOMAIN ticket
  <2>1. CASE Fail(i)
    BY <2>1 DEF Fail, tableVars, TablesOK
  <2>2. CASE HandleMove(i)
    BY <1>4, <2>2, TicketsMove, MeModerates DEF HandleMove, TablesOK
  <2>3. CASE HandleApprove(i)
    BY <1>4, <2>3, TicketsMove, MeModerates DEF HandleApprove, TablesOK
  <2> QED
    BY <2>1, <2>2, <2>3
<1>7. CASE requests' = RemoveAt(requests, i)
  <2>1. /\ requests' \in Seq(Request) /\ Len(requests') = Len(requests) - 1
        /\ \A j \in DOMAIN requests' : \E k \in DOMAIN requests :
              k # i /\ requests'[j] = requests[k]
    <3>1. requests \in Seq(Request)
      BY <1>1
    <3> HIDE DEF BInv
    <3>2. Without(Request, requests, i, requests')
      BY <1>7, <3>1, RemovedAt
    <3> QED
      BY <3>2 DEF Without
  <2>2. Len(requests') <= Len(requests)
    BY <1>1, <2>1, LenProperties
  <2> QED
    BY <1>2, <1>3, <1>5, <1>6, <2>1, <2>2, TableMoves
<1>8. CASE HandleApprove(i)
  <2>1. /\ requests' = [requests EXCEPT ![i] = [requests[i] EXCEPT !.answered = TRUE]]
        /\ requests[i].kind = "approve"
    BY <1>8 DEF HandleApprove
  <2> DEFINE e == [requests[i] EXCEPT !.answered = TRUE]
  <2>2. /\ e \in Request /\ e.ticket = requests[i].ticket /\ e.kind = requests[i].kind
        /\ e.card = requests[i].card
    BY <1>1, <2>1 DEF Request
  <2>3. requests' = [requests EXCEPT ![i] = e]
    BY <2>1
  <2> HIDE DEF e
  <2>4. requests' \in Seq(Request) /\ Len(requests') = Len(requests)
    BY <1>1, <2>2, <2>3, ExceptSeq
  <2>5. /\ DOMAIN requests' = DOMAIN requests
        /\ \A j \in DOMAIN requests : requests'[j] = IF j = i THEN e ELSE requests[j]
    BY <1>1, <2>3
  <2>6. \A j \in DOMAIN requests' : \E k \in DOMAIN requests :
           /\ requests'[j].ticket = requests[k].ticket
           /\ requests'[j].kind = requests[k].kind
           /\ requests'[j].kind = "approve" => requests'[j].card = requests[k].card
    BY <2>2, <2>5
  <2>7. Len(requests') <= Len(requests)
    BY <1>1, <2>4, LenProperties
  <2> QED
    BY <1>2, <1>3, <1>5, <1>6, <2>4, <2>6, <2>7, TableMoves
<1> QED
  BY <1>7, <1>8 DEF HandleMove, Fail

\* Another moderator's page changes a ticket.
LEMMA ElsewhereKeepsBoard ==
    ASSUME BInv, NEW m \in Moderators, NEW t \in TicketIds, ChangeElsewhere(m, t)
    PROVE  BInv'
<1> USE DEF BInv
<1>1. /\ UNCHANGED <<page, fetched, lists, requests, sent, visits, approved>>
      /\ elsewhere < MaxElsewhere /\ elsewhere' = elsewhere + 1
      /\ disturbed' = disturbed \cup {t}
  BY DEF ChangeElsewhere
<1>2. elsewhere' \in 0 .. MaxElsewhere /\ disturbed' \subseteq TicketIds
  BY <1>1, BoardBounds DEF BoardTypeOK
<1>3. IsTable(ticket', TicketIds, TicketRow) /\ DOMAIN ticket' = DOMAIN ticket
  <2>1. PICK list \in BoardLists : UpdateTicket(m, t, list) \/ ApproveTicket(m, t)
    <3>1. "PENDING" \in BoardLists
      BY DEF BoardLists
    <3> QED
      BY <3>1 DEF ChangeElsewhere
  <2> QED
    BY <2>1, TicketsMove DEF TablesOK
<1>4. /\ requests' = requests /\ requests \in Seq(Request)
      /\ Len(requests) \in Nat /\ Len(requests') <= Len(requests)
  BY <1>1, LenProperties DEF BoardTypeOK
<1> QED
  BY <1>1, <1>2, <1>3, <1>4, TableMoves

\* No step leaves the invariant.
LEMMA BoardStep == BInv /\ [BoardNext]_allVars => BInv'
<1> SUFFICES ASSUME BInv, [BoardNext]_allVars PROVE BInv'
  OBVIOUS
<1>1. CASE Open
  BY <1>1, OpenKeepsBoard
<1>2. ASSUME NEW tickets \in SUBSET DOMAIN ticket, Fetch(tickets) PROVE BInv'
  BY <1>2, FetchKeepsBoard
<1>3. CASE Load
  BY <1>3, LoadKeepsBoard
<1>4. ASSUME NEW from \in BoardLists, NEW c \in shown[from], Approve(c, from) PROVE BInv'
  BY <1>4, ApproveKeepsBoard
<1>5. ASSUME NEW from \in BoardLists, NEW c \in shown[from], NEW to \in BoardLists,
             Drop(c, from, to)
      PROVE  BInv'
  BY <1>5, DropKeepsBoard
<1>6. ASSUME NEW i \in DOMAIN requests, Answer(i) PROVE BInv'
  BY <1>6, AnswerKeepsBoard
<1>7. ASSUME NEW i \in DOMAIN requests, HandleMove(i) \/ HandleApprove(i) \/ Fail(i)
      PROVE  BInv'
  BY <1>7, HandlersKeepBoard
<1>8. ASSUME NEW m \in Moderators, NEW t \in TicketIds, ChangeElsewhere(m, t) PROVE BInv'
  BY <1>8, ElsewhereKeepsBoard
<1>9. CASE UNCHANGED allVars
  <2>1. TablesOK' /\ BoardTypeOK'
    BY <1>9 DEF allVars, tableVars, boardVars, BInv, TablesOK, BoardTypeOK, IsTable
  <2>2. RequestsKnowCards'
    BY <1>9 DEF allVars, boardVars, BInv, RequestsKnowCards
  <2>3. Complete'
    BY <1>9 DEF allVars, tableVars, boardVars, BInv, Complete, Placed, Places, OfTicket
  <2> QED
    BY <2>1, <2>2, <2>3 DEF BInv
<1> QED
  BY <1>1, <1>2, <1>3, <1>4, <1>5, <1>6, <1>7, <1>8, <1>9 DEF BoardNext

\* The invariant, for any number of tickets, card objects, requests and visits:
\* every handler of the page, run from whichever lists its render left it with,
\* and every answer and step of the API between them.
THEOREM BoardHolds == BoardSpec => []BInv
  BY BoardStart, BoardStep, PTL DEF BoardSpec

\* The page's state has the types of its parts.
THEOREM BoardTyped == BoardSpec => []BoardTypeOK
<1>1. BInv => BoardTypeOK
  BY DEF BInv
<1> QED
  BY <1>1, BoardHolds, PTL

\* Drops that start from the lists of the first render never lose a card or show
\* one twice, however they interleave with the answers to approvals.
THEOREM NoCardLost == BoardSpec => []BoardComplete
<1>1. BInv => BoardComplete
  BY DEF BInv, Complete, Placed, BoardComplete
<1> QED
  BY <1>1, BoardHolds, PTL

-----------------------------------------------------------------------------
(* The board and the table: SInv is inductive, on top of BInv.             *)

\* What a request says of a ticket stays true while the ticket's cards and row do.
LEMMA AccountedStays ==
    ASSUME NEW t, NEW r, Accounted(t, r), r.list \in BoardLists,
           r.kind = "approve" /\ r.card # Null =>
               r.card \in DOMAIN card /\ card[r.card].ticket = t,
           \A list \in BoardLists : OfTicket(shown[list], t)' = OfTicket(shown[list], t),
           \A list \in BoardLists : \A k \in OfTicket(shown[list], t) :
               card'[k].moderatorId = card[k].moderatorId,
           ticket'[t] = ticket[t]
    PROVE  Accounted(t, r)'
<1>1. Places(shown, t)' = Places(shown, t)
  BY DEF Places, OfTicket
<1>2. ASSUME NEW list \in BoardLists, NEW m, Shows(t, list, m)
      PROVE  Shows(t, list, m)'
  BY <1>1, <1>2 DEF Shows, OfTicket
<1>3. CASE Forgotten(r)
  BY <1>3 DEF Accounted, Forgotten
<1>4. CASE r.kind = "move" /\ Shows(t, r.list, MovedTo(ticket[t], Me, r.list).assignedTo)
  <2>1. PICK m : m = MovedTo(ticket[t], Me, r.list).assignedTo
    OBVIOUS
  <2>2. Shows(t, r.list, m)'
    BY <1>2, <1>4, <2>1
  <2>3. m = (MovedTo(ticket[t], Me, r.list).assignedTo)'
    BY <2>1 DEF MovedTo
  <2> QED
    BY <1>4, <2>2, <2>3 DEF Accounted, Shows
<1>5. CASE /\ r.kind = "approve" /\ r.card # Null
           /\ r.card \in shown[r.list]
           /\ Shows(t, r.list, ticket[t].assignedTo)
           /\ ticket[t].boardList = IF r.answered THEN "ACCEPTED" ELSE r.list
  <2>1. PICK m : m = ticket[t].assignedTo
    OBVIOUS
  <2>2. Shows(t, r.list, m)'
    BY <1>2, <1>5, <2>1
  <2>3. r.card \in OfTicket(shown[r.list], t)
    BY <1>5 DEF OfTicket
  <2>4. r.card \in shown'[r.list]
    BY <2>3 DEF OfTicket
  <2> QED
    BY <1>5, <2>1, <2>2, <2>4 DEF Accounted, Shows
<1> QED
  BY <1>3, <1>4, <1>5 DEF Accounted

\* A step that leaves a ticket's cards, row and requests alone, but for forgotten
\* answers, does not disturb it.
LEMMA UndisturbedStays ==
    ASSUME BInv, NEW t, Undisturbed(t), page = "open",
           \A list \in BoardLists : OfTicket(shown[list], t)' = OfTicket(shown[list], t),
           \A list \in BoardLists : \A k \in OfTicket(shown[list], t) :
               card'[k].moderatorId = card[k].moderatorId,
           t \in DOMAIN ticket, ticket'[t] = ticket[t],
           \A j \in About(t)' : \E k \in About(t) : requests'[j] = requests[k],
           \A j1, j2 \in About(t)' : j1 # j2 =>
               \E k1, k2 \in About(t) : /\ k1 # k2 /\ requests'[j1] = requests[k1]
                                        /\ requests'[j2] = requests[k2],
           \A k \in About(t) : ~Forgotten(requests[k]) =>
               \E j \in About(t)' : requests'[j] = requests[k]
    PROVE  Undisturbed(t)'
<1>1. ASSUME NEW j1 \in About(t)', NEW j2 \in About(t)', j1 # j2
      PROVE  Forgotten(requests'[j1]) \/ Forgotten(requests'[j2])
  BY <1>1 DEF Undisturbed
<1>2. ASSUME NEW j \in About(t)'
      PROVE  Accounted(t, requests[j])'
  <2>1. PICK k \in About(t) : requests'[j] = requests[k]
    BY <1>2
  <2>2. PICK r : r = requests[k]
    OBVIOUS
  <2>3. r \in Request /\ Accounted(t, r) /\ k \in DOMAIN requests /\ r.ticket = t
    BY <2>1, <2>2, ElementOfSeq, LenProperties DEF BInv, BoardTypeOK, Undisturbed, About
  <2>4. r.list \in BoardLists
    BY <2>3 DEF Request
  <2>5. r.kind = "approve" /\ r.card # Null => r.card \in DOMAIN card /\ card[r.card].ticket = t
    BY <2>2, <2>3 DEF BInv, RequestsKnowCards
  <2>6. Accounted(t, r)'
    BY <2>3, <2>4, <2>5, AccountedStays DEF OfTicket
  <2>7. r = requests'[j]
    BY <2>1, <2>2
  <2> QED
    BY <2>6, <2>7 DEF Accounted, Shows, Forgotten
<1>3. ASSUME \A j \in About(t)' : Forgotten(requests'[j])
      PROVE  Shows(t, ticket[t].boardList, ticket[t].assignedTo)'
  <2>1. Shows(t, ticket[t].boardList, ticket[t].assignedTo)
    BY <1>3 DEF Undisturbed
  <2>2. ticket[t].boardList \in BoardLists
    BY DEF BInv, TablesOK, IsTable, TicketRow
  <2>3. PICK list \in BoardLists : list = ticket[t].boardList
    BY <2>2
  <2>4. PICK m : m = ticket[t].assignedTo
    OBVIOUS
  <2>5. Places(shown, t)' = Places(shown, t)
    BY DEF Places, OfTicket
  <2>6. Shows(t, list, m)'
    BY <2>1, <2>3, <2>4, <2>5 DEF Shows, OfTicket
  <2> QED
    BY <2>3, <2>4, <2>6 DEF Shows
<1>4. /\ \A i, j \in About(t)' : i # j => Forgotten(requests'[i]) \/ Forgotten(requests'[j])
      /\ \A i \in About(t)' : Accounted(t, requests[i])'
      /\ (\A i \in About(t)' : Forgotten(requests'[i])) =>
             Shows(t, ticket[t].boardList, ticket[t].assignedTo)'
  BY <1>1, <1>2, <1>3
<1> QED
  BY <1>4 DEF Undisturbed, Forgotten

\* The same for a row that one of the queries has read.
LEMMA FetchedStays ==
    ASSUME NEW t, FetchedIsTrue(t), ticket'[t] = ticket[t], fetched'[t] = fetched[t],
           \A j \in About(t)' : \E k \in About(t) : requests'[j] = requests[k]
    PROVE  FetchedIsTrue(t)'
  BY DEF FetchedIsTrue, Forgotten

\* Both, for a step that touches neither the ticket's row nor its cards or requests.
LEMMA SameTicket ==
    ASSUME BInv, SInv, NEW t \in DOMAIN ticket, t \notin disturbed,
           ticket'[t] = ticket[t], UNCHANGED <<page, fetched, card, shown>>,
           \A j \in About(t)' : \E k \in About(t) : requests'[j] = requests[k],
           \A j1, j2 \in About(t)' : j1 # j2 =>
               \E k1, k2 \in About(t) : /\ k1 # k2 /\ requests'[j1] = requests[k1]
                                        /\ requests'[j2] = requests[k2],
           \A k \in About(t) : ~Forgotten(requests[k]) =>
               \E j \in About(t)' : requests'[j] = requests[k]
    PROVE  /\ page = "open" => Undisturbed(t)'
           /\ page = "fetching" /\ t \in DOMAIN fetched => FetchedIsTrue(t)'
<1>1. ASSUME page = "open" PROVE Undisturbed(t)'
  <2>1. Undisturbed(t)
    BY <1>1 DEF SInv
  <2>2. /\ \A list \in BoardLists : OfTicket(shown[list], t)' = OfTicket(shown[list], t)
        /\ \A list \in BoardLists : \A k \in OfTicket(shown[list], t) :
              card'[k].moderatorId = card[k].moderatorId
    BY DEF OfTicket
  <2> QED
    BY <1>1, <2>1, <2>2, UndisturbedStays DEF OfTicket
<1>2. ASSUME page = "fetching", t \in DOMAIN fetched PROVE FetchedIsTrue(t)'
  <2>1. FetchedIsTrue(t)
    BY <1>2 DEF SInv
  <2> QED
    BY <2>1, FetchedStays
<1> QED
  BY <1>1, <1>2

\* What was read is true of the tickets nobody has changed since.
LEMMA FetchInStep ==
    ASSUME BInv, SInv, NEW tickets \in SUBSET DOMAIN ticket, Fetch(tickets)
    PROVE  SInv'
<1>1. /\ page = "fetching" /\ page' = page /\ UNCHANGED <<ticket, requests>>
      /\ DOMAIN fetched' = DOMAIN fetched \cup tickets
      /\ \A t \in DOMAIN fetched' :
            fetched'[t] = IF t \in tickets THEN ticket[t] ELSE fetched[t]
      /\ disturbed' = (disturbed \ tickets) \cup {t \in tickets : Unhandled(t) # {}}
  BY DEF Fetch, tableVars
<1>2. ASSUME NEW t \in DOMAIN fetched' \ disturbed'
      PROVE  FetchedIsTrue(t)'
  <2>1. CASE t \in tickets
    <3>1. Unhandled(t) = {}
      BY <1>1, <2>1
    <3>2. \A i \in About(t) : Forgotten(requests[i])
      <4> TAKE i \in About(t)
      <4>1. i \in DOMAIN requests /\ requests[i].kind = "approve" /\ requests[i].answered
        BY <3>1 DEF Unhandled, About
      <4>2. requests[i].card = Null
        BY <1>1, <4>1 DEF BInv, RequestsKnowCards
      <4> QED
        BY <4>1, <4>2 DEF Forgotten
    <3> QED
      BY <1>1, <2>1, <3>2 DEF FetchedIsTrue, Forgotten, About
  <2>2. CASE t \notin tickets
    <3>1. FetchedIsTrue(t)
      BY <1>1, <2>2 DEF SInv
    <3> QED
      BY <1>1, <2>2, <3>1 DEF FetchedIsTrue, Forgotten, About
  <2> QED
    BY <2>1, <2>2
<1> QED
  BY <1>1, <1>2 DEF SInv

\* The first render shows what was fetched.
LEMMA LoadInStep ==
    ASSUME BInv, SInv, Load
    PROVE  SInv'
<1>1. /\ DOMAIN card' = DOMAIN ticket /\ DOMAIN ticket' = DOMAIN ticket
      /\ DOMAIN fetched = DOMAIN ticket
      /\ \A t \in DOMAIN ticket : \E list \in BoardLists :
            /\ fetched[t] \in TicketRow /\ fetched[t].boardList = list
            /\ card'[t] = [ticket |-> t, boardList |-> list,
                           moderatorId |-> fetched[t].assignedTo]
            /\ Places(shown, t)' = {list} /\ OfTicket(shown[list], t)' = {t}
            /\ Places(kept, t)' = {list} /\ OfTicket(kept[list], t)' = {t}
  BY LoadedCards
<1>2. page = "fetching" /\ page' = "open" /\ UNCHANGED <<ticket, requests, disturbed>>
  BY DEF Load, tableVars
<1>3. ASSUME NEW t \in DOMAIN ticket \ disturbed
      PROVE  Undisturbed(t)'
  <2>1. FetchedIsTrue(t)
    BY <1>1, <1>2 DEF SInv
  <2>m. PICK m : fetched[t].assignedTo = m
    OBVIOUS
  <2>2. PICK list \in BoardLists :
            /\ fetched[t].boardList = list /\ card'[t].moderatorId = m
            /\ Places(shown, t)' = {list} /\ OfTicket(shown[list], t)' = {t}
    BY <1>1, <2>m
  <2>3. list = ticket'[t].boardList /\ m = ticket'[t].assignedTo
    BY <1>2, <2>1, <2>m, <2>2 DEF FetchedIsTrue
  <2>4. Shows(t, list, m)'
    BY <2>2 DEF Shows
  <2>5. \A i \in About(t)' : Forgotten(requests'[i])
    BY <1>2, <2>1 DEF FetchedIsTrue, About, Forgotten
  <2>6. Shows(t, ticket[t].boardList, ticket[t].assignedTo)'
    BY <2>3, <2>4 DEF Shows
  <2> QED
    BY <2>5, <2>6 DEF Undisturbed, Accounted, Forgotten
<1> QED
  BY <1>1, <1>2, <1>3 DEF SInv

\* The other requests of a ticket, after one is put at the end of the queue.
LEMMA AboutAppended ==
    ASSUME requests \in Seq(Request), NEW r \in Request, requests' = Append(requests, r)
    PROVE  /\ \A t : t # r.ticket => About(t)' = About(t)
           /\ About(r.ticket)' = About(r.ticket) \cup {Len(requests) + 1}
           /\ \A t : \A i \in About(t) : requests'[i] = requests[i]
           /\ requests'[Len(requests) + 1] = r
<1>1. /\ DOMAIN requests' = DOMAIN requests \cup {Len(requests) + 1}
      /\ Len(requests) + 1 \notin DOMAIN requests
      /\ requests'[Len(requests) + 1] = r
      /\ \A i \in DOMAIN requests : requests'[i] = requests[i]
  BY OneMore
<1> QED
  BY <1>1 DEF About

\* A drop shows at once what its request will do to the row.
LEMMA DropInStep ==
    ASSUME BInv, SInv, NEW from \in BoardLists, NEW to \in BoardLists,
           NEW c \in shown[from], Drop(c, from, to)
    PROVE  SInv'
<1>1. PICK u : card[c].ticket = u
  OBVIOUS
<1>2. PICK d \in Cards : Dropped(d, c, u, from, to)
  BY <1>1, DropSeen
<1> USE DEF Dropped
<1> DEFINE r == [kind |-> "move", ticket |-> u, list |-> to]
<1>3. /\ page = "open" /\ page' = "open" /\ shown' = kept' /\ from # to
      /\ requests' = Append(requests, r)
      /\ disturbed' = disturbed \cup approved \cup (IF About(u) = {} THEN {} ELSE {u})
      /\ ticket' = ticket
  BY <1>1 DEF Drop, Send, tableVars
<1>4. u \in TicketIds /\ r \in Request /\ requests \in Seq(Request)
  <2>1. card[c] \in Card
    BY <1>2, ListsHaveCards DEF BInv
  <2> QED
    BY <1>1, <2>1 DEF Card, Request, BInv, BoardTypeOK
<1>5. /\ \A t : t # u => About(t)' = About(t)
      /\ About(u)' = About(u) \cup {Len(requests) + 1}
      /\ \A t : \A i \in About(t) : requests'[i] = requests[i]
      /\ requests'[Len(requests) + 1] = r
  <2>1. r.ticket = u
    OBVIOUS
  <2> HIDE DEF r
  <2> QED
    BY <1>3, <1>4, <2>1, AboutAppended DEF About
<1>6. ASSUME NEW t \in DOMAIN ticket, t \notin disturbed', t # u
      PROVE  Undisturbed(t)'
  <2>1. t \notin disturbed /\ t \notin approved
    BY <1>3, <1>6
  <2>2. Undisturbed(t) /\ Placed(t)
    BY <1>3, <2>1 DEF SInv, BInv, Complete
  <2>3. \A list \in BoardLists : OfTicket(kept[list], t) = OfTicket(shown[list], t)
    BY <2>2 DEF Placed, Places
  <2>4. \A list \in BoardLists : OfTicket(shown[list], t)' = OfTicket(shown[list], t)
    BY <1>2, <1>6, <2>3 DEF OfTicket
  <2>5. \A list \in BoardLists : \A k \in OfTicket(shown[list], t) :
           card'[k].moderatorId = card[k].moderatorId
    <3> TAKE list \in BoardLists
    <3> TAKE k \in OfTicket(shown[list], t)
    <3>1. k \in shown'[list] /\ card'[k].ticket = t
      BY <2>4 DEF OfTicket
    <3>2. k \in DOMAIN card' \ {d}
      BY <1>2, <1>3, <1>6, <3>1
    <3> QED
      BY <1>2, <3>2
  <2>6. About(t)' = About(t) /\ \A i \in About(t) : requests'[i] = requests[i]
    BY <1>5, <1>6
  <2>7. /\ \A j \in About(t)' : \E k \in About(t) : requests'[j] = requests[k]
        /\ \A j1, j2 \in About(t)' : j1 # j2 =>
              \E k1, k2 \in About(t) : /\ k1 # k2 /\ requests'[j1] = requests[k1]
                                       /\ requests'[j2] = requests[k2]
        /\ \A k \in About(t) : ~Forgotten(requests[k]) =>
              \E j \in About(t)' : requests'[j] = requests[k]
    BY <2>6
  <2> QED
    BY <1>3, <2>2, <2>4, <2>5, <2>7, UndisturbedStays DEF OfTicket
<1>7. ASSUME u \in DOMAIN ticket, u \notin disturbed'
      PROVE  Undisturbed(u)'
  <2>1. u \notin disturbed /\ u \notin approved /\ About(u) = {}
    BY <1>3, <1>7
  <2>2. /\ Undisturbed(u) /\ Placed(u)
        /\ Shows(u, ticket[u].boardList, ticket[u].assignedTo)
    BY <1>3, <1>7, <2>1 DEF SInv, BInv, Complete, Undisturbed
  <2>3. c \in OfTicket(shown[from], u)
    BY <1>1 DEF OfTicket
  <2>4. /\ ticket[u].boardList = from /\ card[c].moderatorId = ticket[u].assignedTo
        /\ Places(kept, u) = {from}
    BY <2>2, <2>3 DEF Shows, Places, Placed
  <2>5. \A list \in BoardLists : list # from => OfTicket(kept[list], u) = {}
    BY <2>4 DEF Places
  <2>6. \A list \in BoardLists :
           OfTicket(shown[list], u)' = IF list = to THEN {d} ELSE {}
    BY <1>2, <1>3, <2>5 DEF OfTicket
  <2>7. Places(shown, u)' = {to} /\ OfTicket(shown[to], u)' = {d}
    BY <2>6 DEF Places, OfTicket
  <2>8. PICK m : m = MovedTo(ticket[u], Me, to).assignedTo
    OBVIOUS
  <2>9. card'[d].moderatorId = m
    <3>1. ticket[u] \in TicketRow
      BY <1>7 DEF BInv, TablesOK, IsTable
    <3>2. m = CASE from = "PENDING" -> Me
                [] from # "PENDING" /\ to = "PENDING" -> Null
                [] OTHER -> ticket[u].assignedTo
      BY <2>4, <2>8, <3>1 DEF MovedTo, TicketRow
    <3> QED
      BY <1>2, <1>3, <2>4, <3>2
  <2>10. Shows(u, to, m)'
    BY <2>7, <2>9 DEF Shows
  <2>11. m = (MovedTo(ticket[u], Me, to).assignedTo)'
    BY <1>3, <2>8 DEF MovedTo
  <2>12. About(u)' = {Len(requests) + 1} /\ requests'[Len(requests) + 1] = r
    BY <1>5, <2>1
  <2>13. Accounted(u, r)'
    BY <2>10, <2>11 DEF Accounted, Shows
  <2>14. ~Forgotten(r)
    BY DEF Forgotten
  <2> HIDE DEF r
  <2>15. \A i \in About(u)' : Accounted(u, requests[i])' /\ ~Forgotten(requests'[i])
    BY <2>12, <2>13, <2>14 DEF Accounted, Shows, Forgotten
  <2> QED
    BY <2>12, <2>15 DEF Undisturbed, Forgotten
<1>8. \A t \in DOMAIN ticket' \ disturbed' : Undisturbed(t)'
  BY <1>3, <1>6, <1>7
<1> QED
  BY <1>3, <1>8 DEF SInv

\* An approval asks for the card in the list where the screen and the row have it.
LEMMA ApproveInStep ==
    ASSUME BInv, SInv, NEW list \in BoardLists, NEW c \in shown[list], Approve(c, list)
    PROVE  SInv'
<1>1. PICK u : card[c].ticket = u
  OBVIOUS
<1> DEFINE r == [kind |-> "approve", ticket |-> u, list |-> list,
                 card |-> c, answered |-> FALSE]
<1>2. /\ c \in Cards /\ u \in TicketIds /\ requests \in Seq(Request)
  BY <1>1, ListsHaveCards DEF Card, BInv, BoardTypeOK
<1>3. r \in Request /\ r.ticket = u
  BY <1>2 DEF Request
<1>4. /\ UNCHANGED <<ticket, page, fetched, card, kept, shown>>
      /\ requests' = Append(requests, r) /\ page = "open"
      /\ disturbed' = IF About(u) = {} THEN disturbed ELSE disturbed \cup {u}
  BY <1>1 DEF Approve, Send, tableVars, lists
<1>5. /\ \A t : t # u => About(t)' = About(t)
      /\ About(u)' = About(u) \cup {Len(requests) + 1}
      /\ \A t : \A i \in About(t) : requests'[i] = requests[i]
      /\ requests'[Len(requests) + 1] = r
  <2> HIDE DEF r
  <2> QED
    BY <1>2, <1>3, <1>4, AboutAppended DEF About
<1>6. ASSUME NEW t \in DOMAIN ticket, t \notin disturbed', t # u
      PROVE  Undisturbed(t)'
  <2>1. t \notin disturbed
    BY <1>4, <1>6
  <2>2. About(t)' = About(t) /\ \A i \in About(t) : requests'[i] = requests[i]
    BY <1>5, <1>6
  <2>3. /\ \A j \in About(t)' : \E k \in About(t) : requests'[j] = requests[k]
        /\ \A j1, j2 \in About(t)' : j1 # j2 =>
              \E k1, k2 \in About(t) : /\ k1 # k2 /\ requests'[j1] = requests[k1]
                                       /\ requests'[j2] = requests[k2]
        /\ \A k \in About(t) : ~Forgotten(requests[k]) =>
              \E j \in About(t)' : requests'[j] = requests[k]
    BY <2>2
  <2>4. ticket'[t] = ticket[t] /\ UNCHANGED <<page, fetched, card, shown>>
    BY <1>4
  <2> QED
    BY <1>4, <2>1, <2>3, <2>4, SameTicket
<1>7. ASSUME u \in DOMAIN ticket, u \notin disturbed'
      PROVE  Undisturbed(u)'
  <2>1. u \notin disturbed /\ About(u) = {}
    BY <1>4, <1>7
  <2>2. Shows(u, ticket[u].boardList, ticket[u].assignedTo)
    BY <1>4, <1>7, <2>1 DEF SInv, Undisturbed
  <2>3. c \in OfTicket(shown[list], u)
    BY <1>1 DEF OfTicket
  <2>4. ticket[u].boardList = list
    BY <2>2, <2>3 DEF Shows, Places
  <2>5. Shows(u, list, ticket[u].assignedTo)'
    BY <1>4, <2>2, <2>4 DEF Shows, Places, OfTicket
  <2>6. c # Null
    BY <1>2, CardsAreNumbers
  <2>7. Accounted(u, r)' /\ ~Forgotten(r)
    BY <1>4, <2>4, <2>5, <2>6 DEF Accounted, Forgotten, Shows
  <2>8. About(u)' = {Len(requests) + 1} /\ requests'[Len(requests) + 1] = r
    BY <1>5, <2>1
  <2> HIDE DEF r
  <2>9. \A i \in About(u)' : Accounted(u, requests[i])' /\ ~Forgotten(requests'[i])
    BY <2>7, <2>8 DEF Accounted, Shows, Forgotten
  <2> QED
    BY <2>8, <2>9 DEF Undisturbed, Forgotten
<1>8. \A t \in DOMAIN ticket' \ disturbed' : Undisturbed(t)'
  BY <1>4, <1>6, <1>7
<1> QED
  BY <1>4, <1>8 DEF SInv

\* The facts about a ticket's requests that the lemmas above ask for, when request i
\* is taken out: all but i are there, and i is another ticket's or forgotten.
LEMMA RemovedOne ==
    ASSUME requests \in Seq(Request), NEW i \in DOMAIN requests,
           requests' = RemoveAt(requests, i), NEW t,
           requests[i].ticket # t \/ Forgotten(requests[i])
    PROVE  /\ \A j \in About(t)' : \E k \in About(t) : requests'[j] = requests[k]
           /\ \A j1, j2 \in About(t)' : j1 # j2 =>
                 \E k1, k2 \in About(t) : /\ k1 # k2 /\ requests'[j1] = requests[k1]
                                          /\ requests'[j2] = requests[k2]
           /\ \A k \in About(t) : ~Forgotten(requests[k]) =>
                 \E j \in About(t)' : requests'[j] = requests[k]
<1>1. /\ \A j \in About(t)' : \E k \in About(t) :
            k # i /\ requests'[j] = requests[k]
      /\ \A j1, j2 \in About(t)' : j1 # j2 =>
            \E k1, k2 \in About(t) :
               /\ k1 # k2 /\ k1 # i /\ k2 # i
               /\ requests'[j1] = requests[k1] /\ requests'[j2] = requests[k2]
      /\ \A k \in About(t) : k # i =>
            \E j \in About(t)' : requests'[j] = requests[k]
  BY OthersStay
<1>2. \A k \in About(t) : ~Forgotten(requests[k]) => k # i
  BY DEF About
<1>3. \A j1, j2 \in About(t)' : j1 # j2 =>
         \E k1, k2 \in About(t) : /\ k1 # k2 /\ requests'[j1] = requests[k1]
                                  /\ requests'[j2] = requests[k2]
  <2> TAKE j1, j2 \in About(t)'
  <2> HAVE j1 # j2
  <2>1. PICK k1, k2 \in About(t) :
               /\ k1 # k2 /\ k1 # i /\ k2 # i
               /\ requests'[j1] = requests[k1] /\ requests'[j2] = requests[k2]
    BY <1>1
  <2> QED
    BY <2>1
<1> QED
  BY <1>1, <1>2, <1>3

\* When the only request of a ticket that is not forgotten is taken out, only
\* forgotten ones are left.
LEMMA LastOne ==
    ASSUME requests \in Seq(Request), NEW i \in DOMAIN requests,
           requests' = RemoveAt(requests, i), NEW t, requests[i].ticket = t,
           Undisturbed(t), ~Forgotten(requests[i])
    PROVE  \A j \in About(t)' : Forgotten(requests'[j])
<1> TAKE j \in About(t)'
<1>1. \A l \in About(t)' : \E k \in About(t) : k # i /\ requests'[l] = requests[k]
  BY OthersStay
<1>2. PICK k \in About(t) : k # i /\ requests'[j] = requests[k]
  BY <1>1
<1>3. i \in About(t)
  BY DEF About
<1>4. Forgotten(requests[k])
  BY <1>2, <1>3 DEF Undisturbed
<1> QED
  BY <1>2, <1>4 DEF Forgotten

\* A row that agrees with the screen and has only forgotten requests is undisturbed.
LEMMA Settled ==
    ASSUME NEW t, NEW list, NEW m, Shows(t, list, m)',
           ticket'[t].boardList = list, ticket'[t].assignedTo = m,
           \A j \in About(t)' : Forgotten(requests'[j])
    PROVE  Undisturbed(t)'
<1>1. Shows(t, ticket[t].boardList, ticket[t].assignedTo)'
  BY DEF Shows
<1> QED
  BY <1>1 DEF Undisturbed, Accounted, Forgotten

\* An answer puts the approved card where the API has put the row.
LEMMA AnswerInStep ==
    ASSUME BInv, SInv, NEW i \in DOMAIN requests, Answer(i)
    PROVE  SInv'
<1>1. /\ requests \in Seq(Request) /\ requests' = RemoveAt(requests, i)
      /\ requests[i].kind = "approve" /\ requests[i].answered
      /\ UNCHANGED <<ticket, page, fetched, disturbed>>
  BY DEF BInv, BoardTypeOK, Answer, tableVars
<1>2. ASSUME NEW t \in DOMAIN ticket, t \notin disturbed,
             requests[i].card = Null \/ page = "fetching"
      PROVE  /\ page = "open" => Undisturbed(t)'
             /\ page = "fetching" /\ t \in DOMAIN fetched => FetchedIsTrue(t)'
  <2>1. requests[i].card = Null
    BY <1>1, <1>2 DEF BInv, RequestsKnowCards
  <2>2. UNCHANGED <<card, shown>> /\ Forgotten(requests[i])
    BY <1>1, <2>1 DEF Answer, Forgotten
  <2>3. /\ \A j \in About(t)' : \E k \in About(t) : requests'[j] = requests[k]
        /\ \A j1, j2 \in About(t)' : j1 # j2 =>
              \E k1, k2 \in About(t) : /\ k1 # k2 /\ requests'[j1] = requests[k1]
                                       /\ requests'[j2] = requests[k2]
        /\ \A k \in About(t) : ~Forgotten(requests[k]) =>
              \E j \in About(t)' : requests'[j] = requests[k]
    BY <1>1, <2>2, RemovedOne
  <2>4. ticket'[t] = ticket[t] /\ UNCHANGED <<page, fetched, card, shown>>
    BY <1>1, <2>2
  <2> QED
    BY <1>2, <2>3, <2>4, SameTicket
<1>3. ASSUME NEW t \in DOMAIN ticket, t \notin disturbed,
             requests[i].card # Null, page = "open"
      PROVE  Undisturbed(t)'
  <2>1. PICK u, from, c : /\ requests[i].ticket = u /\ requests[i].list = from
                          /\ requests[i].card = c
    OBVIOUS
  <2>2. /\ c \in DOMAIN card /\ card[c].ticket = u /\ from \in BoardLists
        /\ \A k \in DOMAIN card : card'[k].moderatorId = card[k].moderatorId
        /\ \A list \in BoardLists : shown[list] \subseteq DOMAIN card
        /\ \A l \in BoardLists : \A s : s # u => OfTicket(shown[l], s)' = OfTicket(shown[l], s)
        /\ \A list \in BoardLists :
              OfTicket(shown[list], u)' = IF list = "ACCEPTED"
                                          THEN OfTicket(shown[list], u) \cup {c}
                                          ELSE IF list = from THEN {}
                                          ELSE OfTicket(shown[list], u)
    <3>1. Answered(c, u, from)
      BY <1>3, <2>1, AnswerSeen
    <3>2. \A list \in BoardLists : shown[list] \subseteq DOMAIN card
      BY ListsHaveCards DEF BInv
    <3>3. /\ c \in DOMAIN card /\ card[c].ticket = u /\ from \in BoardLists
          /\ \A k \in DOMAIN card : card'[k].moderatorId = card[k].moderatorId
      BY <3>1 DEF Answered
    <3>4. \A l \in BoardLists : \A s : s # u =>
             OfTicket(shown[l], s)' = OfTicket(shown[l], s)
      BY <3>1 DEF Answered
    <3>5. \A list \in BoardLists :
             OfTicket(shown[list], u)' = IF list = "ACCEPTED"
                                         THEN OfTicket(shown[list], u) \cup {c}
                                         ELSE IF list = from THEN {}
                                         ELSE OfTicket(shown[list], u)
      BY <3>1 DEF Answered
    <3> QED
      BY <3>2, <3>3, <3>4, <3>5
  <2>3. Undisturbed(t)
    BY <1>3 DEF SInv
  <2>4. ~Forgotten(requests[i])
    BY <1>3 DEF Forgotten
  <2>5. CASE t # u
    <3>1. /\ \A j \in About(t)' : \E k \in About(t) : requests'[j] = requests[k]
          /\ \A j1, j2 \in About(t)' : j1 # j2 =>
                \E k1, k2 \in About(t) : /\ k1 # k2 /\ requests'[j1] = requests[k1]
                                         /\ requests'[j2] = requests[k2]
          /\ \A k \in About(t) : ~Forgotten(requests[k]) =>
                \E j \in About(t)' : requests'[j] = requests[k]
      BY <1>1, <2>1, <2>5, RemovedOne
    <3>2. \A list \in BoardLists : OfTicket(shown[list], t)' = OfTicket(shown[list], t)
      BY <2>2, <2>5 DEF OfTicket
    <3>3. \A list \in BoardLists : \A k \in OfTicket(shown[list], t) :
             card'[k].moderatorId = card[k].moderatorId
      BY <2>2 DEF OfTicket
    <3>4. ticket'[t] = ticket[t]
      BY <1>1
    <3> QED
      BY <1>3, <2>3, <3>1, <3>2, <3>3, <3>4, UndisturbedStays DEF OfTicket
  <2>6. CASE t = u
    <3>1. \A j \in About(t)' : Forgotten(requests'[j])
      BY <1>1, <2>1, <2>3, <2>4, <2>6, LastOne
    <3>2. i \in About(t) /\ Accounted(t, requests[i])
      BY <2>1, <2>3, <2>6 DEF About, Undisturbed
    <3>3. PICK m : m = ticket[t].assignedTo
      OBVIOUS
    <3>4. /\ c \in shown[from] /\ Shows(t, from, m)
          /\ ticket[t].boardList = "ACCEPTED"
      BY <1>1, <2>1, <2>4, <3>2, <3>3 DEF Accounted
    <3>5. /\ \A l \in BoardLists : l # from => OfTicket(shown[l], t) = {}
          /\ \A k \in OfTicket(shown[from], t) : card[k].moderatorId = m
          /\ c \in OfTicket(shown[from], t)
      BY <2>2, <2>6, <3>4 DEF Shows, Places, OfTicket
    <3>6. /\ \A l \in BoardLists : l # "ACCEPTED" => OfTicket(shown[l], t)' = {}
          /\ OfTicket(shown["ACCEPTED"], t)' = OfTicket(shown["ACCEPTED"], t) \cup {c}
      BY <2>2, <2>6, <3>5 DEF BoardLists
    <3>7. \A k \in OfTicket(shown["ACCEPTED"], t)' :
             k \in DOMAIN card /\ card[k].moderatorId = m
      <4>1. \A k \in OfTicket(shown["ACCEPTED"], t) :
               k \in DOMAIN card /\ k \in OfTicket(shown[from], t)
        BY <2>2, <3>5 DEF BoardLists, OfTicket
      <4> QED
        BY <2>2, <3>5, <3>6, <4>1
    <3>8. \A k \in OfTicket(shown["ACCEPTED"], t)' : card'[k].moderatorId = m
      BY <2>2, <3>7
    <3>9. Places(shown, t)' = {"ACCEPTED"}
      <4>1. \A l \in BoardLists : OfTicket(shown[l], t)' # {} <=> l = "ACCEPTED"
        BY <3>6 DEF OfTicket
      <4> QED
        BY <4>1 DEF Places, BoardLists, OfTicket
    <3>10. Shows(t, "ACCEPTED", m)'
      BY <3>8, <3>9 DEF Shows
    <3>11. ticket'[t].boardList = "ACCEPTED" /\ ticket'[t].assignedTo = m
      BY <1>1, <3>3, <3>4
    <3> QED
      BY <3>1, <3>10, <3>11, Settled
  <2> QED
    BY <2>5, <2>6
<1>4. /\ \A t \in DOMAIN ticket \ disturbed : page = "open" => Undisturbed(t)'
      /\ \A t \in DOMAIN fetched \ disturbed : page = "fetching" => FetchedIsTrue(t)'
  BY <1>2, <1>3 DEF BInv, TablesOK
<1> QED
  BY <1>1, <1>4 DEF SInv

\* Carrying out a move brings the row to where the screen has the card.
LEMMA HandleMoveInStep ==
    ASSUME BInv, SInv, NEW i \in DOMAIN requests, HandleMove(i)
    PROVE  SInv'
<1>1. PICK u, to : requests[i].ticket = u /\ requests[i].list = to
  OBVIOUS
<1>2. /\ requests \in Seq(Request) /\ requests' = RemoveAt(requests, i)
      /\ requests[i].kind = "move" /\ requests[i] \in Request
      /\ UNCHANGED <<page, fetched, card, kept, shown, disturbed>>
  BY ElementOfSeq, LenProperties DEF BInv, BoardTypeOK, HandleMove, lists
<1>3. /\ u \in DOMAIN ticket /\ to \in BoardLists
      /\ ticket' = [ticket EXCEPT ![u] = MovedTo(ticket[u], Me, to)]
  BY <1>1, <1>2 DEF HandleMove, UpdateTicket, Request
<1>4. ~Forgotten(requests[i])
  BY <1>2 DEF Forgotten
<1>5. ASSUME NEW t \in DOMAIN ticket, t \notin disturbed, t # u
      PROVE  /\ page = "open" => Undisturbed(t)'
             /\ page = "fetching" /\ t \in DOMAIN fetched => FetchedIsTrue(t)'
  <2>1. /\ \A j \in About(t)' : \E k \in About(t) : requests'[j] = requests[k]
        /\ \A j1, j2 \in About(t)' : j1 # j2 =>
              \E k1, k2 \in About(t) : /\ k1 # k2 /\ requests'[j1] = requests[k1]
                                       /\ requests'[j2] = requests[k2]
        /\ \A k \in About(t) : ~Forgotten(requests[k]) =>
              \E j \in About(t)' : requests'[j] = requests[k]
    BY <1>1, <1>2, <1>5, RemovedOne
  <2>2. ticket'[t] = ticket[t] /\ UNCHANGED <<page, fetched, card, shown>>
    BY <1>2, <1>3, <1>5
  <2> QED
    BY <1>5, <2>1, <2>2, SameTicket
<1>6. i \in About(u)
  BY <1>1 DEF About
<1>7. ASSUME u \notin disturbed, page = "open"
      PROVE  Undisturbed(u)'
  <2>1. Undisturbed(u) /\ Accounted(u, requests[i])
    BY <1>3, <1>6, <1>7 DEF SInv, Undisturbed
  <2>2. PICK m : m = MovedTo(ticket[u], Me, to).assignedTo
    OBVIOUS
  <2>3. Shows(u, to, m)
    BY <1>1, <1>2, <1>4, <2>1, <2>2 DEF Accounted
  <2>4. Shows(u, to, m)'
    BY <1>2, <2>3 DEF Shows, Places, OfTicket
  <2>5. \A j \in About(u)' : Forgotten(requests'[j])
    BY <1>1, <1>2, <1>4, <2>1, LastOne
  <2>6. ticket'[u].boardList = to /\ ticket'[u].assignedTo = m
    <3>1. ticket[u] \in TicketRow
      BY <1>3 DEF BInv, TablesOK, IsTable
    <3>2. ticket'[u] = MovedTo(ticket[u], Me, to)
      BY <1>3
    <3> QED
      BY <2>2, <3>1, <3>2, MeModerates DEF MovedTo, TicketRow
  <2> QED
    BY <2>4, <2>5, <2>6, Settled
<1>8. page = "fetching" /\ u \in DOMAIN fetched => u \in disturbed
  BY <1>4, <1>6 DEF SInv, FetchedIsTrue
<1>9. /\ \A t \in DOMAIN ticket \ disturbed : page = "open" => Undisturbed(t)'
      /\ \A t \in DOMAIN fetched \ disturbed : page = "fetching" => FetchedIsTrue(t)'
  <2>1. DOMAIN fetched \subseteq DOMAIN ticket
    BY DEF BInv, TablesOK
  <2> QED
    BY <1>5, <1>7, <1>8, <2>1
<1>10. DOMAIN ticket' = DOMAIN ticket
  BY <1>3
<1> QED
  BY <1>2, <1>9, <1>10 DEF SInv

\* Carrying out an approval leaves what the answer will bring to the screen.
LEMMA HandleApproveInStep ==
    ASSUME BInv, SInv, NEW i \in DOMAIN requests, HandleApprove(i)
    PROVE  SInv'
<1>1. PICK u : requests[i].ticket = u
  OBVIOUS
<1>0. PICK e : e = [requests[i] EXCEPT !.answered = TRUE]
  OBVIOUS
<1>2. /\ requests[i].kind = "approve" /\ ~requests[i].answered /\ requests[i] \in Request
      /\ requests' = [requests EXCEPT ![i] = e]
      /\ UNCHANGED <<page, fetched, card, kept, shown, disturbed>>
      /\ u \in DOMAIN ticket
      /\ ticket' = [ticket EXCEPT ![u] = [ticket[u] EXCEPT !.boardList = "ACCEPTED"]]
  BY <1>0, <1>1, ElementOfSeq, LenProperties
  DEF BInv, BoardTypeOK, HandleApprove, ApproveTicket, lists
<1>3. /\ e.kind = "approve" /\ e.ticket = u /\ e.card = requests[i].card
      /\ e.list = requests[i].list /\ e.answered
  BY <1>0, <1>1, <1>2 DEF Request
<1>4. /\ DOMAIN requests' = DOMAIN requests /\ requests'[i] = e
      /\ \A j \in DOMAIN requests : j # i => requests'[j] = requests[j]
  BY <1>2
<1>5. \A t : About(t)' = About(t)
  BY <1>1, <1>3, <1>4 DEF About
<1>6. i \in About(u) /\ \A t : t # u => i \notin About(t)
  BY <1>1 DEF About
<1>7. ~Forgotten(requests[i])
  BY <1>2 DEF Forgotten
<1>8. ASSUME NEW t \in DOMAIN ticket, t \notin disturbed, t # u
      PROVE  /\ page = "open" => Undisturbed(t)'
             /\ page = "fetching" /\ t \in DOMAIN fetched => FetchedIsTrue(t)'
  <2>1. About(t)' = About(t) /\ \A j \in About(t) : requests'[j] = requests[j]
    BY <1>4, <1>5, <1>6, <1>8 DEF About
  <2>2. /\ \A j \in About(t)' : \E k \in About(t) : requests'[j] = requests[k]
        /\ \A j1, j2 \in About(t)' : j1 # j2 =>
              \E k1, k2 \in About(t) : /\ k1 # k2 /\ requests'[j1] = requests[k1]
                                       /\ requests'[j2] = requests[k2]
        /\ \A k \in About(t) : ~Forgotten(requests[k]) =>
              \E j \in About(t)' : requests'[j] = requests[k]
    BY <2>1
  <2>3. ticket'[t] = ticket[t] /\ UNCHANGED <<page, fetched, card, shown>>
    BY <1>2, <1>8
  <2> QED
    BY <1>8, <2>2, <2>3, SameTicket
<1>9. ASSUME u \notin disturbed, page = "open"
      PROVE  Undisturbed(u)'
  <2>1. Undisturbed(u) /\ Accounted(u, requests[i])
    BY <1>2, <1>6, <1>9 DEF SInv, Undisturbed
  <2>2. /\ requests[i].card # Null /\ requests[i].card \in shown[requests[i].list]
        /\ Shows(u, requests[i].list, ticket[u].assignedTo)
    BY <1>2, <1>7, <2>1 DEF Accounted
  <2>3. PICK from, m : from = requests[i].list /\ m = ticket[u].assignedTo
    OBVIOUS
  <2>4. Shows(u, from, m)'
    BY <1>2, <2>2, <2>3 DEF Shows, Places, OfTicket
  <2>5. ticket'[u].assignedTo = m /\ ticket'[u].boardList = "ACCEPTED"
    <3>1. ticket[u] \in TicketRow
      BY <1>2 DEF BInv, TablesOK, IsTable
    <3> QED
      BY <1>2, <2>3, <3>1 DEF TicketRow
  <2>6. Accounted(u, e)'
    BY <1>2, <1>3, <2>2, <2>3, <2>4, <2>5 DEF Accounted, Shows
  <2>7. ~Forgotten(e)
    BY <1>3, <2>2 DEF Forgotten
  <2>8. ASSUME NEW j \in About(u)
        PROVE  Accounted(u, requests[j])' /\ (j # i => Forgotten(requests'[j]))
    <3>1. CASE j = i
      BY <1>4, <2>6, <3>1 DEF Accounted, Shows, Forgotten
    <3>2. CASE j # i
      <4>1. Forgotten(requests[j])
        BY <1>6, <1>7, <2>1, <3>2 DEF Undisturbed
      <4>2. Forgotten(requests'[j])
        BY <1>4, <3>2, <4>1 DEF About
      <4> QED
        BY <4>2 DEF Accounted, Forgotten
    <3> QED
      BY <3>1, <3>2
  <2>9. ~Forgotten(requests'[i]) /\ i \in About(u)'
    BY <1>4, <1>5, <1>6, <2>7 DEF About
  <2>10. \A j \in About(u)' : Accounted(u, requests[j])' /\ (j # i => Forgotten(requests'[j]))
    BY <1>5, <2>8 DEF Accounted, Shows, Forgotten, About
  <2> QED
    BY <2>9, <2>10 DEF Undisturbed, Forgotten
<1>10. page = "fetching" /\ u \in DOMAIN fetched => u \in disturbed
  BY <1>6, <1>7 DEF SInv, FetchedIsTrue
<1>11. /\ \A t \in DOMAIN ticket \ disturbed : page = "open" => Undisturbed(t)'
       /\ \A t \in DOMAIN fetched \ disturbed : page = "fetching" => FetchedIsTrue(t)'
  <2>1. DOMAIN fetched \subseteq DOMAIN ticket
    BY DEF BInv, TablesOK
  <2> QED
    BY <1>8, <1>9, <1>10, <2>1
<1>12. DOMAIN ticket' = DOMAIN ticket
  BY <1>2
<1> QED
  BY <1>2, <1>11, <1>12 DEF SInv

\* What the page cannot know of is disturbed; nothing else changes.
LEMMA FailInStep ==
    ASSUME BInv, SInv, NEW i \in DOMAIN requests, Fail(i)
    PROVE  SInv'
<1>1. /\ requests \in Seq(Request) /\ requests' = RemoveAt(requests, i)
      /\ disturbed' = disturbed \cup {requests[i].ticket}
      /\ UNCHANGED <<ticket, page, fetched, card, shown>>
  BY DEF BInv, BoardTypeOK, Fail, tableVars, lists
<1>2. ASSUME NEW t \in DOMAIN ticket, t \notin disturbed'
      PROVE  /\ page = "open" => Undisturbed(t)'
             /\ page = "fetching" /\ t \in DOMAIN fetched => FetchedIsTrue(t)'
  <2>1. t \notin disturbed /\ requests[i].ticket # t
    BY <1>1, <1>2
  <2>2. /\ \A j \in About(t)' : \E k \in About(t) : requests'[j] = requests[k]
        /\ \A j1, j2 \in About(t)' : j1 # j2 =>
              \E k1, k2 \in About(t) : /\ k1 # k2 /\ requests'[j1] = requests[k1]
                                       /\ requests'[j2] = requests[k2]
        /\ \A k \in About(t) : ~Forgotten(requests[k]) =>
              \E j \in About(t)' : requests'[j] = requests[k]
    BY <1>1, <2>1, RemovedOne
  <2>3. ticket'[t] = ticket[t] /\ UNCHANGED <<page, fetched, card, shown>>
    BY <1>1
  <2> QED
    BY <1>2, <2>1, <2>2, <2>3, SameTicket
<1>3. DOMAIN fetched \subseteq DOMAIN ticket
  BY DEF BInv, TablesOK
<1> QED
  BY <1>1, <1>2, <1>3 DEF SInv

\* A ticket changed elsewhere is disturbed from then on.
LEMMA ElsewhereInStep ==
    ASSUME BInv, SInv, NEW m \in Moderators, NEW t \in TicketIds, ChangeElsewhere(m, t)
    PROVE  SInv'
<1>1. /\ UNCHANGED <<page, fetched, card, shown, requests>>
      /\ disturbed' = disturbed \cup {t}
  BY DEF ChangeElsewhere, lists
<1>2. /\ DOMAIN ticket' = DOMAIN ticket
      /\ \A u \in DOMAIN ticket : u # t => ticket'[u] = ticket[u]
  <2>1. PICK list \in BoardLists : UpdateTicket(m, t, list) \/ ApproveTicket(m, t)
    <3>1. "PENDING" \in BoardLists
      BY DEF BoardLists
    <3> QED
      BY <3>1 DEF ChangeElsewhere
  <2> QED
    BY <2>1, TicketsMove DEF BInv, TablesOK
<1>3. ASSUME NEW u \in DOMAIN ticket, u \notin disturbed'
      PROVE  /\ page = "open" => Undisturbed(u)'
             /\ page = "fetching" /\ u \in DOMAIN fetched => FetchedIsTrue(u)'
  <2>1. u \notin disturbed /\ u # t
    BY <1>1, <1>3
  <2>2. About(u)' = About(u) /\ requests' = requests
    BY <1>1 DEF About
  <2>3. /\ \A j \in About(u)' : \E k \in About(u) : requests'[j] = requests[k]
        /\ \A j1, j2 \in About(u)' : j1 # j2 =>
              \E k1, k2 \in About(u) : /\ k1 # k2 /\ requests'[j1] = requests[k1]
                                       /\ requests'[j2] = requests[k2]
        /\ \A k \in About(u) : ~Forgotten(requests[k]) =>
              \E j \in About(u)' : requests'[j] = requests[k]
    BY <2>2
  <2>4. ticket'[u] = ticket[u] /\ UNCHANGED <<page, fetched, card, shown>>
    BY <1>1, <1>2, <2>1
  <2> QED
    BY <1>3, <2>1, <2>3, <2>4, SameTicket
<1>4. DOMAIN fetched \subseteq DOMAIN ticket
  BY DEF BInv, TablesOK
<1> QED
  BY <1>1, <1>2, <1>3, <1>4 DEF SInv

\* No step leaves the two invariants.
LEMMA InStepStep == BInv /\ SInv /\ [BoardNext]_allVars => SInv'
<1> SUFFICES ASSUME BInv, SInv, [BoardNext]_allVars PROVE SInv'
  OBVIOUS
<1>1. CASE Open
  BY <1>1 DEF Open, SInv, EmptyTable
<1>2. ASSUME NEW tickets \in SUBSET DOMAIN ticket, Fetch(tickets) PROVE SInv'
  BY <1>2, FetchInStep
<1>3. CASE Load
  BY <1>3, LoadInStep
<1>4. ASSUME NEW from \in BoardLists, NEW c \in shown[from], Approve(c, from) PROVE SInv'
  BY <1>4, ApproveInStep
<1>5. ASSUME NEW from \in BoardLists, NEW c \in shown[from], NEW to \in BoardLists,
             Drop(c, from, to)
      PROVE  SInv'
  BY <1>5, DropInStep
<1>6. ASSUME NEW i \in DOMAIN requests, Answer(i) PROVE SInv'
  BY <1>6, AnswerInStep
<1>7. ASSUME NEW i \in DOMAIN requests, HandleMove(i) PROVE SInv'
  BY <1>7, HandleMoveInStep
<1>8. ASSUME NEW i \in DOMAIN requests, HandleApprove(i) PROVE SInv'
  BY <1>8, HandleApproveInStep
<1>9. ASSUME NEW i \in DOMAIN requests, Fail(i) PROVE SInv'
  BY <1>9, FailInStep
<1>10. ASSUME NEW m \in Moderators, NEW t \in TicketIds, ChangeElsewhere(m, t) PROVE SInv'
  BY <1>10, ElsewhereInStep
<1>11. CASE UNCHANGED allVars
  <2>1. UNCHANGED <<ticket, page, fetched, card, shown, requests, disturbed>>
    BY <1>11 DEF allVars, tableVars, boardVars
  <2> QED
    BY <2>1 DEF SInv, Undisturbed, FetchedIsTrue, Accounted, Shows, Forgotten, Places,
                OfTicket, About, MovedTo
<1> QED
  BY <1>1, <1>2, <1>3, <1>4, <1>5, <1>6, <1>7, <1>8, <1>9, <1>10, <1>11 DEF BoardNext

\* Requests and screen account for every undisturbed ticket, at any time.
THEOREM BoardAccounts == BoardSpec => [](BInv /\ SInv)
<1>1. BoardInit => SInv
  BY DEF BoardInit, SInv
<1> QED
  BY <1>1, BoardStart, BoardStep, InStepStep, PTL DEF BoardSpec

\* A board whose requests have been carried out agrees with the table, list and
\* moderator, about every ticket the page could know the row of.
THEOREM BoardInStep == BoardSpec => []InStep
<1>1. BInv /\ SInv => InStep
  BY DEF SInv, Undisturbed, Shows, InStep
<1> QED
  BY <1>1, BoardAccounts, PTL
=============================================================================
