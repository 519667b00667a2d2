-------------------------- MODULE NotificationInbox --------------------------
(***************************************************************************)
(* One user's inbox: the stream of counts the API sends (controller and    *)
(* service notification) and the widget that shows a badge and a list      *)
(* (client, NotificationWidget).                                           *)
(*                                                                         *)
(* The stream first counts the unread rows and then forwards a 1 for every *)
(* message on the Redis channel; the widget adds up what it receives and   *)
(* asks for the list when it is opened and the badge is not 0.  The worker *)
(* stores a row before it publishes (module Notifications).  Counts are    *)
(* modelled by the sets of rows they stand for.                            *)
(***************************************************************************)
EXTENDS Naturals, FiniteSets, Sequences

CONSTANTS
    Ids,            \* bound: this user's rows, numbered in the order of storing
    Unknown,        \* the badge's null
    MaxTurns        \* bound: connections of the EventSource and openings of the
                    \* popover, together

VARIABLES
    row,            \* "none", "unread" or "read", by id
    unpublished,    \* rows stored whose message is still to be published
    stream,         \* where the API's side of the stream is
    counted,        \* rows of the count query, on their way to the API
    wire,           \* messages sent to the page: sets of rows
    streams,        \* connections so far
    isOpen,
    loading,        \* isLoadingNotifications: a spinner instead of the list
    badge,          \* unreadNotificationsCount
    list,           \* rows listed in the popover
    fetches,        \* GET /notification on their way: [id, stage, rows]
    marking,        \* updates of is_read nobody waits for: sets of rows
    timers,         \* lists that a timer started by a closing will set
    opens,
    missed,         \* history: rows the badge has not heard of, or forgot, since it
                    \* last made the popover ask
    buried,         \* history: rows of a list that was lost or overwritten
    seen            \* history: rows read before, or shown in an open popover

apiVars == <<row, unpublished, stream, counted, streams>>
widgetVars == <<isOpen, loading, badge, list, timers, opens>>
historyVars == <<missed, buried>>
vars == <<apiVars, wire, widgetVars, fetches, marking, historyVars, seen>>

Fetches == [id : 1 .. MaxTurns, stage : {"asked", "answered"}, rows : SUBSET Ids]

TypeOK ==
    /\ row \in [Ids -> {"none", "unread", "read"}]
    /\ unpublished \subseteq Ids
    /\ stream \in {"down", "opening", "counting", "live", "dead"}
    /\ counted \subseteq Ids
    /\ wire \in Seq(SUBSET Ids)
    /\ {streams, opens} \subseteq 0 .. MaxTurns
    /\ isOpen \in BOOLEAN /\ loading \in BOOLEAN
    /\ badge \in {Unknown} \cup Nat
    /\ list \subseteq Ids
    /\ fetches \subseteq Fetches
    /\ marking \subseteq SUBSET Ids
    /\ timers \subseteq SUBSET Ids
    /\ missed \cup seen \cup buried \subseteq Ids

IsOldest(rows) == \A i \in rows, j \in Ids \ rows : i < j

\* The widget is mounted; some rows are older than it, read or not.
Init ==
    /\ \E old \in {s \in SUBSET Ids : IsOldest(s)}, read \in SUBSET Ids :
           /\ row = [i \in Ids |-> IF i \notin old THEN "none"
                                   ELSE IF i \in read THEN "read" ELSE "unread"]
           /\ seen = old \cap read
    /\ unpublished = {} /\ counted = {}
    /\ stream = "down" /\ streams = 0 /\ wire = <<>>
    /\ isOpen = FALSE /\ loading = FALSE /\ badge = Unknown /\ list = {} /\ opens = 0
    /\ fetches = {} /\ marking = {} /\ timers = {}
    /\ missed = {} /\ buried = {}

Unread == {i \in Ids : row[i] = "unread"}
Stored == {i \in Ids : row[i] # "none"}

-----------------------------------------------------------------------------
(* The worker.                                                             *)

Store(i) ==
    /\ row[i] = "none" /\ IsOldest(Stored \cup {i})
    /\ row' = [row EXCEPT ![i] = "unread"]
    /\ unpublished' = unpublished \cup {i}
    /\ UNCHANGED <<stream, counted, streams, wire, widgetVars, fetches, marking,
                   historyVars>>

\* A message reaches the streams that are live, and nobody keeps it.
Publish(i) ==
    /\ i \in unpublished
    /\ unpublished' = unpublished \ {i}
    /\ IF stream = "live"
       THEN wire' = Append(wire, {i}) /\ UNCHANGED missed
       ELSE missed' = missed \cup {i} /\ UNCHANGED wire
    /\ UNCHANGED <<row, stream, counted, streams, widgetVars, fetches, marking,
                   buried>>

PublishFails(i) ==
    /\ i \in unpublished
    /\ unpublished' = unpublished \ {i}
    /\ missed' = missed \cup {i}
    /\ UNCHANGED <<row, stream, counted, streams, wire, widgetVars, fetches,
                   marking, buried>>

-----------------------------------------------------------------------------
(* The stream.                                                             *)

\* The EventSource connects, and does so again when a connection ends.
Connect ==
    /\ stream = "down" /\ streams + opens < MaxTurns
    /\ stream' = "opening" /\ streams' = streams + 1
    /\ UNCHANGED <<row, unpublished, counted, wire, widgetVars, fetches, marking,
                   historyVars>>

\* No session, too many requests, or the count fails: an answer that is not a
\* stream ends the EventSource for good.
Refuse ==
    /\ stream \in {"opening", "counting"}
    /\ stream' = "dead" /\ counted' = {}
    /\ UNCHANGED <<row, unpublished, streams, wire, widgetVars, fetches, marking,
                   historyVars>>

\* getUnreadCount reads the table.
Count ==
    /\ stream = "opening"
    /\ stream' = "counting" /\ counted' = Unread
    /\ UNCHANGED <<row, unpublished, streams, wire, widgetVars, fetches, marking,
                   historyVars>>

\* concat: the count is sent and only now the messages are subscribed to.
GoLive ==
    /\ stream = "counting"
    /\ stream' = "live" /\ counted' = {}
    /\ wire' = Append(wire, counted)
    /\ UNCHANGED <<row, unpublished, streams, widgetVars, fetches, marking,
                   historyVars>>

\* The network, or the API's shutdown (onModuleDestroy completes the subject).
Disconnect ==
    /\ stream \in {"opening", "counting", "live"}
    /\ stream' = "down" /\ counted' = {}
    /\ \E n \in 0 .. Len(wire) :
           /\ wire' = SubSeq(wire, 1, n)
           /\ missed' = missed \cup UNION {wire[k] : k \in n + 1 .. Len(wire)}
    /\ UNCHANGED <<row, unpublished, streams, widgetVars, fetches, marking, buried>>

-----------------------------------------------------------------------------
(* The widget.                                                             *)

\* Mutant of BadgeAfter: an open popover is taken to show what arrives.
BadgeWhenClosed(rows) ==
    IF isOpen THEN badge
    ELSE IF badge = Unknown /\ rows = {} THEN Unknown
    ELSE (IF badge = Unknown THEN 0 ELSE badge) + Cardinality(rows)

\* A sum of 0 becomes null, which the first opening takes for "ask".
BadgeAfter(rows) ==
    LET sum == (IF badge = Unknown THEN 0 ELSE badge) + Cardinality(rows)
    IN  IF sum = 0 THEN Unknown ELSE sum

\* Whatever it brings, the badge is not 0 then: the next opening asks for all rows.
OnMessage ==
    /\ wire # <<>>
    /\ badge' = BadgeAfter(Head(wire))
    /\ wire' = Tail(wire)
    /\ missed' = IF fetches = {} THEN {} ELSE missed \cup Head(wire)
    /\ UNCHANGED <<apiVars, isOpen, loading, list, timers, opens, fetches, marking,
                   buried>>

\* handleInteraction(true).  A list was asked for, or is when the badge is not 0.
OpenPopover ==
    /\ ~isOpen /\ streams + opens < MaxTurns
    /\ isOpen' = TRUE /\ opens' = opens + 1
    /\ IF badge = 0
       THEN UNCHANGED <<fetches, loading>>
       ELSE /\ fetches' = fetches \cup
                   {[id |-> opens', stage |-> "asked", rows |-> {}]}
            /\ loading' = TRUE
    /\ UNCHANGED <<apiVars, wire, badge, list, timers, marking, historyVars>>

\* handleInteraction(false): the timer will set the list of this render.
ClosePopover ==
    /\ isOpen
    /\ isOpen' = FALSE
    /\ timers' = timers \cup {list}
    /\ UNCHANGED <<apiVars, wire, loading, badge, list, opens, fetches, marking,
                   historyVars>>

\* 100 ms later.
TimerFires(rows) ==
    /\ rows \in timers
    /\ timers' = timers \ {rows}
    /\ list' = rows
    /\ buried' = (buried \cup list) \ rows
    /\ UNCHANGED <<apiVars, wire, isOpen, loading, badge, opens, fetches, marking,
                   missed>>

\* getNotifications: the rows are read, the update is started, the answer sent.
AnswerFetch(f) ==
    /\ f \in fetches /\ f.stage = "asked"
    /\ fetches' = (fetches \ {f})
                    \cup {[f EXCEPT !.stage = "answered", !.rows = Stored]}
    /\ marking' = IF Unread = {} THEN marking ELSE marking \cup {Unread}
    /\ UNCHANGED <<apiVars, wire, widgetVars, historyVars>>

\* Mutant of Marked: the update tests recipient_id instead of the ids.
AllMarked(rows) ==
    [i \in Ids |-> IF i \in Stored THEN "read" ELSE row[i]]

Marked(rows) ==
    [i \in Ids |-> IF i \in rows THEN "read" ELSE row[i]]

MarkAsRead(rows) ==
    /\ rows \in marking
    /\ row' = Marked(rows)
    /\ marking' = marking \ {rows}
    /\ UNCHANGED <<unpublished, stream, counted, streams, wire, widgetVars,
                   fetches, historyVars>>

\* The error is logged.
MarkFails(rows) ==
    /\ rows \in marking
    /\ marking' = marking \ {rows}
    /\ UNCHANGED <<apiVars, wire, widgetVars, fetches, historyVars>>

\* The badge is cleared, whatever it has heard of since the list was asked for.
ReceiveList(f) ==
    /\ f \in fetches /\ f.stage = "answered"
    /\ fetches' = fetches \ {f}
    /\ badge' = 0 /\ list' = f.rows /\ loading' = FALSE
    /\ missed' = missed \ f.rows
    /\ buried' = (buried \cup list) \ f.rows
    /\ UNCHANGED <<apiVars, wire, isOpen, timers, opens, marking>>

\* Nothing catches it: the spinner stays until a later list arrives.
FetchFails(f) ==
    /\ f \in fetches
    /\ fetches' = fetches \ {f}
    /\ buried' = buried \cup f.rows
    /\ UNCHANGED <<apiVars, wire, widgetVars, marking, missed>>

-----------------------------------------------------------------------------
WorkerStep == \E i \in Ids : Store(i) \/ Publish(i) \/ PublishFails(i)

StreamStep == Connect \/ Refuse \/ Count \/ GoLive \/ Disconnect

WidgetStep ==
    \/ OnMessage \/ OpenPopover \/ ClosePopover
    \/ \E rows \in timers : TimerFires(rows)

ListStep ==
    \/ \E f \in fetches : AnswerFetch(f) \/ ReceiveList(f) \/ FetchFails(f)
    \/ \E rows \in marking : MarkAsRead(rows) \/ MarkFails(rows)

OnScreen == IF isOpen /\ ~loading THEN list ELSE {}

Next ==
    /\ WorkerStep \/ StreamStep \/ WidgetStep \/ ListStep
    /\ seen' = seen \cup OnScreen'

Spec == Init /\ [][Next]_vars

-----------------------------------------------------------------------------
(* Properties.                                                             *)

\* A badge of 0, with which opening the popover asks for nothing, never hides an
\* unread row, but for the windows the code leaves: the row's message was not
\* published, or found the stream not yet live or down, or was on a connection
\* that broke; it was heard while a list was being fetched, whose arrival clears
\* the badge; or the list that had it was lost or overwritten.  The next message, or
\* count of a new connection, that meets no list on its way makes good what was missed.
NoRowForgotten ==
    badge = 0 =>
        Unread \subseteq unpublished \cup list \cup missed \cup buried
                           \cup UNION {wire[k] : k \in DOMAIN wire}

\* The API marks rows as read before anybody has seen them.  Each of them was
\* shown, or is in the list the popover will show, or on its way to it, but for
\* lists that got lost or were overwritten: by an older answer, or by the timer of
\* a popover that was closed before its list came.
ReadWasDelivered ==
    \A i \in Ids : row[i] = "read" =>
        \/ i \in seen \cup list \cup buried
        \/ \E f \in fetches : i \in f.rows
=============================================================================
