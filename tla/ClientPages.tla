---------------------------- MODULE ClientPages ----------------------------
(***************************************************************************)
(* The pages of the client, with the API each of them talks to.  They      *)
(* share no state that one of them changes under another: a page keeps its *)
(* own, and asks for what it shows.  So the pages together are the         *)
(* conjunction of the parts, and what a part promises it promises          *)
(* whatever the others do.                                                 *)
(***************************************************************************)
EXTENDS KanbanBoard

CONSTANTS
    InboxIds, MaxTurns,                                 \* NotificationInbox
    CachedArgs, Requests, MaxChanges, MaxCommands,      \* DebateCache
    ReadArgs, Counters, MaxReads, MaxReadings,          \* DebatePage
    Author, MaxTyped, MaxSaves, MaxItemOpens, MaxDrops, MaxMoves,   \* ReviewedItem
    Debates, MaxForms, MaxSends, MaxFormChanges,        \* ArgumentForm
    Tags, TagsOf, Searched, Titled, Unsendable, NewName, MaxSearched, MaxClicks,
    MaxSearches, MaxCreated, MaxPublished               \* DebateSearch

VARIABLES
    \* NotificationInbox
    row, unpublished, stream, counted, wire, streams, isOpen, loading, badge, list,
    fetches, marking, timers, opens, missed, buried, seen,
    \* DebateCache
    published, undeleted, changes, request, cache, commands, stale,
    \* DebatePage
    args, contents, expanded, reads, asked, readings, excused, thread,
    \* ReviewedItem
    itemRow, itemTicket, socket, room, fetch, item, editing, field, editor, touched,
    onTime, toServer, running, stored, toPage, typed, saves, itemOpens, drops, moves,
    calm,
    \* ArgumentForm
    store, form, formPage, formRow, formFetches, formChanges, formKept, visit,
    updating, clearing, timer, posts, sends, astray, raced, foreign,
    \* DebateSearch
    accepted, listed, text, unfolded, strategy, picker, isDialogOpen, inputTimers,
    searches, searched, clicks, searchSends, createdTags, publications, ordered, answered

inboxVars ==
    <<row, unpublished, stream, counted, wire, streams, isOpen, loading, badge, list,
      fetches, marking, timers, opens, missed, buried, seen>>
cacheVars == <<published, undeleted, changes, request, cache, commands, stale>>
readingVars == <<args, contents, expanded, reads, asked, readings, excused, thread>>
itemVars ==
    <<itemRow, itemTicket, socket, room, fetch, item, editing, field, editor, touched,
      onTime, toServer, running, stored, toPage, typed, saves, itemOpens, drops, moves,
      calm>>
formVars ==
    <<store, form, formPage, formRow, formFetches, formChanges, formKept, visit,
      updating, clearing, timer, posts, sends, astray, raced, foreign>>
searchVars ==
    <<accepted, listed, text, unfolded, strategy, picker, isDialogOpen, inputTimers,
      searches, searched, clicks, searchSends, createdTags, publications, ordered, answered>>

Inbox == INSTANCE NotificationInbox WITH Ids <- InboxIds, Unknown <- Null

Cache == INSTANCE DebateCache WITH Args <- CachedArgs, None <- Null

Reading == INSTANCE DebatePage WITH
    Args <- ReadArgs, None <- Null, MaxVisits <- MaxReadings, visits <- readings

Item == INSTANCE ReviewedItem WITH
    Moderators <- {Me}, None <- Null, MaxOpens <- MaxItemOpens,
    row <- itemRow, ticket <- itemTicket, opens <- itemOpens

Form == INSTANCE ArgumentForm WITH
    None <- Null, MaxVisits <- MaxForms, MaxChanges <- MaxFormChanges,
    row <- formRow, page <- formPage, fetches <- formFetches,
    changes <- formChanges, kept <- formKept

Search == INSTANCE DebateSearch WITH
    Texts <- Searched, None <- Null,
    MaxTyped <- MaxSearched, MaxSends <- MaxSearches, MaxChanges <- MaxPublished,
    published <- accepted, expanded <- unfolded, timers <- inputTimers,
    requests <- searches, typed <- searched, sends <- searchSends,
    changes <- publications, shown <- answered

ASSUME PagesBounds ==
    /\ {MaxTurns, MaxChanges, MaxCommands, MaxReads, MaxReadings, MaxTyped, MaxSaves,
        MaxItemOpens, MaxDrops, MaxMoves, MaxForms, MaxSends, MaxFormChanges,
        MaxSearched, MaxClicks, MaxSearches, MaxCreated, MaxPublished} \subseteq Nat
    /\ MaxReadings # 0

\* The author's page is not the moderator's.
ASSUME AuthorIsAnother == Author # Me

\* Of notifications there are as many as were stored.
ASSUME InboxIsFinite == IsFiniteSet(InboxIds)

\* The ids of tags made in the dialog (Date.now()) are no tag's.
ASSUME TagsOfDebates ==
    TagsOf \in [Debates -> SUBSET Tags] /\ Tags \cap 1 .. MaxCreated = {}

\* JavaScript's null and undefined are no number and no object.
ASSUME NullIsNothing ==
    /\ Null \notin Nat
    /\ \A tags \in SUBSET Tags : tags # Null
    /\ \A value \in Search!TagValues : value # Null
    /\ \A filters \in Search!Filters : filters # Null

PagesSpec ==
    /\ BoardSpec
    /\ Inbox!Spec /\ Cache!Spec /\ Reading!Spec
    /\ Item!Spec /\ Form!Spec /\ Search!Spec

-----------------------------------------------------------------------------
(* Properties.                                                             *)

\* The variables of every part have values of their types.
PagesTypeOK ==
    /\ BoardTypeOK
    /\ Inbox!TypeOK /\ Cache!TypeOK /\ Reading!TypeOK
    /\ Item!TypeOK /\ Form!TypeOK /\ Search!TypeOK

\* The badge and the list of notifications (NotificationInbox).
NoRowForgotten == Inbox!NoRowForgotten
ReadWasDelivered == Inbox!ReadWasDelivered

\* The API's cached debate (DebateCache).
CacheIsTrue == Cache!CacheIsTrue

\* What is expanded on the page of a debate (DebatePage).
ExpandedIsRead == Reading!ExpandedIsRead

\* The item under review on its author's and its moderator's pages, and what a
\* save may change (ReviewedItem).
ItemInStep == Item!ItemInStep
UntouchedStays == Item!UntouchedStays

\* What the form of a new argument sends, and keeps of a draft (ArgumentForm).
ArgumentsFit == Form!ArgumentsFit
DraftKeepsCounter == Form!DraftKeepsCounter

\* The list of debates and its filters (DebateSearch).
ListIsAsked == Search!ListIsAsked
=============================================================================
