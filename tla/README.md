# Decent Debates: specification, model checking and proofs

TLA+ modules of Decent Debates, a moderated debating platform, with the TLC
configurations that check them and theorems that TLAPS proves. Paths below are
relative to the repository; `E` stands for `apps/api/src/entities`.

## The system

A NestJS API over PostgreSQL and Redis, a Next.js client, and a worker that
turns queued jobs into notifications. Authors propose debates and arguments
(an argument may first be a draft). Each submission brings a *ticket*, the
moderation record; moderators move tickets over the lists PENDING, IN REVIEW,
CANCELED and ACCEPTED, and what is on ACCEPTED is public. Author and moderator
meet in a review room (a websocket room per ticket), where the item can still be
edited and commented on. Approvals, submissions and comments enqueue
notifications, which reach the browser as a count over server-sent events.

| component | state | operations | what is hard |
|---|---|---|---|
| moderation core (`E/debates`, `E/moderator`) | tables ticket, debate, argument | create, draft, submit, edit; move, approve | concurrent statements at READ COMMITTED, no constraints in the schema between the tables, resubmission |
| tags (`E/debates`, `createDebate`) | debate_tag, assoc_debate_tag | insert what is new, associate | look-up and insert in concurrent transactions |
| debate cache (`E/debates/debates.controller.ts`) | one Redis key per debate, 60 s | fill on a miss, delete on approval | a fill that read before the approval |
| notification pipeline (`E/notification/notification-queue.ts`, worker) | BullMQ queue, table notification | enqueue, run, retry, publish | crash between commit and enqueue, retries after a partial success |
| notification stream and inbox (`E/notification`, `NotificationWidget.tsx`) | a Redis subscription, the badge | count, stream, mark as read | count and subscription are two steps; reconnects |
| rich text (`utils/rich-editor.ts`) | one editor for the process | insert, read a turn later, clear | two requests in the same turn |
| review room (`E/review`, `E/comment`) | rooms, table ticket_comment | join, leave, comment, edit | handlers that fail, messages before joining, order of broadcasts |
| moderators' board (`client/src/app/activity`) | optimistic board | drop, approve | stale handlers, unordered requests |
| page of a debate (`client/src/app/debates/[id]`) | contents in the page, what is expanded in the store | read, expand, follow a thread | answers over the state of the click, the next visit |
| form of an argument (`client/.../new-argument`) | form, store, draft | open, fill in, save, submit | effects against timers, the store of an earlier page |
| review of an item (`client/src/app/review`, `E/review`) | item, form and editor of two pages, row | edit, cancel, save, broadcast | saves in flight, read against join, lost connections |
| accounts (`auth`, `E/user`, guards) | users, cookie session | register, log in, guards | unique names under concurrency |
| shutdown (`connection-drain.ts`, `packages/telemetry`) | draining flag, hooks | drain, time out | timeout against late ends, two signals |
| connection pool (all services) | clients of `pg.Pool` | connect, release | paths that do not release |
| search and page assembly (pipes, `DebatesClient.tsx`, `DebateFilters.tsx`, `Tags.tsx`) | filters, pickers of tags, listed debates | type, choose tags, apply | debounced handlers of old renders, answers that overtake |

Not modelled: accounts, rendering, logging, metrics and tracing, build and
deployment (see the end).

What makes each component correct, and where it could go wrong, is listed with
source lines under `hazards` in `PROJECT.json`.

## The modules

| module | models | |
|---|---|---|
| `Moderation` | the moderation core | tables as functions from ids to rows, one action per statement or transaction |
| `ReviewLifecycle` | abstract: the life of one item | no tickets: a stage, a moderator in charge, a text |
| `ModerationLifecycle` | the refinement mapping from `Moderation` | once for arguments, once for debates |
| `ModerationProofs` | theorems about `Moderation` | with the refinement of `ReviewLifecycle` |
| `DebateTags` | `createDebate` as concurrent transactions over the tag tables | one action per statement |
| `DebateTagsProofs` | theorems about `DebateTags` | |
| `Notifications` | enqueueing, BullMQ's job, the worker, the table | crashes, lost answers, retries |
| `NotificationDelivery` | abstract: what the pipeline promises | no jobs, no workers |
| `NotificationsProofs` | theorems about `Notifications` | with the refinement of `NotificationDelivery` |
| `RichEditor` | the editor all requests share | turns of Node's event loop |
| `RichEditorProofs` | theorems about `RichEditor` | |
| `ReviewRoom` | the room, its handlers and pages, comments | one ticket |
| `ReviewDiscussion` | abstract: what a review promises to those who discuss it | messages, comments, what readers see; no sockets, rooms or handlers |
| `ReviewRoomProofs` | theorems about `ReviewRoom` | with the refinement of `ReviewDiscussion` |
| `KanbanBoard` | the moderators' board over the tables of `Moderation` | EXTENDS it; a page, its cards and its requests |
| `KanbanBoardProofs` | theorems about `KanbanBoard` | |
| `NotificationInbox` | one user's stream of counts and the widget | counts as the sets of rows they stand for |
| `DebateCache` | `GET /debates/:id` through the cache, and approvals | Redis commands of one connection |
| `DebatePage` | the reader's page of a debate | visits, contents, threads |
| `ReviewedItem` | the item under review: its author's page, a moderator's, the gateway | next to `ReviewRoom`, which has the comments |
| `ArgumentForm` | the form of a new argument or a draft | effects and timers of the form, the store |
| `DebateSearch` | the list of debates, its filters, the pickers of tags | debounce, from the form to the SQL |
| `ApiProcess` | requests, the pool and the shutdown of the API | one process |
| `ApiProcessProofs` | theorems about `ApiProcess` | |
| `ClientPages` | the pages with the parts of the API they call, composed | EXTENDS `KanbanBoard`, instantiates the six others; they share no variable |
| `ClientPagesProofs` | theorems about each part of `ClientPages` | the board's are those of `KanbanBoardProofs` |
| `MCPages` | instance of `ClientPages` for TLC | one part explored at a time, chosen in `focus` |
| `MC...` | instances for TLC | symmetry where only `Next` and invariants look at the values |

`Moderation` and `ReviewRoom` meet in `assigned_to`, `Moderation` and
`DebateTags` in `createDebate`, `RichEditor` and `Notifications` in the promise
that renders a text and enqueues a job. Each side takes the other as free: the
room's ticket is reassigned at any moment, tags come and go with transactions that
may fail at any statement, and a rendered text may never be enqueued. So do the
pages: `DebateCache` and `DebateSearch` see debates and arguments published and
taken off, `NotificationInbox` sees the worker's rows, `ReviewedItem` the moves of
its ticket. `KanbanBoard` has `Moderation` itself beneath it.

### Moderation

`ticket`, `debate` and `argument` are the tables of
`packages/db/migrations/20261015000000_init.ts`; titles, contents and argument
types are one abstract text. A transaction that only inserts, or that reads and
writes a single row, is one action: PostgreSQL evaluates the `where` clause again
on the row it locks. `updateArgument` and `updateDebate` also test a row of
`ticket`, which PostgreSQL reads in the statement's snapshot and does not read
again, so they are two actions with the statement in `updates` between them.

| action | code |
|---|---|
| `CreateDebate`, `CreateArgument`, `SaveArgumentAsDraft`, `UpdateDraft`, `SubmitDraft` | the methods of `DebatesService` of those names |
| `BeginUpdateArgument` / `FinishUpdateArgument`, `...Debate` | `DebatesService.updateArgument`, `updateDebate` |
| `UpdateTicket`, `ApproveTicket` | `ModeratorService.updateTicket`, `approveTicket` |

Authors include moderators: those endpoints ask for a session and no role.
The ids a request names, the list it asks for and the moment it arrives are
free, because the API takes them from the request.

### ReviewLifecycle

What the tables promise about one item. `ArgumentLifecycle` and
`DebateLifecycle` say that every behaviour of the tables is a behaviour of it,
item by item: only the moderator in charge moves or publishes the item, whatever
is resubmitted, edited or moved at the same time. Who acts is not in the tables;
`ModerationLifecycle` adds a history variable `by`, the moderator whose request the
last step carried out, and the abstract moves are allowed to that moderator only.

### DebateTags

`createDebate` looks the typed names up and inserts what is missing
(`InsertTags`: an `insert ... select` without an `order by`, so in any order), inserts
ticket, debate and associations (`InsertDebate`), and commits or rolls back.
`Committed` is what a statement at READ COMMITTED sees. A serial number used by a
transaction that rolled back stays used. The look-up
compares the trimmed new name with the stored one, so a name stored with blanks is
never found; blanks are therefore part of a name and letter case is not. Commits
are visible in the order of the steps; a rollback may come at any statement.

### Notifications and NotificationDelivery

| action | code |
|---|---|
| `Announce` | a service or gateway method emits its event after the commit; a listener starts rendering and nobody awaits it |
| `Enqueue`, `EnqueueFails`, `ApiStops` | `NotificationQueue`'s add, its failure, the end of the process |
| `TakeJob`, `Retry`, `WorkerDies`, `RecoverStalled` | BullMQ (external), from the options in `app.module.ts` and the processor |
| `Store`, `StoreFails`, `StoreUnconfirmed` | the `insert` of `notification.processor.ts`, which may commit without its answer arriving |
| `Publish`, `PublishFails`, `Complete` | the publication, whose error is caught, and the end of the attempt |

`NotificationDelivery` keeps per event a status, an audience and how often each
account has it. The mapping forgets attempts, stalls and steps of the worker.

### RichEditor

A poll phase in which callbacks insert texts and ask for content, then a check
phase in which the immediates run in order; each reads the whole editor and clears
it. Lexical's nodes are left out: a text is one value, the editor a sequence.

### ReviewRoom and ReviewDiscussion

A page has a socket (`none`, `connecting`, `open`, `down`, `closed`) and a list of
comments it fetches independently of it. Messages of a socket start in order
(`Start`); their statements (`Store`, `HandlerFails`, `StoreUnconfirmed`) and what
follows them (`Broadcast`) are interleaved freely, since each statement takes a
connection of its own. A message handled before `handleConnection` has found the
session fails. A reconnected socket is another one to the server (`nth`), so a
handler of the old one neither reaches nor removes the new one. The variables
`texts`, `unheard` and `calm` record history for the properties and no action
reads them.

`ReviewDiscussion` has messages that wait with their senders, comments, and what each
reader sees. A message is carried out once, as a comment or as the new text of its
sender's comment, or is lost. In the mapping, a message waits while it is in its page's
queue or with a handler whose statement has not ended (`awaited`), and a reader sees what
the page shows, as a set of comments with texts (`views`). `Store` and `StoreUnconfirmed`
are `Post` or `Edit`; what fails or loses its connection is `Lose`; `Receive`,
`ShowComments` and the ends of pages are `See`; the rest stutters.

### KanbanBoard

The page of one moderator. The screen shows `shown`, the lists of the latest
render; a drop works on `kept`, those of the render whose handlers `useDrop` keeps
(it has no dependencies), so an approval reaches the one and not the other. Cards
are objects that both sets of lists share, changed in place by some steps and
replaced by others, hence `card` as a function from objects to fields. `Drop` and
`Approve` send requests that are carried out in any order (`HandleMove`,
`HandleApprove`, which are `Moderation`'s statements) and answered or lost.

### NotificationInbox

`Count` is the query of unread rows, `GoLive` the moment the subject is subscribed
to; the two are `concat`ed, with a window between them. `OnMessage` adds up what
comes, so a reconnected stream adds its whole count again. Opening the popover
fetches only when the badge is not 0; the answer sets it to 0, and the API marks
the rows in an update nobody waits for (`marking`).

### DebateCache and DebatePage

A reader that missed the cache reads the rows, answers, and stores them with a
`set` that nobody awaits; an approval sends its `del` after its statement. Commands
of the client are carried out in the order they were sent, or fail. `DebatePage`
keeps, as the code does, which arguments are expanded in the store and their
contents in the component, and an answer writes into the contents of the render in
which it was asked for.

### ReviewedItem

An author's page and moderators' pages; the author's has the item, the form field
and the editor, which agree only as far as the code sees to it. An update passes
`SaveChanges`, `StartHandler`, `Store` (or a failure, or a commit nobody learns of)
and `Broadcast`, after which it is news to the room and an acknowledgement to its
sender. A page that left or lost its socket no longer hears of its own (`mine`).

### ArgumentForm

`EffectRuns`, `Later` and `TimerFires` are React's effects and `setTimeout(..., 0)`;
`DebateCame` and `DraftCame` are answers, which an earlier page's request may also
get and which fill the store whichever page is open. A submission is for the debate of the
store or of the URL, depending on its kind, as in the code.

### DebateSearch

Each render of `DebateFilters` gives its input a new debounced handler while the
timers of earlier ones go on; a timer reads the fields when it fires, but whether
tags are used is what its render knew. `Transform`, `Passes` and `TagFilters`
are the pipe and the SQL. The tags of a picker are those listed when it was
mounted or cleared.

A debate without tags is in no answer, since the SQL joins with the tags
(`Tagged`), whatever the filters.

### ClientPages

The parts above, from `KanbanBoard` to `DebateSearch`, each with its part of the API.
`PagesSpec` is the conjunction of their specifications: a page keeps its own state and
sees the others only through the API, where each part already takes rows to change at
any time. So what holds of a part holds whatever the others do.

### ApiProcess

Connections with one request at a time, a pool that serves in order, and the
steps of `closeApp` in theirs: streams complete, the server waits for its
connections, the pool for its clients, Redis closes. `closeAfterResponse` is
`DrainOf` for responses in flight when the drain starts and `CloseOnArrival` for
later ones. A client of the pool is `leaked` when a look-up of an account, or the
list of debates before its `try`, fails between taking and releasing it.

## What is checked

| run | asks | result |
|---|---|---|
| `moderation` | a moderator for every ticket off PENDING, one author for item and ticket, drafts without tickets, published items frozen | holds, 491 928 states |
| `lifecycle` | one item per ticket; the tables implement `ReviewLifecycle` for a debate and for two arguments | holds, 301 759 states |
| `tags` | a typed name is a tag of the debate unless its look-up found the word, a debate shows its own tags, duplicates only by overlap | holds, 2 025 223 states |
| `notifications` | every row accounted for, duplicates bounded, told means stored; `Notifications` implements `NotificationDelivery`; what is enqueued settles | holds, 563 836 states |
| `editor` | each text is sent exactly once, in its turn; every promise resolves | holds, 1 517 states |
| `review_room` | the room implements `ReviewDiscussion`, nobody is deaf unknowingly, no comment is missed, every message is answered | holds, 580 894 states |
| `api_process` | the pool outlives requests, exit code 0 means everything was answered and released, a shutdown ends | holds, 735 963 states |
| `pages` | see below | holds, 2 156 694 states |
| `pending_unassigned` | is a waiting ticket unassigned, as the moderator test says? | violated |
| `ticket_has_item` | does every moderation record belong to an item, as the readme's remark on atomic submission says? | violated |
| `tagged_debate_listed` | is a debate with tags on the moderators' board, as the readme has it? | violated |
| `own_text` | is a notification's text that of its event, as the comments of the events say? | violated |

State counts are distinct states, after symmetry.

What `pages` asks, part by part, besides the types of all (`PagesTypeOK`):

* `BoardComplete`: a loaded ticket never vanishes from the board, and one that
  was not approved on this visit is one card in one list, on the screen as in the
  handlers. `InStep`: the board agrees with the table about tickets whose requests
  are all done, that nobody touched elsewhere, and that were not approved here before
  the latest drop.
* `NoRowForgotten`: a badge of 0 never hides an unread row, `ReadWasDelivered`: a
  row marked as read was shown or is on its way to the screen. Each names the windows
  in which this fails: between count and subscription, while the stream is down,
  while a list is on its way, and a list that was lost or overwritten. What the first
  three took from the badge is made good by the next message or count that meets no
  list on its way.
* `CacheIsTrue`: the cached rows are the published ones, unless an argument was
  taken off (which deletes nothing), a deletion failed, or the rows were read
  before an approval and stored after its deletion.
* `ExpandedIsRead`: what is expanded has its content, unless there was another answer
  that was still to come when its own answer came, or was of an earlier visit; of
  answers that overlap the last has its content.
* `ItemInStep`: when everything has arrived, both pages and the editor show the
  row, unless one of the listed events passed the page by. `UntouchedStays`: a save
  changes only what was typed, although it sends all fields.
* `ArgumentsFit`: an argument and what it counters are in the debate of its page,
  on opposite sides; the debate may be another's only after an answer to an earlier page
or when the side and the counter were chosen before this page's own answer came
(`astray`, `foreign`). `DraftKeepsCounter`: opening and sending a draft again does not
  lose what it counters.
* `ListIsAsked`: what is listed is the answer to a request that was really made, for
  its text and tags, and to the text in the input when nothing is pending and all
  answers came in order.

The exceptions are weaknesses of the code, written down as exactly as they could
be: each was found as a counterexample to the plain statement, and the property
says that nothing else goes wrong. A hazard of `PROJECT.json` that such an exception
covers entirely lists no property: the code has it, and no run would show it getting
worse. History variables (`missed`, `buried`, `stale`, `excused`, `calm`, `onTime`, `astray`, `raced`, `foreign`, `ordered`) record them, and no
action reads them for anything but history.

### Bounds

* `moderation`, `lifecycle`: three tickets are a debate's, an argument's and the
  one of a resubmission, which is what the invariants about shared and abandoned
  tickets need; two moderators are what ownership needs; one statement in flight is
  overtaken by any number of other actions; two texts tell an edit from what was
  there. `lifecycle` has two arguments, so that a step that moved both would show,
  one text, and moderators as the only authors.
* `tags`: two overlapping transactions and a third that comes before or after
  both; two typed names each, which may be the same, padded or not, and five altogether;
  two words.
* `notifications`: two events compete for a worker of concurrency 1; the code's
  three attempts and one stall are taken as they are, and the worker may die
  twice, once more than a job survives.
* `editor`: four events give turns with one, two, three and four of them, and
  several turns in every order.
* `review_room`: the author's page and a moderator's, two messages (a comment and
  an edit of it, or two comments), one lost connection, one change of
  `assigned_to`. So the moderator's page is an outsider's before `Assign`, or
  after it, and a message may meet any state of the other's page.
* `api_process`: two connections and a pool of one client, so that one request waits
  for the other's client, or finds it leaked, and one is in flight while another
  arrives. Requests per connection, failures and clients that leave are not bounded.
* `pages`: the parts share no variables, so each is explored with the others in
  one initial state (`focus`; the view tells states apart by what is explored), and the
  states add up instead of multiplying.
  * board: two tickets, of debates, that start PENDING with nobody or IN REVIEW with
    anybody; three requests, two moderators, one visit, one change from
    elsewhere; four card objects, since loading makes two and each drop from or to
    PENDING one more.
  * inbox: two rows, which may be there from the start; three connections
    of the stream and openings of the popover together, so that a stream comes back
    to a badge it counted into before, and a list is overwritten by an older one.
  * cache: two arguments, two readers, two approvals or removals, two Redis
    commands at a time. reading: a chain of three arguments, three reads, two visits.
  * item: the author, one moderator, one change typed, two saves, two page
    openings, one lost connection or one move of the ticket.
  * form: two debates, one submission, two visits and two changes, three of them
    together; a draft is on the side a new form has and counters nothing, or on the other
    and counters something. Debates are interchangeable, so the draft is in a given one.
  * search: two debates, one with a tag and one with both; two texts, one that
    `btoa` refuses; two changes of the text and three clicks, four of them
    together, two requests, one created tag, one debate published or taken off.

### Fairness

The invariants, `ReviewLifecycle`, `NotificationDelivery` and `ReviewDiscussion` need none.
The liveness properties assume:

* `Notifications`: a worker runs and takes waiting jobs, and its statements and
  publications end, well or not (a worker that died is started again by whoever
  operates it); BullMQ promotes delayed jobs and finds stalled ones, which
  is its documented work. Nothing is assumed of the API's unawaited promises, so
  `EnqueuedSettles` starts from an enqueued job: an announced one may be lost.
* `RichEditor`: the event loop goes on. No fairness of requests.
* `ApiProcess`: a request's own steps, the pool and the steps of the shutdown go on
  when they can, idle connections end after `keepAliveTimeout`. Clients are owed
  nothing: they may stay connected and ask for ever. The timeout fires only when
  something is stuck, that is, steps that can go on are taken to be done within its 15 s.
* `ReviewRoom`: a connected socket delivers, session look-ups and statements end,
  and what waits for a statement goes on. Pages need not open, close, send or reconnect.

Deadlock is not checked in `tags`, `notifications`, `editor`, `review_room`,
`api_process` and `pages`, nor in `own_text` and `tagged_debate_listed`, whose behaviours end when all
requests are carried out or the bounded messages are used up.

### Disagreements with the repository's own words

* `pending_unassigned`: `updateTicket` assigns the caller whenever the row *is*
  PENDING, before it looks at where the ticket goes. A board that is out of date
  asks for PENDING twice, and the second request assigns the ticket. The trace:
  submit, move to PENDING.
* `ticket_has_item`: `submitDraft` commits its ticket even when its update finds
  no row, and a second submission of the same draft abandons the first ticket.
* `tagged_debate_listed`: `createDebate` drops a typed name that the tag table
  already has instead of using its row, so a debate may end up without any tag;
  the boards join with the tags and never list it.
* `own_text`: two events rendered in one turn of the event loop share the editor.
  The first notification has both texts, the second none.

Two more were met while modelling and have no run. `createDebate` says that it
ensures no duplicate tags; `DuplicatesOverlap` states exactly when it does: not
against an overlapping transaction, within one request, or over a name kept with
blanks. And the readme says that a created ticket notifies the moderators, while
`submitDraft` enqueues nothing.

## What is proved

Every safety property that a passing run checks (types, invariants, action properties
and the refinements of `ReviewLifecycle`, for arguments and for debates, of
`NotificationDelivery` and of `ReviewDiscussion`) is the statement of a theorem, for all
values of the constants. The bounds of the models (`MaxInFlight`, `MaxMessages`, `MaxReads`,
`MaxVisits` and the like) are among these constants: the theorems hold whatever the
bounds are. Each module of theorems defines an inductive invariant, proves that `Init` has
it and that each action keeps it (a lemma per action, where it takes more than a line),
and derives the properties.

### The tables

`ModerationProofs`, for any accounts, ids, texts and statements in flight:

* `IInv`, the conjunction of the type invariant with `ReviewedHasModerator`,
  `TicketOfItsAuthor`, `DraftIffNoTicket` and `OneItemPerTicket`, is inductive, hence
  `Consistent`, and a theorem for each part. The parts need each other: a new ticket is not
  some item's because every item's ticket is in the table (`TicketOfItsAuthor`); an
  accepted argument is no draft (`DraftIffNoTicket`), so `UpdateDraft` passes it by.
* `PublishedIsFrozen`, from the same invariant: one step per action, for
  arguments and for debates.
* `ArgumentsImplement`, `DebatesImplement`: the tables implement `ReviewLifecycle`
  through the mapping of `ModerationLifecycle`, one lemma per action that says which
  abstract step it is, or that it stutters. A step on one item's ticket leaves the others
  where they are because no two items share a ticket, and a ticket's list is the item's
  stage because every item's ticket is in the table.
* `ChargeDecidesArguments`, `ChargeDecidesDebates`: what the refinements say of an item under
  decision. Only the moderator in charge changes its stage or hands it over, unless
  its author's resubmission puts it back to wait; whoever publishes it is in charge of it.

`DebateTagsProofs`, for any names, requests and tags: `TypedTagsThere`, `OwnTagsShown` and
`DuplicatesNeedOverlap`. Inductive (`TInv`) are the associations a debate must have,
that each typed name of a request past its look-up has a row that the request inserted
or had seen, that what was seen is committed, and that a row is inserted only if no row of
its word was seen. `TypedTagsThere` says when a debate has the tag its author typed: always,
unless its own look-up found the word. The other case is the disagreement
`tagged_debate_listed`.

### The queue, the editor, the process

`NotificationsProofs`, for any events, accounts and limits:

* `Invariant`: the type invariant, `RowsAccounted`, and two facts about each event
  that make the rest inductive. `Paid`: each time a job does not learn that it
  stored its rows costs it an attempt or a stall, and until it has failed it has
  some of both left. `Addressed`: what was stored, and so what was published, is
  addressed to accounts. Hence `TypeCorrect`, `EveryRowAccountedFor`, `DuplicatesAreBounded`
  and `ToldMeansStored`.
* `Implements`: `Spec => Pipeline!Spec`. Every action maps to an action of
  `NotificationDelivery` or to a stutter; closing needs that a published job has
  its rows, which is `RowsAccounted`.
* `JobsRunOut`: each step of a queued job lowers `StepsLeft`, a number made of the attempts
  and stalls the job has left (7 steps for each) and of the way to the end of the running
  attempt; steps of anything else leave it alone. So a job has finitely many steps, and
  `EnqueuedSettles` adds that they are taken.
* `SettledStays`: what is completed, failed or lost is not stored or published again.

`RichEditorProofs`, for any events: `TextsKept` and `EveryTextIsSentOnce`. Until the first
immediate of a turn runs the editor has the texts of all its immediates in their order,
afterwards none; each text is in the editor or once in one content.

`ApiProcessProofs`, for any connections and any size of the pool: `Ordered`,
`PoolOutlives` and `ZeroIsClean` (the pool ends only when no connection is open, Redis is
closed only when the pool has all its clients back, and 0 comes only of a closing that
returned); `PoolNotOverdrawn` (whoever waits for a client is in the pool's queue once,
and what is held and what is leaked are together at most the pool), which gives
`TypesHold`. `DrainReachesAll`: while the process drains, every request, also one that comes
on a kept-alive connection, has the header or the listener that closes its connection;
hence `AnswersAreLast`: when its response ends the connection is gone, or the sweep of
idle connections is still to come. That is the safety half of `ShutdownEnds`.

### The review room

`ReviewRoomProofs`, for any pages, messages, lost connections and moves of the ticket:

* `Known`: `KInv`, which says of all that is on its way, runs, is stored, answered or
  shown that it is of comments there are, with texts they had. Hence `OnlyStoredIsShown`.
* `NobodyIsDeaf`, over `KInv`: of a connected page out of the room the error stays on its way.
* `ShowsAllThereIs`, over `KInv` and `MInv`. `MInv` strengthens `NothingMissed` to pages that
  were answered but show nothing yet, and to what is on its way: a calm page has, or is about
  to hear of, every comment but those whose handler has yet to broadcast and those
  stored without its handler knowing. It needs that only connected sockets are in the
  room, and that a calm page with a list is connected, so it does not join anew.
* `AtMostOneComment`: messages that wait or are handled have numbers of their own, and
  there is an injection from comments to messages no longer among these. So no loss,
  failure or reconnection runs a handler twice, and the ids suffice: `TypesHold`.
* `KeepsDiscussion`: the room implements `ReviewDiscussion`, over `KInv` and `Numbered` (the
  invariant of `AtMostOneComment`: since numbers differ, carrying out one message
  takes away no other).
  From the refinement and the same invariants, `EffectsAreSingle` (the text of a message
  is of one comment at most, and then the message waits no longer) and `CommentsRemain`
  (no comment is deleted or taken over, and its text changes only to that of a waiting
  message of its author's).
* `NoSilence`, over `Own` (what waits in a page's queue is that page's, and what a handler
  stored has the text of its message): whichever step ends the handling of
  a message, its sender has the answer or the error
  as its last event, unless its socket is gone. That is the safety half of
  `EveryMessageAnswered`.

### The board

`KanbanBoardProofs`, for any tickets, card objects, requests, visits and moderators:

* `NoCardLost`, over `BInv`: each request knows its card, and the lists of the first
  render and of the latest have every ticket, although an approval changes the one and not
  the other.
* `BoardInStep`, over `SInv`: a ticket that nothing disturbed has at most one request
  somebody still waits for. If it is a move, the screen already shows what the statement
  will store; if an approval, what is stored until the answer comes. The ticket's row is what
  the screen shows once there is none.

### The pages

`ClientPagesProofs` proves of each part of `ClientPages`:

* `CacheHolds`: rows to be stored or in a reader's hand are the published ones, or are
  marked late, or have a deletion behind them in the order of Redis' commands or yet to be
  issued.
* `ExpandedHasContent`: each answer still to come to this visit starts from contents that
  have what is expanded without an excuse, and what is expanded without one has its content.
* `NoneForgotten`, `ReadDelivered` (`InboxInv`): a list on its way to the page has the
  unread rows that nobody told, or will tell, the page of; what is to be marked was in a list.
* `ListHolds` (`SearchInv`): a request carries the form it was made from and its answer is
  that form's; while nothing failed or was overtaken the last request is on its way or
  listed, and once no timer is left it was made with the text of the input.
* `FormFits`, `DraftHolds` (`FInv`): what is stored, posted, in the fields or with the
  timer fits side and debate; only a side whose effect has yet to run may have a counter
  that does not fit. What a draft counters is with the timer, or in its field with no effect
  to come; a page that waits for its draft has set no timer.
* `ItemHolds`, `SavesOnlyTyped` (`ItemInv`): `Latest` is what a page will show (the last
  stored update, else the last event on its way, else what it shows or was answered), and
  that is the row, for the author's page and a moderator's. The editor has what the latest
  save has or will have stored. A save begun in time is the only text on its way, and differs
  from the row in what was typed.
* `PagesTyped`, over the types of all parts: updates and counters stay within their
  bounds because an author's update is in one place only, and the updates of an earlier
  socket come first in its queue.

### Assumptions

On constants, each named in the module that declares it and evaluated by TLC: ids are
numbers and null is none of them, nor an object or a set (JavaScript's and SQL's null); no
account has two roles, and the author's page of a review is not the moderator's; ids of
tags made in the dialog are times (`Date.now()`) and no tag's; connections, stored
notifications and the pool are finite; the cards the board makes when it loads, one per
ticket, are among its card objects; bounds are numbers.

### What the proofs changed in the models

Attempts that failed for a reason were checked against the code, and these models
corrected:

* `InsertTags` inserted missing names in the order typed, which the statement does not promise.
* `DebateSearch` listed debates without tags, which the join drops (`Tagged`).
* A draft in `ArgumentForm` keeps, across submissions, that it was written for another
  page's debate or counters another's argument (`astray`, `foreign`); and a draft is `raced`
  only once its timer has fired before the effect.
* In `ReviewedItem`, updates left behind by a closed socket are the first in their queue
  (`OrphansFirst`, `Others`), which the model had left to a filter of the queue; without it
  nothing excludes that a page hears of them as its own.

### Model-checked only

The liveness properties `EnqueuedSettles`, `EveryContentResolves`, `ShutdownEnds` and
`EveryMessageAnswered`: their proofs need fairness and ENABLED, which are beyond the prover.
What is safety in the first, the third and the fourth is proved: `JobsRunOut`, `AnswersAreLast` and `NoSilence`.
The four violated properties are, of course, not proved.

## What the models leave out

* `Notifications`: a worker that BullMQ takes for stalled while it still runs; a
  Redis that restarts and loses its last second of writes (the readme says so); job
  removal by age and number; the texts (`RichEditor` has them).
* `DebateTags`: letter case; the title and content of the debate (`Moderation`).
* `ReviewRoom`: the join of a socket that went away while its session was looked
  up, which leaves nothing in the room that a page would notice. Edits of the item
  are in `ReviewedItem`; both pages of `ReviewRoom` hear broadcasts of comments out of
  order, which is why `Discussed` (and `ShownWasStored`, proved in `OnlyStoredIsShown`) asks
  for a text the comment once had and not for its last.
* `ReviewedItem`: several pages of one account; a comment and an update on one socket.
* `KanbanBoard`: the dialog that previews a card; tickets of arguments, whose cards
  behave like those of debates.
* `NotificationInbox`: the titles and links of the list; several tabs of one user.
* `DebateSearch`: names of tags that contain a comma. `getAll` joins names and
  splits them again, so such a name shifts the names of the tags after it.
* `ArgumentForm`: a second submission during the 1.5 s before a submitted form
  leaves its page; `Moderation` has resubmission of drafts at any time.
* `ApiProcess`: websockets (Nest closes them before the server), health checks, the flush of
  telemetry, work that outlives its request, and the worker's process.

## Not modelled, and why

* Accounts and sessions: each operation is one statement or one cookie, unique names
  are a constraint of the database, sessions are a library's. What a session decides is
  in the guards of `Moderation` and in `Reject` of `ReviewRoom`.
* Rendering, layout, the editor's toolbar, `my-activity`: no state that outlives a
  render. Logging, metrics, tracing: nothing depends on them. Build, deployment,
  migrations' tooling, seeds and end-to-end tests: not the running program.

## What could follow

Modelled and checked are the parts the first table names; every safety property of the
runs is proved. Beyond them:

1. Abstract specifications of a reviewed item (over `ReviewedItem`, next to
   `ReviewDiscussion`) and of a reader's inbox (over `NotificationDelivery` and
   `NotificationInbox`), and their refinements.
2. `ReviewRoom` and `ReviewedItem` on one socket, and two pages of one account.
3. The worker's own shutdown in the manner of `ApiProcess`.
