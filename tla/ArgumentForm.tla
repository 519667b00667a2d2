----------------------------- MODULE ArgumentForm -----------------------------
(***************************************************************************)
(* The page on which an argument is written (client, new-argument): a new  *)
(* one, perhaps a counterargument, or a draft that was saved before.       *)
(*                                                                         *)
(* The form asks the store which debate it is about; the store is filled   *)
(* when the page's request is answered, and keeps what an earlier page put *)
(* there.  The fields are kept consistent by effects and timers: a change  *)
(* of the side clears the argument that is countered, which links and      *)
(* drafts therefore set from a timer.  What was sent is carried out by     *)
(* createArgument, saveArgumentAsDraft, updateDraft and submitDraft        *)
(* (module Moderation has their transactions).  Every debate has one       *)
(* published argument on each side.                                        *)
(***************************************************************************)
EXTENDS Naturals, FiniteSets

CONSTANTS
    Debates,
    None,           \* no debate, no argument, no draft
    MaxVisits,      \* bound: times the page is opened
    MaxSends,       \* bound: submissions of the form
    MaxChanges      \* bound: changes of the fields

Sides == {"PRO", "CON"}
Other(side) == CHOOSE s \in Sides : s # side
Published == [debate : Debates, side : Sides]
Ids == 1 .. MaxSends + 1        \* of rows of the user
NoArgument == [debate |-> None, side |-> "none"]
Countered == Published \cup {NoArgument}

VARIABLES
    store,          \* crtDebate, or None
    page,           \* [open, debate, draft]: the page and its parameters
    visit,
    fetches,        \* requests for a debate or a draft, of any page
    form,           \* [side, isCounter, counter]
    updating,       \* isUpdatingDraft: the draft has come; so has its content
    clearing,       \* the effect of a change of the side is still to run
    timer,          \* what a timer will set as the argument that is countered
    posts,          \* submissions on their way
    sends, changes,
    row,            \* the user's arguments, by id
    astray,         \* history: the store may not have the page's debate
    kept,           \* history: what the draft countered, while the user let it be
    raced,          \* history: the draft's timer fired before the effect ran
    foreign         \* history: the counterargument was chosen when astray, or is that
                    \* of a draft that was

storeVars == <<store, fetches, astray>>
formVars == <<form, updating, clearing, timer, kept, raced, foreign>>
vars == <<storeVars, page, visit, formVars, posts, sends, changes, row>>

NoSide == "none"
Form == [side : Sides \cup {NoSide}, isCounter : BOOLEAN, counter : Countered]
Draft == Ids \cup {0}           \* 0: a new argument
Fetch == [visit : 1 .. MaxVisits, debate : Debates, draft : Draft]
Post == [n : 1 .. MaxSends, kind : {"create", "saveDraft", "updateDraft", "submitDraft"},
         debate : Debates, id : Draft, side : Sides, counter : Countered,
         url : Debates, astray : BOOLEAN, foreign : BOOLEAN]
Row == [debate : Debates, side : Sides, counter : Countered, isDraft : BOOLEAN,
        url : Debates, astray : BOOLEAN, foreign : BOOLEAN]

TypeOK ==
    /\ store \in Debates \cup {None}
    /\ page \in [open : BOOLEAN, debate : Debates, draft : Draft]
    /\ visit \in 0 .. MaxVisits
    /\ fetches \subseteq Fetch
    /\ form \in Form
    /\ timer \in Countered /\ kept \in Countered
    /\ {updating, clearing, astray, raced, foreign} \subseteq BOOLEAN
    /\ posts \subseteq Post
    /\ sends \in 0 .. MaxSends /\ changes \in 0 .. MaxChanges
    /\ DOMAIN row \subseteq Ids
    /\ \A i \in DOMAIN row : row[i] \in Row

\* The user has a draft that counters something, or not.
Init ==
    /\ store = None
    /\ \E d \in Debates, s \in Sides :
           /\ page = [open |-> FALSE, debate |-> d, draft |-> 0]
           /\ \E counter \in {NoArgument, [debate |-> d, side |-> Other(s)]} :
                  row = [i \in {1} |-> [debate |-> d, side |-> s, counter |-> counter,
                                        isDraft |-> TRUE, url |-> d,
                                        astray |-> FALSE, foreign |-> FALSE]]
    /\ visit = 0 /\ fetches = {}
    /\ form = [side |-> "PRO", isCounter |-> FALSE, counter |-> NoArgument]
    /\ updating = FALSE /\ clearing = FALSE /\ timer = NoArgument
    /\ posts = {} /\ sends = 0 /\ changes = 0
    /\ astray = FALSE /\ kept = NoArgument /\ raced = FALSE /\ foreign = FALSE

-----------------------------------------------------------------------------
(* Opening the page.                                                       *)

\* getCorrespondingCounterargumentType, which has to find the argument first.
SideAgainst(counter) == IF counter.debate = store THEN Other(counter.side) ELSE NoSide

\* From the page of a debate, which puts its debate into the store and, when it is
\* left, takes it out; from a list of drafts; or back in the browser's history.
OpenPage(d, id, counter) ==
    /\ ~page.open /\ visit < MaxVisits
    /\ id = 0 \/ (counter = NoArgument /\ id \in DOMAIN row /\ row[id].debate = d)
    /\ page' = [open |-> TRUE, debate |-> d, draft |-> id]
    /\ visit' = visit + 1
    /\ fetches' = fetches \cup {[visit |-> visit', debate |-> d, draft |-> id]}
    /\ form' = [side |-> IF counter = NoArgument THEN "PRO" ELSE SideAgainst(counter),
                isCounter |-> counter # NoArgument, counter |-> NoArgument]
    /\ timer' = counter
    /\ updating' = FALSE /\ clearing' = FALSE
    /\ astray' = TRUE /\ kept' = NoArgument /\ raced' = FALSE /\ foreign' = FALSE
    /\ UNCHANGED <<store, posts, sends, changes, row>>

\* The page of a debate is opened, and left for another page.
VisitDebate(d) ==
    /\ ~page.open
    /\ store' \in {d, None}
    /\ UNCHANGED <<fetches, astray, page, visit, formVars, posts, sends, changes, row>>

\* The button, or the redirection 1.5 s after a success.
Leave ==
    /\ page.open
    /\ page' = [page EXCEPT !.open = FALSE]
    /\ UNCHANGED <<storeVars, visit, formVars, posts, sends, changes, row>>

\* Mutant of Later: the draft's counterargument is set with the other fields.
Now(counter) ==
    /\ form'.counter = counter
    /\ timer' = NoArgument

\* What a timer will set; until then the field is as it was.
Later(counter) ==
    /\ form'.counter = form.counter
    /\ timer' = counter

\* An answer to an earlier page goes to the store all the same.
DebateCame(f) ==
    /\ f \in fetches /\ f.draft = 0
    /\ fetches' = fetches \ {f}
    /\ store' = f.debate
    /\ astray' = (f.visit # visit)
    /\ UNCHANGED <<page, visit, formVars, posts, sends, changes, row>>

\* The fields of an earlier page are gone.
DraftCame(f) ==
    /\ f \in fetches /\ f.draft # 0
    /\ fetches' = fetches \ {f}
    /\ store' = f.debate
    /\ astray' = (f.visit # visit)
    /\ IF f.visit # visit \/ ~page.open
       THEN UNCHANGED formVars
       ELSE LET draft == row[f.draft] IN
            /\ form' \in [side : {draft.side},
                          isCounter : {form.isCounter \/ draft.counter # NoArgument},
                          counter : {form.counter, draft.counter}]
            /\ Later(draft.counter)
            /\ clearing' = (clearing \/ draft.side # form.side)
            /\ updating' = TRUE
            /\ kept' = draft.counter /\ raced' = FALSE
            /\ foreign' = IF draft.counter = NoArgument THEN foreign
                          ELSE draft.foreign \/ draft.astray
    /\ UNCHANGED <<page, visit, posts, sends, changes, row>>

\* The page is left.
FetchFails(f) ==
    /\ f \in fetches
    /\ fetches' = fetches \ {f}
    /\ page' = [page EXCEPT !.open = FALSE]
    /\ UNCHANGED <<store, astray, visit, formVars, posts, sends, changes, row>>

-----------------------------------------------------------------------------
(* The form.                                                               *)

\* Mutant of Cleared: no effect watches the side.
NotCleared == form

Cleared == [form EXCEPT !.counter = NoArgument]

EffectRuns ==
    /\ page.open /\ clearing
    /\ clearing' = FALSE
    /\ form' = Cleared
    /\ UNCHANGED <<storeVars, page, visit, updating, timer, kept, raced, foreign,
                   posts, sends, changes, row>>

TimerFires ==
    /\ page.open /\ timer # NoArgument
    /\ timer' = NoArgument
    /\ form' = [form EXCEPT !.counter = timer]
    /\ raced' = clearing
    /\ UNCHANGED <<storeVars, page, visit, updating, clearing, kept, foreign, posts, sends,
                   changes, row>>

\* The form is shown, and effects and timers of the last change have run.
Settled == page.open /\ store # None /\ ~clearing /\ timer = NoArgument

Change(f) ==
    /\ Settled /\ changes < MaxChanges /\ changes' = changes + 1
    /\ form' = f /\ kept' = NoArgument
    /\ UNCHANGED <<storeVars, page, visit, updating, timer, raced, posts, sends, row>>

ChooseSide(side) ==
    /\ side # form.side
    /\ Change([form EXCEPT !.side = side])
    /\ clearing' = TRUE /\ UNCHANGED foreign

ToggleCounter ==
    /\ Change([form EXCEPT !.isCounter = ~@, !.counter = NoArgument])
    /\ UNCHANGED <<clearing, foreign>>

\* debateArguments: those of the store's debate that are not on the form's side.
ChooseCounter(a) ==
    /\ form.isCounter /\ a.debate = store /\ a.side # form.side
    /\ Change([form EXCEPT !.counter = a])
    /\ foreign' = astray /\ UNCHANGED clearing

\* onSubmit.  A draft goes by the page's parameters, a new argument by the store.
Send(kind) ==
    /\ Settled /\ sends < MaxSends /\ sends' = sends + 1
    /\ form.side # NoSide               \* or the API refuses it
    /\ page.draft # 0 => updating       \* or there is no content, and the same
    /\ kind \in IF updating THEN {"updateDraft", "submitDraft"} ELSE {"create", "saveDraft"}
    /\ posts' = posts \cup
           {[n |-> sends', kind |-> kind,
             debate |-> IF updating THEN page.debate ELSE store,
             id |-> page.draft, side |-> form.side, counter |-> form.counter,
             url |-> page.debate, astray |-> astray /\ ~updating, foreign |-> foreign]}
    /\ UNCHANGED <<storeVars, page, visit, formVars, changes, row>>

-----------------------------------------------------------------------------
(* The API.                                                                *)

Sent(p, isDraft) ==
    [debate |-> p.debate, side |-> p.side, counter |-> p.counter, isDraft |-> isDraft,
     url |-> p.url, astray |-> p.astray, foreign |-> p.foreign]

Handle(p) ==
    /\ p \in posts /\ posts' = posts \ {p}
    /\ \/ /\ p.kind \in {"create", "saveDraft"}
          /\ LET id == Cardinality(DOMAIN row) + 1 IN
             row' = [i \in DOMAIN row \cup {id} |->
                        IF i = id THEN Sent(p, p.kind = "saveDraft") ELSE row[i]]
       \/ /\ p.kind = "updateDraft"
          /\ row[p.id].isDraft
          /\ row' = [row EXCEPT ![p.id] = Sent(p, TRUE)]
       \/ /\ p.kind = "submitDraft"
          /\ row' = [row EXCEPT ![p.id] = Sent(p, FALSE)]
    /\ UNCHANGED <<storeVars, page, visit, formVars, sends, changes>>

\* Refused or lost: a message is shown, the page stays.
HandleFails(p) ==
    /\ p \in posts /\ posts' = posts \ {p}
    /\ UNCHANGED <<storeVars, page, visit, formVars, sends, changes, row>>

-----------------------------------------------------------------------------
Next ==
    \/ \E d \in Debates : VisitDebate(d)
    \/ \E d \in Debates, id \in Draft :
           OpenPage(d, id, NoArgument)
    \/ \E a \in Published : OpenPage(a.debate, 0, a) \/ ChooseCounter(a)
    \/ Leave
    \/ \E f \in fetches : DebateCame(f) \/ DraftCame(f) \/ FetchFails(f)
    \/ EffectRuns \/ TimerFires
    \/ \E side \in Sides : ChooseSide(side)
    \/ ToggleCounter
    \/ \E kind \in {"create", "saveDraft", "updateDraft", "submitDraft"} : Send(kind)
    \/ \E p \in posts : Handle(p) \/ HandleFails(p)

Spec == Init /\ [][Next]_vars

-----------------------------------------------------------------------------
(* Properties.                                                             *)

\* An argument is in the debate of the page it was written on, and what it counters
\* is an argument of this debate: unless a new one was sent, or what it counters was
\* chosen, before the page's own request had been answered, when the store had another
\* page's debate, or after the answer to an earlier page had come; a draft that was
\* saved so hands on what it counters.  Whatever the order of links, drafts and
\* changes, what it counters is on the other side.
ArgumentsFit ==
    \A i \in DOMAIN row :
        /\ ~row[i].astray => row[i].debate = row[i].url
        /\ row[i].counter # NoArgument =>
              /\ row[i].counter.side # row[i].side
              /\ ~row[i].foreign => row[i].counter.debate = row[i].url

\* A draft that is opened and sent again counters what it did, unless the user
\* changed the fields, or the draft's timer fired before the effect of its side,
\* which then cleared what the timer had set.
DraftKeepsCounter ==
    Settled /\ updating /\ kept # NoArgument /\ ~raced => form.counter = kept
=============================================================================
