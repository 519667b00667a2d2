----------------------------- MODULE DebateSearch -----------------------------
(***************************************************************************)
(* The page that lists published debates (client, DebatesClient with       *)
(* DebateFilters and two Tags pickers): searching by title and tags, and   *)
(* proposing a debate.                                                     *)
(*                                                                         *)
(* Typing applies the filters after a pause, the button at once.  A timer  *)
(* calls the handler of the render that set it, which reads the fields     *)
(* when it is called but knows only from its render whether tags are used. *)
(* A picker keeps the tags it was created with.  Tags are named by         *)
(* themselves; names that contain a comma, which the API would cut in two, *)
(* are left out.                                                           *)
(***************************************************************************)
EXTENDS Naturals, FiniteSets

CONSTANTS
    Debates,
    Tags,           \* ids of tags, and their names
    TagsOf,         \* [Debates -> SUBSET Tags]
    Texts,          \* what may be searched for
    Titled,         \* [Texts -> SUBSET Debates]: whose titles contain it
    Unsendable,     \* texts with characters that btoa refuses
    NewName,        \* a name that no tag has
    None,           \* no text, no tags, no strategy
    MaxTyped,       \* bound: times the text is changed
    MaxClicks,      \* bound: clicks on anything but the button that applies
    MaxSends,       \* bound: requests
    MaxCreated,     \* bound: tags created
    MaxChanges      \* bound: debates published or taken off meanwhile

Strategies == {"any", "all"}
Pickers == {"filter", "dialog"}
Item == [id : Tags \cup 1 .. MaxCreated, name : Tags \cup {NewName}]
TagItem(t) == [id |-> t, name |-> t]

VARIABLES
    published,      \* debates that are accepted
    listed,         \* debates on the page
    text,           \* in the input
    expanded,       \* shouldUseTagsFilter
    strategy,       \* tagsMatchingStrategy
    picker,         \* of each Tags: [items, selected, created]
    isDialogOpen,
    timers,         \* of the input: [n, useTags, current], current if this render's
    requests,       \* [n, query, form, stage, at, answer]
    typed, clicks, sends, createdTags, changes,
    ordered,        \* history: no request failed or was overtaken
    shown           \* history: [n, form, at]: the request whose answer is listed

searchVars == <<text, expanded, strategy, timers, typed, clicks>>
pickerVars == <<picker, isDialogOpen, createdTags>>
answerVars == <<listed, ordered, shown>>
vars == <<published, changes, searchVars, pickerVars, requests, sends, answerVars>>

Text == Texts \cup {None}
Query == [queryStr : Text, tags : (SUBSET Tags) \cup {None},
          tags_match : Strategies \cup {None}]
Form == [text : Text, tags : SUBSET Tags, strategy : Strategies]

\* What a picker has chosen it can name, and only tags made in it have ids that are
\* no tag's: a proposal names tags that exist by id, and others by name.
PickerOK(p) ==
    /\ p.items \subseteq Item /\ p.created \subseteq 1 .. MaxCreated
    /\ p.selected \subseteq {i.id : i \in p.items}
    /\ \A i \in p.items : i.id \in p.created <=> i.id \notin Tags

TypeOK ==
    /\ published \cup listed \subseteq Debates
    /\ text \in Text /\ strategy \in Strategies
    /\ {expanded, isDialogOpen, ordered} \subseteq BOOLEAN
    /\ DOMAIN picker = Pickers /\ \A p \in Pickers : PickerOK(picker[p])
    /\ timers \subseteq [n : 1 .. MaxTyped, useTags : BOOLEAN, current : BOOLEAN]
    /\ \A r \in requests :
          /\ r.n \in 1 .. sends /\ r.query \in Query /\ r.form \in Form
          /\ r.stage \in {"sent", "answered"}
          /\ r.answer \subseteq r.at /\ r.at \subseteq Debates
    /\ sends \in 0 .. MaxSends /\ typed \in 0 .. MaxTyped
    /\ clicks \in 0 .. MaxClicks
    /\ createdTags \in 0 .. MaxCreated /\ changes \in 0 .. MaxChanges
    /\ shown.n \in 0 .. sends /\ shown.form \in Form /\ shown.at \subseteq Debates

\* The tags of the debates on the page, each once (debateTags).
TagsListed == {TagItem(t) : t \in UNION {TagsOf[d] : d \in listed}}
NewPicker(items) == [items |-> items, selected |-> {}, created |-> {}]

NoFilter == [text |-> None, tags |-> {}, strategy |-> "any"]

\* getAll joins the debates with their tags: without any, a debate is never listed.
Tagged == {d \in published : TagsOf[d] # {}}

\* The page comes with all published debates, or with none when they cannot be read.
Init ==
    /\ published \in SUBSET Debates
    /\ listed \in {Tagged, {}}
    /\ text = None /\ expanded = FALSE /\ strategy = "any"
    /\ picker = [p \in Pickers |-> NewPicker(TagsListed)]
    /\ isDialogOpen = FALSE
    /\ timers = {} /\ requests = {}
    /\ typed = 0 /\ clicks = 0 /\ sends = 0 /\ createdTags = 0 /\ changes = 0
    /\ ordered = TRUE
    /\ shown = [n |-> 0, form |-> NoFilter, at |-> listed]

-----------------------------------------------------------------------------
(* The pickers.                                                            *)

Click == clicks < MaxClicks /\ clicks' = clicks + 1
NoFieldChanged == UNCHANGED <<text, expanded, strategy, timers, typed>>

HandleItemSelect(p, tag) ==
    LET isKnown == tag.id \in {i.id : i \in picker[p].items}
        selected == picker[p].selected
    IN  picker' = [picker EXCEPT ![p] =
            [items    |-> @.items \cup {tag},
             created  |-> IF isKnown THEN @.created ELSE @.created \cup {tag.id},
             selected |-> IF tag.id \in selected THEN selected \ {tag.id}
                          ELSE selected \cup {tag.id}]]

IsShown(p) == IF p = "dialog" THEN isDialogOpen ELSE expanded

\* A click on an item, chosen or not; or on the cross of a chosen tag.
SelectTag(p) ==
    /\ IsShown(p) /\ Click /\ NoFieldChanged
    /\ \E i \in picker[p].items : HandleItemSelect(p, i)
    /\ UNCHANGED <<published, changes, isDialogOpen, createdTags, requests, sends,
                   answerVars>>

\* A name that no item has may be made one, in the dialog; Date.now() is its id.
CreateTag(name) ==
    /\ isDialogOpen /\ Click /\ NoFieldChanged
    /\ name \notin {i.name : i \in picker["dialog"].items}
    /\ createdTags < MaxCreated /\ createdTags' = createdTags + 1
    /\ HandleItemSelect("dialog", [id |-> createdTags', name |-> name])
    /\ UNCHANGED <<published, changes, isDialogOpen, requests, sends, answerVars>>

\* Back to the tags of the debates listed by now.
HandleOnClear(p) ==
    /\ IsShown(p) /\ Click /\ NoFieldChanged
    /\ picker' = [picker EXCEPT ![p] = NewPicker(TagsListed)]
    /\ UNCHANGED <<published, changes, isDialogOpen, createdTags, requests, sends,
                   answerVars>>

\* DebateFilters is rendered anew: its input has a new debounced handler.
Rerendered(ts) == {[t EXCEPT !.current = FALSE] : t \in ts}

StartDebate ==
    /\ ~isDialogOpen /\ isDialogOpen' = TRUE /\ Click
    /\ picker' = [picker EXCEPT !["dialog"] = NewPicker(TagsListed)]
    /\ timers' = Rerendered(timers)
    /\ UNCHANGED <<published, changes, text, expanded, strategy, typed, createdTags,
                   requests, sends, answerVars>>

\* Closed or submitted (then createDebate takes the tags, module DebateTags).
OnStartDebateModalClosed ==
    /\ isDialogOpen /\ isDialogOpen' = FALSE /\ Click
    /\ picker' = [picker EXCEPT !["dialog"] = NewPicker({})]
    /\ timers' = Rerendered(timers)
    /\ UNCHANGED <<published, changes, text, expanded, strategy, typed, createdTags,
                   requests, sends, answerVars>>

-----------------------------------------------------------------------------
(* The filters.                                                            *)

\* What is chosen in the picker counts while it is unfolded.
SelectedTags(useTags) == IF useTags THEN picker["filter"].selected ELSE {}

\* fetchDebatesWithFilters: keys without a value are left out.
QueryOf(useTags) ==
    [queryStr   |-> text,
     tags       |-> IF SelectedTags(useTags) = {} THEN None ELSE SelectedTags(useTags),
     tags_match |-> IF useTags THEN strategy ELSE None]

\* History: what the user asks for.
FormOf(useTags) ==
    [text |-> text, tags |-> IF useTags THEN picker["filter"].selected ELSE {},
     strategy |-> strategy]

\* Nothing is sent when btoa throws.
ApplyFilters(useTags) ==
    IF text \in Unsendable
    THEN ordered' = FALSE /\ UNCHANGED <<requests, sends>>
    ELSE /\ sends < MaxSends /\ sends' = sends + 1
         /\ requests' = requests \cup {[n |-> sends', query |-> QueryOf(useTags),
                form |-> FormOf(useTags), stage |-> "sent", at |-> {}, answer |-> {}]}
         /\ UNCHANGED ordered

\* debounce: the timer of this render's handler starts anew, others go on.
Pending(ts) ==
    {t \in ts : ~t.current} \cup
    {[n |-> typed', useTags |-> expanded, current |-> TRUE]}

Type(x) ==
    /\ x # text /\ text' = x
    /\ typed < MaxTyped /\ typed' = typed + 1
    /\ timers' = Pending(timers)
    /\ UNCHANGED <<published, changes, expanded, strategy, clicks, pickerVars, requests,
                   sends, answerVars>>

TimerFires(t) ==
    /\ t \in timers
    /\ timers' = timers \ {t}
    /\ ApplyFilters(t.useTags)
    /\ UNCHANGED <<published, changes, text, expanded, strategy, typed, clicks,
                   pickerVars, listed, shown>>

ClickApply ==
    /\ expanded
    /\ ApplyFilters(expanded)
    /\ UNCHANGED <<published, changes, searchVars, pickerVars, listed, shown>>

\* Folding the tags in or out applies nothing.
OnExpandChange ==
    /\ expanded' = ~expanded /\ Click
    /\ timers' = Rerendered(timers)
    /\ UNCHANGED <<published, changes, text, strategy, typed, pickerVars, requests,
                   sends, answerVars>>

ChooseStrategy(s) ==
    /\ expanded /\ s # strategy /\ strategy' = s /\ Click
    /\ UNCHANGED <<published, changes, text, expanded, timers, typed, pickerVars,
                   requests, sends, answerVars>>

-----------------------------------------------------------------------------
(* The API.                                                                *)

NoKeys == [queryStr |-> None, tags |-> None, tags_match |-> None]

TagValues == [values : SUBSET Tags, matchingStrategy : Strategies]
Filters == [queryStr : Text, tags : TagValues \cup {None}]

\* DebatesQueryPipe: no filters at all, or those with a value; tags match any
\* unless all was asked for.
Transform(q) ==
    IF q = NoKeys THEN None
    ELSE [queryStr |-> q.queryStr,
          tags |-> IF q.tags = None THEN None
                   ELSE [values |-> q.tags,
                         matchingStrategy |-> IF q.tags_match = "all" THEN "all" ELSE "any"]]

\* getTagFiltersSql fails on filters that are neither text nor tags.
Throws(filters) == filters # None /\ filters.queryStr = None /\ filters.tags = None

\* Mutant of TagFilters: all means that none is missing.
TagFiltersContain(tags, d) ==
    IF tags.matchingStrategy = "any" THEN TagsOf[d] \cap tags.values # {}
    ELSE tags.values \subseteq TagsOf[d]

\* getTagFiltersSql: the arrays overlap, or each contains the other.
TagFilters(tags, d) ==
    IF tags.matchingStrategy = "any" THEN TagsOf[d] \cap tags.values # {}
    ELSE tags.values \subseteq TagsOf[d] /\ TagsOf[d] \subseteq tags.values

\* applyDebateFilters
Passes(filters, d) ==
    \/ filters = None
    \/ /\ filters.queryStr # None => d \in Titled[filters.queryStr]
       /\ filters.tags # None => TagFilters(filters.tags, d)

GetAll(r) ==
    LET filters == Transform(r.query) IN
    /\ r \in requests /\ r.stage = "sent"
    /\ ~Throws(filters)
    /\ requests' = (requests \ {r}) \cup
           {[r EXCEPT !.stage = "answered", !.at = published,
                      !.answer = {d \in Tagged : Passes(filters, d)}]}
    /\ UNCHANGED <<published, changes, searchVars, pickerVars, sends, answerVars>>

\* Refused or lost: nothing catches it, and the page stays as it is.
GetAllFails(r) ==
    /\ r \in requests
    /\ requests' = requests \ {r}
    /\ ordered' = FALSE
    /\ UNCHANGED <<published, changes, searchVars, pickerVars, sends, listed, shown>>

\* Whatever comes is shown, also the answer to an earlier request.
SetDebates(r) ==
    /\ r \in requests /\ r.stage = "answered"
    /\ requests' = requests \ {r}
    /\ listed' = r.answer
    /\ shown' = [n |-> r.n, form |-> r.form, at |-> r.at]
    /\ ordered' = (ordered /\ r.n > shown.n)
    /\ timers' = Rerendered(timers)
    /\ UNCHANGED <<published, changes, text, expanded, strategy, typed, clicks, pickerVars,
                   sends>>

\* A debate is accepted or leaves the list of accepted ones (module Moderation).
PublishOrTakeOff(d) ==
    /\ changes < MaxChanges /\ changes' = changes + 1
    /\ published' = IF d \in published THEN published \ {d} ELSE published \cup {d}
    /\ UNCHANGED <<searchVars, pickerVars, requests, sends, answerVars>>

-----------------------------------------------------------------------------
Next ==
    \/ \E p \in Pickers : SelectTag(p) \/ HandleOnClear(p)
    \/ \E name \in Tags \cup {NewName} : CreateTag(name)
    \/ StartDebate \/ OnStartDebateModalClosed
    \/ \E x \in Text : Type(x)
    \/ \E t \in timers : TimerFires(t)
    \/ ClickApply \/ OnExpandChange
    \/ \E s \in Strategies : ChooseStrategy(s)
    \/ \E r \in requests : GetAll(r) \/ GetAllFails(r) \/ SetDebates(r)
    \/ \E d \in Debates : PublishOrTakeOff(d)

Spec == Init /\ [][Next]_vars

-----------------------------------------------------------------------------
(* Properties.                                                             *)

Wanted(form, d) ==
    /\ TagsOf[d] # {}
    /\ form.text # None => d \in Titled[form.text]
    /\ form.tags # {} => IF form.strategy = "all" THEN form.tags = TagsOf[d]
                         ELSE \E t \in form.tags : t \in TagsOf[d]

\* The list is that of some request's form, over what was published when it was
\* answered and has a tag; and when nothing is pending and all answers came, in
\* order, it is that of the text now in the input.
ListIsAsked ==
    /\ listed = {d \in shown.at : Wanted(shown.form, d)}
    /\ timers = {} /\ requests = {} /\ ordered => shown.form.text = text
=============================================================================
