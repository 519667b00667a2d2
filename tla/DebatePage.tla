----------------------------- MODULE DebatePage -----------------------------
(***************************************************************************)
(* The reader's page of a debate (client, DebatePageClient with the slice  *)
(* debates): its arguments came with the page, their contents are read one *)
(* by one, and threads of counterarguments are followed.  What is expanded *)
(* is kept in the store, the contents in the page's component.             *)
(***************************************************************************)
EXTENDS Naturals, FiniteSets, Sequences, SequencesExt

CONSTANTS
    Args,           \* the debate's arguments
    Counters,       \* [Args -> Args \cup {None}]: what each one counters
    None,           \* no argument
    MaxReads,       \* bound: arguments asked for
    MaxVisits       \* bound: times the page is opened

VARIABLES
    args,           \* the arguments of the page
    contents,       \* detailedArgs that have their content
    expanded,       \* expandedArgumentsIDs
    reads,          \* GETs of arguments under way: [id, arg, visit, contents]
    asked,          \* reads so far
    visits,
    excused,        \* history: arguments with an excuse, see ExpandedIsRead
    thread          \* counterargumentsOfArgHistory; its last is inspected

vars == <<args, contents, expanded, reads, asked, visits, excused, thread>>

Read == [id : 1 .. MaxReads, arg : Args, visit : 1 .. MaxVisits,
         contents : SUBSET Args]

\* Breadcrumbs: every argument counters the one before it.
IsChain(breadcrumbs) ==
    \A i \in 1 .. Len(breadcrumbs) - 1 :
        Counters[breadcrumbs[i + 1]] = breadcrumbs[i]

TypeOK ==
    /\ args \subseteq Args /\ contents \subseteq args
    /\ expanded \cup excused \subseteq Args
    /\ reads \subseteq Read /\ asked \in 0 .. MaxReads
    /\ visits \in 1 .. MaxVisits
    /\ thread \in Seq(args) /\ IsChain(thread)

Init ==
    /\ args \in SUBSET Args
    /\ contents = {} /\ expanded = {}
    /\ reads = {} /\ asked = 0 /\ visits = 1 /\ excused = {} /\ thread = <<>>

-----------------------------------------------------------------------------
\* Mutant of ContentsOfRender: a handler made once, when the page was first shown.
ContentsOfFirstRender == {}

\* detailedArgs of the render whose button was clicked.
ContentsOfRender == contents

OfThisVisit == {r \in reads : r.visit = visits}

OnReadArgument(a) ==
    /\ a \in args \ expanded
    /\ asked < MaxReads /\ asked' = asked + 1
    /\ reads' = reads \cup {[id |-> asked', arg |-> a, visit |-> visits,
                            contents |-> ContentsOfRender]}
    /\ UNCHANGED <<args, contents, expanded, visits, excused, thread>>

\* Mutant of ContentsAfter: the answer finds the component of the new visit.
ContentsOfAnyVisit(r) == r.contents \cup {r.arg}

\* The component of an earlier visit is gone.
ContentsAfter(r) ==
    IF r.visit = visits THEN r.contents \cup {r.arg} ELSE contents

\* The store is not.
ArgumentCame(r) ==
    /\ r \in reads
    /\ reads' = reads \ {r}
    /\ expanded' = expanded \cup {r.arg}
    /\ contents' = ContentsAfter(r)
    /\ excused' = IF r.visit = visits /\ OfThisVisit = {r}
                  THEN excused \ {r.arg} ELSE excused \cup {r.arg}
    /\ UNCHANGED <<args, asked, visits, thread>>

\* Not found, because no longer accepted, or lost: nothing catches it.
ReadFails(r) ==
    /\ r \in reads
    /\ reads' = reads \ {r}
    /\ UNCHANGED <<args, contents, expanded, asked, visits, excused, thread>>

OnCollapseArgument(a) ==
    /\ a \in expanded
    /\ expanded' = expanded \ {a}
    /\ UNCHANGED <<args, contents, reads, asked, visits, excused, thread>>

CounterargumentsOf(a) == {b \in args : Counters[b] = a}

\* pros and cons: an argument and its counterarguments are on opposite sides.
Shown ==
    IF thread = <<>> THEN args ELSE {Last(thread)} \cup CounterargumentsOf(Last(thread))

\* inspectCounterargumentsOf, whose history is cut at an argument it has already.
ThreadTo(a) ==
    IF a \in ToSet(thread)
    THEN SubSeq(thread, 1, CHOOSE i \in DOMAIN thread : thread[i] = a)
    ELSE Append(thread, a)

\* From the menu of an argument shown, if it has counterarguments, or from the
\* breadcrumbs.
Inspect(a) ==
    /\ \/ a \in Shown /\ CounterargumentsOf(a) # {}
       \/ a \in ToSet(thread)
    /\ thread # <<>> => a # Last(thread)
    /\ thread' = ThreadTo(a)
    /\ UNCHANGED <<args, contents, expanded, reads, asked, visits, excused>>

\* disableInspectCounterargumentsMode
StopInspecting ==
    /\ thread # <<>> /\ thread' = <<>>
    /\ UNCHANGED <<args, contents, expanded, reads, asked, visits, excused>>

\* The page is left and opened again: setCurrentDebate starts a new list of what
\* is expanded.
Revisit ==
    /\ visits < MaxVisits /\ visits' = visits + 1
    /\ args' \in SUBSET Args
    /\ contents' = {} /\ expanded' = {} /\ thread' = <<>>
    /\ excused' = {}
    /\ UNCHANGED <<reads, asked>>

-----------------------------------------------------------------------------
Next ==
    \/ \E a \in Args : OnReadArgument(a) \/ OnCollapseArgument(a) \/ Inspect(a)
    \/ \E r \in reads : ArgumentCame(r) \/ ReadFails(r)
    \/ StopInspecting \/ Revisit

Spec == Init /\ [][Next]_vars

-----------------------------------------------------------------------------
(* Properties.                                                             *)

\* An expanded argument has its content, unless its answer came when another was still
\* to come, which starts from the contents at its click and drops what came since; or was
\* still under way when the page was left, and is expanded in the next visit.  The last
\* of several answers has its content.
ExpandedIsRead == expanded \ excused \subseteq contents
=============================================================================
