------------------------------ MODULE RichEditor ------------------------------
(***************************************************************************)
(* The text of a notification is rendered by one Lexical editor that all   *)
(* requests of the API share (apps/api/src/utils/rich-editor.ts).          *)
(*                                                                         *)
(* A turn of Node's event loop polls the sockets, whose callbacks insert   *)
(* texts, and then runs the immediates that the callbacks set, in order.   *)
(* Microtasks run after each callback: what it did to the editor is        *)
(* committed, and what waits for a promise it resolved is done, before the *)
(* next callback runs.                                                     *)
(***************************************************************************)
EXTENDS Naturals, Sequences, FiniteSets

CONSTANTS
    Events,     \* events to be rendered, each with a text of its own
    None        \* not rendered

ASSUME NoneIsNoContent == None \notin Nat /\ None \notin Seq(Events)

VARIABLES
    phase,      \* of the event loop
    editor,     \* the texts in the editor's state
    immediates, \* whose content is to be read in this turn
    content,    \* what each event's promise resolved to
    turn,       \* history: turns that rendered anything
    turnOf      \* history: the turn in which each text was inserted

vars == <<phase, editor, immediates, content, turn, turnOf>>

Elements(s) == {s[i] : i \in DOMAIN s}

Init ==
    /\ phase = "poll"
    /\ editor = <<>>
    /\ immediates = <<>>
    /\ content = [e \in Events |-> None]
    /\ turn = 0
    /\ turnOf = [e \in Events |-> None]

\* Mutant of InsertNodes: the editor is cleared before it is used and not after.
InsertInEmpty(e) == editor' = <<e>>

\* editor.update in a socket's callback.
InsertNodes(e) == editor' = Append(editor, e)

\* getContent, called at once on what insertNodes returns.
GetContent(e) ==
    /\ phase = "poll"
    /\ turnOf[e] = None
    /\ InsertNodes(e)
    /\ immediates' = Append(immediates, e)
    /\ turnOf' = [turnOf EXCEPT ![e] = turn]
    /\ UNCHANGED <<phase, content, turn>>

EndPoll ==
    /\ phase = "poll"
    /\ immediates # <<>>
    /\ phase' = "check"
    /\ UNCHANGED <<editor, immediates, content, turn, turnOf>>

\* Mutant of ClearEditor: it takes the first text only.
ClearFirst == editor' = IF editor = <<>> THEN <<>> ELSE Tail(editor)

ClearEditor == editor' = <<>>

\* Mutant of NextImmediate: one content is read for all that wait for it.
OnlyImmediate == immediates' = <<>>

NextImmediate == immediates' = Tail(immediates)

\* An immediate resolves a promise with the whole state of the editor; finally
\* clears it.
Resolve ==
    /\ phase = "check"
    /\ immediates # <<>>
    /\ content' = [content EXCEPT ![Head(immediates)] = editor]
    /\ ClearEditor
    /\ NextImmediate
    /\ UNCHANGED <<phase, turn, turnOf>>

EndTurn ==
    /\ phase = "check"
    /\ immediates = <<>>
    /\ phase' = "poll"
    /\ turn' = turn + 1
    /\ UNCHANGED <<editor, immediates, content, turnOf>>

Next == (\E e \in Events : GetContent(e)) \/ EndPoll \/ Resolve \/ EndTurn

Spec == Init /\ [][Next]_vars

\* The event loop goes on as long as the process lives.
FairSpec == Spec /\ WF_vars(EndPoll) /\ WF_vars(Resolve) /\ WF_vars(EndTurn)

-----------------------------------------------------------------------------
(* Properties.                                                             *)

Rendered(e) == content[e] # None
Readers(e) == {f \in Events : Rendered(f) /\ e \in Elements(content[f])}

\* No text is lost, sent twice or kept for later: between turns each text that was
\* inserted in an earlier turn is in exactly one content, of an event of that turn.
EveryTextOnce ==
    \A e \in Events :
        phase = "poll" /\ turnOf[e] # None /\ turnOf[e] # turn =>
            /\ \E f \in Events : Readers(e) = {f} /\ turnOf[f] = turnOf[e]
            /\ \A f \in Readers(e) :
                  Cardinality({i \in DOMAIN content[f] : content[f][i] = e}) = 1

\* Every promise is resolved: no notification waits for ever for its text.
EveryContentResolves ==
    \A e \in Events : turnOf[e] # None ~> Rendered(e)

\* The comments of the events' getContent ('X changed the title from Y to Z'): a
\* notification's text is that of its own event.
OwnText == \A e \in Events : Rendered(e) => content[e] = <<e>>
=============================================================================
