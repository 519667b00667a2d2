---------------------------- MODULE RichEditorProofs ----------------------------
(***************************************************************************)
(* Each text is sent once, for any number of events and however they       *)
(* share the turns of the event loop.                                      *)
(***************************************************************************)
EXTENDS RichEditor, SequenceTheorems, FiniteSetTheorems, TLAPS

Types ==
    /\ phase \in {"poll", "check"}
    /\ editor \in Seq(Events)
    /\ immediates \in Seq(Events)
    /\ content \in [Events -> {None} \cup Seq(Events)]
    /\ turn \in Nat
    /\ turnOf \in [Events -> {None} \cup Nat]

Distinct(s) == \A i, j \in DOMAIN s : s[i] = s[j] => i = j

\* Before the first immediate of a turn the editor has the texts of all of them,
\* and afterwards none.
EditorOfTurn ==
    /\ Distinct(immediates)
    /\ phase = "poll" => editor = immediates
    /\ editor = <<>> \/ editor = immediates

\* Who waits came in this turn; who did not come has no content.
Waiting ==
    /\ \A e \in Elements(immediates) : turnOf[e] = turn /\ content[e] = None
    /\ \A e \in Events : turnOf[e] = None => content[e] = None /\ Readers(e) = {}

SentOnce(e) ==
    \E f \in Events :
        /\ Readers(e) = {f} /\ turnOf[f] = turnOf[e]
        /\ \E i \in DOMAIN content[f] :
              {j \in DOMAIN content[f] : content[f][j] = e} = {i}

\* A text is in the editor or in one content.
SomewhereOnce ==
    \A e \in Events :
        IF e \in Elements(editor) THEN Readers(e) = {}
        ELSE turnOf[e] # None => SentOnce(e)

RInv == Types /\ EditorOfTurn /\ Waiting /\ SomewhereOnce

\* Nothing was inserted at the start.
LEMMA InitRInv == Init => RInv
<1> SUFFICES ASSUME Init
             PROVE  RInv
  OBVIOUS
<1>1. DOMAIN editor = {} /\ DOMAIN immediates = {} /\ editor = immediates
  BY DEF Init
<1>2. Elements(editor) = {} /\ Elements(immediates) = {}
  BY <1>1 DEF Elements
<1>3. Types
  <2>1. <<>> \in Seq(Events)
    BY EmptySeq
  <2> QED
    BY <2>1 DEF Init, Types
<1>4. \A e \in Events : Readers(e) = {} /\ content[e] = None /\ turnOf[e] = None
  BY DEF Init, Readers, Rendered
<1> QED
  BY <1>1, <1>2, <1>3, <1>4 DEF RInv, EditorOfTurn, Distinct, Waiting, SomewhereOnce

\* Whoever is in the editor came in this turn and waits.
LEMMA InEditor == ASSUME RInv, NEW e \in Elements(editor)
                  PROVE  e \in Events /\ e \in Elements(immediates) /\ turnOf[e] = turn
<1>1. editor = immediates
  <2>1. editor # <<>>
    BY DEF Elements
  <2> QED
    BY <2>1 DEF RInv, EditorOfTurn
<1>2. e \in Events
  BY LenProperties, ElementOfSeq DEF RInv, Types, Elements
<1> QED
  BY <1>1, <1>2 DEF RInv, Waiting

\* An event inserts its text, and waits after the others.
LEMMA GetContentRInv == ASSUME RInv, NEW e \in Events, GetContent(e)
                        PROVE  RInv'
<1>1. /\ phase = "poll" /\ turnOf[e] = None /\ editor = immediates
      /\ editor' = Append(editor, e) /\ immediates' = Append(immediates, e)
      /\ turnOf' = [turnOf EXCEPT ![e] = turn]
      /\ UNCHANGED <<phase, content, turn>>
  BY DEF RInv, EditorOfTurn, GetContent, InsertNodes
<1>2. Types'
  BY <1>1, AppendProperties DEF RInv, Types
<1>3. /\ Len(immediates) \in Nat
      /\ DOMAIN immediates = 1 .. Len(immediates)
      /\ DOMAIN immediates' = 1 .. Len(immediates) + 1
      /\ \A i \in DOMAIN immediates : immediates'[i] = immediates[i]
      /\ immediates'[Len(immediates) + 1] = e
  BY <1>1, AppendProperties, LenProperties DEF RInv, Types
<1>4. /\ Elements(immediates') = Elements(immediates) \cup {e}
      /\ Elements(editor') = Elements(editor) \cup {e}
  BY <1>1, <1>3 DEF Elements
<1>5. e \notin Elements(immediates)
  <2>1. turn # None
    BY NoneIsNoContent DEF RInv, Types
  <2> QED
    BY <1>1, <2>1 DEF RInv, Waiting
<1>6. EditorOfTurn'
  <2>1. \A i \in DOMAIN immediates : immediates[i] # e
    BY <1>5 DEF Elements
  <2>2. Distinct(immediates')
    BY <1>3, <2>1 DEF RInv, EditorOfTurn, Distinct
  <2> QED
    BY <1>1, <2>2 DEF EditorOfTurn
<1>7. \A f \in Events : Readers(f)' = Readers(f)
  BY <1>1 DEF Readers, Rendered
<1>8. \A f \in Events : f # e => turnOf'[f] = turnOf[f]
  BY <1>1 DEF RInv, Types
<1>9. Waiting'
  <2>1. turnOf'[e] = turn /\ content[e] = None /\ turn # None
    BY <1>1, NoneIsNoContent DEF RInv, Types, Waiting
  <2>2. Elements(immediates) \subseteq Events
    BY LenProperties, ElementOfSeq DEF RInv, Types, Elements
  <2> QED
    BY <1>1, <1>4, <1>5, <1>7, <1>8, <2>1, <2>2 DEF RInv, Waiting
<1>10. SomewhereOnce'
  <2> SUFFICES ASSUME NEW f \in Events
               PROVE  IF f \in Elements(editor') THEN Readers(f)' = {}
                      ELSE turnOf'[f] # None => SentOnce(f)'
    BY DEF SomewhereOnce
  <2>1. CASE f = e
    BY <1>1, <1>4, <1>7, <2>1 DEF RInv, Waiting
  <2>2. CASE f # e /\ f \in Elements(editor)
    BY <1>4, <1>7, <2>2 DEF RInv, SomewhereOnce
  <2>3. CASE f # e /\ f \notin Elements(editor)
    <3> SUFFICES ASSUME turnOf[f] # None
                 PROVE  SentOnce(f)'
      BY <1>4, <1>8, <2>3
    <3>1. PICK g \in Events :
              /\ Readers(f) = {g} /\ turnOf[g] = turnOf[f]
              /\ \E i \in DOMAIN content[g] :
                    {j \in DOMAIN content[g] : content[g][j] = f} = {i}
      BY <2>3 DEF RInv, SomewhereOnce, SentOnce
    <3>2. content[g] # None /\ g # e
      BY <1>1, <3>1 DEF Readers, Rendered, RInv, Waiting
    <3>3. turnOf'[g] = turnOf'[f] /\ Readers(f)' = {g}
      BY <1>7, <1>8, <2>3, <3>1, <3>2
    <3> QED
      BY <1>1, <3>1, <3>3 DEF SentOnce
  <2> QED
    BY <2>1, <2>2, <2>3
<1> QED
  BY <1>2, <1>6, <1>9, <1>10 DEF RInv

\* The first to wait gets all the texts of the turn, or none.
LEMMA ResolveRInv == ASSUME RInv, Resolve
                     PROVE  RInv'
<1> DEFINE h == Head(immediates)
<1>1. /\ phase = "check" /\ immediates # <<>>
      /\ content' = [content EXCEPT ![h] = editor]
      /\ editor' = <<>> /\ immediates' = Tail(immediates)
      /\ UNCHANGED <<phase, turn, turnOf>>
  BY DEF Resolve, ClearEditor, NextImmediate
<1>2. /\ h \in Events /\ h = immediates[1]
      /\ Tail(immediates) \in Seq(Events)
      /\ Len(immediates) \in Nat \ {0}
      /\ DOMAIN immediates = 1 .. Len(immediates)
      /\ Len(Tail(immediates)) = Len(immediates) - 1
      /\ \A i \in 1 .. Len(Tail(immediates)) : Tail(immediates)[i] = immediates[i + 1]
  BY <1>1, HeadTailProperties, EmptySeq, LenProperties DEF RInv, Types
<1>3. DOMAIN immediates' = 1 .. Len(immediates) - 1
  BY <1>1, <1>2, LenProperties
<1> HIDE DEF h
<1>4. Types'
  <2>1. <<>> \in Seq(Events)
    BY EmptySeq
  <2> QED
    BY <1>1, <1>2, <2>1 DEF RInv, Types
<1>5. \A i \in DOMAIN immediates' :
          i + 1 \in DOMAIN immediates /\ immediates'[i] = immediates[i + 1]
  BY <1>1, <1>2, <1>3
<1>6. Elements(immediates') \subseteq Elements(immediates) \ {h}
  <2> SUFFICES ASSUME NEW i \in DOMAIN immediates'
               PROVE  immediates'[i] \in Elements(immediates) /\ immediates'[i] # h
    BY DEF Elements
  <2>1. i + 1 # 1 /\ 1 \in DOMAIN immediates
    BY <1>2, <1>3
  <2> QED
    BY <1>2, <1>5, <2>1 DEF RInv, EditorOfTurn, Distinct, Elements
<1>7. EditorOfTurn'
  <2> SUFFICES ASSUME NEW i \in DOMAIN immediates', NEW j \in DOMAIN immediates',
                      immediates'[i] = immediates'[j]
               PROVE  i = j
    BY <1>1 DEF EditorOfTurn, Distinct
  <2>1. i + 1 = j + 1
    BY <1>5 DEF RInv, EditorOfTurn, Distinct
  <2> QED
    BY <1>3, <2>1
<1>8. h \in Elements(immediates) /\ turnOf[h] = turn /\ content[h] = None
  BY <1>2 DEF RInv, Waiting, Elements
<1>9. /\ content'[h] = editor /\ editor # None
      /\ \A f \in Events \ {h} : content'[f] = content[f]
  BY <1>1, <1>2, NoneIsNoContent DEF RInv, Types
<1>10. ASSUME NEW e \in Events
       PROVE  Readers(e)' = IF e \in Elements(editor) THEN Readers(e) \cup {h}
                            ELSE Readers(e)
  BY <1>2, <1>8, <1>9 DEF Readers, Rendered
<1>11. Waiting'
  <2>1. turn # None
    BY NoneIsNoContent DEF RInv, Types
  <2>2. \A e \in Events : turnOf[e] = None => e # h /\ e \notin Elements(editor)
    BY <1>8, <2>1, InEditor
  <2>3. Elements(immediates) \subseteq Events
    BY LenProperties, ElementOfSeq DEF RInv, Types, Elements
  <2> QED
    BY <1>1, <1>6, <1>9, <1>10, <2>2, <2>3 DEF RInv, Waiting
<1>12. SomewhereOnce'
  <2>1. Elements(editor') = {}
    BY <1>1 DEF Elements
  <2> SUFFICES ASSUME NEW e \in Events, turnOf[e] # None
               PROVE  SentOnce(e)'
    BY <1>1, <2>1 DEF SomewhereOnce
  <2>2. CASE e \in Elements(editor)
    <3>1. Readers(e)' = {h}
      BY <1>10, <2>2 DEF RInv, SomewhereOnce
    <3>2. turnOf[e] = turnOf[h]
      BY <1>8, <2>2, InEditor
    <3>3. PICK i \in DOMAIN editor : editor[i] = e
      BY <2>2 DEF Elements
    <3>4. Distinct(editor)
      BY DEF RInv, EditorOfTurn, Distinct
    <3>5. {j \in DOMAIN editor : editor[j] = e} = {i}
      BY <3>3, <3>4 DEF Distinct
    <3> QED
      BY <1>1, <1>2, <1>9, <3>1, <3>2, <3>5 DEF SentOnce
  <2>3. CASE e \notin Elements(editor)
    <3>1. PICK f \in Events :
              /\ Readers(e) = {f} /\ turnOf[f] = turnOf[e]
              /\ \E i \in DOMAIN content[f] :
                    {j \in DOMAIN content[f] : content[f][j] = e} = {i}
      BY <2>3 DEF RInv, SomewhereOnce, SentOnce
    <3>2. f # h
      BY <1>8, <3>1 DEF Readers, Rendered
    <3> QED
      BY <1>1, <1>9, <1>10, <2>3, <3>1, <3>2 DEF SentOnce
  <2> QED
    BY <2>2, <2>3
<1> QED
  BY <1>4, <1>7, <1>11, <1>12 DEF RInv

\* The phases of the event loop leave the texts alone.
LEMMA PhaseRInv == ASSUME RInv, EndPoll \/ EndTurn \/ UNCHANGED vars
                   PROVE  RInv'
<1>1. UNCHANGED <<editor, immediates, content, turnOf>>
  BY DEF EndPoll, EndTurn, vars
<1>2. /\ Types'
      /\ \/ turn' = turn
         \/ immediates = <<>>
  BY DEF RInv, Types, EndPoll, EndTurn, vars
<1>3. EditorOfTurn'
  BY <1>1 DEF RInv, EditorOfTurn, EndPoll, EndTurn, vars
<1>4. \A e \in Events : Readers(e)' = Readers(e) /\ SentOnce(e)' = SentOnce(e)
  BY <1>1 DEF Readers, Rendered, SentOnce
<1>5. SomewhereOnce'
  BY <1>1, <1>4 DEF RInv, SomewhereOnce
<1>6. Waiting'
  <2>1. immediates = <<>> => Elements(immediates) = {}
    BY DEF Elements
  <2> QED
    BY <1>1, <1>2, <1>4, <2>1 DEF RInv, Waiting
<1> QED
  BY <1>2, <1>3, <1>5, <1>6 DEF RInv

\* Every text that was inserted is in the editor or in one content.
THEOREM TextsKept == Spec => []RInv
<1>1. RInv /\ [Next]_vars => RInv'
  BY GetContentRInv, ResolveRInv, PhaseRInv DEF Next
<1> QED
  BY <1>1, InitRInv, PTL DEF Spec

\* No text is lost, sent twice or kept for later by the editor all requests share
\* (RichEditor.getContent).
THEOREM EveryTextIsSentOnce == Spec => []EveryTextOnce
<1>1. RInv => EveryTextOnce
  <2> SUFFICES ASSUME RInv, NEW e \in Events, turnOf[e] # None, turnOf[e] # turn
               PROVE  /\ \E f \in Events : Readers(e) = {f} /\ turnOf[f] = turnOf[e]
                      /\ \A f \in Readers(e) :
                            Cardinality({i \in DOMAIN content[f] : content[f][i] = e}) = 1
    BY DEF EveryTextOnce
  <2>1. SentOnce(e)
    BY InEditor DEF RInv, SomewhereOnce
  <2>2. PICK f \in Events :
            /\ Readers(e) = {f} /\ turnOf[f] = turnOf[e]
            /\ \E i \in DOMAIN content[f] :
                  {j \in DOMAIN content[f] : content[f][j] = e} = {i}
    BY <2>1 DEF SentOnce
  <2>3. Cardinality({i \in DOMAIN content[f] : content[f][i] = e}) = 1
    BY <2>2, FS_Singleton
  <2> QED
    BY <2>2, <2>3
<1> QED
  BY <1>1, TextsKept, PTL
=============================================================================
