-------------------------- MODULE ClientPagesProofs --------------------------
(***************************************************************************)
(* What the pages of the client show and send, for any number of           *)
(* arguments, answers, readers and visits; one part after the other.       *)
(***************************************************************************)
EXTENDS ClientPages, KanbanBoardProofs, FiniteSetTheorems, SequenceTheorems, TLAPS

-----------------------------------------------------------------------------
(* The cached debate.                                                      *)

\* A deletion follows the i-th command, or will be issued.
DeletedAfter(i) ==
    \/ undeleted # {}
    \/ \E j \in DOMAIN commands : i < j /\ commands[j].op = "del"

\* What will be stored, and what a reader has in hand, is what is published, or
\* there is a deletion that comes after it, or it is marked as late.
CommandsTrue ==
    \A i \in DOMAIN commands : commands[i].op = "set" =>
        commands[i].rows = published \/ commands[i].late \/ DeletedAfter(i)

ReadersTrue ==
    \A r \in Requests : request[r].at = "read" =>
        request[r].rows = published \/ request[r].late \/ undeleted # {}

Types ==
    /\ commands \in Seq(Cache!Command)
    /\ request \in [Requests -> Cache!Request]
    /\ published \subseteq CachedArgs
    /\ stale \in BOOLEAN

CInv == Types /\ CommandsTrue /\ ReadersTrue /\ Cache!CacheIsTrue

\* Nothing is stored, read or issued at the start.
LEMMA InitCInv == Cache!Init => CInv
<1> SUFFICES ASSUME Cache!Init
             PROVE  CInv
  OBVIOUS
<1>1. Cache!Idle \in Cache!Request /\ Cache!Idle.at # "read"
  BY DEF Cache!Idle, Cache!Request
<1>2. commands \in Seq(Cache!Command) /\ Len(commands) = 0
  BY DEF Cache!Init
<1>3. Types
  BY <1>1, <1>2 DEF Cache!Init, Types
<1>4. CommandsTrue
  BY DEF Cache!Init, CommandsTrue
<1>5. ReadersTrue
  BY <1>1 DEF Cache!Init, ReadersTrue
<1>6. Cache!CacheIsTrue
  BY DEF Cache!Init, Cache!CacheIsTrue
<1> QED
  BY <1>3, <1>4, <1>5, <1>6 DEF CInv

\* The types of the variables the invariant is about.
LEMMA NextTypes == CInv /\ [Cache!Next]_(Cache!vars) => Types'
<1> SUFFICES ASSUME Types, [Cache!Next]_(Cache!vars)
             PROVE  Types'
  BY DEF CInv
<1> USE DEF Types, Cache!Request
<1>1. ASSUME NEW a \in CachedArgs, Cache!Approve(a)
      PROVE  Types'
  BY <1>1 DEF Cache!Approve
<1>2. ASSUME NEW a \in CachedArgs, Cache!AnswerApproval(a)
      PROVE  Types'
  <2>1. [op |-> "del"] \in Cache!Command
    BY DEF Cache!Command
  <2>2. commands' \in Seq(Cache!Command)
    BY <1>2, <2>1, AppendProperties DEF Cache!AnswerApproval, Cache!Deletes
  <2>3. request' \in [Requests -> Cache!Request]
    BY <1>2 DEF Cache!AnswerApproval
  <2> QED
    BY <1>2, <2>2, <2>3 DEF Cache!AnswerApproval
<1>3. ASSUME NEW a \in CachedArgs, Cache!TakeOff(a)
      PROVE  Types'
  <2>1. DOMAIN commands = 1 .. Len(commands) /\ Len(commands) \in Nat
    BY LenProperties
  <2>2. ASSUME NEW i \in 1 .. Len(commands)
        PROVE  commands'[i] \in Cache!Command
    <3>1. commands[i] \in Cache!Command
      BY <2>1
    <3>2. CASE commands[i].op = "set"
      <4>1. commands[i] \in [op : {"set"}, rows : SUBSET CachedArgs, late : BOOLEAN]
        BY <3>1, <3>2 DEF Cache!Command
      <4>2. commands'[i] = [commands[i] EXCEPT !.late = TRUE]
        BY <1>3, <2>1, <3>2 DEF Cache!TakeOff
      <4> QED
        BY <4>1, <4>2 DEF Cache!Command
    <3>3. CASE commands[i].op # "set"
      BY <1>3, <2>1, <3>1, <3>3 DEF Cache!TakeOff
    <3> QED
      BY <3>2, <3>3
  <2>3. commands' = [i \in 1 .. Len(commands) |-> commands'[i]]
    BY <1>3, <2>1 DEF Cache!TakeOff
  <2>4. commands' \in Seq(Cache!Command)
    BY <2>1, <2>2, <2>3, IsASeq
  <2>5. request' \in [Requests -> Cache!Request]
    BY <1>3 DEF Cache!TakeOff
  <2> QED
    BY <1>3, <2>4, <2>5 DEF Cache!TakeOff
<1>4. ASSUME NEW r \in Requests,
             \/ Cache!Ask(r) \/ Cache!CacheHit(r)
             \/ Cache!CacheMiss(r) \/ Cache!ReadDebate(r)
      PROVE  Types'
  <2>1. CASE Cache!Ask(r)
    BY <2>1 DEF Cache!Ask
  <2>2. CASE Cache!CacheHit(r)
    BY <2>2 DEF Cache!CacheHit, Cache!Idle
  <2>3. CASE Cache!CacheMiss(r)
    BY <2>3 DEF Cache!CacheMiss
  <2>4. CASE Cache!ReadDebate(r)
    BY <2>4 DEF Cache!ReadDebate
  <2> QED
    BY <1>4, <2>1, <2>2, <2>3, <2>4
<1>5. ASSUME NEW r \in Requests, Cache!AnswerDebate(r)
      PROVE  Types'
  <2>1. [op |-> "set", rows |-> request[r].rows, late |-> request[r].late] \in Cache!Command
    BY DEF Cache!Command
  <2>2. commands' \in Seq(Cache!Command)
    BY <1>5, <2>1, AppendProperties DEF Cache!AnswerDebate
  <2> QED
    BY <1>5, <2>2 DEF Cache!AnswerDebate, Cache!Idle
<1>6. ASSUME Cache!CarryOut \/ Cache!CommandFails
      PROVE  Types'
  <2>1. commands' \in Seq(Cache!Command)
    BY <1>6, HeadTailProperties DEF Cache!CarryOut, Cache!CommandFails
  <2>2. Head(commands) \in Cache!Command
    BY <1>6, HeadTailProperties DEF Cache!CarryOut, Cache!CommandFails
  <2>3. stale' \in BOOLEAN
    BY <1>6, <2>2 DEF Cache!CarryOut, Cache!CommandFails, Cache!Command
  <2> QED
    BY <1>6, <2>1, <2>3 DEF Cache!CarryOut, Cache!CommandFails
<1>7. ASSUME Cache!Expire
      PROVE  Types'
  BY <1>7 DEF Cache!Expire
<1>8. ASSUME UNCHANGED Cache!vars
      PROVE  Types'
  BY <1>8 DEF Cache!vars
<1> QED
  BY <1>1, <1>2, <1>3, <1>4, <1>5, <1>6, <1>7, <1>8 DEF Cache!Next
\* While an approval is not yet answered, everything has its excuse.
LEMMA ApproveTrue == ASSUME CInv, NEW a \in CachedArgs, Cache!Approve(a)
                     PROVE  CommandsTrue' /\ ReadersTrue' /\ Cache!CacheIsTrue'
<1>1. undeleted' # {}
  BY DEF Cache!Approve
<1> QED
  BY <1>1 DEF CommandsTrue, DeletedAfter, ReadersTrue, Cache!CacheIsTrue

\* The deletion is issued after every other command, and what is in hand is late.
LEMMA AnswerApprovalTrue == ASSUME CInv, NEW a \in CachedArgs, Cache!AnswerApproval(a)
                            PROVE  CommandsTrue' /\ ReadersTrue' /\ Cache!CacheIsTrue'
<1> DEFINE last == Len(commands) + 1
<1>1. /\ Len(commands) \in Nat
      /\ DOMAIN commands' = 1 .. last
      /\ commands'[last] = [op |-> "del"]
  BY AppendProperties, LenProperties DEF CInv, Types, Cache!AnswerApproval, Cache!Deletes
<1>2. commands'[last].op = "del"
  BY <1>1
<1>3. CommandsTrue'
  <2> SUFFICES ASSUME NEW i \in DOMAIN commands', commands'[i].op = "set"
               PROVE  \E j \in DOMAIN commands' : i < j /\ commands'[j].op = "del"
    BY DEF CommandsTrue, DeletedAfter
  <2>1. i # last
    BY <1>2
  <2>2. i < last
    BY <1>1, <2>1
  <2> QED
    BY <1>1, <1>2, <2>2
<1>4. ReadersTrue'
  BY DEF CInv, Types, Cache!Request, Cache!AnswerApproval, ReadersTrue
<1>5. Cache!CacheIsTrue'
  BY <1>1, <1>2 DEF Cache!CacheIsTrue
<1> QED
  BY <1>3, <1>4, <1>5

\* What is cached, waiting or in hand is marked.
LEMMA TakeOffTrue == ASSUME CInv, NEW a \in CachedArgs, Cache!TakeOff(a)
                     PROVE  CommandsTrue' /\ ReadersTrue' /\ Cache!CacheIsTrue'
<1>1. DOMAIN commands' = DOMAIN commands
  BY DEF Cache!TakeOff
<1>2. CommandsTrue'
  <2> SUFFICES ASSUME NEW i \in DOMAIN commands, commands'[i].op = "set"
               PROVE  commands'[i].late
    BY <1>1 DEF CommandsTrue
  <2>1. commands[i] \in Cache!Command
    BY LenProperties DEF CInv, Types
  <2>2. CASE commands[i].op = "set"
    <3>1. commands[i] \in [op : {"set"}, rows : SUBSET CachedArgs, late : BOOLEAN]
      BY <2>1, <2>2 DEF Cache!Command
    <3>2. commands'[i] = [commands[i] EXCEPT !.late = TRUE]
      BY <2>2 DEF Cache!TakeOff
    <3> QED
      BY <3>1, <3>2
  <2>3. CASE commands[i].op # "set"
    BY <2>3 DEF Cache!TakeOff
  <2> QED
    BY <2>2, <2>3
<1>3. ReadersTrue'
  BY DEF CInv, Types, Cache!Request, Cache!TakeOff, ReadersTrue
<1>4. Cache!CacheIsTrue'
  BY DEF Cache!TakeOff, Cache!CacheIsTrue
<1> QED
  BY <1>2, <1>3, <1>4

\* A reader that reads has what is published; the other steps read nothing.
LEMMA ReaderTrue ==
    ASSUME CInv, NEW r \in Requests,
           Cache!Ask(r) \/ Cache!CacheHit(r) \/ Cache!CacheMiss(r) \/ Cache!ReadDebate(r)
    PROVE  CommandsTrue' /\ ReadersTrue' /\ Cache!CacheIsTrue'
<1>1. UNCHANGED <<published, undeleted, cache, commands, stale>>
  BY DEF Cache!Ask, Cache!CacheHit, Cache!CacheMiss, Cache!ReadDebate
<1>2. CommandsTrue'
  BY <1>1 DEF CInv, CommandsTrue, DeletedAfter
<1>3. Cache!CacheIsTrue'
  BY <1>1 DEF CInv, Cache!CacheIsTrue
<1>4. ReadersTrue'
  <2> SUFFICES ASSUME NEW q \in Requests, request'[q].at = "read"
               PROVE  \/ request'[q].rows = published
                      \/ request'[q].late \/ undeleted # {}
    BY <1>1 DEF ReadersTrue
  <2>1. request \in [Requests -> Cache!Request]
    BY DEF CInv, Types
  <2>2. CASE request'[q] = request[q]
    BY <2>2 DEF CInv, ReadersTrue
  <2>3. CASE request'[q] # request[q]
    <3>1. q = r
      BY <2>1, <2>3 DEF Cache!Ask, Cache!CacheHit, Cache!CacheMiss, Cache!ReadDebate
    <3>2. CASE Cache!Ask(r)
      BY <2>1, <3>1, <3>2 DEF Cache!Ask, Cache!Request
    <3>3. CASE Cache!CacheHit(r)
      BY <2>1, <3>1, <3>3 DEF Cache!CacheHit, Cache!Idle
    <3>4. CASE Cache!CacheMiss(r)
      BY <2>1, <3>1, <3>4 DEF Cache!CacheMiss, Cache!Request
    <3>5. CASE Cache!ReadDebate(r)
      BY <2>1, <3>1, <3>5 DEF Cache!ReadDebate
    <3> QED
      BY <3>2, <3>3, <3>4, <3>5
  <2> QED
    BY <2>2, <2>3
<1> QED
  BY <1>2, <1>3, <1>4

\* What is stored has the excuse of what was in hand.
LEMMA AnswerDebateTrue == ASSUME CInv, NEW r \in Requests, Cache!AnswerDebate(r)
                          PROVE  CommandsTrue' /\ ReadersTrue' /\ Cache!CacheIsTrue'
<1> DEFINE last == Len(commands) + 1
<1>1. /\ Len(commands) \in Nat
      /\ DOMAIN commands = 1 .. Len(commands)
      /\ DOMAIN commands' = 1 .. last
      /\ \A i \in DOMAIN commands : commands'[i] = commands[i]
      /\ commands'[last] = [op |-> "set", rows |-> request[r].rows,
                            late |-> request[r].late]
  BY AppendProperties, LenProperties DEF CInv, Types, Cache!AnswerDebate
<1>2. UNCHANGED <<published, undeleted, cache, stale>> /\ request[r].at = "read"
  BY DEF Cache!AnswerDebate
<1>3. CommandsTrue'
  <2> SUFFICES ASSUME NEW i \in DOMAIN commands', commands'[i].op = "set"
               PROVE  commands'[i].rows = published \/ commands'[i].late
                      \/ DeletedAfter(i)'
    BY <1>2 DEF CommandsTrue
  <2>1. CASE i = last
    <3>1. request[r].rows = published \/ request[r].late \/ undeleted # {}
      BY <1>2 DEF CInv, ReadersTrue
    <3>2. commands'[i].rows = request[r].rows /\ commands'[i].late = request[r].late
      BY <1>1, <2>1
    <3> QED
      BY <1>2, <3>1, <3>2 DEF DeletedAfter
  <2>2. CASE i # last
    <3>1. i \in DOMAIN commands /\ commands'[i] = commands[i]
      BY <1>1, <2>2
    <3>2. commands[i].rows = published \/ commands[i].late \/ DeletedAfter(i)
      BY <3>1 DEF CInv, CommandsTrue
    <3>3. DeletedAfter(i) => DeletedAfter(i)'
      BY <1>1, <1>2 DEF DeletedAfter
    <3> QED
      BY <3>1, <3>2, <3>3
  <2> QED
    BY <2>1, <2>2
<1>4. ReadersTrue'
  BY <1>2 DEF CInv, Types, Cache!Idle, Cache!AnswerDebate, ReadersTrue
<1>5. Cache!CacheIsTrue'
  BY <1>1, <1>2 DEF CInv, Cache!CacheIsTrue
<1> QED
  BY <1>3, <1>4, <1>5
\* Taking the first command off shifts the others by one.
LEMMA TailShifts == ASSUME CInv, commands # <<>>, commands' = Tail(commands),
                           UNCHANGED undeleted
                    PROVE  /\ \A i \in DOMAIN commands' :
                                /\ i + 1 \in DOMAIN commands
                                /\ commands'[i] = commands[i + 1]
                           /\ \A i \in DOMAIN commands : i # 1 =>
                                /\ i - 1 \in DOMAIN commands'
                                /\ commands'[i - 1] = commands[i]
                           /\ 1 \in DOMAIN commands
                           /\ \A i \in Nat : DeletedAfter(i + 1) => DeletedAfter(i)'
<1>1. commands \in Seq(Cache!Command) /\ commands' \in Seq(Cache!Command)
  BY HeadTailProperties DEF CInv, Types
<1>2. /\ Len(commands) \in Nat \ {0}
      /\ Len(commands') = Len(commands) - 1
      /\ \A i \in 1 .. Len(commands') : commands'[i] = commands[i + 1]
  BY <1>1, HeadTailProperties, EmptySeq, LenProperties
<1>3. DOMAIN commands = 1 .. Len(commands) /\ DOMAIN commands' = 1 .. Len(commands')
  BY <1>1, LenProperties
<1>4. /\ 1 \in DOMAIN commands
      /\ \A i \in DOMAIN commands' :
           i + 1 \in DOMAIN commands /\ commands'[i] = commands[i + 1]
  BY <1>2, <1>3
<1>5. ASSUME NEW i \in DOMAIN commands, i # 1
      PROVE  i - 1 \in DOMAIN commands' /\ commands'[i - 1] = commands[i]
  <2>1. i - 1 \in 1 .. Len(commands') /\ (i - 1) + 1 = i
    BY <1>2, <1>3, <1>5
  <2> QED
    BY <1>2, <1>3, <2>1
<1>6. ASSUME NEW i \in Nat, DeletedAfter(i + 1)
      PROVE  DeletedAfter(i)'
  <2>1. CASE undeleted # {}
    BY <2>1 DEF DeletedAfter
  <2>2. CASE undeleted = {}
    <3>1. PICK j \in DOMAIN commands : i + 1 < j /\ commands[j].op = "del"
      BY <1>6, <2>2 DEF DeletedAfter
    <3>2. j # 1 /\ i < j - 1
      BY <1>3, <3>1
    <3>3. j - 1 \in DOMAIN commands' /\ commands'[j - 1].op = "del"
      BY <1>5, <3>1, <3>2
    <3> QED
      BY <3>2, <3>3 DEF DeletedAfter
  <2> QED
    BY <2>1, <2>2
<1> QED
  BY <1>4, <1>5, <1>6

\* What is stored has the excuse the command had; a deletion leaves nothing.
LEMMA FirstCommandTrue == ASSUME CInv, Cache!CarryOut \/ Cache!CommandFails
                          PROVE  CommandsTrue' /\ ReadersTrue' /\ Cache!CacheIsTrue'
<1>1. /\ commands # <<>> /\ commands' = Tail(commands)
      /\ UNCHANGED <<published, undeleted, request>>
  BY DEF Cache!CarryOut, Cache!CommandFails
<1>2. /\ \A i \in DOMAIN commands' :
           i + 1 \in DOMAIN commands /\ commands'[i] = commands[i + 1]
      /\ \A i \in DOMAIN commands : i # 1 =>
           i - 1 \in DOMAIN commands' /\ commands'[i - 1] = commands[i]
      /\ 1 \in DOMAIN commands
      /\ \A i \in Nat : DeletedAfter(i + 1) => DeletedAfter(i)'
  BY <1>1, TailShifts
<1>3. DOMAIN commands' \subseteq Nat /\ DOMAIN commands \subseteq Nat
  <2>1. commands \in Seq(Cache!Command) /\ commands' \in Seq(Cache!Command)
    BY <1>1, HeadTailProperties DEF CInv, Types
  <2> QED
    BY <2>1, LenProperties
<1>4. CommandsTrue'
  <2> SUFFICES ASSUME NEW i \in DOMAIN commands', commands'[i].op = "set"
               PROVE  commands'[i].rows = published \/ commands'[i].late
                      \/ DeletedAfter(i)'
    BY <1>1 DEF CommandsTrue
  <2>1. i + 1 \in DOMAIN commands /\ commands'[i] = commands[i + 1]
    BY <1>2
  <2>2. commands[i + 1].rows = published \/ commands[i + 1].late
        \/ DeletedAfter(i + 1)
    BY <2>1 DEF CInv, CommandsTrue
  <2> QED
    BY <1>2, <1>3, <2>1, <2>2
<1>5. ReadersTrue'
  BY <1>1 DEF CInv, ReadersTrue
<1>6. Head(commands) = commands[1] /\ commands[1] \in Cache!Command
  BY <1>1, <1>2, HeadTailProperties, LenProperties DEF CInv, Types
<1>7. CASE Cache!CarryOut
  <2> SUFFICES Cache!CacheIsTrue'
    BY <1>4, <1>5
  <2>1. CASE commands[1].op = "del"
    BY <1>6, <1>7, <2>1 DEF Cache!CarryOut, Cache!CacheIsTrue
  <2>2. CASE commands[1].op # "del"
    <3>1. commands[1].op = "set"
      BY <1>6, <2>2 DEF Cache!Command
    <3>2. cache' = commands[1].rows /\ stale' = commands[1].late
      BY <1>6, <1>7, <2>2 DEF Cache!CarryOut
    <3>3. commands[1].rows = published \/ commands[1].late \/ DeletedAfter(1)
      BY <1>2, <3>1 DEF CInv, CommandsTrue
    <3>4. DeletedAfter(1) => DeletedAfter(0)'
      BY <1>2
    <3> QED
      BY <1>1, <3>2, <3>3, <3>4 DEF Cache!CacheIsTrue, DeletedAfter
  <2> QED
    BY <2>1, <2>2
<1>8. CASE Cache!CommandFails
  <2>1. UNCHANGED <<published, undeleted, cache>>
        /\ stale' = (stale \/ commands[1].op = "del")
    BY <1>6, <1>8 DEF Cache!CommandFails
  <2> SUFFICES ASSUME cache \notin {Null, published}, undeleted = {}, ~stale,
                      NEW i \in DOMAIN commands, commands[i].op = "del"
               PROVE  (\E j \in DOMAIN commands' : commands'[j].op = "del") \/ stale'
    BY <1>4, <1>5, <2>1 DEF CInv, Cache!CacheIsTrue
  <2>2. CASE i = 1
    BY <2>1, <2>2
  <2>3. CASE i # 1
    BY <1>2, <2>3
  <2> QED
    BY <2>2, <2>3
<1> QED
  BY <1>7, <1>8, <1>4, <1>5

\* Nothing cached, nothing wrong.
LEMMA ExpireTrue == ASSUME CInv, Cache!Expire
                    PROVE  CommandsTrue' /\ ReadersTrue' /\ Cache!CacheIsTrue'
  BY DEF CInv, Cache!Expire, CommandsTrue, DeletedAfter, ReadersTrue, Cache!CacheIsTrue

\* Every step of the readers, the approvals and the cache keeps the invariant.
LEMMA NextCInv == CInv /\ [Cache!Next]_(Cache!vars) => CInv'
<1> SUFFICES ASSUME CInv, [Cache!Next]_(Cache!vars)
             PROVE  CommandsTrue' /\ ReadersTrue' /\ Cache!CacheIsTrue'
  BY NextTypes DEF CInv
<1>1. ASSUME NEW a \in CachedArgs,
             Cache!Approve(a) \/ Cache!AnswerApproval(a) \/ Cache!TakeOff(a)
      PROVE  CommandsTrue' /\ ReadersTrue' /\ Cache!CacheIsTrue'
  BY <1>1, ApproveTrue, AnswerApprovalTrue, TakeOffTrue
<1>2. ASSUME NEW r \in Requests, Cache!Ask(r) \/ Cache!CacheHit(r) \/ Cache!CacheMiss(r)
                                 \/ Cache!ReadDebate(r) \/ Cache!AnswerDebate(r)
      PROVE  CommandsTrue' /\ ReadersTrue' /\ Cache!CacheIsTrue'
  BY <1>2, ReaderTrue, AnswerDebateTrue
<1>3. CASE Cache!CarryOut \/ Cache!CommandFails
  BY <1>3, FirstCommandTrue
<1>4. CASE Cache!Expire
  BY <1>4, ExpireTrue
<1>5. CASE UNCHANGED Cache!vars
  BY <1>5 DEF Cache!vars, CInv, CommandsTrue, DeletedAfter, ReadersTrue, Cache!CacheIsTrue
<1> QED
  BY <1>1, <1>2, <1>3, <1>4, <1>5 DEF Cache!Next

\* The deletion an approval issues makes the cached debate the published one,
\* with as many readers and approvals at a time as there may be, but for the
\* excuses CacheIsTrue names (getDebate, approveArgument).
THEOREM CacheHolds == Cache!Spec => []CacheIsTrue
<1>1. Cache!Init => CInv
  BY InitCInv
<1>2. CInv /\ [Cache!Next]_(Cache!vars) => CInv'
  BY NextCInv
<1>3. CInv => CacheIsTrue
  BY DEF CInv, CacheIsTrue
<1> QED
  BY <1>1, <1>2, <1>3, PTL DEF Cache!Spec

-----------------------------------------------------------------------------
(* What is expanded on the page of a debate.                               *)

\* The answers still to come to this visit start from contents that have all that
\* is expanded without an excuse.
ReadsCarryOn ==
    \A r \in reads :
        /\ r.visit \in 1 .. readings
        /\ r.visit = readings => expanded \ excused \subseteq r.contents

PInv == readings \in Nat \ {0} /\ ReadsCarryOn /\ Reading!ExpandedIsRead

\* Nothing is expanded or asked for at the start.
LEMMA InitPInv == Reading!Init => PInv
  BY DEF Reading!Init, PInv, ReadsCarryOn, Reading!ExpandedIsRead

\* A click takes the contents there are, which have all that is expanded.
LEMMA ReadPInv == ASSUME PInv, NEW a \in ReadArgs, Reading!OnReadArgument(a)
                  PROVE  PInv'
<1>1. PICK new : new = [id |-> asked', arg |-> a, visit |-> readings, contents |-> contents]
  OBVIOUS
<1>2. reads' = reads \cup {new} /\ UNCHANGED <<contents, expanded, readings, excused>>
  BY <1>1 DEF Reading!OnReadArgument, Reading!ContentsOfRender
<1>3. readings \in 1 .. readings
  BY DEF PInv
<1>4. new.visit = readings /\ expanded \ excused \subseteq new.contents
  BY <1>1 DEF PInv, Reading!ExpandedIsRead
<1> QED
  BY <1>2, <1>3, <1>4 DEF PInv, ReadsCarryOn, Reading!ExpandedIsRead

\* Contents put into those of the click have all that is expanded, and what the answers
\* still to come may drop is excused.
LEMMA CamePInv == ASSUME PInv, NEW r \in reads, Reading!ArgumentCame(r)
                  PROVE  PInv'
<1>1. /\ reads' = reads \ {r} /\ expanded' = expanded \cup {r.arg} /\ UNCHANGED readings
      /\ contents' = IF r.visit = readings THEN r.contents \cup {r.arg} ELSE contents
      /\ excused' = IF r.visit = readings /\ Reading!OfThisVisit = {r}
                    THEN excused \ {r.arg} ELSE excused \cup {r.arg}
  BY DEF Reading!ArgumentCame, Reading!ContentsAfter
<1>2. r.visit = readings => expanded \ excused \subseteq r.contents
  BY DEF PInv, ReadsCarryOn
<1>3. expanded \ excused \subseteq contents
  BY DEF PInv, Reading!ExpandedIsRead
<1>4. CASE r.visit = readings /\ Reading!OfThisVisit = {r}
  <2>1. \A q \in reads' : q.visit # readings
    BY <1>1, <1>4 DEF Reading!OfThisVisit
  <2>2. expanded' \ excused' \subseteq contents'
    BY <1>1, <1>2, <1>4
  <2> QED
    BY <1>1, <2>1, <2>2 DEF PInv, ReadsCarryOn, Reading!ExpandedIsRead
<1>5. CASE ~(r.visit = readings /\ Reading!OfThisVisit = {r})
  <2>1. expanded' \ excused' \subseteq expanded \ excused
    BY <1>1, <1>5
  <2>2. expanded' \ excused' \subseteq contents'
    BY <1>1, <1>2, <1>3, <2>1
  <2>3. ASSUME NEW q \in reads'
        PROVE  /\ q.visit \in 1 .. readings
               /\ q.visit = readings => expanded' \ excused' \subseteq q.contents
    BY <1>1, <2>1, <2>3 DEF PInv, ReadsCarryOn
  <2> QED
    BY <1>1, <2>2, <2>3 DEF PInv, ReadsCarryOn, Reading!ExpandedIsRead
<1> QED
  BY <1>4, <1>5

\* An answer that fails expands nothing.
LEMMA FailPInv == ASSUME PInv, NEW r \in reads, Reading!ReadFails(r)
                  PROVE  PInv'
  BY DEF Reading!ReadFails, PInv, ReadsCarryOn, Reading!ExpandedIsRead

\* Collapsing, following threads and stuttering expand nothing either.
LEMMA SmallerPInv == ASSUME PInv, expanded' \subseteq expanded,
                            UNCHANGED <<contents, reads, readings, excused>>
                     PROVE  PInv'
<1>1. Reading!ExpandedIsRead'
  BY DEF PInv, Reading!ExpandedIsRead
<1>2. ReadsCarryOn'
  BY DEF PInv, ReadsCarryOn
<1> QED
  BY <1>1, <1>2 DEF PInv

\* The page opened again has nothing expanded.
LEMMA RevisitPInv == ASSUME PInv, Reading!Revisit
                     PROVE  PInv'
<1>1. readings' = readings + 1 /\ expanded' = {} /\ reads' = reads
  BY DEF Reading!Revisit
<1>2. Reading!ExpandedIsRead' /\ readings' \in Nat \ {0}
  BY <1>1 DEF PInv, Reading!ExpandedIsRead
<1>3. ReadsCarryOn'
  BY <1>1 DEF PInv, ReadsCarryOn
<1> QED
  BY <1>2, <1>3 DEF PInv

\* Every step of the page keeps the invariant.
LEMMA NextPInv == PInv /\ [Reading!Next]_(Reading!vars) => PInv'
<1> SUFFICES ASSUME PInv, [Reading!Next]_(Reading!vars) PROVE PInv'
  OBVIOUS
<1>1. ASSUME NEW a \in ReadArgs, Reading!OnReadArgument(a) PROVE PInv'
  BY <1>1, ReadPInv
<1>2. ASSUME NEW a \in ReadArgs, Reading!OnCollapseArgument(a) PROVE PInv'
  BY <1>2, SmallerPInv DEF Reading!OnCollapseArgument
<1>3. ASSUME NEW a \in ReadArgs, Reading!Inspect(a) PROVE PInv'
  BY <1>3, SmallerPInv DEF Reading!Inspect
<1>4. ASSUME NEW r \in reads, Reading!ArgumentCame(r) PROVE PInv'
  BY <1>4, CamePInv
<1>5. ASSUME NEW r \in reads, Reading!ReadFails(r) PROVE PInv'
  BY <1>5, FailPInv
<1>6. CASE Reading!StopInspecting
  BY <1>6, SmallerPInv DEF Reading!StopInspecting
<1>7. CASE Reading!Revisit
  BY <1>7, RevisitPInv
<1>8. CASE UNCHANGED Reading!vars
  BY <1>8, SmallerPInv DEF Reading!vars
<1> QED
  BY <1>1, <1>2, <1>3, <1>4, <1>5, <1>6, <1>7, <1>8 DEF Reading!Next

\* An expanded argument has its content unless another answer was still to come when it
\* came, or it was for an earlier visit, whatever is read, collapsed and opened again (onReadArgument,
\* onCollapseArgument, setCurrentDebate).
THEOREM ExpandedHasContent == Reading!Spec => []ExpandedIsRead
<1>1. PInv => ExpandedIsRead
  BY DEF PInv, ExpandedIsRead
<1> QED
  BY InitPInv, NextPInv, <1>1, PTL DEF Reading!Spec

-----------------------------------------------------------------------------
(* The list of debates and its filters.                                    *)

SearchRequest == [n : 1 .. MaxSearches, query : Search!Query, form : Search!Form,
                  stage : {"sent", "answered"}, at : SUBSET Debates,
                  answer : SUBSET Debates]
TypingTimer == [n : 1 .. MaxSearched, useTags : BOOLEAN, current : BOOLEAN]
PickerState == [items : SUBSET Search!Item, selected : SUBSET (Tags \cup 1 .. MaxCreated),
                created : SUBSET (1 .. MaxCreated)]

\* The types, with what can be chosen in the filters: tags there are.
SearchTyped ==
    /\ Search!TypeOK
    /\ picker \in [Search!Pickers -> PickerState]
    /\ {i.id : i \in picker["filter"].items} \subseteq Tags
    /\ searches \subseteq SearchRequest
    /\ answered \in [n : Nat, form : Search!Form, at : SUBSET Debates]

\* A request asks for what the form says.
Carries(query, f) ==
    /\ query.queryStr = f.text
    /\ query.tags = IF f.tags = {} THEN Null ELSE f.tags
    /\ f.tags # {} => query.tags_match = f.strategy

SearchesTrue ==
    \A r \in searches :
        /\ Carries(r.query, r.form)
        /\ r.stage = "answered" => r.answer = {d \in r.at : Search!Wanted(r.form, d)}

ListedTrue == listed = {d \in answered.at : Search!Wanted(answered.form, d)}

\* While nothing failed or was overtaken, the last request is on its way or listed;
\* and once no timer is to fire it was made with the text that is in the input.
LastIsCurrent ==
    ordered =>
        /\ answered.n = searchSends \/ \E r \in searches : r.n = searchSends
        /\ inputTimers = {} =>
              /\ answered.n = searchSends => answered.form.text = text
              /\ \A r \in searches : r.n = searchSends => r.form.text = text

SearchInv == SearchTyped /\ SearchesTrue /\ ListedTrue /\ LastIsCurrent

\* Tags of debates on the page are items whose ids are tags.
LEMMA ListedTags ==
  ASSUME listed \subseteq Debates
  PROVE  /\ Search!TagsListed \subseteq Search!Item
         /\ {i.id : i \in Search!TagsListed} \subseteq Tags
         /\ \A i \in Search!TagsListed : i.id \in Tags
<1>1. ASSUME NEW t \in UNION {TagsOf[d] : d \in listed}
      PROVE  t \in Tags /\ Search!TagItem(t) \in Search!Item /\ Search!TagItem(t).id = t
  <2>1. t \in Tags
    BY <1>1, TagsOfDebates
  <2> QED
    BY <2>1 DEF Search!TagItem, Search!Item
<1> QED
  BY <1>1 DEF Search!TagsListed

\* A picker that is created anew.
LEMMA NewPickerOK ==
  ASSUME NEW items, items \in {{}, Search!TagsListed}, listed \subseteq Debates
  PROVE  /\ Search!PickerOK(Search!NewPicker(items))
         /\ Search!NewPicker(items) \in PickerState
         /\ {i.id : i \in Search!NewPicker(items).items} \subseteq Tags
  BY ListedTags DEF Search!PickerOK, Search!NewPicker, PickerState

\* The page comes with the debates that are published, or with none.
LEMMA InitSearchInv == Search!Init => SearchInv
<1> SUFFICES ASSUME Search!Init PROVE SearchInv
  OBVIOUS
<1>1. listed \subseteq Debates
  BY DEF Search!Init, Search!Tagged
<1>2. Search!NoFilter \in Search!Form
  BY DEF Search!NoFilter, Search!Form, Search!Text, Search!Strategies
<1>3. Search!TypeOK
  <2>1. \A p \in Search!Pickers : Search!PickerOK(picker[p])
    BY <1>1, NewPickerOK DEF Search!Init
  <2>2. /\ DOMAIN picker = Search!Pickers
        /\ answered.n \in 0 .. searchSends /\ answered.form \in Search!Form
        /\ answered.at \subseteq Debates
    BY <1>1, <1>2 DEF Search!Init
  <2>3. /\ searchSends \in 0 .. MaxSearches /\ searched \in 0 .. MaxSearched
        /\ clicks \in 0 .. MaxClicks /\ createdTags \in 0 .. MaxCreated
        /\ publications \in 0 .. MaxPublished
    BY PagesBounds DEF Search!Init
  <2>4. {unfolded, isDialogOpen, ordered} \subseteq BOOLEAN
    BY DEF Search!Init
  <2> QED
    BY <1>1, <2>1, <2>2, <2>3, <2>4
       DEF Search!Init, Search!TypeOK, Search!Text, Search!Strategies
<1>4. SearchTyped
  BY <1>1, <1>2, <1>3, NewPickerOK DEF Search!Init, SearchTyped, Search!Pickers
<1>5. ListedTrue
  BY DEF ListedTrue, Search!Init, Search!NoFilter, Search!Wanted, Search!Tagged
<1> QED
  BY <1>4, <1>5 DEF SearchInv, SearchesTrue, LastIsCurrent, Search!Init, Search!NoFilter

\* The debates the query passes are those the form wants.
LEMMA PassesWanted ==
  ASSUME NEW query \in Search!Query, NEW f \in Search!Form, Carries(query, f),
         ~Search!Throws(Search!Transform(query)), NEW d \in Debates
  PROVE  TagsOf[d] # {} /\ Search!Passes(Search!Transform(query), d)
            <=> Search!Wanted(f, d)
<1> SUFFICES ASSUME NEW filters, filters = Search!Transform(query)
             PROVE  TagsOf[d] # {} /\ Search!Passes(filters, d) <=> Search!Wanted(f, d)
  OBVIOUS
<1>1. Null \notin SUBSET Tags /\ Null \notin Search!TagValues /\ Null \notin Search!Filters
  BY NullIsNothing
<1>2. TagsOf[d] \subseteq Tags /\ f.tags \subseteq Tags
      /\ f.strategy \in {"any", "all"}
  BY TagsOfDebates DEF Search!Form, Search!Strategies
<1>3. CASE query = Search!NoKeys
  <2>1. f.text = Null /\ query.tags = Null
    BY <1>3 DEF Search!NoKeys, Carries
  <2>2. f.tags = {}
    BY <1>1, <1>2, <2>1 DEF Carries
  <2>3. Search!Passes(filters, d)
    BY <1>3 DEF Search!Transform, Search!Passes
  <2> QED
    BY <2>1, <2>2, <2>3 DEF Search!Wanted
<1>4. CASE query # Search!NoKeys
  <2> DEFINE values == [values |-> query.tags,
                        matchingStrategy |-> IF query.tags_match = "all" THEN "all" ELSE "any"]
  <2>1. /\ filters = [queryStr |-> query.queryStr,
                      tags |-> IF query.tags = Null THEN Null ELSE values]
    BY <1>4 DEF Search!Transform
  <2>2. filters.queryStr = f.text
    BY <2>1 DEF Carries
  <2>3. CASE f.tags = {}
    <3>1. filters.tags = Null
      BY <2>1, <2>3 DEF Carries
    <3>2. filters \in Search!Filters
      BY <2>1, <3>1 DEF Search!Filters, Search!Query, Search!Text
    <3> QED
      BY <1>1, <2>2, <2>3, <3>1, <3>2 DEF Search!Wanted, Search!Passes
  <2>4. CASE f.tags # {}
    <3>1. query.tags = f.tags /\ query.tags # Null /\ query.tags_match = f.strategy
      BY <1>1, <1>2, <2>4 DEF Carries
    <3>2. values \in Search!TagValues
      BY <1>2, <3>1 DEF Search!TagValues, Search!Strategies
    <3>3. filters.tags = values /\ values # Null
      BY <1>1, <2>1, <3>1, <3>2
    <3>4. filters \in Search!Filters
      BY <2>1, <3>1, <3>2 DEF Search!Filters, Search!Query, Search!Text
    <3>5. values.values = f.tags
          /\ (values.matchingStrategy = "any" <=> f.strategy # "all")
      BY <1>2, <3>1
    <3> HIDE DEF values
    <3>6. Search!TagFilters(filters.tags, d)
            <=> IF f.strategy = "all" THEN f.tags = TagsOf[d]
                ELSE \E t \in f.tags : t \in TagsOf[d]
      BY <3>3, <3>5 DEF Search!TagFilters
    <3>7. filters # Null
      BY <1>1, <3>4
    <3> QED
      BY <2>2, <2>4, <3>3, <3>6, <3>7 DEF Search!Wanted, Search!Passes
  <2> QED
    BY <2>3, <2>4
<1> QED
  BY <1>3, <1>4

\* A request that is made carries the f, and is the last one.
MadeRequest ==
    /\ searchSends' = searchSends + 1 /\ searchSends' \in 1 .. MaxSearches
    /\ ordered' = ordered
    /\ \E new \in SearchRequest :
          /\ Carries(new.query, new.form) /\ new.form.text = text
          /\ new.n = searchSends' /\ new.stage = "sent" /\ new.answer \subseteq new.at
          /\ searches' = searches \cup {new}

\* An apply makes one request that carries the form, or none with the order broken.
LEMMA ApplyFiltersMakes ==
  ASSUME SearchTyped, NEW useTags \in BOOLEAN, Search!ApplyFilters(useTags)
  PROVE  \/ ordered' = FALSE /\ UNCHANGED <<searches, searchSends>>
         \/ MadeRequest
<1> DEFINE chosen == Search!SelectedTags(useTags)
<1>1. CASE text \in Unsendable
  BY <1>1 DEF Search!ApplyFilters
<1>2. CASE text \notin Unsendable
  <2>1. picker["filter"].selected \subseteq Tags
    BY DEF SearchTyped, Search!TypeOK, Search!Pickers, Search!PickerOK
  <2>2. chosen \subseteq Tags /\ chosen = Search!FormOf(useTags).tags
    BY <2>1 DEF Search!SelectedTags, Search!FormOf
  <2>3. text \in Search!Text /\ strategy \in Search!Strategies
    BY DEF SearchTyped, Search!TypeOK
  <2>4. Search!FormOf(useTags) \in Search!Form /\ Search!FormOf(useTags).text = text
        /\ Search!FormOf(useTags).strategy = strategy
    BY <2>1, <2>3 DEF Search!FormOf, Search!Form
  <2>5. Search!QueryOf(useTags) \in Search!Query
    BY <2>2, <2>3 DEF Search!QueryOf, Search!Query
  <2>6. Carries(Search!QueryOf(useTags), Search!FormOf(useTags))
    BY <2>2, <2>4 DEF Search!QueryOf, Search!SelectedTags, Carries
  <2>7. searchSends' = searchSends + 1 /\ searchSends' \in 1 .. MaxSearches
    BY <1>2, PagesBounds DEF Search!ApplyFilters, SearchTyped, Search!TypeOK
  <2> HIDE DEF chosen
  <2>8. PICK query \in Search!Query : query = Search!QueryOf(useTags)
    BY <2>5
  <2>9. PICK filled \in Search!Form : filled = Search!FormOf(useTags)
    BY <2>4
  <2>10. PICK new : new = [n |-> searchSends', query |-> query, form |-> filled,
                           stage |-> "sent", at |-> {}, answer |-> {}]
    OBVIOUS
  <2>11. new \in SearchRequest
    BY <2>7, <2>10 DEF SearchRequest
  <2>12. /\ new.query = query /\ new.form = filled /\ new.n = searchSends'
         /\ new.stage = "sent" /\ new.answer = {} /\ new.at = {}
    BY <2>10
  <2>13. searches' = searches \cup {new} /\ ordered' = ordered
    BY <1>2, <2>8, <2>9, <2>10 DEF Search!ApplyFilters
  <2>14. Carries(new.query, new.form) /\ new.form.text = text
    BY <2>4, <2>6, <2>8, <2>9, <2>12
  <2> QED
    BY <2>7, <2>11, <2>12, <2>13, <2>14 DEF MadeRequest
<1> QED
  BY <1>1, <1>2

\* A picker after a click on an item, or on the name of a tag to be made.
LEMMA HandleItemSelectTypes ==
  ASSUME SearchTyped, NEW p \in Search!Pickers, NEW tag \in Search!Item,
         Search!HandleItemSelect(p, tag),
         tag \in picker[p].items \/ tag.id \in 1 .. MaxCreated,
         tag.id \in Tags \/ p = "dialog"
  PROVE  /\ picker' \in [Search!Pickers -> PickerState]
         /\ \A q \in Search!Pickers : Search!PickerOK(picker'[q])
         /\ {i.id : i \in picker'["filter"].items} \subseteq Tags
<1> DEFINE old == picker[p]
           new == picker'[p]
<1>1. old \in PickerState /\ Search!PickerOK(old)
  BY DEF SearchTyped, Search!TypeOK
<1>2. /\ new.items = old.items \cup {tag}
      /\ new.created = IF tag.id \in {i.id : i \in old.items} THEN old.created
                       ELSE old.created \cup {tag.id}
      /\ new.selected = IF tag.id \in old.selected THEN old.selected \ {tag.id}
                        ELSE old.selected \cup {tag.id}
      /\ new = [items |-> new.items, created |-> new.created, selected |-> new.selected]
  BY DEF SearchTyped, Search!HandleItemSelect
<1>3. \A q \in Search!Pickers : q # p => picker'[q] = picker[q]
  BY DEF SearchTyped, Search!HandleItemSelect
<1>4. picker' = [q \in Search!Pickers |-> picker'[q]]
  BY DEF SearchTyped, Search!HandleItemSelect
<1>5. tag.id \in 1 .. MaxCreated => tag.id \notin Tags
  BY TagsOfDebates
<1>6. tag.id \in 1 .. MaxCreated \/ tag.id \in {i.id : i \in old.items}
  OBVIOUS
<1> HIDE DEF old, new
<1>7. /\ new.items \subseteq Search!Item
      /\ new.selected \subseteq {i.id : i \in new.items}
      /\ tag.id \in Tags \cup 1 .. MaxCreated
  BY <1>1, <1>2 DEF Search!PickerOK, Search!Item
<1>8. new.created \subseteq 1 .. MaxCreated
  BY <1>1, <1>2, <1>6 DEF Search!PickerOK
<1>9. ASSUME NEW i \in new.items
      PROVE  i.id \in new.created <=> i.id \notin Tags
  <2>1. CASE i \in old.items
    <3>1. i.id \in old.created <=> i.id \notin Tags
      BY <1>1, <2>1 DEF Search!PickerOK
    <3> QED
      BY <1>2, <1>5, <1>6, <2>1, <3>1
  <2>2. CASE i = tag /\ tag \notin old.items
    <3>1. tag.id \in 1 .. MaxCreated /\ tag.id \notin Tags
      BY <1>5, <2>2 DEF old
    <3>2. CASE tag.id \in {j.id : j \in old.items}
      <4>1. PICK j \in old.items : j.id = tag.id
        BY <3>2
      <4> QED
        BY <1>1, <1>2, <2>2, <3>1, <3>2, <4>1 DEF Search!PickerOK
    <3> QED
      BY <1>2, <2>2, <3>1, <3>2
  <2> QED
    BY <1>2, <2>1, <2>2
<1>10. Search!PickerOK(new) /\ new \in PickerState
  <2>1. Search!PickerOK(new)
    BY <1>7, <1>8, <1>9 DEF Search!PickerOK
  <2>2. new.selected \subseteq Tags \cup 1 .. MaxCreated
    BY <1>1, <1>2, <1>7 DEF PickerState
  <2> QED
    BY <1>2, <1>7, <1>8, <2>1, <2>2 DEF PickerState
<1>11. {i.id : i \in picker'["filter"].items} \subseteq Tags
  <2>1. CASE p = "filter"
    BY <1>2, <2>1 DEF SearchTyped, old, new
  <2>2. CASE p # "filter"
    BY <1>3, <2>2 DEF SearchTyped, Search!Pickers
  <2> QED
    BY <2>1, <2>2
<1> QED
  BY <1>3, <1>4, <1>10, <1>11 DEF SearchTyped, Search!TypeOK, new

\* The pickers, with the clicks and the timers their steps change.
PickersTyped ==
    /\ picker \in [Search!Pickers -> PickerState]
    /\ \A p \in Search!Pickers : Search!PickerOK(picker[p])
    /\ {i.id : i \in picker["filter"].items} \subseteq Tags

\* One picker created anew.
LEMMA RenewedPicker ==
  ASSUME SearchTyped, NEW p \in Search!Pickers,
         NEW items, items \in {{}, Search!TagsListed},
         picker' = [picker EXCEPT ![p] = Search!NewPicker(items)]
  PROVE  PickersTyped'
<1>1. listed \subseteq Debates
  BY DEF SearchTyped, Search!TypeOK
<1>2. /\ Search!PickerOK(Search!NewPicker(items))
      /\ Search!NewPicker(items) \in PickerState
      /\ {i.id : i \in Search!NewPicker(items).items} \subseteq Tags
  BY <1>1, NewPickerOK
<1>3. \A q \in Search!Pickers : picker'[q] = IF q = p THEN Search!NewPicker(items)
                                             ELSE picker[q]
  BY DEF SearchTyped
<1>4. \A q \in Search!Pickers : Search!PickerOK(picker'[q])
  BY <1>2, <1>3 DEF SearchTyped, Search!TypeOK
<1>5. "filter" \in Search!Pickers
  BY DEF Search!Pickers
<1>6. picker' \in [Search!Pickers -> PickerState]
  BY <1>2 DEF SearchTyped
<1>7. {i.id : i \in picker'["filter"].items} \subseteq Tags
  BY <1>2, <1>3, <1>5 DEF SearchTyped
<1> QED
  BY <1>4, <1>6, <1>7 DEF PickersTyped

\* The timers of an input that was rendered anew.
LEMMA RerenderedTypes ==
  ASSUME NEW ts \in SUBSET TypingTimer
  PROVE  /\ Search!Rerendered(ts) \in SUBSET TypingTimer
         /\ Search!Rerendered(ts) = {} <=> ts = {}
  BY DEF Search!Rerendered, TypingTimer

\* What a step of the page alone leaves well typed.
LEMMA PageStepTypes ==
  ASSUME SearchTyped, PickersTyped', inputTimers' \subseteq TypingTimer,
         clicks' \in 0 .. MaxClicks, searched' \in 0 .. MaxSearched,
         createdTags' \in 0 .. MaxCreated, text' \in Search!Text,
         strategy' \in Search!Strategies, {unfolded, isDialogOpen}' \subseteq BOOLEAN,
         UNCHANGED <<accepted, publications, searches, searchSends, listed, ordered,
                     answered>>
  PROVE  SearchTyped'
<1>1. DOMAIN picker' = Search!Pickers
  BY DEF PickersTyped
<1>2. Search!TypeOK'
  BY <1>1 DEF SearchTyped, Search!TypeOK, PickersTyped, TypingTimer
<1> QED
  BY <1>2 DEF SearchTyped, PickersTyped

\* Clicks that change the pickers.
LEMMA PickerStepTypes ==
  ASSUME SearchTyped,
         \/ \E p \in Search!Pickers : Search!SelectTag(p) \/ Search!HandleOnClear(p)
         \/ \E name \in Tags \cup {NewName} : Search!CreateTag(name)
         \/ Search!StartDebate \/ Search!OnStartDebateModalClosed
  PROVE  SearchTyped'
<1>1. /\ PickersTyped /\ inputTimers \subseteq TypingTimer
      /\ Search!Rerendered(inputTimers) \subseteq TypingTimer
  BY RerenderedTypes DEF SearchTyped, Search!TypeOK, PickersTyped, TypingTimer
<1>2. /\ clicks \in 0 .. MaxClicks /\ searched \in 0 .. MaxSearched
      /\ createdTags \in 0 .. MaxCreated /\ text \in Search!Text
      /\ strategy \in Search!Strategies /\ {unfolded, isDialogOpen} \subseteq BOOLEAN
      /\ MaxClicks \in Nat /\ MaxCreated \in Nat
  BY PagesBounds DEF SearchTyped, Search!TypeOK
<1>3. ASSUME Search!Click
      PROVE  clicks' \in 0 .. MaxClicks
  BY <1>2, <1>3 DEF Search!Click
<1>4. ASSUME NEW p \in Search!Pickers, Search!SelectTag(p)
      PROVE  SearchTyped'
  <2>1. PICK i \in picker[p].items : Search!HandleItemSelect(p, i)
    BY <1>4 DEF Search!SelectTag
  <2>2. i \in Search!Item /\ (i.id \in Tags \/ p = "dialog")
    BY <2>1 DEF SearchTyped, Search!TypeOK, Search!Pickers, Search!PickerOK
  <2>3. PickersTyped'
    BY <2>1, <2>2, HandleItemSelectTypes DEF PickersTyped
  <2> QED
    BY <1>1, <1>2, <1>3, <1>4, <2>3, PageStepTypes
       DEF Search!SelectTag, Search!NoFieldChanged, Search!answerVars
<1>5. ASSUME NEW p \in Search!Pickers, Search!HandleOnClear(p)
      PROVE  SearchTyped'
  <2>1. PickersTyped'
    BY <1>5, RenewedPicker DEF Search!HandleOnClear
  <2> QED
    BY <1>1, <1>2, <1>3, <1>5, <2>1, PageStepTypes
       DEF Search!HandleOnClear, Search!NoFieldChanged, Search!answerVars
<1>6. ASSUME NEW name \in Tags \cup {NewName}, Search!CreateTag(name)
      PROVE  SearchTyped'
  <2>1. createdTags' \in 1 .. MaxCreated
    BY <1>2, <1>6 DEF Search!CreateTag
  <2>2. PICK tag : tag = [id |-> createdTags', name |-> name]
    OBVIOUS
  <2>3. tag \in Search!Item /\ tag.id \in 1 .. MaxCreated /\ "dialog" \in Search!Pickers
    BY <2>1, <2>2 DEF Search!Item, Search!Pickers
  <2>4. Search!HandleItemSelect("dialog", tag)
    BY <1>6, <2>2 DEF Search!CreateTag
  <2>5. PickersTyped'
    BY <2>3, <2>4, HandleItemSelectTypes DEF PickersTyped
  <2> QED
    BY <1>1, <1>2, <1>3, <1>6, <2>1, <2>5, PageStepTypes
       DEF Search!CreateTag, Search!NoFieldChanged, Search!answerVars
<1>7. ASSUME Search!StartDebate \/ Search!OnStartDebateModalClosed
      PROVE  SearchTyped'
  <2>1. PickersTyped'
    BY <1>7, RenewedPicker
       DEF Search!StartDebate, Search!OnStartDebateModalClosed, Search!Pickers
  <2> QED
    BY <1>1, <1>2, <1>3, <1>7, <2>1, PageStepTypes
       DEF Search!StartDebate, Search!OnStartDebateModalClosed, Search!answerVars
<1> QED
  BY <1>4, <1>5, <1>6, <1>7

\* What is typed, folded and chosen.
LEMMA FieldStepTypes ==
  ASSUME SearchTyped,
         \/ \E x \in Search!Text : Search!Type(x)
         \/ Search!OnExpandChange
         \/ \E s \in Search!Strategies : Search!ChooseStrategy(s)
  PROVE  SearchTyped'
<1>1. /\ inputTimers \subseteq TypingTimer
      /\ Search!Rerendered(inputTimers) \subseteq TypingTimer
  BY RerenderedTypes DEF SearchTyped, Search!TypeOK, TypingTimer
<1>2. /\ clicks \in 0 .. MaxClicks /\ searched \in 0 .. MaxSearched
      /\ createdTags \in 0 .. MaxCreated /\ text \in Search!Text
      /\ strategy \in Search!Strategies /\ unfolded \in BOOLEAN /\ isDialogOpen \in BOOLEAN
      /\ MaxClicks \in Nat /\ MaxSearched \in Nat
  BY PagesBounds DEF SearchTyped, Search!TypeOK
<1>3. ASSUME UNCHANGED picker
      PROVE  PickersTyped'
  BY <1>3 DEF SearchTyped, Search!TypeOK, PickersTyped
<1>4. ASSUME NEW x \in Search!Text, Search!Type(x)
      PROVE  SearchTyped'
  <2>1. searched' \in 1 .. MaxSearched
    BY <1>2, <1>4 DEF Search!Type
  <2>2. [n |-> searched', useTags |-> unfolded, current |-> TRUE] \in TypingTimer
    BY <1>2, <2>1 DEF TypingTimer
  <2>3. inputTimers' \subseteq TypingTimer
    BY <1>1, <1>4, <2>2 DEF Search!Type, Search!Pending
  <2> QED
    BY <1>2, <1>3, <1>4, <2>1, <2>3, PageStepTypes
       DEF Search!Type, Search!answerVars, Search!pickerVars
<1>5. ASSUME Search!OnExpandChange
      PROVE  SearchTyped'
  <2>1. clicks' \in 0 .. MaxClicks
    BY <1>2, <1>5 DEF Search!OnExpandChange, Search!Click
  <2> QED
    BY <1>1, <1>2, <1>3, <1>5, <2>1, PageStepTypes
       DEF Search!OnExpandChange, Search!answerVars, Search!pickerVars
<1>6. ASSUME NEW s \in Search!Strategies, Search!ChooseStrategy(s)
      PROVE  SearchTyped'
  <2>1. clicks' \in 0 .. MaxClicks
    BY <1>2, <1>6 DEF Search!ChooseStrategy, Search!Click
  <2> QED
    BY <1>1, <1>2, <1>3, <1>6, <2>1, PageStepTypes
       DEF Search!ChooseStrategy, Search!answerVars, Search!pickerVars
<1> QED
  BY <1>4, <1>5, <1>6

\* What a step on a request, or elsewhere, leaves well typed.
LEMMA RequestStepTypes ==
  ASSUME SearchTyped, inputTimers' \subseteq TypingTimer,
         searchSends' \in 0 .. MaxSearches, searchSends =< searchSends',
         \A r \in searches' :
            r \in SearchRequest /\ r.n \in 1 .. searchSends' /\ r.answer \subseteq r.at,
         accepted' \subseteq Debates, listed' \subseteq Debates,
         publications' \in 0 .. MaxPublished, ordered' \in BOOLEAN,
         answered' \in [n : 0 .. searchSends', form : Search!Form, at : SUBSET Debates],
         UNCHANGED <<text, unfolded, strategy, searched, clicks, picker, isDialogOpen,
                     createdTags>>
  PROVE  SearchTyped'
<1>1. Search!TypeOK'
  BY DEF SearchTyped, Search!TypeOK, SearchRequest, TypingTimer
<1> QED
  BY <1>1 DEF SearchTyped

\* What is known of the requests, the timers and the numbers.
LEMMA RequestsTyped ==
  ASSUME SearchTyped
  PROVE  /\ inputTimers \subseteq TypingTimer
         /\ Search!Rerendered(inputTimers) \subseteq TypingTimer
         /\ searchSends \in 0 .. MaxSearches /\ MaxSearches \in Nat
         /\ \A r \in searches :
               r \in SearchRequest /\ r.n \in 1 .. searchSends /\ r.answer \subseteq r.at
         /\ accepted \subseteq Debates /\ listed \subseteq Debates
         /\ publications \in 0 .. MaxPublished /\ MaxPublished \in Nat
         /\ ordered \in BOOLEAN /\ unfolded \in BOOLEAN
         /\ answered \in [n : 0 .. searchSends, form : Search!Form, at : SUBSET Debates]
<1>1. inputTimers \subseteq TypingTimer
  BY DEF SearchTyped, Search!TypeOK, TypingTimer
<1> QED
  BY <1>1, RerenderedTypes, PagesBounds DEF SearchTyped, Search!TypeOK

\* Requests that are made, answered, lost and listed.
LEMMA AskStepTypes ==
  ASSUME SearchTyped,
         \/ Search!ClickApply
         \/ \E t \in inputTimers : Search!TimerFires(t)
         \/ \E r \in searches : Search!GetAll(r) \/ Search!GetAllFails(r)
                                \/ Search!SetDebates(r)
         \/ \E d \in Debates : Search!PublishOrTakeOff(d)
  PROVE  SearchTyped'
<1> USE RequestsTyped
<1>1. ASSUME NEW useTags \in BOOLEAN, Search!ApplyFilters(useTags),
             inputTimers' \subseteq inputTimers,
             UNCHANGED <<accepted, publications, text, unfolded, strategy, searched, clicks,
                         picker, isDialogOpen, createdTags, listed, answered>>
      PROVE  SearchTyped'
  <2>1. CASE ordered' = FALSE /\ UNCHANGED <<searches, searchSends>>
    <3>1. ordered' \in BOOLEAN
      BY <2>1, Zenon
    <3>2. inputTimers' \subseteq TypingTimer
      BY <1>1
    <3>3. searchSends =< searchSends'
      BY <2>1
    <3> QED
      BY <1>1, <2>1, <3>1, <3>2, <3>3, RequestStepTypes
  <2>2. CASE MadeRequest
    <3>1. PICK new : /\ searches' = searches \cup {new} /\ new \in SearchRequest
                     /\ new.n = searchSends' /\ new.answer \subseteq new.at
      BY <2>2 DEF MadeRequest
    <3>2. searchSends' = searchSends + 1 /\ searchSends' \in 1 .. MaxSearches
          /\ ordered' = ordered
      BY <2>2 DEF MadeRequest
    <3>3. \A r \in searches' :
            r \in SearchRequest /\ r.n \in 1 .. searchSends' /\ r.answer \subseteq r.at
      BY <3>1, <3>2
    <3>4. answered' \in [n : 0 .. searchSends', form : Search!Form, at : SUBSET Debates]
      BY <1>1, <3>2
    <3> QED
      BY <1>1, <3>2, <3>3, <3>4, RequestStepTypes
  <2> QED
    BY <1>1, <2>1, <2>2, ApplyFiltersMakes
<1>2. ASSUME Search!ClickApply
      PROVE  SearchTyped'
  BY <1>1, <1>2 DEF Search!ClickApply, Search!searchVars, Search!pickerVars
<1>3. ASSUME NEW t \in inputTimers, Search!TimerFires(t)
      PROVE  SearchTyped'
  <2>1. t.useTags \in BOOLEAN
    BY DEF TypingTimer
  <2> QED
    BY <1>1, <1>3, <2>1 DEF Search!TimerFires, Search!pickerVars
<1>4. ASSUME NEW r \in searches, Search!GetAll(r)
      PROVE  SearchTyped'
  <2>1. PICK new : /\ new = [r EXCEPT !.stage = "answered", !.at = accepted,
                      !.answer = {d \in Search!Tagged :
                                  Search!Passes(Search!Transform(r.query), d)}]
                   /\ searches' = (searches \ {r}) \cup {new}
    BY <1>4 DEF Search!GetAll
  <2>2. {d \in Search!Tagged : Search!Passes(Search!Transform(r.query), d)} \subseteq accepted
    BY DEF Search!Tagged
  <2>3. new \in SearchRequest /\ new.n \in 1 .. searchSends /\ new.answer \subseteq new.at
    BY <2>1, <2>2 DEF SearchRequest
  <2>4. \A q \in searches' :
          q \in SearchRequest /\ q.n \in 1 .. searchSends /\ q.answer \subseteq q.at
    BY <2>1, <2>3
  <2>5. UNCHANGED <<accepted, publications, text, unfolded, strategy, inputTimers,
                    searched, clicks, picker, isDialogOpen, createdTags, searchSends,
                    listed, ordered, answered>>
    BY <1>4
       DEF Search!GetAll, Search!searchVars, Search!pickerVars, Search!answerVars
  <2>6. searchSends =< searchSends'
    BY <2>5
  <2> QED
    BY <2>4, <2>5, <2>6, RequestStepTypes
<1>5. ASSUME NEW r \in searches, Search!GetAllFails(r)
      PROVE  SearchTyped'
  <2>1. UNCHANGED <<accepted, publications, text, unfolded, strategy, inputTimers,
                    searched, clicks, picker, isDialogOpen, createdTags, searchSends,
                    listed, answered>>
        /\ searches' \subseteq searches /\ ordered' \in BOOLEAN
    BY <1>5 DEF Search!GetAllFails, Search!searchVars, Search!pickerVars
  <2>2. searchSends =< searchSends'
    BY <2>1
  <2> QED
    BY <2>1, <2>2, RequestStepTypes
<1>6. ASSUME NEW r \in searches, Search!SetDebates(r)
      PROVE  SearchTyped'
  <2>1. ordered' \in BOOLEAN
    BY <1>6 DEF Search!SetDebates
  <2>2. answered' \in [n : 0 .. searchSends, form : Search!Form, at : SUBSET Debates]
        /\ listed' \subseteq Debates
    BY <1>6 DEF Search!SetDebates, SearchRequest
  <2> QED
    BY <1>6, <2>1, <2>2, RequestStepTypes DEF Search!SetDebates, Search!pickerVars
<1>7. ASSUME NEW d \in Debates, Search!PublishOrTakeOff(d)
      PROVE  SearchTyped'
  BY <1>7, RequestStepTypes
     DEF Search!PublishOrTakeOff, Search!searchVars, Search!pickerVars, Search!answerVars
<1> QED
  BY <1>2, <1>3, <1>4, <1>5, <1>6, <1>7

\* The types hold whatever the user and the API do.
LEMMA NextSearchTyped == SearchTyped /\ [Search!Next]_(Search!vars) => SearchTyped'
<1> SUFFICES ASSUME SearchTyped, [Search!Next]_(Search!vars) PROVE SearchTyped'
  OBVIOUS
<1>1. CASE UNCHANGED Search!vars
  BY <1>1 DEF Search!vars, Search!searchVars, Search!pickerVars, Search!answerVars,
              SearchTyped, Search!TypeOK
<1> QED
  BY <1>1, PickerStepTypes, FieldStepTypes, AskStepTypes DEF Search!Next

\* What is asked, answered and listed stays true of the form.
LEMMA NextSearchesTrue ==
  ASSUME SearchInv, [Search!Next]_(Search!vars)
  PROVE  SearchesTrue' /\ ListedTrue'
<1> USE RequestsTyped DEF SearchInv
<1>1. ASSUME UNCHANGED <<searches, listed, answered>>
      PROVE  SearchesTrue' /\ ListedTrue'
  BY <1>1 DEF SearchesTrue, ListedTrue
<1>2. ASSUME NEW useTags \in BOOLEAN, Search!ApplyFilters(useTags),
             UNCHANGED <<listed, answered>>
      PROVE  SearchesTrue' /\ ListedTrue'
  <2>1. CASE UNCHANGED searches
    BY <1>1, <1>2, <2>1
  <2>2. CASE MadeRequest
    <3>1. PICK new : /\ searches' = searches \cup {new} /\ new.stage = "sent"
                     /\ Carries(new.query, new.form)
      BY <2>2 DEF MadeRequest
    <3> QED
      BY <1>2, <3>1 DEF SearchesTrue, ListedTrue
  <2> QED
    BY <1>2, <2>1, <2>2, ApplyFiltersMakes
<1>3. ASSUME Search!ClickApply \/ \E t \in inputTimers : Search!TimerFires(t)
      PROVE  SearchesTrue' /\ ListedTrue'
  <2>1. \E useTags \in BOOLEAN : Search!ApplyFilters(useTags)
    BY <1>3 DEF Search!ClickApply, Search!TimerFires, TypingTimer
  <2>2. UNCHANGED <<listed, answered>>
    BY <1>3 DEF Search!ClickApply, Search!TimerFires
  <2> QED
    BY <1>2, <2>1, <2>2
<1>4. ASSUME NEW r \in searches, Search!GetAll(r)
      PROVE  SearchesTrue' /\ ListedTrue'
  <2> DEFINE filters == Search!Transform(r.query)
  <2>1. PICK new : /\ new = [r EXCEPT !.stage = "answered", !.at = accepted,
                      !.answer = {d \in Search!Tagged : Search!Passes(filters, d)}]
                   /\ searches' = (searches \ {r}) \cup {new}
    BY <1>4 DEF Search!GetAll
  <2>2. /\ new.query = r.query /\ new.form = r.form /\ new.at = accepted
        /\ new.answer = {d \in Search!Tagged : Search!Passes(filters, d)}
        /\ r.query \in Search!Query /\ r.form \in Search!Form
    BY <2>1 DEF SearchRequest
  <2>3. Carries(r.query, r.form) /\ ~Search!Throws(filters)
    BY <1>4 DEF SearchesTrue, Search!GetAll
  <2>4. \A d \in accepted : TagsOf[d] # {} /\ Search!Passes(filters, d)
                               <=> Search!Wanted(r.form, d)
    BY <2>2, <2>3, PassesWanted
  <2>5. new.answer = {d \in new.at : Search!Wanted(new.form, d)}
    BY <2>2, <2>4 DEF Search!Tagged
  <2> QED
    BY <1>4, <2>1, <2>2, <2>3, <2>5
       DEF Search!GetAll, Search!answerVars, SearchesTrue, ListedTrue
<1>5. ASSUME NEW r \in searches, Search!GetAllFails(r)
      PROVE  SearchesTrue' /\ ListedTrue'
  BY <1>5 DEF Search!GetAllFails, SearchesTrue, ListedTrue
<1>6. ASSUME NEW r \in searches, Search!SetDebates(r)
      PROVE  SearchesTrue' /\ ListedTrue'
  BY <1>6 DEF Search!SetDebates, SearchesTrue, ListedTrue
<1>7. ASSUME \/ \E p \in Search!Pickers : Search!SelectTag(p) \/ Search!HandleOnClear(p)
             \/ \E name \in Tags \cup {NewName} : Search!CreateTag(name)
             \/ Search!StartDebate \/ Search!OnStartDebateModalClosed
             \/ \E x \in Search!Text : Search!Type(x)
             \/ Search!OnExpandChange
             \/ \E s \in Search!Strategies : Search!ChooseStrategy(s)
             \/ \E d \in Debates : Search!PublishOrTakeOff(d)
             \/ UNCHANGED Search!vars
      PROVE  UNCHANGED <<searches, listed, answered>>
  BY <1>7 DEF Search!SelectTag, Search!HandleOnClear, Search!CreateTag, Search!StartDebate,
              Search!OnStartDebateModalClosed, Search!Type, Search!OnExpandChange,
              Search!ChooseStrategy, Search!PublishOrTakeOff, Search!vars,
              Search!answerVars
<1> QED
  BY <1>1, <1>3, <1>4, <1>5, <1>6, <1>7 DEF Search!Next

\* The last request stays on its way or listed while nothing fails or is overtaken.
LEMMA NextLastIsCurrent ==
  ASSUME SearchInv, [Search!Next]_(Search!vars)
  PROVE  LastIsCurrent'
<1> USE RequestsTyped DEF SearchInv
<1>1. ASSUME UNCHANGED <<searches, searchSends, answered, ordered, text>>,
             inputTimers' = {} => inputTimers = {}
      PROVE  LastIsCurrent'
  BY <1>1 DEF LastIsCurrent
<1>2. ASSUME NEW useTags \in BOOLEAN, Search!ApplyFilters(useTags),
             UNCHANGED <<answered, text>>
      PROVE  LastIsCurrent'
  <2>1. CASE ordered' = FALSE
    BY <2>1 DEF LastIsCurrent
  <2>2. CASE MadeRequest
    <3>1. PICK new : /\ searches' = searches \cup {new} /\ new.form.text = text
                     /\ new.n = searchSends'
      BY <2>2 DEF MadeRequest
    <3>2. searchSends' = searchSends + 1
      BY <2>2 DEF MadeRequest
    <3>3. answered.n # searchSends' /\ \A r \in searches : r.n # searchSends'
      BY <3>2
    <3> QED
      BY <1>2, <3>1, <3>3 DEF LastIsCurrent
  <2> QED
    BY <1>2, <2>1, <2>2, ApplyFiltersMakes
<1>3. ASSUME Search!ClickApply \/ \E t \in inputTimers : Search!TimerFires(t)
      PROVE  LastIsCurrent'
  <2>1. \E useTags \in BOOLEAN : Search!ApplyFilters(useTags)
    BY <1>3 DEF Search!ClickApply, Search!TimerFires, TypingTimer
  <2>2. UNCHANGED <<answered, text>>
    BY <1>3 DEF Search!ClickApply, Search!TimerFires, Search!searchVars
  <2> QED
    BY <1>2, <2>1, <2>2
<1>4. ASSUME NEW r \in searches, Search!GetAll(r)
      PROVE  LastIsCurrent'
  <2>1. PICK new : /\ searches' = (searches \ {r}) \cup {new}
                   /\ new.n = r.n /\ new.form = r.form
    <3>1. PICK at, answer : searches' = (searches \ {r}) \cup
              {[r EXCEPT !.stage = "answered", !.at = at, !.answer = answer]}
      BY <1>4 DEF Search!GetAll
    <3>2. r \in SearchRequest
      OBVIOUS
    <3>3. PICK new :
            new = [r EXCEPT !.stage = "answered", !.at = at, !.answer = answer]
      OBVIOUS
    <3>4. new.n = r.n /\ new.form = r.form /\ searches' = (searches \ {r}) \cup {new}
      BY <3>1, <3>2, <3>3 DEF SearchRequest
    <3> QED
      BY <3>4
  <2>2. UNCHANGED <<searchSends, answered, ordered, text, inputTimers>>
    BY <1>4 DEF Search!GetAll, Search!searchVars, Search!answerVars
  <2> QED
    BY <2>1, <2>2 DEF LastIsCurrent
<1>5. ASSUME NEW r \in searches, Search!GetAllFails(r)
      PROVE  LastIsCurrent'
  BY <1>5 DEF Search!GetAllFails, LastIsCurrent
<1>6. ASSUME NEW r \in searches, Search!SetDebates(r)
      PROVE  LastIsCurrent'
  <2> SUFFICES ASSUME ordered, r.n > answered.n
               PROVE  LastIsCurrent'
    BY <1>6 DEF Search!SetDebates, LastIsCurrent
  <2>1. /\ searches' = searches \ {r} /\ answered'.n = r.n /\ answered'.form = r.form
        /\ UNCHANGED <<searchSends, text>>
        /\ inputTimers' = Search!Rerendered(inputTimers)
    BY <1>6 DEF Search!SetDebates
  <2>2. inputTimers' = {} => inputTimers = {}
    BY <2>1, RerenderedTypes
  <2>3. answered.n # searchSends
    OBVIOUS
  <2>4. PICK q \in searches : q.n = searchSends
    BY <2>3 DEF LastIsCurrent
  <2> QED
    BY <2>1, <2>2, <2>4 DEF LastIsCurrent
<1>7. ASSUME NEW x \in Search!Text, Search!Type(x)
      PROVE  LastIsCurrent'
  <2>1. inputTimers' # {} /\ UNCHANGED <<searches, searchSends, answered, ordered>>
    BY <1>7 DEF Search!Type, Search!Pending, Search!answerVars
  <2> QED
    BY <2>1 DEF LastIsCurrent
<1>8. ASSUME \/ \E p \in Search!Pickers : Search!SelectTag(p) \/ Search!HandleOnClear(p)
             \/ \E name \in Tags \cup {NewName} : Search!CreateTag(name)
             \/ Search!StartDebate \/ Search!OnStartDebateModalClosed
             \/ Search!OnExpandChange
             \/ \E s \in Search!Strategies : Search!ChooseStrategy(s)
             \/ \E d \in Debates : Search!PublishOrTakeOff(d)
             \/ UNCHANGED Search!vars
      PROVE  LastIsCurrent'
  <2>1. UNCHANGED <<searches, searchSends, answered, ordered, text>>
        /\ inputTimers' \in {inputTimers, Search!Rerendered(inputTimers)}
    BY <1>8 DEF Search!SelectTag, Search!HandleOnClear, Search!CreateTag,
                Search!StartDebate, Search!OnStartDebateModalClosed,
                Search!OnExpandChange, Search!ChooseStrategy, Search!PublishOrTakeOff,
                Search!vars, Search!answerVars, Search!searchVars, Search!NoFieldChanged
  <2>2. inputTimers' = {} => inputTimers = {}
    BY <2>1, RerenderedTypes
  <2> QED
    BY <1>1, <2>1, <2>2
<1> QED
  BY <1>3, <1>4, <1>5, <1>6, <1>7, <1>8 DEF Search!Next

\* The list shows what some form asked for, and in the end what the input says,
\* however typing, clicks and answers interleave (DebateFilters, fetchDebatesWithFilters,
\* DebatesQueryPipe, getAll).
THEOREM ListHolds == Search!Spec => []ListIsAsked
<1>1. SearchInv /\ [Search!Next]_(Search!vars) => SearchInv'
  BY NextSearchTyped, NextSearchesTrue, NextLastIsCurrent DEF SearchInv
<1>2. SearchInv => ListIsAsked
  <2> SUFFICES ASSUME SearchInv, inputTimers = {}, searches = {}, ordered
               PROVE  answered.form.text = text
    BY DEF SearchInv, ListIsAsked, Search!ListIsAsked, ListedTrue
  <2> QED
    BY DEF SearchInv, LastIsCurrent
<1> QED
  BY <1>1, <1>2, InitSearchInv, PTL DEF Search!Spec
-----------------------------------------------------------------------------
(* The form of a new argument.                                             *)

Updates == {"updateDraft", "submitDraft"}

\* Every post still to be handled makes at most one row.
RowsCounted ==
    /\ DOMAIN formRow = 1 .. Cardinality(DOMAIN formRow)
    /\ Cardinality(DOMAIN formRow) \in Nat /\ IsFiniteSet(posts)
    /\ Cardinality(posts) + Cardinality(DOMAIN formRow) =< sends + 1
    /\ \A p \in posts : p.n =< sends

FormTyped == Form!TypeOK /\ RowsCounted

\* A draft that something refers to is a row, of the debate it is referred to with.
IsDraftOf(id, d) == id # 0 => id \in DOMAIN formRow /\ formRow[id].debate = d

\* What has been asked for and what the page is about.
PageLinks ==
    /\ \A f \in formFetches :
          /\ f.visit =< visit
          /\ f.visit = visit => f.debate = formPage.debate /\ f.draft = formPage.draft
          /\ IsDraftOf(f.draft, f.debate)
    /\ IsDraftOf(formPage.draft, formPage.debate)
    /\ updating => formPage.draft # 0
    /\ formPage.open /\ ~astray => store = formPage.debate

\* What an argument that is stored or sent says of itself.
Fits(a) ==
    /\ ~a.astray => a.debate = a.url
    /\ a.counter # Form!NoArgument =>
          /\ a.counter.side # a.side
          /\ ~a.foreign => a.counter.debate = a.url

RowsFit == \A i \in DOMAIN formRow : Fits(formRow[i])

PostsFit ==
    \A p \in posts :
        /\ Fits(p)
        /\ p.kind \in Updates => p.id # 0 /\ IsDraftOf(p.id, p.debate)

\* The countered argument, in its field or still with the timer, fits the side once
\* the effect has run.
FieldsFit ==
    formPage.open =>
        /\ timer # Form!NoArgument =>
              timer.side # form.side /\ (~foreign => timer.debate = formPage.debate)
        /\ form.counter # Form!NoArgument /\ ~clearing => form.counter.side # form.side
        /\ form.counter # Form!NoArgument /\ timer = Form!NoArgument /\ ~foreign =>
              form.counter.debate = formPage.debate

\* A page that waits for its draft has set no timer.
DraftAwaited ==
    \A f \in formFetches :
        f.visit = visit /\ f.draft # 0 => timer = Form!NoArgument

\* What the draft countered is with the timer, or in its field to stay; no effect has
\* raced a timer that has not fired.
DraftKept ==
    /\ timer # Form!NoArgument => ~raced
    /\ formPage.open /\ updating /\ formKept # Form!NoArgument /\ ~raced =>
           \/ timer = formKept
           \/ timer = Form!NoArgument /\ ~clearing /\ form.counter = formKept

FInv == FormTyped /\ PageLinks /\ RowsFit /\ PostsFit /\ FieldsFit /\ DraftAwaited /\ DraftKept

\* The other side is the one that is not given.
LEMMA OtherSide == ASSUME NEW side \in Form!Sides
                   PROVE  Form!Other(side) \in Form!Sides /\ Form!Other(side) # side
  BY DEF Form!Other, Form!Sides

\* No published argument is the argument that is none.
LEMMA PublishedIsSome == \A a \in Form!Published : a # Form!NoArgument /\ a.side \in Form!Sides
  BY DEF Form!Published, Form!NoArgument, Form!Sides

\* The user has one draft and nothing is open.
LEMMA InitFInv == Form!Init => FInv
<1> SUFFICES ASSUME Form!Init PROVE FInv
  OBVIOUS
<1>0. PICK d \in Debates, s \in Form!Sides :
        /\ formPage = [open |-> FALSE, debate |-> d, draft |-> 0]
        /\ \E counter \in {Form!NoArgument, [debate |-> d, side |-> Form!Other(s)]} :
              formRow = [i \in {1} |-> [debate |-> d, side |-> s, counter |-> counter,
                                       isDraft |-> TRUE, url |-> d,
                                       astray |-> FALSE, foreign |-> FALSE]]
  BY DEF Form!Init
<1>1. PICK counter \in {Form!NoArgument, [debate |-> d, side |-> Form!Other(s)]} :
        formRow = [i \in {1} |-> [debate |-> d, side |-> s, counter |-> counter,
                                 isDraft |-> TRUE, url |-> d,
                                 astray |-> FALSE, foreign |-> FALSE]]
  BY <1>0
<1>2. Form!Other(s) \in Form!Sides /\ Form!Other(s) # s
  BY OtherSide
<1>3. counter \in Form!Countered
  BY <1>2 DEF Form!Countered, Form!Published
<1>4. 1 \in Form!Ids /\ DOMAIN formRow = {1} /\ formRow[1] \in Form!Row
  BY <1>1, <1>3, PagesBounds DEF Form!Ids, Form!Row
<1>5. Form!TypeOK
  <2>1. formPage \in [open : BOOLEAN, debate : Debates, draft : Form!Draft]
    BY <1>0 DEF Form!Draft
  <2>2. form \in Form!Form /\ timer \in Form!Countered /\ formKept \in Form!Countered
    BY DEF Form!Init, Form!Form, Form!Sides, Form!Countered
  <2>3. /\ visit \in 0 .. MaxForms /\ sends \in 0 .. MaxSends
        /\ formChanges \in 0 .. MaxFormChanges
    BY PagesBounds DEF Form!Init
  <2>4. {updating, clearing, astray, raced, foreign} \subseteq BOOLEAN
    BY DEF Form!Init
  <2> QED
    BY <1>4, <2>1, <2>2, <2>3, <2>4 DEF Form!Init, Form!TypeOK
<1>6. RowsCounted
  <2>1. posts = {} /\ sends = 0
    BY DEF Form!Init
  <2>2. IsFiniteSet(posts) /\ Cardinality(posts) = 0
    BY <2>1, FS_EmptySet
  <2>3. Cardinality({1}) = 1
    BY FS_Singleton
  <2>4. 1 .. 1 = {1}
    OBVIOUS
  <2> QED
    BY <1>4, <2>1, <2>2, <2>3, <2>4 DEF RowsCounted
<1>7. RowsFit
  <2>1. Fits(formRow[1])
    BY <1>1, <1>2 DEF Fits
  <2> QED
    BY <1>4, <2>1 DEF RowsFit
<1> QED
  BY <1>0, <1>5, <1>6, <1>7
     DEF Form!Init, FInv, FormTyped, PageLinks, IsDraftOf, PostsFit, FieldsFit,
         DraftAwaited, DraftKept

-----------------------------------------------------------------------------
(* Types.                                                                  *)

\* Steps of the page: rows and posts stay.
LEMMA PageTypes ==
  ASSUME FormTyped, UNCHANGED <<posts, sends, formRow>>,
         store' \in Debates \cup {Null},
         formPage' \in [open : BOOLEAN, debate : Debates, draft : Form!Draft],
         visit' \in 0 .. MaxForms, formFetches' \subseteq Form!Fetch, form' \in Form!Form,
         timer' \in Form!Countered, formKept' \in Form!Countered,
         {updating, clearing, astray, raced, foreign}' \subseteq BOOLEAN,
         formChanges' \in 0 .. MaxFormChanges
  PROVE  FormTyped'
  BY DEF FormTyped, Form!TypeOK, RowsCounted

\* What the page's state is made of.
LEMMA FormTypes ==
  ASSUME FormTyped
  PROVE  /\ store \in Debates \cup {Null}
         /\ formPage \in [open : BOOLEAN, debate : Debates, draft : Form!Draft]
         /\ visit \in 0 .. MaxForms /\ MaxForms \in Nat
         /\ formFetches \subseteq Form!Fetch /\ form \in Form!Form
         /\ timer \in Form!Countered /\ formKept \in Form!Countered
         /\ {updating, clearing, astray, raced, foreign} \subseteq BOOLEAN
         /\ formChanges \in 0 .. MaxFormChanges /\ MaxFormChanges \in Nat
         /\ \A i \in DOMAIN formRow : formRow[i] \in Form!Row
         /\ DOMAIN formRow \subseteq Form!Ids
         /\ posts \subseteq Form!Post /\ sends \in 0 .. MaxSends /\ MaxSends \in Nat
  BY PagesBounds DEF FormTyped, Form!TypeOK

\* What the form starts with on a page that is opened.
LEMMA OpenedForm ==
  ASSUME NEW counter \in Form!Countered
  PROVE  [side |-> IF counter = Form!NoArgument THEN "PRO" ELSE Form!SideAgainst(counter),
          isCounter |-> counter # Form!NoArgument, counter |-> Form!NoArgument]
            \in Form!Form
<1>1. counter # Form!NoArgument => Form!SideAgainst(counter) \in Form!Sides \cup {Form!NoSide}
  BY OtherSide, PublishedIsSome DEF Form!Countered, Form!SideAgainst
<1> QED
  BY <1>1 DEF Form!Form, Form!Sides, Form!Countered

\* Opening, leaving and filling the page.
LEMMA OpenTypes ==
  ASSUME FormTyped, NEW d \in Debates, NEW id \in Form!Draft,
         NEW counter \in Form!Countered, Form!OpenPage(d, id, counter)
  PROVE  FormTyped'
<1> USE FormTypes
<1>1. visit' = visit + 1 /\ visit' \in 1 .. MaxForms
  BY DEF Form!OpenPage
<1>2. [visit |-> visit', debate |-> d, draft |-> id] \in Form!Fetch
  BY <1>1 DEF Form!Fetch
<1>3. formFetches' \subseteq Form!Fetch
  BY <1>2 DEF Form!OpenPage
<1>4. form' \in Form!Form
  BY OpenedForm DEF Form!OpenPage
<1>5. formPage' \in [open : BOOLEAN, debate : Debates, draft : Form!Draft]
  BY DEF Form!OpenPage
<1>6. {updating, clearing, astray, raced, foreign}' \subseteq BOOLEAN
  BY DEF Form!OpenPage
<1>7. timer' \in Form!Countered /\ formKept' \in Form!Countered
  BY DEF Form!OpenPage, Form!Countered
<1>8. visit' \in 0 .. MaxForms
  BY <1>1
<1> QED
  BY <1>3, <1>4, <1>5, <1>6, <1>7, <1>8, PageTypes DEF Form!OpenPage

\* Answers to the page's requests, and a page that is left.
LEMMA AnswerTypes ==
  ASSUME FormTyped, PageLinks,
         \/ \E d \in Debates : Form!VisitDebate(d)
         \/ Form!Leave
         \/ \E f \in formFetches : Form!DebateCame(f) \/ Form!DraftCame(f) \/ Form!FetchFails(f)
  PROVE  FormTyped'
<1> USE FormTypes DEF Form!formVars, Form!storeVars
<1>1. ASSUME NEW d \in Debates, Form!VisitDebate(d)
      PROVE  FormTyped'
  BY <1>1, PageTypes DEF Form!VisitDebate
<1>2. CASE Form!Leave
  BY <1>2, PageTypes DEF Form!Leave
<1>3. ASSUME NEW f \in formFetches, Form!FetchFails(f)
      PROVE  FormTyped'
  BY <1>3, PageTypes DEF Form!FetchFails
<1>4. ASSUME NEW f \in formFetches, Form!DebateCame(f)
      PROVE  FormTyped'
  <2>1. store' \in Debates /\ astray' \in BOOLEAN /\ formFetches' \subseteq Form!Fetch
    BY <1>4 DEF Form!DebateCame, Form!Fetch
  <2> QED
    BY <1>4, <2>1, PageTypes DEF Form!DebateCame
<1>5. ASSUME NEW f \in formFetches, Form!DraftCame(f)
      PROVE  FormTyped'
  <2>1. store' \in Debates /\ astray' \in BOOLEAN /\ formFetches' \subseteq Form!Fetch
        /\ UNCHANGED <<formPage, visit, posts, sends, formChanges, formRow>>
    BY <1>5 DEF Form!DraftCame, Form!Fetch
  <2>2. CASE f.visit # visit \/ ~formPage.open
    BY <1>5, <2>1, <2>2, PageTypes DEF Form!DraftCame
  <2>3. CASE ~(f.visit # visit \/ ~formPage.open)
    <3>1. PICK draft : draft = formRow[f.draft]
      OBVIOUS
    <3>2. draft \in Form!Row
      BY <1>5, <3>1 DEF Form!DraftCame, PageLinks, IsDraftOf
    <3>3. /\ form' \in [side : {draft.side},
                      isCounter : {form.isCounter \/ draft.counter # Form!NoArgument},
                      counter : {form.counter, draft.counter}]
          /\ timer' = draft.counter /\ formKept' = draft.counter /\ raced' = FALSE
          /\ clearing' = (clearing \/ draft.side # form.side) /\ updating'
          /\ foreign' = IF draft.counter = Form!NoArgument THEN foreign
                        ELSE draft.foreign \/ draft.astray
      BY <1>5, <2>3, <3>1 DEF Form!DraftCame, Form!Later
    <3>4. form' \in Form!Form
      BY <3>2, <3>3 DEF Form!Form, Form!Row
    <3>5. timer' \in Form!Countered /\ formKept' \in Form!Countered
      BY <3>2, <3>3 DEF Form!Row
    <3>6. {updating, clearing, raced}' \subseteq BOOLEAN
      BY <3>3
    <3>7. foreign' \in BOOLEAN
      BY <3>2, <3>3 DEF Form!Row
    <3> QED
      BY <2>1, <3>4, <3>5, <3>6, <3>7, PageTypes
  <2> QED
    BY <2>2, <2>3
<1> QED
  BY <1>1, <1>2, <1>3, <1>4, <1>5

\* Fields that are changed, by the user, an effect or the timer.
LEMMA FieldTypes ==
  ASSUME FormTyped,
         \/ Form!EffectRuns \/ Form!TimerFires
         \/ \E side \in Form!Sides : Form!ChooseSide(side)
         \/ Form!ToggleCounter
         \/ \E a \in Form!Published : Form!ChooseCounter(a)
  PROVE  FormTyped'
<1> USE FormTypes DEF Form!storeVars
<1>1. CASE Form!EffectRuns
  <2>1. form' \in Form!Form
    BY <1>1 DEF Form!EffectRuns, Form!Cleared, Form!Form, Form!Countered
  <2> QED
    BY <1>1, <2>1, PageTypes DEF Form!EffectRuns
<1>2. CASE Form!TimerFires
  <2>1. form' \in Form!Form /\ timer' \in Form!Countered
    BY <1>2 DEF Form!TimerFires, Form!Form, Form!Countered
  <2> QED
    BY <1>2, <2>1, PageTypes DEF Form!TimerFires
<1>3. ASSUME NEW f \in Form!Form, Form!Change(f), {clearing, foreign}' \subseteq BOOLEAN
      PROVE  FormTyped'
  <2>1. formChanges' \in 0 .. MaxFormChanges /\ formKept' \in Form!Countered
    BY <1>3 DEF Form!Change, Form!Countered
  <2> QED
    BY <1>3, <2>1, PageTypes DEF Form!Change
<1>4. ASSUME NEW side \in Form!Sides, Form!ChooseSide(side)
      PROVE  FormTyped'
  <2>1. [form EXCEPT !.side = side] \in Form!Form
    BY DEF Form!Form
  <2> QED
    BY <1>3, <1>4, <2>1 DEF Form!ChooseSide
<1>5. CASE Form!ToggleCounter
  <2>1. [form EXCEPT !.isCounter = ~@, !.counter = Form!NoArgument] \in Form!Form
    BY DEF Form!Form, Form!Countered
  <2> QED
    BY <1>3, <1>5, <2>1 DEF Form!ToggleCounter
<1>6. ASSUME NEW a \in Form!Published, Form!ChooseCounter(a)
      PROVE  FormTyped'
  <2>1. [form EXCEPT !.counter = a] \in Form!Form
    BY DEF Form!Form, Form!Countered
  <2> QED
    BY <1>3, <1>6, <2>1 DEF Form!ChooseCounter
<1> QED
  BY <1>1, <1>2, <1>4, <1>5, <1>6

\* What Send puts on its way.
SentPost(kind) ==
    [n |-> sends', kind |-> kind,
     debate |-> IF updating THEN formPage.debate ELSE store,
     id |-> formPage.draft, side |-> form.side, counter |-> form.counter,
     url |-> formPage.debate, astray |-> astray /\ ~updating, foreign |-> foreign]

Kinds == {"create", "saveDraft", "updateDraft", "submitDraft"}

\* One more post for one more submission.
LEMMA SendTypes ==
  ASSUME FormTyped, NEW kind \in Kinds, Form!Send(kind)
  PROVE  FormTyped' /\ SentPost(kind) \in Form!Post
<1> USE FormTypes
<1>1. sends' = sends + 1 /\ sends' \in 1 .. MaxSends
  BY DEF Form!Send
<1>2. PICK p : p = SentPost(kind)
  OBVIOUS
<1>3. posts' = posts \cup {p} /\ p.n = sends' /\ sends' = sends + 1
  BY <1>2 DEF Form!Send, SentPost
<1>4. p \in Form!Post
  <2>1. form.side \in Form!Sides
    BY DEF Form!Send, Form!Form
  <2>2. store \in Debates /\ formPage.debate \in Debates /\ formPage.draft \in Form!Draft
    BY DEF Form!Send, Form!Settled
  <2>3. form.counter \in Form!Countered
    BY DEF Form!Form
  <2>4. (astray /\ ~updating) \in BOOLEAN /\ foreign \in BOOLEAN
    OBVIOUS
  <2> QED
    BY <1>1, <1>2, <2>1, <2>2, <2>3, <2>4 DEF SentPost, Form!Post, Kinds
<1>5. RowsCounted'
  <2>1. p \notin posts
    BY <1>3 DEF FormTyped, RowsCounted
  <2>2. IsFiniteSet(posts')  /\ Cardinality(posts') = Cardinality(posts) + 1
    BY <1>3, <2>1, FS_AddElement DEF FormTyped, RowsCounted
  <2>3. Cardinality(posts) \in Nat
    BY FS_CardinalityType DEF FormTyped, RowsCounted
  <2>4. formRow' = formRow
    BY DEF Form!Send
  <2>5. \A q \in posts' : q.n =< sends'
    BY <1>3 DEF FormTyped, RowsCounted, Form!Post
  <2>6. Cardinality(posts') + Cardinality(DOMAIN formRow) =< sends' + 1
    BY <1>3, <2>2, <2>3 DEF FormTyped, RowsCounted
  <2> QED
    BY <2>2, <2>4, <2>5, <2>6 DEF FormTyped, RowsCounted
<1>6. posts' \subseteq Form!Post
  BY <1>3, <1>4
<1>7. sends' \in 0 .. MaxSends
  BY <1>1
<1>8. Form!TypeOK'
  BY <1>6, <1>7 DEF Form!Send, Form!storeVars, Form!formVars, FormTyped, Form!TypeOK
<1> QED
  BY <1>2, <1>4, <1>5, <1>8 DEF FormTyped

\* The form's module counts as this one does.
LEMMA FormCardinality == \A S : Form!Cardinality(S) = Cardinality(S)
  BY DEF Form!Cardinality, Cardinality

\* A post that is handled: it makes a row, or changes one.
LEMMA HandleTypes ==
  ASSUME FormTyped, PostsFit, NEW p \in posts, Form!Handle(p) \/ Form!HandleFails(p)
  PROVE  FormTyped'
<1> USE FormTypes
<1>1. /\ posts' = posts \ {p}
      /\ UNCHANGED <<store, formFetches, astray, formPage, visit, form, updating, clearing,
                     timer, formKept, raced, foreign, sends, formChanges>>
  BY DEF Form!Handle, Form!HandleFails, Form!storeVars, Form!formVars
<1>2. ASSUME \A i \in DOMAIN formRow' : formRow'[i] \in Form!Row,
             DOMAIN formRow' \subseteq Form!Ids
      PROVE  Form!TypeOK'
  BY <1>1, <1>2 DEF FormTyped, Form!TypeOK
<1>3. /\ IsFiniteSet(posts') /\ Cardinality(posts') = Cardinality(posts) - 1
      /\ Cardinality(posts) \in Nat /\ Cardinality(posts') \in Nat
      /\ \A q \in posts' : q.n =< sends
  BY <1>1, FS_RemoveElement, FS_CardinalityType DEF FormTyped, RowsCounted
<1>4. \A isDraft \in BOOLEAN : Form!Sent(p, isDraft) \in Form!Row
  BY DEF Form!Sent, Form!Row, Form!Post
<1>5. CASE UNCHANGED formRow
  BY <1>1, <1>2, <1>3, <1>5 DEF FormTyped, RowsCounted
<1>6. ASSUME NEW isDraft \in BOOLEAN,
             formRow' = [i \in DOMAIN formRow \cup {Cardinality(DOMAIN formRow) + 1} |->
                 IF i = Cardinality(DOMAIN formRow) + 1
                 THEN Form!Sent(p, isDraft) ELSE formRow[i]]
      PROVE  FormTyped'
  <2> DEFINE n == Cardinality(DOMAIN formRow)
  <2>1. n \in Nat /\ DOMAIN formRow = 1 .. n /\ n + 1 =< sends + 1
    BY <1>3 DEF FormTyped, RowsCounted
  <2>2. n + 1 \in Form!Ids
    BY <2>1 DEF Form!Ids
  <2>3. DOMAIN formRow' = 1 .. n + 1
    BY <1>6, <2>1
  <2>4. Cardinality(1 .. n + 1) = n + 1
    BY <2>1, FS_Interval
  <2>5. \A i \in DOMAIN formRow' : formRow'[i] \in Form!Row
    BY <1>4, <1>6
  <2>6. DOMAIN formRow' \subseteq Form!Ids
    BY <2>1, <2>2, <2>3 DEF Form!Ids
  <2>7. Cardinality(DOMAIN formRow') = n + 1
    BY <2>3, <2>4
  <2>8. Cardinality(posts) + n =< sends + 1
    BY DEF FormTyped, RowsCounted
  <2>9. RowsCounted'
    BY <1>1, <1>3, <2>1, <2>3, <2>7, <2>8 DEF RowsCounted
  <2> QED
    BY <1>2, <2>5, <2>6, <2>9 DEF FormTyped
<1>7. ASSUME NEW isDraft \in BOOLEAN,
             formRow' = [formRow EXCEPT ![p.id] = Form!Sent(p, isDraft)]
      PROVE  FormTyped'
  <2>1. DOMAIN formRow' = DOMAIN formRow
    BY <1>7
  <2>2. \A i \in DOMAIN formRow' : formRow'[i] \in Form!Row
    BY <1>4, <1>7
  <2>3. RowsCounted'
    BY <1>1, <1>3, <2>1 DEF FormTyped, RowsCounted
  <2> QED
    BY <1>2, <2>1, <2>2, <2>3 DEF FormTyped
<1>8. CASE Form!Handle(p)
  <2>1. CASE p.kind \in {"create", "saveDraft"}
    <3>1. (p.kind = "saveDraft") \in BOOLEAN
      OBVIOUS
    <3>2. formRow' = [i \in DOMAIN formRow \cup {Cardinality(DOMAIN formRow) + 1} |->
                        IF i = Cardinality(DOMAIN formRow) + 1
                        THEN Form!Sent(p, p.kind = "saveDraft") ELSE formRow[i]]
      <4>1. p.kind # "updateDraft" /\ p.kind # "submitDraft"
        BY <2>1
      <4> QED
        BY <1>8, <4>1, FormCardinality DEF Form!Handle
    <3> QED
      BY <1>6, <3>1, <3>2, Zenon
  <2>2. CASE p.kind = "updateDraft"
    BY <1>7, <1>8, <2>2 DEF Form!Handle
  <2>3. CASE p.kind = "submitDraft"
    BY <1>7, <1>8, <2>3 DEF Form!Handle
  <2> QED
    BY <1>8, <2>1, <2>2, <2>3 DEF Form!Handle
<1> QED
  BY <1>5, <1>8 DEF Form!HandleFails

-----------------------------------------------------------------------------
(* What the page, the rows and the posts say of each other.                *)

Linked == PageLinks /\ RowsFit /\ PostsFit /\ FieldsFit /\ DraftAwaited /\ DraftKept

\* Rows and posts that nobody touches stay as they are.
LEMMA RowsUntouched ==
  ASSUME UNCHANGED <<formRow, posts>>
  PROVE  /\ RowsFit => RowsFit'
         /\ PostsFit => PostsFit'
         /\ \A id, d : IsDraftOf(id, d)' <=> IsDraftOf(id, d)
  BY DEF RowsFit, PostsFit, IsDraftOf

\* A page that is opened has nothing in its fields, and what a link counters with
\* the timer.
LEMMA OpenLinked ==
  ASSUME FInv, NEW d \in Debates, NEW id \in Form!Draft, NEW counter \in Form!Countered,
         Form!OpenPage(d, id, counter),
         counter # Form!NoArgument => counter.debate = d /\ id = 0
  PROVE  Linked'
<1> USE FormTypes DEF FInv
<1>1. /\ formFetches' = formFetches \cup {[visit |-> visit', debate |-> d, draft |-> id]}
      /\ visit' = visit + 1 /\ formPage' = [open |-> TRUE, debate |-> d, draft |-> id]
      /\ timer' = counter /\ form'.counter = Form!NoArgument /\ astray' /\ ~updating'
      /\ raced' = FALSE
      /\ form'.side = IF counter = Form!NoArgument THEN "PRO" ELSE Form!SideAgainst(counter)
      /\ UNCHANGED <<formRow, posts>>
  BY DEF Form!OpenPage
<1>2. IsDraftOf(id, d)'
  BY <1>1 DEF Form!OpenPage, IsDraftOf
<1>3. PageLinks'
  <2>1. ASSUME NEW f \in formFetches'
        PROVE  /\ f.visit =< visit'
               /\ f.visit = visit' => f.debate = formPage'.debate /\ f.draft = formPage'.draft
               /\ IsDraftOf(f.draft, f.debate)'
    <3>1. CASE f \in formFetches
      <4>1. f.visit \in Nat /\ f.visit =< visit /\ IsDraftOf(f.draft, f.debate)'
        BY <1>1, <3>1, RowsUntouched DEF PageLinks, Form!Fetch
      <4> QED
        BY <1>1, <4>1
    <3>2. CASE f = [visit |-> visit', debate |-> d, draft |-> id]
      BY <1>1, <1>2, <3>2
    <3> QED
      BY <1>1, <3>1, <3>2
  <2>2. IsDraftOf(formPage.draft, formPage.debate)'
    BY <1>1, <1>2
  <2> QED
    BY <1>1, <2>1, <2>2 DEF PageLinks
<1>4. FieldsFit'
  <2>1. counter # Form!NoArgument => counter.side # form'.side
    <3> SUFFICES ASSUME counter # Form!NoArgument PROVE counter.side # form'.side
      OBVIOUS
    <3>1. counter \in Form!Published /\ counter.side \in Form!Sides
      BY PublishedIsSome DEF Form!Countered
    <3>2. Form!SideAgainst(counter) \in {Form!Other(counter.side), Form!NoSide}
      BY DEF Form!SideAgainst
    <3> QED
      BY <1>1, <3>1, <3>2, OtherSide DEF Form!NoSide, Form!Sides
  <2> QED
    BY <1>1, <2>1 DEF FieldsFit
<1>5. DraftKept'
  BY <1>1 DEF DraftKept
<1>6. DraftAwaited'
  <2>1. ASSUME NEW f \in formFetches
        PROVE  f.visit # visit'
    BY <1>1, <2>1 DEF PageLinks, Form!Fetch
  <2> QED
    BY <1>1, <2>1 DEF DraftAwaited
<1> QED
  BY <1>1, <1>3, <1>4, <1>5, <1>6, RowsUntouched DEF Linked

\* A page of a debate that is visited, or the form's page left.
LEMMA LeaveLinked ==
  ASSUME FInv,
         \/ \E d \in Debates : Form!VisitDebate(d)
         \/ Form!Leave
         \/ \E f \in formFetches : Form!FetchFails(f)
  PROVE  Linked'
<1> USE FormTypes DEF FInv
<1>1. /\ ~formPage'.open /\ formPage'.debate = formPage.debate
      /\ formPage'.draft = formPage.draft /\ formFetches' \subseteq formFetches
      /\ UNCHANGED <<visit, updating, timer, raced, formRow, posts>>
  BY DEF Form!VisitDebate, Form!Leave, Form!FetchFails, Form!storeVars, Form!formVars
<1>2. PageLinks'
  BY <1>1, RowsUntouched DEF PageLinks
<1> QED
  BY <1>1, <1>2, RowsUntouched DEF Linked, FieldsFit, DraftAwaited, DraftKept

\* The answer to the page's own request fills the store as the page expects.
LEMMA CameLinks ==
  ASSUME FInv, NEW f \in formFetches, formFetches' = formFetches \ {f},
         store' = f.debate, astray' = (f.visit # visit),
         UNCHANGED <<formPage, visit, formRow, posts>>,
         updating' => formPage.draft # 0
  PROVE  PageLinks'
<1>1. ~astray' => store' = formPage.debate
  BY DEF FInv, PageLinks
<1> QED
  BY <1>1, RowsUntouched DEF FInv, PageLinks

\* A debate that has come changes no field.
LEMMA DebateLinked ==
  ASSUME FInv, NEW f \in formFetches, Form!DebateCame(f)
  PROVE  Linked'
<1>1. PageLinks'
  BY CameLinks DEF FInv, PageLinks, Form!DebateCame, Form!formVars
<1> QED
  BY <1>1, RowsUntouched
     DEF FInv, Linked, Form!DebateCame, Form!formVars, FieldsFit, DraftAwaited, DraftKept

\* A draft that has come sets the fields to what its row has.
LEMMA DraftLinked ==
  ASSUME FInv, NEW f \in formFetches, Form!DraftCame(f)
  PROVE  Linked'
<1> USE FormTypes DEF FInv
<1>1. /\ f.draft # 0 /\ formFetches' = formFetches \ {f}
      /\ store' = f.debate /\ astray' = (f.visit # visit)
      /\ UNCHANGED <<formPage, visit, formRow, posts>>
  BY DEF Form!DraftCame
<1>2. CASE f.visit # visit \/ ~formPage.open
  <2>1. UNCHANGED <<form, updating, clearing, timer, formKept, raced, foreign>>
    BY <1>2 DEF Form!DraftCame, Form!formVars
  <2>2. PageLinks'
    BY <1>1, <2>1, CameLinks DEF PageLinks
  <2> QED
    BY <1>1, <2>1, <2>2, RowsUntouched DEF Linked, FieldsFit, DraftAwaited, DraftKept
<1>3. CASE ~(f.visit # visit \/ ~formPage.open)
  <2>1. PICK draft : draft = formRow[f.draft]
    OBVIOUS
  <2>2. /\ form'.counter = form.counter /\ form'.side = draft.side
        /\ timer' = draft.counter /\ formKept' = draft.counter /\ raced' = FALSE
        /\ clearing' = (clearing \/ draft.side # form.side)
        /\ foreign' = IF draft.counter = Form!NoArgument THEN foreign
                      ELSE draft.foreign \/ draft.astray
    BY <1>3, <2>1 DEF Form!DraftCame, Form!Later
  <2>3. /\ f.draft \in DOMAIN formRow /\ draft.debate = formPage.debate
        /\ f.draft = formPage.draft /\ Fits(draft)
    BY <1>1, <1>3, <2>1 DEF PageLinks, IsDraftOf, RowsFit
  <2>4. PageLinks'
    BY <1>1, <2>3, CameLinks
  <2>5. FieldsFit'
    <3>1. timer' # Form!NoArgument =>
            timer'.side # form'.side /\ (~foreign' => timer'.debate = formPage.debate)
      BY <2>2, <2>3 DEF Fits
    <3>2. form'.counter # Form!NoArgument /\ ~clearing' =>
            form'.counter.side # form'.side
      <4> SUFFICES ASSUME form.counter # Form!NoArgument, ~clearing'
                   PROVE  form.counter.side # draft.side
        BY <2>2
      <4>1. draft.side = form.side /\ ~clearing
        BY <2>2
      <4> QED
        BY <1>3, <4>1 DEF FieldsFit
    <3>3. form'.counter # Form!NoArgument /\ timer' = Form!NoArgument /\ ~foreign' =>
            form'.counter.debate = formPage.debate
      <4> SUFFICES ASSUME form.counter # Form!NoArgument, draft.counter = Form!NoArgument,
                          ~foreign
                   PROVE  form.counter.debate = formPage.debate
        BY <2>2
      <4>1. timer = Form!NoArgument
        BY <1>1, <1>3 DEF DraftAwaited
      <4> QED
        BY <1>3, <4>1 DEF FieldsFit
    <3> QED
      BY <1>1, <3>1, <3>2, <3>3 DEF FieldsFit
  <2>6. DraftKept'
    BY <2>2 DEF DraftKept
  <2>7. DraftAwaited'
    <3>1. ASSUME NEW g \in formFetches, g.visit = visit
          PROVE  g = f
      BY <1>3, <3>1 DEF PageLinks, Form!Fetch
    <3> QED
      BY <1>1, <3>1 DEF DraftAwaited
  <2> QED
    BY <1>1, <2>4, <2>5, <2>6, <2>7, RowsUntouched DEF Linked
<1> QED
  BY <1>2, <1>3

\* Effects, timers and the user's changes.
LEMMA FieldLinked ==
  ASSUME FInv,
         \/ Form!EffectRuns \/ Form!TimerFires
         \/ \E side \in Form!Sides : Form!ChooseSide(side)
         \/ Form!ToggleCounter
         \/ \E a \in Form!Published : Form!ChooseCounter(a)
  PROVE  Linked'
<1> USE FormTypes DEF FInv
<1>1. UNCHANGED <<store, formFetches, astray, formPage, visit, updating, posts, formRow>>
  BY DEF Form!EffectRuns, Form!TimerFires, Form!ChooseSide, Form!ToggleCounter,
         Form!ChooseCounter, Form!Change, Form!storeVars
<1>2. PageLinks' /\ RowsFit' /\ PostsFit'
  BY <1>1, RowsUntouched DEF PageLinks
<1>3. DraftAwaited'
  <2>1. timer' \in {timer, Form!NoArgument}
    BY DEF Form!EffectRuns, Form!TimerFires, Form!ChooseSide, Form!ToggleCounter,
           Form!ChooseCounter, Form!Change
  <2> QED
    BY <1>1, <2>1 DEF DraftAwaited
<1>4. CASE Form!EffectRuns
  <2>1. form'.counter = Form!NoArgument /\ form'.side = form.side /\ ~clearing' /\ clearing
        /\ UNCHANGED <<timer, formKept, raced, foreign>>
    BY <1>4 DEF Form!EffectRuns, Form!Cleared, Form!Form
  <2> QED
    BY <1>1, <1>2, <1>3, <2>1 DEF Linked, FieldsFit, DraftKept
<1>5. CASE Form!TimerFires
  <2>1. /\ form'.counter = timer /\ form'.side = form.side /\ timer # Form!NoArgument
        /\ timer' = Form!NoArgument /\ raced' = clearing /\ formPage.open
        /\ UNCHANGED <<clearing, formKept, foreign>>
    BY <1>5 DEF Form!TimerFires, Form!Form
  <2>2. FieldsFit'
    BY <1>1, <2>1 DEF FieldsFit
  <2>3. DraftKept'
    <3>1. CASE clearing
      BY <2>1, <3>1 DEF DraftKept
    <3>2. CASE ~clearing
      <4>1. formPage.open /\ updating /\ formKept # Form!NoArgument /\ ~raced =>
              timer = formKept
        BY <2>1 DEF DraftKept
      <4> QED
        BY <1>1, <2>1, <3>2, <4>1 DEF DraftKept
    <3> QED
      BY <3>1, <3>2
  <2> QED
    BY <1>2, <1>3, <2>2, <2>3 DEF Linked
<1>6. ASSUME NEW side \in Form!Sides, Form!ChooseSide(side)
      PROVE  Linked'
  <2>1. /\ form'.counter = form.counter /\ clearing' /\ timer = Form!NoArgument
        /\ formKept' = Form!NoArgument /\ UNCHANGED <<timer, foreign>>
    BY <1>6 DEF Form!ChooseSide, Form!Change, Form!Settled, Form!Form
  <2> QED
    BY <1>1, <1>2, <1>3, <2>1 DEF Linked, FieldsFit, DraftKept
<1>7. CASE Form!ToggleCounter
  <2>1. /\ form'.counter = Form!NoArgument /\ timer = Form!NoArgument
        /\ formKept' = Form!NoArgument /\ UNCHANGED timer
    BY <1>7 DEF Form!ToggleCounter, Form!Change, Form!Settled, Form!Form
  <2> QED
    BY <1>1, <1>2, <1>3, <2>1 DEF Linked, FieldsFit, DraftKept
<1>8. ASSUME NEW a \in Form!Published, Form!ChooseCounter(a)
      PROVE  Linked'
  <2>1. /\ form'.counter = a /\ form'.side = form.side /\ timer = Form!NoArgument
        /\ a.debate = store /\ a.side # form.side /\ foreign' = astray
        /\ formKept' = Form!NoArgument /\ UNCHANGED timer
    BY <1>8 DEF Form!ChooseCounter, Form!Change, Form!Settled, Form!Form
  <2> QED
    BY <1>1, <1>2, <1>3, <2>1 DEF Linked, PageLinks, FieldsFit, DraftKept
<1> QED
  BY <1>4, <1>5, <1>6, <1>7, <1>8

\* What is sent fits what the page is about.
LEMMA SendLinked ==
  ASSUME FInv, NEW kind \in Kinds, Form!Send(kind)
  PROVE  Linked'
<1> USE FormTypes DEF FInv
<1>1. /\ UNCHANGED <<store, formFetches, astray, formPage, visit, form, updating, clearing,
                     timer, formKept, raced, foreign, formRow>>
      /\ posts' = posts \cup {SentPost(kind)}
  BY DEF Form!Send, Form!storeVars, Form!formVars, SentPost
<1>2. /\ formPage.open /\ ~clearing /\ timer = Form!NoArgument
      /\ kind \in Updates => updating
  BY DEF Form!Send, Form!Settled, Updates
<1>3. PICK p : p = SentPost(kind)
  OBVIOUS
<1>4. /\ p.kind = kind /\ p.debate = (IF updating THEN formPage.debate ELSE store)
      /\ p.id = formPage.draft /\ p.side = form.side /\ p.counter = form.counter
      /\ p.url = formPage.debate /\ p.foreign = foreign
  BY <1>3 DEF SentPost
<1>5. p.astray = (astray /\ ~updating)
  BY <1>3 DEF SentPost
<1>6. Fits(p)
  <2>1. ~p.astray => p.debate = p.url
    BY <1>2, <1>4, <1>5 DEF PageLinks
  <2>2. p.counter # Form!NoArgument =>
          p.counter.side # p.side /\ (~p.foreign => p.counter.debate = p.url)
    BY <1>2, <1>4 DEF FieldsFit
  <2> QED
    BY <2>1, <2>2 DEF Fits
<1>7. p.kind \in Updates => p.id # 0 /\ IsDraftOf(p.id, p.debate)
  BY <1>2, <1>4 DEF PageLinks
<1>8. PostsFit'
  <2>1. ASSUME NEW q \in posts'
        PROVE  Fits(q) /\ (q.kind \in Updates => q.id # 0 /\ IsDraftOf(q.id, q.debate))
    BY <1>1, <1>3, <1>6, <1>7, <2>1 DEF PostsFit
  <2>2. \A id, d : IsDraftOf(id, d)' <=> IsDraftOf(id, d)
    BY <1>1 DEF IsDraftOf
  <2> QED
    BY <2>1, <2>2 DEF PostsFit
<1>9. PageLinks' /\ RowsFit'
  BY <1>1 DEF PageLinks, RowsFit, IsDraftOf
<1> QED
  BY <1>1, <1>8, <1>9 DEF Linked, FieldsFit, DraftAwaited, DraftKept

\* A row that is made or changed is that of the post.
LEMMA HandleLinked ==
  ASSUME FInv, NEW p \in posts, Form!Handle(p) \/ Form!HandleFails(p)
  PROVE  Linked'
<1> USE FormTypes DEF FInv
<1>1. /\ posts' = posts \ {p}
      /\ UNCHANGED <<store, formFetches, astray, formPage, visit, form, updating, clearing,
                     timer, formKept, raced, foreign>>
  BY DEF Form!Handle, Form!HandleFails, Form!storeVars, Form!formVars
<1>2. \A isDraft : Fits(Form!Sent(p, isDraft)) /\ Form!Sent(p, isDraft).debate = p.debate
  BY DEF Form!Sent, PostsFit, Fits
<1>3. ASSUME DOMAIN formRow \subseteq DOMAIN formRow',
             \A i \in DOMAIN formRow : formRow'[i].debate = formRow[i].debate,
             \A i \in DOMAIN formRow' : Fits(formRow'[i])
      PROVE  Linked'
  <2>1. \A id, d : IsDraftOf(id, d) => IsDraftOf(id, d)'
    BY <1>3 DEF IsDraftOf
  <2>2. PageLinks' /\ PostsFit' /\ RowsFit'
    BY <1>1, <1>3, <2>1 DEF PageLinks, PostsFit, RowsFit
  <2> QED
    BY <1>1, <2>2 DEF Linked, FieldsFit, DraftAwaited, DraftKept
<1>4. CASE UNCHANGED formRow
  BY <1>3, <1>4 DEF RowsFit
<1>5. CASE Form!Handle(p) /\ p.kind \in {"create", "saveDraft"}
  <2> DEFINE n == Cardinality(DOMAIN formRow)
  <2>1. n + 1 \notin DOMAIN formRow
    BY DEF FormTyped, RowsCounted
  <2>2. PICK isDraft : formRow' = [i \in DOMAIN formRow \cup {n + 1} |->
                                 IF i = n + 1 THEN Form!Sent(p, isDraft) ELSE formRow[i]]
    <3>1. p.kind # "updateDraft" /\ p.kind # "submitDraft"
      BY <1>5
    <3> QED
      BY <1>5, <3>1, FormCardinality DEF Form!Handle
  <2> HIDE DEF n
  <2> QED
    BY <1>2, <1>3, <2>1, <2>2 DEF RowsFit
<1>6. CASE Form!Handle(p) /\ p.kind \notin {"create", "saveDraft"}
  <2>1. p.kind \in Updates
    BY <1>6 DEF Form!Post, Updates
  <2>2. p.id \in DOMAIN formRow /\ formRow[p.id].debate = p.debate
    BY <2>1 DEF PostsFit, IsDraftOf
  <2>3. PICK isDraft : formRow' = [formRow EXCEPT ![p.id] = Form!Sent(p, isDraft)]
    BY <1>6 DEF Form!Handle
  <2> QED
    BY <1>2, <1>3, <2>2, <2>3 DEF RowsFit
<1> QED
  BY <1>4, <1>5, <1>6 DEF Form!HandleFails

\* Every step of the form, the store and the API keeps the invariant.
LEMMA NextFInv == FInv /\ [Form!Next]_(Form!vars) => FInv'
<1> SUFFICES ASSUME FInv, [Form!Next]_(Form!vars) PROVE FormTyped' /\ Linked'
  BY DEF FInv, Linked
<1> USE DEF FInv
<1>1. ASSUME NEW d \in Debates, NEW id \in Form!Draft, Form!OpenPage(d, id, Form!NoArgument)
      PROVE  FormTyped' /\ Linked'
  BY <1>1, OpenTypes, OpenLinked DEF Form!Countered
<1>2. ASSUME NEW a \in Form!Published, Form!OpenPage(a.debate, 0, a)
      PROVE  FormTyped' /\ Linked'
  <2>1. a.debate \in Debates /\ 0 \in Form!Draft /\ a \in Form!Countered
    BY DEF Form!Published, Form!Draft, Form!Countered
  <2> QED
    BY <1>2, <2>1, OpenTypes, OpenLinked
<1>3. CASE \/ \E d \in Debates : Form!VisitDebate(d)
           \/ Form!Leave
           \/ \E f \in formFetches : Form!FetchFails(f)
  BY <1>3, AnswerTypes, LeaveLinked
<1>4. ASSUME NEW f \in formFetches, Form!DebateCame(f) \/ Form!DraftCame(f)
      PROVE  FormTyped' /\ Linked'
  BY <1>4, AnswerTypes, DebateLinked, DraftLinked
<1>5. CASE \/ Form!EffectRuns \/ Form!TimerFires
           \/ \E side \in Form!Sides : Form!ChooseSide(side)
           \/ Form!ToggleCounter
           \/ \E a \in Form!Published : Form!ChooseCounter(a)
  BY <1>5, FieldTypes, FieldLinked
<1>6. ASSUME NEW kind \in Kinds, Form!Send(kind)
      PROVE  FormTyped' /\ Linked'
  BY <1>6, SendTypes, SendLinked
<1>7. ASSUME NEW p \in posts, Form!Handle(p) \/ Form!HandleFails(p)
      PROVE  FormTyped' /\ Linked'
  BY <1>7, HandleTypes, HandleLinked
<1>8. CASE UNCHANGED Form!vars
  BY <1>8 DEF Form!vars, Form!storeVars, Form!formVars, FormTyped, Form!TypeOK, RowsCounted,
              Linked, PageLinks, IsDraftOf, RowsFit, PostsFit, FieldsFit, DraftAwaited,
              DraftKept
<1> QED
  BY <1>1, <1>2, <1>3, <1>4, <1>5, <1>6, <1>7, <1>8 DEF Form!Next, Kinds

\* What is stored fits the page it was written on, and its side what it counters,
\* whatever effects, timers and answers come in between (new-argument, createArgument,
\* updateDraft).
THEOREM FormFits == Form!Spec => []ArgumentsFit
<1>1. FInv => ArgumentsFit
  BY DEF FInv, RowsFit, Fits, ArgumentsFit, Form!ArgumentsFit
<1> QED
  BY <1>1, InitFInv, NextFInv, PTL DEF Form!Spec

\* A draft opened again counters what it did when it can be sent, but for the race of
\* the timer with the effect (fetchDraft, setValue).
THEOREM DraftHolds == Form!Spec => []DraftKeepsCounter
<1>1. FInv => DraftKeepsCounter
  BY DEF FInv, DraftKept, DraftKeepsCounter, Form!DraftKeepsCounter, Form!Settled
<1> QED
  BY <1>1, InitFInv, NextFInv, PTL DEF Form!Spec

-----------------------------------------------------------------------------
(* The badge and the list of notifications.                                *)

\* Rows the page has heard of, or will, or is known to have missed.
InMessages(w) == UNION {w[k] : k \in DOMAIN w}
HeardOf == unpublished \cup list \cup missed \cup buried \cup InMessages(wire)

\* Rows that were shown, or are listed, or on their way to the list.
Delivered(i) == i \in seen \cup list \cup buried \/ \E f \in fetches : i \in f.rows

\* A list that is on its way has the unread rows nobody has told the page of.
ListsTrue ==
    \A f \in fetches :
        /\ f.stage = "asked" => f.rows = {}
        /\ f.stage = "answered" => Inbox!Unread \subseteq HeardOf \cup f.rows

BadgeTrue == badge = 0 => Inbox!Unread \subseteq HeardOf

\* What an update marks, or has marked, as read was in a list.
MarksTrue ==
    /\ \A rows \in marking : \A i \in rows : Delivered(i)
    /\ \A i \in InboxIds : row[i] = "read" => Delivered(i)

InboxInv == Inbox!TypeOK /\ ListsTrue /\ BadgeTrue /\ MarksTrue

\* A message that is added, the first one taken, and a wire that is cut.
LEMMA InAppended ==
  ASSUME NEW S, NEW w \in Seq(S), NEW rows \in S
  PROVE  /\ Append(w, rows) \in Seq(S)
         /\ InMessages(Append(w, rows)) = InMessages(w) \cup rows
<1>1. /\ Append(w, rows) \in Seq(S) /\ DOMAIN Append(w, rows) = 1 .. Len(w) + 1
      /\ \A k \in 1 .. Len(w) : Append(w, rows)[k] = w[k]
      /\ Append(w, rows)[Len(w) + 1] = rows /\ DOMAIN w = 1 .. Len(w) /\ Len(w) \in Nat
  OBVIOUS
<1>2. 1 .. Len(w) + 1 = (1 .. Len(w)) \cup {Len(w) + 1}
  BY <1>1
<1> QED
  BY <1>1, <1>2 DEF InMessages

\* A message handled leaves the others.
LEMMA InTail ==
  ASSUME NEW S, NEW w \in Seq(S), w # <<>>
  PROVE  /\ Tail(w) \in Seq(S) /\ Head(w) \in S
         /\ InMessages(w) \subseteq Head(w) \cup InMessages(Tail(w))
<1>1. /\ Tail(w) \in Seq(S) /\ Head(w) \in S /\ Head(w) = w[1]
      /\ DOMAIN w = 1 .. Len(w) /\ Len(w) \in Nat /\ DOMAIN Tail(w) = 1 .. Len(w) - 1
      /\ \A k \in 1 .. Len(w) - 1 : Tail(w)[k] = w[k + 1]
  OBVIOUS
<1>2. ASSUME NEW k \in DOMAIN w, k # 1
      PROVE  k - 1 \in DOMAIN Tail(w) /\ Tail(w)[k - 1] = w[k]
  BY <1>1, <1>2
<1>3. ASSUME NEW i \in InMessages(w) PROVE i \in Head(w) \cup InMessages(Tail(w))
  <2>1. PICK k \in DOMAIN w : i \in w[k]
    BY <1>3 DEF InMessages
  <2>2. CASE k = 1
    BY <1>1, <2>1, <2>2
  <2>3. CASE k # 1
    <3>1. k - 1 \in DOMAIN Tail(w) /\ i \in Tail(w)[k - 1]
      BY <1>2, <2>1, <2>3
    <3> QED
      BY <3>1 DEF InMessages
  <2> QED
    BY <2>2, <2>3
<1> QED
  BY <1>1, <1>3

\* What is cut off the end of a stream, and what is left of it.
LEMMA InCut ==
  ASSUME NEW S, NEW w \in Seq(SUBSET S), NEW n \in 0 .. Len(w)
  PROVE  /\ SubSeq(w, 1, n) \in Seq(SUBSET S)
         /\ UNION {w[k] : k \in n + 1 .. Len(w)} \subseteq S
         /\ InMessages(w) \subseteq InMessages(SubSeq(w, 1, n))
                                      \cup UNION {w[k] : k \in n + 1 .. Len(w)}
<1>1. /\ SubSeq(w, 1, n) \in Seq(SUBSET S) /\ DOMAIN SubSeq(w, 1, n) = 1 .. n
      /\ \A k \in 1 .. n : SubSeq(w, 1, n)[k] = w[k]
      /\ DOMAIN w = 1 .. Len(w) /\ Len(w) \in Nat
  OBVIOUS
<1>2. \A k \in DOMAIN w : k \in 1 .. n \/ k \in n + 1 .. Len(w)
  BY <1>1
<1>3. \A k \in n + 1 .. Len(w) : w[k] \in SUBSET S
  BY <1>1
<1> QED
  BY <1>1, <1>2, <1>3 DEF InMessages

\* No notification, no page.
LEMMA InitInboxInv == Inbox!Init => InboxInv
<1> SUFFICES ASSUME Inbox!Init PROVE InboxInv
  OBVIOUS
<1>1. PICK old \in SUBSET InboxIds : \E read \in SUBSET InboxIds :
        /\ row = [i \in InboxIds |-> IF i \notin old THEN "none"
                                     ELSE IF i \in read THEN "read" ELSE "unread"]
        /\ seen = old \cap read
  BY DEF Inbox!Init
<1>2. wire = <<>> /\ fetches = {} /\ marking = {} /\ badge = Null
  BY DEF Inbox!Init
<1>3. badge # 0
  BY <1>2, NullIsNothing
<1>4. Inbox!TypeOK
  <2>1. row \in [InboxIds -> {"none", "unread", "read"}]
    BY <1>1
  <2>2. missed \cup seen \cup buried \subseteq InboxIds /\ wire \in Seq(SUBSET InboxIds)
    BY <1>1, <1>2 DEF Inbox!Init
  <2>3. {streams, opens} \subseteq 0 .. MaxTurns
    BY PagesBounds DEF Inbox!Init
  <2> QED
    BY <1>2, <2>1, <2>2, <2>3 DEF Inbox!Init, Inbox!TypeOK
<1> QED
  BY <1>1, <1>2, <1>3, <1>4 DEF InboxInv, ListsTrue, BadgeTrue, MarksTrue, Delivered

\* There are only so many turns.
LEMMA TurnsBounded ==
  Inbox!TypeOK => /\ streams \in Nat /\ opens \in Nat /\ MaxTurns \in Nat
                  /\ streams =< MaxTurns /\ opens =< MaxTurns
  BY PagesBounds DEF Inbox!TypeOK

\* Every step keeps the types, worker and stream first.
LEMMA WorkerTypes ==
  ASSUME Inbox!TypeOK, Inbox!WorkerStep \/ Inbox!StreamStep,
         seen' = seen \cup Inbox!OnScreen'
  PROVE  Inbox!TypeOK'
<1> USE DEF Inbox!TypeOK
<1>1. UNCHANGED <<isOpen, loading, badge, list, timers, opens, fetches, marking, buried>>
  BY DEF Inbox!WorkerStep, Inbox!StreamStep, Inbox!Store, Inbox!Publish, Inbox!PublishFails,
         Inbox!Connect, Inbox!Refuse, Inbox!Count, Inbox!GoLive, Inbox!Disconnect,
         Inbox!widgetVars, Inbox!historyVars
<1>2. seen' \subseteq InboxIds
  BY <1>1 DEF Inbox!OnScreen
<1>3. ASSUME NEW i \in InboxIds, Inbox!Store(i) \/ Inbox!Publish(i) \/ Inbox!PublishFails(i)
      PROVE  Inbox!TypeOK'
  <2>1. wire' \in Seq(SUBSET InboxIds)
    <3>1. Append(wire, {i}) \in Seq(SUBSET InboxIds)
      BY InAppended
    <3> QED
      BY <1>3, <3>1 DEF Inbox!Store, Inbox!Publish, Inbox!PublishFails
  <2>2. missed' \subseteq InboxIds
    BY <1>3 DEF Inbox!Store, Inbox!Publish, Inbox!PublishFails, Inbox!historyVars
  <2>3. row' \in [InboxIds -> {"none", "unread", "read"}] /\ unpublished' \subseteq InboxIds
        /\ UNCHANGED <<stream, counted, streams>>
    BY <1>3 DEF Inbox!Store, Inbox!Publish, Inbox!PublishFails
  <2> QED
    BY <1>1, <1>2, <2>1, <2>2, <2>3
<1>4. CASE Inbox!StreamStep
  <2>1. UNCHANGED <<row, unpublished>>
    BY <1>4 DEF Inbox!StreamStep, Inbox!Connect, Inbox!Refuse, Inbox!Count, Inbox!GoLive,
                Inbox!Disconnect
  <2>2. stream' \in {"down", "opening", "counting", "live", "dead"}
    BY <1>4 DEF Inbox!StreamStep, Inbox!Connect, Inbox!Refuse, Inbox!Count, Inbox!GoLive,
                Inbox!Disconnect
  <2>3. counted' \subseteq InboxIds
    BY <1>4 DEF Inbox!StreamStep, Inbox!Connect, Inbox!Refuse, Inbox!Count, Inbox!GoLive,
                Inbox!Disconnect, Inbox!Unread
  <2>4. streams' \in 0 .. MaxTurns
    <3>1. \/ streams' = streams
          \/ streams' = streams + 1 /\ streams + opens < MaxTurns
      BY <1>4 DEF Inbox!StreamStep, Inbox!Connect, Inbox!Refuse, Inbox!Count, Inbox!GoLive,
                  Inbox!Disconnect
    <3> QED
      BY <3>1, TurnsBounded
  <2>5. wire' \in Seq(SUBSET InboxIds) /\ missed' \subseteq InboxIds
    <3>1. Append(wire, counted) \in Seq(SUBSET InboxIds)
      BY InAppended
    <3>2. CASE Inbox!Disconnect
      BY <3>2, InCut DEF Inbox!Disconnect
    <3> QED
      BY <1>4, <3>1, <3>2
      DEF Inbox!StreamStep, Inbox!Connect, Inbox!Refuse, Inbox!Count, Inbox!GoLive,
          Inbox!historyVars
  <2> QED
    BY <1>1, <1>2, <2>1, <2>2, <2>3, <2>4, <2>5
<1> QED
  BY <1>3, <1>4 DEF Inbox!WorkerStep

\* A badge is a number or not known.
LEMMA BadgeTyped ==
  ASSUME badge \in {Null} \cup Nat, NEW rows \in SUBSET InboxIds
  PROVE  /\ Inbox!BadgeAfter(rows) \in {Null} \cup Nat
         /\ Inbox!BadgeAfter(rows) # 0
<1>1. Inbox!Cardinality(rows) \in Nat
  <2>1. Inbox!Cardinality(rows) = Cardinality(rows)
    BY DEF Inbox!Cardinality, Cardinality
  <2>2. IsFiniteSet(rows)
    BY InboxIsFinite, FS_Subset
  <2> QED
    BY <2>1, <2>2, FS_CardinalityType
<1>2. Null # 0
  BY NullIsNothing
<1> QED
  BY <1>1, <1>2 DEF Inbox!BadgeAfter

\* The widget and its lists.
LEMMA WidgetTypes ==
  ASSUME Inbox!TypeOK, Inbox!WidgetStep \/ Inbox!ListStep,
         seen' = seen \cup Inbox!OnScreen'
  PROVE  Inbox!TypeOK'
<1> USE DEF Inbox!TypeOK
<1>1. UNCHANGED <<unpublished, stream, counted, streams>>
  BY DEF Inbox!WidgetStep, Inbox!ListStep, Inbox!OnMessage, Inbox!OpenPopover,
         Inbox!ClosePopover, Inbox!TimerFires, Inbox!AnswerFetch, Inbox!ReceiveList,
         Inbox!FetchFails, Inbox!MarkAsRead, Inbox!MarkFails, Inbox!apiVars
<1>2. \A f \in fetches : f.rows \subseteq InboxIds
  BY DEF Inbox!Fetches
<1>3. list' \subseteq InboxIds /\ timers' \subseteq SUBSET InboxIds
  <2>1. CASE Inbox!WidgetStep
    BY <2>1 DEF Inbox!WidgetStep, Inbox!OnMessage, Inbox!OpenPopover, Inbox!ClosePopover,
       Inbox!TimerFires
  <2>2. CASE \E f \in fetches : Inbox!ReceiveList(f)
    BY <1>2, <2>2 DEF Inbox!ReceiveList
  <2>3. CASE \/ \E f \in fetches : Inbox!AnswerFetch(f) \/ Inbox!FetchFails(f)
             \/ \E rows \in marking : Inbox!MarkAsRead(rows) \/ Inbox!MarkFails(rows)
    BY <2>3 DEF Inbox!AnswerFetch, Inbox!FetchFails, Inbox!MarkAsRead, Inbox!MarkFails,
       Inbox!widgetVars
  <2> QED
    BY <2>1, <2>2, <2>3 DEF Inbox!ListStep
<1>4. seen' \subseteq InboxIds
  BY <1>3 DEF Inbox!OnScreen
<1>5. CASE Inbox!OnMessage
  <2>1. Head(wire) \in SUBSET InboxIds /\ Tail(wire) \in Seq(SUBSET InboxIds)
    BY <1>5, InTail DEF Inbox!OnMessage
  <2>2. badge' \in {Null} \cup Nat
    BY <1>5, <2>1, BadgeTyped DEF Inbox!OnMessage
  <2> QED
    BY <1>1, <1>4, <1>5, <2>1, <2>2 DEF Inbox!OnMessage, Inbox!apiVars
<1>6. CASE Inbox!OpenPopover
  <2>1. opens' \in 1 .. MaxTurns
    <3>1. opens' = opens + 1 /\ streams + opens < MaxTurns
      BY <1>6 DEF Inbox!OpenPopover
    <3> QED
      BY <3>1, TurnsBounded
  <2>2. [id |-> opens', stage |-> "asked", rows |-> {}] \in Inbox!Fetches
    BY <2>1 DEF Inbox!Fetches
  <2>3. fetches' \subseteq Inbox!Fetches /\ {isOpen', loading'} \subseteq BOOLEAN
    BY <1>6, <2>2 DEF Inbox!OpenPopover
  <2>4. UNCHANGED <<row, wire, badge, marking, missed, buried>>
    BY <1>6 DEF Inbox!OpenPopover, Inbox!apiVars, Inbox!historyVars
  <2> QED
    BY <1>1, <1>3, <1>4, <2>1, <2>3, <2>4
<1>7. CASE Inbox!ClosePopover
  BY <1>1, <1>3, <1>4, <1>7 DEF Inbox!ClosePopover, Inbox!apiVars, Inbox!historyVars
<1>8. ASSUME NEW rows \in timers, Inbox!TimerFires(rows)
      PROVE  Inbox!TypeOK'
  BY <1>1, <1>3, <1>4, <1>8 DEF Inbox!TimerFires, Inbox!apiVars
<1>9. ASSUME NEW f \in fetches,
             Inbox!AnswerFetch(f) \/ Inbox!ReceiveList(f) \/ Inbox!FetchFails(f)
      PROVE  Inbox!TypeOK'
  <2>1. [f EXCEPT !.stage = "answered", !.rows = Inbox!Stored] \in Inbox!Fetches
    <3>1. f \in Inbox!Fetches /\ Inbox!Stored \in SUBSET InboxIds
      BY DEF Inbox!Stored
    <3> QED
      BY <3>1 DEF Inbox!Fetches
  <2>2. fetches' \subseteq Inbox!Fetches
    BY <1>9, <2>1 DEF Inbox!AnswerFetch, Inbox!ReceiveList, Inbox!FetchFails
  <2>3. marking' \subseteq SUBSET InboxIds
    BY <1>9 DEF Inbox!AnswerFetch, Inbox!ReceiveList, Inbox!FetchFails, Inbox!Unread
  <2>4. (missed \cup buried)' \subseteq InboxIds
    BY <1>2, <1>9
    DEF Inbox!AnswerFetch, Inbox!ReceiveList, Inbox!FetchFails, Inbox!historyVars
  <2>5. (badge' = 0 \/ badge' = badge) /\ UNCHANGED <<row, wire, isOpen, opens>>
        /\ (loading' = loading \/ loading' = FALSE)
    BY <1>9 DEF Inbox!AnswerFetch, Inbox!ReceiveList, Inbox!FetchFails, Inbox!apiVars,
                Inbox!widgetVars
  <2>6. badge' \in {Null} \cup Nat
    BY <2>5
  <2>7. loading' \in BOOLEAN
    BY <2>5
  <2> QED
    BY <1>1, <1>3, <1>4, <2>2, <2>3, <2>4, <2>5, <2>6, <2>7
<1>10. ASSUME NEW rows \in marking, Inbox!MarkAsRead(rows) \/ Inbox!MarkFails(rows)
       PROVE  Inbox!TypeOK'
  <2>1. row' \in [InboxIds -> {"none", "unread", "read"}]
    BY <1>10 DEF Inbox!MarkAsRead, Inbox!MarkFails, Inbox!Marked, Inbox!apiVars
  <2> QED
    BY <1>1, <1>3, <1>4, <1>10, <2>1
    DEF Inbox!MarkAsRead, Inbox!MarkFails, Inbox!widgetVars, Inbox!historyVars
<1> QED
  BY <1>5, <1>6, <1>7, <1>8, <1>9, <1>10 DEF Inbox!WidgetStep, Inbox!ListStep

\* A row that becomes unread is to be published.
LEMMA UnreadPublished ==
  ASSUME Inbox!TypeOK, Inbox!Next
  PROVE  Inbox!Unread' \subseteq Inbox!Unread \cup unpublished'
<1>1. ASSUME NEW i \in InboxIds, Inbox!Store(i)
      PROVE  Inbox!Unread' \subseteq Inbox!Unread \cup unpublished'
  BY <1>1 DEF Inbox!Store, Inbox!Unread, Inbox!TypeOK
<1>2. ASSUME NEW rows \in marking, Inbox!MarkAsRead(rows)
      PROVE  Inbox!Unread' \subseteq Inbox!Unread
  BY <1>2 DEF Inbox!MarkAsRead, Inbox!Marked, Inbox!Unread, Inbox!TypeOK
<1>3. CASE UNCHANGED row
  BY <1>3 DEF Inbox!Unread
<1>4. \/ UNCHANGED row
      \/ \E i \in InboxIds : Inbox!Store(i)
      \/ \E rows \in marking : Inbox!MarkAsRead(rows)
  BY DEF Inbox!Next, Inbox!WorkerStep, Inbox!StreamStep, Inbox!WidgetStep, Inbox!ListStep,
         Inbox!Publish, Inbox!PublishFails, Inbox!Connect, Inbox!Refuse, Inbox!Count,
         Inbox!GoLive, Inbox!Disconnect, Inbox!OnMessage, Inbox!OpenPopover,
         Inbox!ClosePopover, Inbox!TimerFires, Inbox!AnswerFetch, Inbox!ReceiveList,
         Inbox!FetchFails, Inbox!MarkFails, Inbox!apiVars
<1> QED
  BY <1>1, <1>2, <1>3, <1>4

\* What was listed is listed, or is known to have been overwritten.
LEMMA ListKept ==
  ASSUME Inbox!TypeOK, Inbox!Next
  PROVE  (list \cup buried) \subseteq (list \cup buried)'
<1>1. CASE Inbox!WorkerStep \/ Inbox!StreamStep
  BY <1>1 DEF Inbox!WorkerStep, Inbox!StreamStep, Inbox!Store, Inbox!Publish,
         Inbox!PublishFails, Inbox!Connect, Inbox!Refuse, Inbox!Count, Inbox!GoLive,
         Inbox!Disconnect, Inbox!widgetVars, Inbox!historyVars
<1>2. CASE Inbox!WidgetStep \/ Inbox!ListStep
  BY <1>2 DEF Inbox!WidgetStep, Inbox!ListStep, Inbox!OnMessage, Inbox!OpenPopover,
         Inbox!ClosePopover, Inbox!TimerFires, Inbox!AnswerFetch, Inbox!ReceiveList,
         Inbox!FetchFails, Inbox!MarkAsRead, Inbox!MarkFails, Inbox!widgetVars,
         Inbox!historyVars
<1> QED
  BY <1>1, <1>2 DEF Inbox!Next

\* No row is forgotten, unless it is heard of while no list is on its way: then it is in
\* the badge.
LEMMA AccountsKept ==
  ASSUME Inbox!TypeOK, Inbox!Next, Inbox!OnMessage => fetches # {}
  PROVE  HeardOf \subseteq HeardOf'
<1> USE ListKept DEF HeardOf
<1>1. ASSUME NEW i \in InboxIds, Inbox!Store(i) \/ Inbox!Publish(i) \/ Inbox!PublishFails(i)
      PROVE  HeardOf \subseteq HeardOf'
  <2>1. InMessages(Append(wire, {i})) = InMessages(wire) \cup {i}
    BY InAppended DEF Inbox!TypeOK
  <2> QED
    BY <1>1, <2>1 DEF Inbox!Store, Inbox!Publish, Inbox!PublishFails, Inbox!historyVars
<1>2. CASE Inbox!StreamStep
  <2>1. InMessages(Append(wire, counted)) = InMessages(wire) \cup counted
    BY InAppended DEF Inbox!TypeOK
  <2>2. CASE Inbox!Disconnect
    <3>1. PICK n \in 0 .. Len(wire) :
            /\ wire' = SubSeq(wire, 1, n)
            /\ missed' = missed \cup UNION {wire[k] : k \in n + 1 .. Len(wire)}
      BY <2>2 DEF Inbox!Disconnect
    <3>2. InMessages(wire) \subseteq InMessages(wire')
                                   \cup UNION {wire[k] : k \in n + 1 .. Len(wire)}
      BY <3>1, InCut DEF Inbox!TypeOK
    <3> QED
      BY <2>2, <3>1, <3>2 DEF Inbox!Disconnect
  <2> QED
    BY <1>2, <2>1, <2>2 DEF Inbox!StreamStep, Inbox!Connect, Inbox!Refuse, Inbox!Count,
       Inbox!GoLive, Inbox!historyVars
<1>3. CASE Inbox!OnMessage
  <2>1. InMessages(wire) \subseteq Head(wire) \cup InMessages(Tail(wire))
    BY <1>3, InTail DEF Inbox!OnMessage, Inbox!TypeOK
  <2> QED
    BY <1>3, <2>1 DEF Inbox!OnMessage, Inbox!apiVars
<1>4. CASE Inbox!OpenPopover \/ Inbox!ClosePopover
           \/ \E rows \in timers : Inbox!TimerFires(rows)
  BY <1>4 DEF Inbox!OpenPopover, Inbox!ClosePopover, Inbox!TimerFires, Inbox!apiVars,
              Inbox!historyVars
<1>5. CASE Inbox!ListStep
  BY <1>5 DEF Inbox!ListStep, Inbox!AnswerFetch, Inbox!ReceiveList, Inbox!FetchFails,
         Inbox!MarkAsRead, Inbox!MarkFails, Inbox!apiVars, Inbox!widgetVars,
         Inbox!historyVars
<1> QED
  BY <1>1, <1>2, <1>3, <1>4, <1>5 DEF Inbox!Next, Inbox!WorkerStep, Inbox!WidgetStep

\* A list has all there is to be read when it is answered, and the badge is 0 only from
\* the list's arrival to the next message.
LEMMA ListsKept ==
  ASSUME InboxInv, Inbox!Next
  PROVE  ListsTrue' /\ BadgeTrue'
<1> USE DEF InboxInv
<1>1. CASE Inbox!OnMessage /\ fetches = {}
  <2>1. Head(wire) \in SUBSET InboxIds
    BY <1>1, InTail DEF Inbox!OnMessage, Inbox!TypeOK
  <2>2. badge' # 0 /\ fetches' = {}
    BY <1>1, <2>1, BadgeTyped DEF Inbox!OnMessage, Inbox!TypeOK
  <2> QED
    BY <2>2 DEF ListsTrue, BadgeTrue
<1>2. CASE ~(Inbox!OnMessage /\ fetches = {})
  <2>1. HeardOf \subseteq HeardOf' /\ unpublished' \subseteq HeardOf'
    BY <1>2, AccountsKept DEF HeardOf
  <2>2. ASSUME NEW rows \in SUBSET InboxIds, Inbox!Unread \subseteq HeardOf \cup rows
        PROVE  Inbox!Unread' \subseteq HeardOf' \cup rows
    BY <2>1, <2>2, UnreadPublished
  <2>3. ASSUME NEW f \in fetches
        PROVE  f.rows \in SUBSET InboxIds
    BY DEF Inbox!TypeOK, Inbox!Fetches
  <2>4. ListsTrue'
    <3>1. ASSUME NEW g \in fetches', g \in fetches
          PROVE  /\ g.stage = "asked" => g.rows = {}
                 /\ g.stage = "answered" => Inbox!Unread' \subseteq HeardOf' \cup g.rows
      BY <2>2, <2>3, <3>1 DEF ListsTrue
    <3>2. ASSUME NEW f \in fetches, Inbox!AnswerFetch(f), NEW g \in fetches', g \notin fetches
          PROVE  /\ g.stage = "answered" /\ Inbox!Unread' \subseteq g.rows
      <4>1. g = [f EXCEPT !.stage = "answered", !.rows = Inbox!Stored]
        BY <3>2 DEF Inbox!AnswerFetch
      <4>2. g.stage = "answered" /\ g.rows = Inbox!Stored
        BY <4>1 DEF Inbox!TypeOK, Inbox!Fetches
      <4> QED
        BY <3>2, <4>2 DEF Inbox!AnswerFetch, Inbox!apiVars, Inbox!Unread, Inbox!Stored
    <3>3. ASSUME NEW g \in fetches', g \notin fetches
          PROVE  \/ \E f \in fetches : Inbox!AnswerFetch(f)
                 \/ g.stage = "asked" /\ g.rows = {}
      <4>1. CASE Inbox!OpenPopover
        BY <3>3, <4>1 DEF Inbox!OpenPopover
      <4> QED
        BY <3>3, <4>1 DEF Inbox!Next, Inbox!WorkerStep, Inbox!StreamStep, Inbox!WidgetStep,
         Inbox!ListStep, Inbox!Store, Inbox!Publish, Inbox!PublishFails, Inbox!Connect,
         Inbox!Refuse, Inbox!Count, Inbox!GoLive, Inbox!Disconnect, Inbox!OnMessage,
         Inbox!OpenPopover, Inbox!ClosePopover, Inbox!TimerFires, Inbox!ReceiveList,
         Inbox!FetchFails, Inbox!MarkAsRead, Inbox!MarkFails
    <3> QED
      BY <3>1, <3>2, <3>3 DEF ListsTrue
  <2>5. BadgeTrue'
    <3> SUFFICES ASSUME badge' = 0
                 PROVE  Inbox!Unread' \subseteq HeardOf'
      BY DEF BadgeTrue
    <3>1. CASE badge = 0
      BY <2>1, <3>1, UnreadPublished DEF BadgeTrue
    <3>2. CASE badge # 0
      <4>1. ~Inbox!OnMessage
        BY InTail, BadgeTyped DEF Inbox!OnMessage, Inbox!TypeOK
      <4>2. PICK f \in fetches : Inbox!ReceiveList(f)
        BY <3>2, <4>1 DEF Inbox!Next, Inbox!WorkerStep, Inbox!StreamStep, Inbox!WidgetStep,
           Inbox!ListStep, Inbox!Store, Inbox!Publish, Inbox!PublishFails, Inbox!Connect,
           Inbox!Refuse, Inbox!Count, Inbox!GoLive, Inbox!Disconnect, Inbox!OpenPopover,
           Inbox!ClosePopover, Inbox!TimerFires, Inbox!AnswerFetch, Inbox!FetchFails,
           Inbox!MarkAsRead, Inbox!MarkFails, Inbox!widgetVars
      <4>3. f.stage = "answered" /\ f.rows \subseteq HeardOf'
        BY <4>2 DEF Inbox!ReceiveList, HeardOf
      <4> QED
        BY <2>2, <2>3, <4>3 DEF ListsTrue
    <3> QED
      BY <3>1, <3>2
  <2> QED
    BY <2>4, <2>5
<1> QED
  BY <1>1, <1>2

\* What was delivered stays so.
LEMMA DeliveredKept ==
  ASSUME InboxInv, Inbox!Next, NEW i \in InboxIds, Delivered(i)
  PROVE  Delivered(i)'
<1> USE DEF InboxInv
<1>1. CASE i \in seen \cup list \cup buried
  BY <1>1, ListKept DEF Inbox!Next, Delivered
<1>2. ASSUME NEW f \in fetches, i \in f.rows
      PROVE  Delivered(i)'
  <2>1. CASE f \in fetches'
    BY <1>2, <2>1 DEF Delivered
  <2>2. CASE f \notin fetches'
    <3>1. Inbox!AnswerFetch(f) \/ Inbox!ReceiveList(f) \/ Inbox!FetchFails(f)
      BY <2>2 DEF Inbox!Next, Inbox!WorkerStep, Inbox!StreamStep, Inbox!WidgetStep,
         Inbox!ListStep, Inbox!Store, Inbox!Publish, Inbox!PublishFails, Inbox!Connect,
         Inbox!Refuse, Inbox!Count, Inbox!GoLive, Inbox!Disconnect, Inbox!OnMessage,
         Inbox!OpenPopover, Inbox!ClosePopover, Inbox!TimerFires, Inbox!AnswerFetch,
         Inbox!ReceiveList, Inbox!FetchFails, Inbox!MarkAsRead, Inbox!MarkFails
    <3>2. f.stage = "answered"
      BY <1>2 DEF ListsTrue, Inbox!TypeOK, Inbox!Fetches
    <3> QED
      BY <1>2, <3>1, <3>2
      DEF Inbox!AnswerFetch, Inbox!ReceiveList, Inbox!FetchFails, Delivered
  <2> QED
    BY <2>1, <2>2
<1> QED
  BY <1>1, <1>2 DEF Delivered

\* Only what an answered list has is marked as read.
LEMMA MarksKept ==
  ASSUME InboxInv, Inbox!Next
  PROVE  MarksTrue'
<1> USE DEF InboxInv
<1>1. ASSUME NEW f \in fetches, Inbox!AnswerFetch(f), NEW i \in Inbox!Unread
      PROVE  Delivered(i)'
  <2>1. [f EXCEPT !.stage = "answered", !.rows = Inbox!Stored].rows = Inbox!Stored
    BY DEF Inbox!TypeOK, Inbox!Fetches
  <2>2. i \in Inbox!Stored
    BY <1>1 DEF Inbox!Unread, Inbox!Stored
  <2> QED
    BY <1>1, <2>1, <2>2 DEF Inbox!AnswerFetch, Delivered
<1>2. ASSUME NEW rows \in marking', NEW i \in rows
      PROVE  Delivered(i)'
  <2>1. CASE rows \in marking
    BY <1>2, <2>1, DeliveredKept DEF MarksTrue, Inbox!TypeOK
  <2>2. CASE rows \notin marking
    <3>1. \E f \in fetches : Inbox!AnswerFetch(f) /\ rows = Inbox!Unread
      BY <1>2, <2>2 DEF Inbox!Next, Inbox!WorkerStep, Inbox!StreamStep, Inbox!WidgetStep,
         Inbox!ListStep, Inbox!Store, Inbox!Publish, Inbox!PublishFails, Inbox!Connect,
         Inbox!Refuse, Inbox!Count, Inbox!GoLive, Inbox!Disconnect, Inbox!OnMessage,
         Inbox!OpenPopover, Inbox!ClosePopover, Inbox!TimerFires, Inbox!AnswerFetch,
         Inbox!ReceiveList, Inbox!FetchFails, Inbox!MarkAsRead, Inbox!MarkFails
    <3> QED
      BY <1>1, <1>2, <3>1
  <2> QED
    BY <2>1, <2>2
<1>3. ASSUME NEW i \in InboxIds, row'[i] = "read"
      PROVE  Delivered(i)'
  <2>1. row[i] = "read" \/ \E rows \in marking : i \in rows
    <3>1. ASSUME NEW j \in InboxIds, Inbox!Store(j) PROVE row[i] = "read"
      BY <1>3, <3>1 DEF Inbox!Store, Inbox!TypeOK
    <3>2. ASSUME NEW rows \in marking, Inbox!MarkAsRead(rows)
          PROVE  row[i] = "read" \/ i \in rows
      BY <1>3, <3>2 DEF Inbox!MarkAsRead, Inbox!Marked
    <3>3. \/ UNCHANGED row
          \/ \E j \in InboxIds : Inbox!Store(j)
          \/ \E rows \in marking : Inbox!MarkAsRead(rows)
      BY DEF Inbox!Next, Inbox!WorkerStep, Inbox!StreamStep, Inbox!WidgetStep,
         Inbox!ListStep, Inbox!Publish, Inbox!PublishFails, Inbox!Connect, Inbox!Refuse,
         Inbox!Count, Inbox!GoLive, Inbox!Disconnect, Inbox!OnMessage, Inbox!OpenPopover,
         Inbox!ClosePopover, Inbox!TimerFires, Inbox!AnswerFetch, Inbox!ReceiveList,
         Inbox!FetchFails, Inbox!MarkFails, Inbox!apiVars
    <3> QED
      BY <1>3, <3>1, <3>2, <3>3
  <2> QED
    BY <2>1, DeliveredKept DEF MarksTrue
<1> QED
  BY <1>2, <1>3 DEF MarksTrue

\* Every step keeps the invariant of the badge, the list and the marks.
LEMMA NextInboxInv == InboxInv /\ [Inbox!Next]_(Inbox!vars) => InboxInv'
<1> SUFFICES ASSUME InboxInv, [Inbox!Next]_(Inbox!vars)
             PROVE  InboxInv'
  OBVIOUS
<1>1. CASE Inbox!Next
  <2>1. Inbox!TypeOK'
    BY <1>1, WorkerTypes, WidgetTypes DEF InboxInv, Inbox!Next
  <2> QED
    BY <1>1, <2>1, ListsKept, MarksKept DEF InboxInv
<1>2. CASE UNCHANGED Inbox!vars
  BY <1>2 DEF Inbox!vars, Inbox!apiVars, Inbox!widgetVars, Inbox!historyVars, InboxInv,
     Inbox!TypeOK, ListsTrue, BadgeTrue, MarksTrue, Delivered, HeardOf, InMessages,
     Inbox!Unread
<1> QED
  BY <1>1, <1>2

\* A badge of 0 hides no unread row, but for the windows the property names, however
\* counts, messages, lists and timers are interleaved (NotificationWidget, getUnreadCount).
THEOREM NoneForgotten == Inbox!Spec => []NoRowForgotten
<1>1. InboxInv => NoRowForgotten
  BY DEF InboxInv, BadgeTrue, HeardOf, InMessages, NoRowForgotten, Inbox!NoRowForgotten
<1> QED
  BY <1>1, InitInboxInv, NextInboxInv, PTL DEF Inbox!Spec

\* What the API marked as read was shown, or is on its way to the list, or lost with it
\* (getNotifications).
THEOREM ReadDelivered == Inbox!Spec => []ReadWasDelivered
<1>1. InboxInv => ReadWasDelivered
  BY DEF InboxInv, MarksTrue, Delivered, ReadWasDelivered, Inbox!ReadWasDelivered
<1> QED
  BY <1>1, InitInboxInv, NextInboxInv, PTL DEF Inbox!Spec

-----------------------------------------------------------------------------
(* The types of the cached debate and of its reader's page.                *)

\* What is cached, changed and to be deleted is of the debate's arguments.
THEOREM CacheTyped == Cache!Spec => []Cache!TypeOK
<1>1. Cache!Init => Cache!TypeOK
  <2> SUFFICES ASSUME Cache!Init PROVE Cache!TypeOK
    OBVIOUS
  <2>1. Types
    BY InitCInv DEF CInv
  <2>2. changes \in 0 .. MaxChanges
    BY PagesBounds DEF Cache!Init
  <2>3. undeleted \subseteq CachedArgs /\ cache \in {Null} \cup SUBSET CachedArgs
    BY DEF Cache!Init
  <2> QED
    BY <2>1, <2>2, <2>3 DEF Cache!TypeOK, Types
<1>2. CInv /\ CInv' /\ Cache!TypeOK /\ [Cache!Next]_(Cache!vars) => Cache!TypeOK'
  <2> SUFFICES ASSUME CInv, Types', Cache!TypeOK, [Cache!Next]_(Cache!vars)
               PROVE  undeleted' \subseteq CachedArgs /\ changes' \in 0 .. MaxChanges
                      /\ cache' \in {Null} \cup SUBSET CachedArgs
    BY DEF CInv, Types, Cache!TypeOK
  <2>1. undeleted \subseteq CachedArgs /\ cache \in {Null} \cup SUBSET CachedArgs
        /\ changes \in Nat /\ changes =< MaxChanges /\ MaxChanges \in Nat
        /\ commands \in Seq(Cache!Command)
    <3>1. MaxChanges \in Nat
      BY PagesBounds
    <3>2. changes \in 0 .. MaxChanges
      BY DEF Cache!TypeOK
    <3> QED
      BY <3>1, <3>2 DEF Cache!TypeOK
  <2>2. ASSUME NEW a \in CachedArgs,
               Cache!Approve(a) \/ Cache!AnswerApproval(a) \/ Cache!TakeOff(a)
        PROVE  undeleted' \subseteq CachedArgs /\ changes' \in 0 .. MaxChanges
               /\ UNCHANGED cache
    <3>1. \/ UNCHANGED changes
          \/ changes < MaxChanges /\ changes' = changes + 1
      BY <2>2 DEF Cache!Approve, Cache!AnswerApproval, Cache!TakeOff
    <3>2. changes' \in 0 .. MaxChanges
      BY <2>1, <3>1
    <3> QED
      BY <2>1, <2>2, <3>2 DEF Cache!Approve, Cache!AnswerApproval, Cache!TakeOff
  <2>3. ASSUME NEW r \in Requests,
               \/ Cache!Ask(r) \/ Cache!CacheHit(r) \/ Cache!CacheMiss(r)
               \/ Cache!ReadDebate(r) \/ Cache!AnswerDebate(r)
        PROVE  UNCHANGED <<undeleted, changes, cache>>
    BY <2>3 DEF Cache!Ask, Cache!CacheHit, Cache!CacheMiss, Cache!ReadDebate,
                Cache!AnswerDebate
  <2>4. CASE Cache!CarryOut
    <3>1. Head(commands) \in Cache!Command
      BY <2>1, <2>4, HeadTailProperties DEF Cache!CarryOut
    <3>2. Head(commands).op # "del" => Head(commands).rows \subseteq CachedArgs
      BY <3>1 DEF Cache!Command
    <3> QED
      BY <2>1, <2>4, <3>2 DEF Cache!CarryOut
  <2>5. CASE Cache!CommandFails \/ Cache!Expire \/ UNCHANGED Cache!vars
    BY <2>1, <2>5 DEF Cache!CommandFails, Cache!Expire, Cache!vars
  <2> QED
    BY <2>1, <2>2, <2>3, <2>4, <2>5 DEF Cache!Next
<1> QED
  BY <1>1, <1>2, InitCInv, NextCInv, PTL DEF Cache!Spec

\* Answers to this visit are of arguments of the page.
ReadsOfPage ==
    \A r \in reads : r.visit = readings => r.arg \in args /\ r.contents \subseteq args

ReadingTyped == Reading!TypeOK /\ ReadsOfPage

\* Nothing is expanded, nothing is read.
LEMMA InitReadingTyped == Reading!Init => ReadingTyped
<1> SUFFICES ASSUME Reading!Init PROVE ReadingTyped
  OBVIOUS
<1>1. asked \in 0 .. MaxReads /\ readings \in 1 .. MaxReadings
  <2>1. MaxReads \in Nat /\ MaxReadings \in Nat \ {0}
    BY PagesBounds
  <2> QED
    BY <2>1 DEF Reading!Init
<1>2. Reading!IsChain(thread)
  BY DEF Reading!Init, Reading!IsChain
<1>3. Reading!TypeOK
  BY <1>1, <1>2 DEF Reading!Init, Reading!TypeOK
<1> QED
  BY <1>3 DEF Reading!Init, ReadingTyped, ReadsOfPage

\* The thread that is followed stays one.
LEMMA ThreadKept ==
  ASSUME Reading!TypeOK, NEW a \in ReadArgs, Reading!Inspect(a)
  PROVE  thread' \in Seq(args) /\ Reading!IsChain(thread')
<1>1. thread \in Seq(args) /\ DOMAIN thread = 1 .. Len(thread) /\ Len(thread) \in Nat
      /\ \A i \in 1 .. Len(thread) - 1 : Counters[thread[i + 1]] = thread[i]
  BY DEF Reading!TypeOK, Reading!IsChain
<1>2. CASE a \in Reading!ToSet(thread)
  <2>1. PICK i \in DOMAIN thread : thread' = SubSeq(thread, 1, i)
    BY <1>2 DEF Reading!Inspect, Reading!ThreadTo, Reading!ToSet
  <2>2. thread' \in Seq(args) /\ Len(thread') = i
        /\ \A j \in 1 .. i : thread'[j] = thread[j]
    BY <1>1, <2>1
  <2> QED
    BY <1>1, <2>2 DEF Reading!IsChain
<1>3. CASE a \notin Reading!ToSet(thread)
  <2>1. thread' = Append(thread, a) /\ a \in Reading!Shown
        /\ (thread # <<>> => a # thread[Len(thread)])
    BY <1>3 DEF Reading!Inspect, Reading!ThreadTo, Reading!Last
  <2>2. a \in args /\ (thread # <<>> => Counters[a] = thread[Len(thread)])
    <3>1. CASE thread = <<>>
      BY <2>1, <3>1 DEF Reading!Shown
    <3>2. CASE thread # <<>>
      BY <2>1, <3>2 DEF Reading!Shown, Reading!Last, Reading!CounterargumentsOf
    <3> QED
      BY <3>1, <3>2
  <2>3. thread' \in Seq(args) /\ Len(thread') = Len(thread) + 1
        /\ thread'[Len(thread) + 1] = a
        /\ \A j \in 1 .. Len(thread) : thread'[j] = thread[j]
    BY <1>1, <2>1, <2>2
  <2>4. ASSUME NEW j \in 1 .. Len(thread)
        PROVE  Counters[thread'[j + 1]] = thread'[j]
    <3>1. CASE j = Len(thread)
      <4>1. thread # <<>>
        BY <1>1, <2>3, <2>4, <3>1
      <4> QED
        BY <1>1, <2>2, <2>3, <2>4, <3>1, <4>1
    <3>2. CASE j # Len(thread)
      <4>1. j \in 1 .. Len(thread) - 1 /\ j + 1 \in 1 .. Len(thread)
        BY <1>1, <3>2
      <4> QED
        BY <1>1, <2>3, <4>1
    <3> QED
      BY <3>1, <3>2
  <2>5. Len(thread') - 1 = Len(thread)
    BY <1>1, <2>3
  <2> QED
    BY <2>3, <2>4, <2>5 DEF Reading!IsChain
<1> QED
  BY <1>2, <1>3

\* Every step of the page of a debate keeps the types.
LEMMA NextReadingTyped ==
  PInv /\ ReadingTyped /\ [Reading!Next]_(Reading!vars) => ReadingTyped'
<1> SUFFICES ASSUME PInv, ReadingTyped, [Reading!Next]_(Reading!vars)
             PROVE  ReadingTyped'
  OBVIOUS
<1>0. /\ asked \in Nat /\ asked =< MaxReads /\ MaxReads \in Nat
      /\ readings \in Nat /\ 1 =< readings /\ readings =< MaxReadings /\ MaxReadings \in Nat
  <2>1. MaxReads \in Nat /\ MaxReadings \in Nat
    BY PagesBounds
  <2>2. asked \in 0 .. MaxReads /\ readings \in 1 .. MaxReadings
    BY DEF ReadingTyped, Reading!TypeOK
  <2> QED
    BY <2>1, <2>2
<1> USE DEF ReadingTyped, Reading!TypeOK, ReadsOfPage
<1>1. ASSUME NEW a \in ReadArgs, Reading!OnReadArgument(a)
      PROVE  ReadingTyped'
  <2>1. PICK new : new = [id |-> asked', arg |-> a, visit |-> readings, contents |-> contents]
    OBVIOUS
  <2>2. reads' = reads \cup {new} /\ asked' = asked + 1 /\ asked < MaxReads /\ a \in args
        /\ UNCHANGED <<args, contents, expanded, readings, excused, thread>>
    BY <1>1, <2>1 DEF Reading!OnReadArgument, Reading!ContentsOfRender
  <2>3. asked' \in 1 .. MaxReads
    BY <1>0, <2>2
  <2>4. new \in Reading!Read
    BY <2>1, <2>3 DEF Reading!Read
  <2>5. new.arg \in args /\ new.contents \subseteq args
    BY <2>1, <2>2
  <2> QED
    BY <2>2, <2>3, <2>4, <2>5
<1>2. ASSUME NEW r \in reads, Reading!ArgumentCame(r)
      PROVE  ReadingTyped'
  <2>1. contents' \subseteq args /\ expanded' \subseteq ReadArgs
    BY <1>2 DEF Reading!ArgumentCame, Reading!ContentsAfter, Reading!Read
  <2>2. excused' \subseteq ReadArgs
    BY <1>2 DEF Reading!ArgumentCame, Reading!Read
  <2> QED
    BY <1>2, <2>1, <2>2 DEF Reading!ArgumentCame
<1>3. ASSUME NEW r \in reads, Reading!ReadFails(r)
      PROVE  ReadingTyped'
  BY <1>3 DEF Reading!ReadFails
<1>4. ASSUME NEW a \in ReadArgs, Reading!OnCollapseArgument(a)
      PROVE  ReadingTyped'
  BY <1>4 DEF Reading!OnCollapseArgument
<1>5. ASSUME NEW a \in ReadArgs, Reading!Inspect(a)
      PROVE  ReadingTyped'
  BY <1>5, ThreadKept DEF Reading!Inspect
<1>6. CASE Reading!StopInspecting
  BY <1>6 DEF Reading!StopInspecting, Reading!IsChain
<1>7. CASE Reading!Revisit
  <2>1. readings' = readings + 1 /\ readings' \in 1 .. MaxReadings
    BY <1>0, <1>7 DEF Reading!Revisit
  <2>2. \A r \in reads' : r.visit # readings'
    BY <1>0, <1>7, <2>1 DEF Reading!Revisit, PInv, ReadsCarryOn
  <2> QED
    BY <1>7, <2>1, <2>2 DEF Reading!Revisit, Reading!Read, Reading!IsChain
<1>8. CASE UNCHANGED Reading!vars
  BY <1>8 DEF Reading!vars
<1> QED
  BY <1>1, <1>2, <1>3, <1>4, <1>5, <1>6, <1>7, <1>8 DEF Reading!Next

\* What a reader's page shows, expands and follows is of its debate, and each argument
\* followed counters the one before it.
THEOREM ReadingIsTyped == Reading!Spec => []Reading!TypeOK
<1>1. ReadingTyped => Reading!TypeOK
  BY DEF ReadingTyped
<1> QED
  BY <1>1, InitPInv, NextPInv, InitReadingTyped, NextReadingTyped, PTL DEF Reading!Spec

-----------------------------------------------------------------------------
(* The item under review.                                                  *)

InQueue(s) == {s[i] : i \in DOMAIN s}

ItemPages == {Author, Me}

\* The types, one group of variables after the other.
TablesTyped ==
    /\ itemRow \in Item!Text
    /\ itemTicket \in [assignedTo : {Me, Null}, accepted : BOOLEAN]

SocketsTyped ==
    /\ socket \in [ItemPages -> {"none", "connecting", "open", "down"}]
    /\ room \subseteq {p \in ItemPages : socket[p] = "open"}

FetchedItem == [stage : {"none", "asked", "answered"}, text : Item!Text, editable : BOOLEAN]
ShownItem == [shown : BOOLEAN, text : Item!Text, editable : BOOLEAN]

ScreensTyped ==
    /\ fetch \in [ItemPages -> FetchedItem] /\ item \in [ItemPages -> ShownItem]
    /\ editing \in BOOLEAN /\ onTime \in BOOLEAN
    /\ field \in Item!Typed /\ editor \in Item!Typed /\ touched \subseteq Item!Fields

QueuesTyped ==
    /\ toServer \in Seq(Item!Update) /\ Item!OrphansFirst(toServer)
    /\ running \subseteq Item!Update /\ stored \in Seq(Item!Update)
    /\ toPage \in [ItemPages -> Seq(Item!Event)]

CountsTyped ==
    /\ typed \in 0 .. MaxTyped /\ saves \in 0 .. MaxSaves
    /\ itemOpens \in 0 .. MaxItemOpens /\ drops \in 0 .. MaxDrops /\ moves \in 0 .. MaxMoves
    /\ calm \in [ItemPages -> BOOLEAN]

\* Updates whose statement is still to come, and all that are on their way.
Pending == InQueue(toServer) \cup running
Underway == Pending \cup InQueue(stored)

\* A page without a socket has nothing; one that shows the item has no request for it,
\* and only that edits, saves and hears of its own saves.
PagesTrue ==
    /\ \A p \in ItemPages :
          /\ item[p].shown => fetch[p].stage = "none"
          /\ socket[p] = "none" => fetch[p].stage = "none" /\ ~item[p].shown
    /\ editing => item[Author].shown
    /\ ~item[Author].shown => toPage[Author] = <<>> /\ \A u \in Underway : ~u.mine
    /\ \A u \in Pending : u.n =< saves
    /\ \A k \in DOMAIN toPage[Me] : toPage[Me][k].event # "error"

Has(p) == item[p].shown \/ fetch[p].stage = "answered"

\* The text a page will show when it has heard of what is stored.
Latest(p) ==
    IF stored # <<>> THEN stored[Len(stored)].text
    ELSE IF toPage[p] # <<>> THEN toPage[p][Len(toPage[p])].text
    ELSE IF item[p].shown THEN item[p].text ELSE fetch[p].text

\* A moderator's page nothing has passed by is in the room and will show the row.
ModeratorTrue == calm[Me] /\ Has(Me) => Me \in room /\ Latest(Me) = itemRow

WillFail == \E k \in DOMAIN toPage[Author] : toPage[Author][k].event = "error"

\* The author's page, as long as it is not about to be left, will show the row, and its
\* editor what the latest save has or will have stored.
AuthorTrue ==
    calm[Author] /\ Has(Author) /\ ~WillFail =>
        /\ \A u \in Underway : u.mine
        /\ Latest(Author) = itemRow
        /\ ~item[Author].shown => Pending = {} /\ stored = <<>>
        /\ item[Author].shown /\ ~editing =>
              /\ \A u \in Pending : u.n = saves => editor = u.text["content"]
              /\ (\A u \in Pending : u.n # saves) => editor = itemRow["content"]

\* Fields not touched hold what is stored, on the page and in the latest save.
SavesTrue ==
    /\ editing /\ onTime /\ calm[Author] =>
          /\ Pending = {}
          /\ "title" \notin touched => field = itemRow["title"]
          /\ "content" \notin touched => editor = itemRow["content"]
    /\ \A u \in Pending : u.onTime /\ u.n = saves =>
          /\ \A v \in Pending : v.text = u.text
          /\ \A f \in Item!Fields \ u.touched : u.text[f] = itemRow[f]

ItemTyped == TablesTyped /\ SocketsTyped /\ ScreensTyped /\ QueuesTyped /\ CountsTyped
ItemTrue == PagesTrue /\ ModeratorTrue /\ AuthorTrue /\ SavesTrue
ItemInv == ItemTyped /\ ItemTrue

\* A queue with something added, without its first, and without one of it.
LEMMA QueueAppend ==
  ASSUME NEW S, NEW s \in Seq(S), NEW x \in S
  PROVE  /\ Append(s, x) \in Seq(S) /\ Append(s, x) # <<>>
         /\ Len(Append(s, x)) = Len(s) + 1 /\ Append(s, x)[Len(Append(s, x))] = x
         /\ \A i \in DOMAIN s : Append(s, x)[i] = s[i]
         /\ DOMAIN Append(s, x) = DOMAIN s \cup {Len(s) + 1}
         /\ InQueue(Append(s, x)) = InQueue(s) \cup {x}
<1>1. /\ Append(s, x) \in Seq(S) /\ DOMAIN Append(s, x) = 1 .. Len(s) + 1
      /\ \A i \in 1 .. Len(s) : Append(s, x)[i] = s[i]
      /\ Append(s, x)[Len(s) + 1] = x /\ DOMAIN s = 1 .. Len(s) /\ Len(s) \in Nat
      /\ Len(Append(s, x)) = Len(s) + 1
  <2>1. /\ Append(s, x) \in Seq(S) /\ Len(Append(s, x)) = Len(s) + 1
        /\ \A i \in 1 .. Len(s) : Append(s, x)[i] = s[i]
        /\ Append(s, x)[Len(s) + 1] = x
    BY AppendProperties
  <2>2. DOMAIN s = 1 .. Len(s) /\ Len(s) \in Nat
    BY LenProperties
  <2>3. DOMAIN Append(s, x) = 1 .. Len(s) + 1
    BY <2>1, LenProperties
  <2> QED
    BY <2>1, <2>2, <2>3
<1>2. 1 .. Len(s) + 1 = (1 .. Len(s)) \cup {Len(s) + 1}
  BY <1>1
<1>3. Append(s, x) # <<>>
  BY AppendProperties
<1> QED
  BY <1>1, <1>2, <1>3 DEF InQueue

\* A queue without its first element.
LEMMA QueueTail ==
  ASSUME NEW S, NEW s \in Seq(S), s # <<>>
  PROVE  /\ Tail(s) \in Seq(S) /\ Head(s) \in S /\ Head(s) = s[1]
         /\ Head(s) \in InQueue(s) /\ InQueue(Tail(s)) \subseteq InQueue(s)
         /\ InQueue(s) \subseteq InQueue(Tail(s)) \cup {Head(s)}
         /\ Tail(s) # <<>> => Tail(s)[Len(Tail(s))] = s[Len(s)]
         /\ Tail(s) = <<>> => Head(s) = s[Len(s)]
         /\ \A i \in DOMAIN Tail(s) : i + 1 \in DOMAIN s /\ Tail(s)[i] = s[i + 1]
<1>1. /\ Tail(s) \in Seq(S) /\ Head(s) \in S /\ Head(s) = s[1]
      /\ DOMAIN s = 1 .. Len(s) /\ Len(s) \in Nat /\ Len(s) > 0
      /\ DOMAIN Tail(s) = 1 .. Len(s) - 1 /\ Len(Tail(s)) = Len(s) - 1
      /\ \A i \in 1 .. Len(s) - 1 : Tail(s)[i] = s[i + 1]
  OBVIOUS
<1>2. \A i \in DOMAIN Tail(s) : i + 1 \in DOMAIN s /\ Tail(s)[i] = s[i + 1]
  BY <1>1
<1>3. ASSUME NEW i \in DOMAIN s, i # 1
      PROVE  i - 1 \in DOMAIN Tail(s) /\ Tail(s)[i - 1] = s[i]
  <2>1. i \in Nat /\ i - 1 \in 1 .. Len(s) - 1 /\ (i - 1) + 1 = i
    BY <1>1, <1>3
  <2>2. Tail(s)[i - 1] = s[(i - 1) + 1]
    BY <1>1, <2>1
  <2> QED
    BY <1>1, <2>1, <2>2
<1>4. 1 \in DOMAIN s
  BY <1>1
<1>5. Tail(s) # <<>> => Tail(s)[Len(Tail(s))] = s[Len(s)]
  <2> SUFFICES ASSUME Tail(s) # <<>> PROVE Tail(s)[Len(Tail(s))] = s[Len(s)]
    OBVIOUS
  <2>1. Len(s) - 1 \in 1 .. Len(s) - 1
    BY <1>1
  <2> QED
    BY <1>1, <2>1
<1>6. Tail(s) = <<>> => Head(s) = s[Len(s)]
  <2> SUFFICES ASSUME Tail(s) = <<>> PROVE Head(s) = s[Len(s)]
    OBVIOUS
  <2>1. Len(Tail(s)) = 0
    BY EmptySeq
  <2>2. Len(s) = 1
    BY <1>1, <2>1
  <2> QED
    BY <1>1, <2>2
<1>7. InQueue(s) \subseteq InQueue(Tail(s)) \cup {Head(s)}
  <2> SUFFICES ASSUME NEW i \in DOMAIN s
               PROVE  s[i] \in InQueue(Tail(s)) \cup {Head(s)}
    BY DEF InQueue
  <2> QED
    BY <1>1, <1>3 DEF InQueue
<1>8. Head(s) \in InQueue(s)
  BY <1>1, <1>4 DEF InQueue
<1>9. InQueue(Tail(s)) \subseteq InQueue(s)
  BY <1>2 DEF InQueue
<1> QED
  BY <1>1, <1>2, <1>5, <1>6, <1>7, <1>8, <1>9

\* A queue without one of its elements.
LEMMA QueueRemove ==
  ASSUME NEW S, NEW s \in Seq(S), NEW i \in DOMAIN s
  PROVE  /\ Item!RemoveAt(s, i) \in Seq(S)
         /\ InQueue(Item!RemoveAt(s, i)) \subseteq InQueue(s)
         /\ i = 1 => s # <<>> /\ Item!RemoveAt(s, i) = Tail(s)
<1>1. /\ DOMAIN s = 1 .. Len(s) /\ Len(s) \in Nat /\ i \in 1 .. Len(s)
  OBVIOUS
<1> DEFINE a == SubSeq(s, 1, i - 1)
           b == SubSeq(s, i + 1, Len(s))
<1>2. /\ a \in Seq(S) /\ Len(a) = i - 1 /\ \A j \in 1 .. i - 1 : a[j] = s[j]
  BY <1>1
<1>3. /\ b \in Seq(S) /\ Len(b) = Len(s) - i
      /\ \A j \in 1 .. Len(s) - i : b[j] = s[i + j]
  BY <1>1
<1>4. Item!RemoveAt(s, i) = a \o b
  BY DEF Item!RemoveAt
<1> HIDE DEF a, b
<1>5. PICK t : t = a \o b
  OBVIOUS
<1>a. t \in Seq(S) /\ Len(t) = Len(a) + Len(b)
      /\ \A j \in 1 .. Len(a) + Len(b) : t[j] = IF j =< Len(a) THEN a[j] ELSE b[j - Len(a)]
  BY <1>2, <1>3, <1>5, ConcatProperties
<1>b. Len(t) = Len(s) - 1 /\ Len(s) - 1 \in Nat
  BY <1>1, <1>2, <1>3, <1>a
<1>6. ASSUME NEW j \in 1 .. Len(s) - 1
      PROVE  t[j] = IF j < i THEN s[j] ELSE s[j + 1]
  <2>1. t[j] = IF j =< i - 1 THEN a[j] ELSE b[j - (i - 1)]
    <3>1. j \in 1 .. Len(a) + Len(b)
      BY <1>1, <1>2, <1>3, <1>6
    <3> QED
      BY <1>2, <1>a, <3>1
  <2>2. CASE j < i
    <3>1. j \in 1 .. i - 1
      BY <1>1, <1>6, <2>2
    <3> QED
      BY <1>2, <2>1, <2>2, <3>1
  <2>3. CASE ~(j < i)
    <3>1. j - (i - 1) \in 1 .. Len(s) - i /\ i + (j - (i - 1)) = j + 1 /\ ~(j =< i - 1)
      BY <1>1, <1>6, <2>3
    <3>2. b[j - (i - 1)] = s[i + (j - (i - 1))]
      BY <1>3, <3>1
    <3> QED
      BY <2>1, <2>3, <3>1, <3>2
  <2> QED
    BY <2>2, <2>3
<1>7. DOMAIN t = 1 .. Len(s) - 1
  BY <1>a, <1>b
<1>8. InQueue(t) \subseteq InQueue(s)
  <2> SUFFICES ASSUME NEW j \in 1 .. Len(s) - 1
               PROVE  t[j] \in InQueue(s)
    BY <1>7 DEF InQueue
  <2>1. j \in DOMAIN s /\ j + 1 \in DOMAIN s
    BY <1>1
  <2> QED
    BY <1>6, <2>1 DEF InQueue
<1>9. ASSUME i = 1
      PROVE  s # <<>> /\ t = Tail(s)
  <2>1. s # <<>> /\ Tail(s) \in Seq(S) /\ Len(Tail(s)) = Len(s) - 1
        /\ \A j \in 1 .. Len(s) - 1 : Tail(s)[j] = s[j + 1]
    BY <1>1
  <2>2. \A j \in 1 .. Len(s) - 1 : t[j] = s[j + 1]
    <3>1. ASSUME NEW j \in 1 .. Len(s) - 1 PROVE ~(j < i)
      BY <1>1, <1>9, <3>1
    <3> QED
      BY <1>6, <3>1
  <2> QED
    BY <1>a, <1>b, <2>1, <2>2, SeqEqual
<1> QED
  BY <1>4, <1>5, <1>a, <1>8, <1>9

-----------------------------------------------------------------------------
\* Orphaned updates stay what they are, and are those of no page.
LEMMA OrphanedOne ==
  ASSUME NEW u \in Item!Update
  PROVE  /\ Item!Orphaned(u) \in Item!Update
         /\ ~Item!Orphaned(u).mine /\ Item!Orphaned(u).n = u.n
         /\ Item!Orphaned(u).text = u.text /\ Item!Orphaned(u).touched = u.touched
         /\ Item!Orphaned(u).onTime = u.onTime
  BY DEF Item!Orphaned, Item!Update

\* A queue of orphaned updates is as long and in the same order.
LEMMA OrphanedMany ==
  ASSUME NEW s \in Seq(Item!Update)
  PROVE  /\ Item!OrphanedAll(s) \in Seq(Item!Update)
         /\ Len(Item!OrphanedAll(s)) = Len(s) /\ DOMAIN Item!OrphanedAll(s) = DOMAIN s
         /\ Item!OrphanedAll(s) = <<>> <=> s = <<>>
         /\ \A i \in DOMAIN s : Item!OrphanedAll(s)[i] = Item!Orphaned(s[i])
         /\ InQueue(Item!OrphanedAll(s)) = {Item!Orphaned(u) : u \in InQueue(s)}
         /\ Item!OrphansFirst(Item!OrphanedAll(s))
<1>1. DOMAIN s = 1 .. Len(s) /\ Len(s) \in Nat
      /\ \A i \in DOMAIN s : s[i] \in Item!Update
  OBVIOUS
<1>2. Item!OrphanedAll(s) = [i \in 1 .. Len(s) |-> Item!Orphaned(s[i])]
  BY <1>1 DEF Item!OrphanedAll
<1>3. \A i \in 1 .. Len(s) : Item!Orphaned(s[i]) \in Item!Update /\ ~Item!Orphaned(s[i]).mine
  BY <1>1, OrphanedOne
<1>4. Item!OrphanedAll(s) \in Seq(Item!Update)
  BY <1>1, <1>2, <1>3, IsASeq
<1>5. Len(Item!OrphanedAll(s)) = Len(s)
  BY <1>1, <1>2, <1>4
<1>6. InQueue(Item!OrphanedAll(s)) = {Item!Orphaned(u) : u \in InQueue(s)}
  BY <1>1, <1>2 DEF InQueue
<1>7. Item!OrphansFirst(Item!OrphanedAll(s))
  BY <1>2, <1>3 DEF Item!OrphansFirst
<1>8. Item!OrphanedAll(s) = <<>> <=> s = <<>>
  BY <1>1, <1>4, <1>5
<1> QED
  BY <1>1, <1>2, <1>4, <1>5, <1>6, <1>7, <1>8

\* What earlier sockets sent is a prefix of the queue.
LEMMA OthersOf ==
  ASSUME NEW s \in Seq(Item!Update), Item!OrphansFirst(s)
  PROVE  /\ Item!Others(s) \in Seq(Item!Update)
         /\ InQueue(Item!Others(s)) \subseteq InQueue(s)
         /\ Item!OrphansFirst(Item!Others(s))
<1> DEFINE orphans == {i \in DOMAIN s : ~s[i].mine}
<1>1. DOMAIN s = 1 .. Len(s) /\ Len(s) \in Nat
  OBVIOUS
<1>2. Item!Cardinality(orphans) \in 0 .. Len(s)
  <2>1. Item!Cardinality(orphans) = Cardinality(orphans)
    BY DEF Item!Cardinality, Cardinality
  <2>2. IsFiniteSet(1 .. Len(s)) /\ Cardinality(1 .. Len(s)) = Len(s)
    BY <1>1, FS_Interval
  <2>3. Cardinality(orphans) \in Nat /\ Cardinality(orphans) =< Len(s)
    BY <1>1, <2>2, FS_Subset, FS_CardinalityType
  <2> QED
    BY <1>1, <2>1, <2>3
<1>3. PICK n \in 0 .. Len(s) : Item!Others(s) = SubSeq(s, 1, n)
  BY <1>2 DEF Item!Others
<1>4. SubSeq(s, 1, n) \in Seq(Item!Update) /\ DOMAIN SubSeq(s, 1, n) = 1 .. n
      /\ \A i \in 1 .. n : i \in DOMAIN s /\ SubSeq(s, 1, n)[i] = s[i]
  BY <1>1
<1> QED
  BY <1>3, <1>4 DEF InQueue, Item!OrphansFirst

-----------------------------------------------------------------------------

\* The groups of types are the module's type invariant.
LEMMA ItemTypes == ItemTyped <=> Item!TypeOK
<1>1. Item!Pages = ItemPages
  BY DEF Item!Pages, ItemPages
<1>2. {Me} \cup {Null} = {Me, Null}
  OBVIOUS
<1> QED
  BY <1>1, <1>2 DEF ItemTyped, Item!TypeOK, TablesTyped, SocketsTyped, ScreensTyped,
     QueuesTyped, CountsTyped, FetchedItem, ShownItem

\* Nothing is on its way at the start.
LEMMA InitItemInv == Item!Init => ItemInv
<1> SUFFICES ASSUME Item!Init PROVE ItemInv
  OBVIOUS
<1>1. Item!Pages = ItemPages /\ Author \in ItemPages /\ Me \in ItemPages
  BY DEF Item!Pages, ItemPages
<1>2. 0 \in Item!Typed /\ Item!Nothing \in Item!Text
  BY PagesBounds DEF Item!Typed, Item!Nothing, Item!Text
<1>3. Item!NoItem \in ShownItem /\ ~Item!NoItem.shown
      /\ Item!NoFetch \in FetchedItem /\ Item!NoFetch.stage = "none"
  BY <1>2 DEF Item!NoItem, Item!NoFetch, ShownItem, FetchedItem
<1>4. toServer = <<>> /\ running = {} /\ stored = <<>> /\ toPage = [p \in ItemPages |-> <<>>]
  BY <1>1 DEF Item!Init
<1>5. TablesTyped /\ SocketsTyped /\ ScreensTyped
  <2>1. PICK m \in {Me} \cup {Null} : itemTicket = [assignedTo |-> m, accepted |-> FALSE]
    BY DEF Item!Init
  <2>2. TablesTyped
    BY <1>2, <2>1 DEF Item!Init, TablesTyped
  <2>3. SocketsTyped
    BY <1>1 DEF Item!Init, SocketsTyped
  <2>4. ScreensTyped
    BY <1>1, <1>2, <1>3 DEF Item!Init, ScreensTyped
  <2> QED
    BY <2>2, <2>3, <2>4
<1>6. QueuesTyped
  BY <1>4 DEF QueuesTyped, Item!OrphansFirst
<1>7. CountsTyped
  BY <1>1, PagesBounds DEF Item!Init, CountsTyped
<1>8. Underway = {} /\ Pending = {}
  BY <1>4 DEF Underway, Pending, InQueue
<1>9. ItemTrue
  BY <1>1, <1>3, <1>4, <1>8
  DEF Item!Init, ItemTrue, PagesTrue, ModeratorTrue, AuthorTrue, SavesTrue, Has
<1> QED
  BY <1>5, <1>6, <1>7, <1>9 DEF ItemInv, ItemTyped

\* What the invariant is about.
itemStateVars ==
    <<itemRow, socket, room, fetch, item, editing, field, editor, touched, onTime, toServer,
      running, stored, toPage, saves, calm>>

\* The invariant depends on no other variables.
LEMMA ItemTrueUnchanged == ItemTrue /\ UNCHANGED itemStateVars => ItemTrue'
  BY DEF itemStateVars, ItemTrue, PagesTrue, ModeratorTrue, AuthorTrue, SavesTrue, Has,
         Latest, WillFail, Pending, Underway, InQueue

\* The pages are two.
LEMMA TwoPages ==
  /\ Item!Pages = ItemPages /\ Author \in ItemPages /\ Me \in ItemPages /\ Author # Me
  /\ \A p \in ItemPages : p = Author \/ p = Me
  BY AuthorIsAnother DEF Item!Pages, ItemPages

\* The ticket moves.
LEMMA MoveKeeps == ASSUME ItemInv, NEW m \in {Me} \cup {Null}, Item!Move(m)
                   PROVE  ItemInv'
<1>1. ItemTrue'
  BY ItemTrueUnchanged DEF Item!Move, Item!pageVars, Item!wires, ItemInv, itemStateVars
<1>2. moves' \in 0 .. MaxMoves
  <2>1. moves \in Nat /\ moves' = moves + 1 /\ moves < MaxMoves /\ MaxMoves \in Nat
    BY PagesBounds DEF ItemInv, ItemTyped, CountsTyped, Item!Move
  <2> QED
    BY <2>1
<1>3. PICK isAccepted \in BOOLEAN :
        itemTicket' = [assignedTo |-> m, accepted |-> isAccepted /\ m # Null]
  BY DEF Item!Move
<1>4. (isAccepted /\ m # Null) \in BOOLEAN
  OBVIOUS
<1>5. TablesTyped'
  BY <1>3, <1>4 DEF Item!Move, ItemInv, ItemTyped, TablesTyped
<1>6. SocketsTyped' /\ ScreensTyped' /\ QueuesTyped' /\ CountsTyped'
  BY <1>2 DEF Item!Move, Item!pageVars, Item!wires, ItemInv, ItemTyped, SocketsTyped,
         ScreensTyped, QueuesTyped, CountsTyped
<1> QED
  BY <1>1, <1>5, <1>6 DEF ItemInv, ItemTyped

-----------------------------------------------------------------------------
\* A page is opened; its socket connects, and does so again.
LEMMA OpenKeeps == ASSUME ItemInv, NEW p \in ItemPages, Item!Open(p)
                   PROVE  ItemInv'
<1> USE TwoPages DEF ItemInv, ItemTyped
<1>1. /\ fetch' = [fetch EXCEPT ![p] = [fetch[p] EXCEPT !.stage = "asked"]]
      /\ socket' = [socket EXCEPT ![p] = "connecting"] /\ socket[p] = "none"
      /\ itemOpens' = itemOpens + 1 /\ itemOpens < MaxItemOpens
      /\ UNCHANGED <<itemRow, itemTicket, room, item, editing, field, editor, touched, onTime,
                     toServer, running, stored, toPage, typed, saves, drops, moves, calm>>
  BY DEF Item!Open, Item!tables, Item!wires
<1>2. fetch[p] \in FetchedItem /\ fetch[p].stage = "none" /\ ~item[p].shown
  BY <1>1 DEF ScreensTyped, ItemTrue, PagesTrue
<1>3. PICK next : next = [fetch[p] EXCEPT !.stage = "asked"]
  OBVIOUS
<1>4. next \in FetchedItem /\ next.stage = "asked"
  BY <1>2, <1>3 DEF FetchedItem
<1>5. fetch' = [fetch EXCEPT ![p] = next] /\ fetch'[p] = next
      /\ \A q \in ItemPages \ {p} : fetch'[q] = fetch[q]
  BY <1>1, <1>3 DEF ScreensTyped
<1>6. itemOpens' \in 0 .. MaxItemOpens
  <2>1. itemOpens \in Nat /\ MaxItemOpens \in Nat
    BY PagesBounds DEF CountsTyped
  <2> QED
    BY <1>1, <2>1
<1>7. ItemTyped'
  BY <1>1, <1>4, <1>5, <1>6 DEF TablesTyped, SocketsTyped, ScreensTyped, QueuesTyped,
     CountsTyped
<1>8. PagesTrue'
  BY <1>1, <1>2, <1>4, <1>5
  DEF ItemTrue, PagesTrue, Pending, Underway, InQueue, SocketsTyped
<1>9. \A q \in ItemPages : /\ Has(q)' <=> Has(q)
                           /\ Has(q) => Latest(q)' = Latest(q)
  BY <1>1, <1>2, <1>4, <1>5 DEF Has, Latest
<1>a. Pending' = Pending /\ Underway' = Underway /\ (WillFail' <=> WillFail)
  BY <1>1 DEF Pending, Underway, InQueue, WillFail
<1>b. ModeratorTrue'
  BY <1>1, <1>9 DEF ItemTrue, ModeratorTrue
<1>c. AuthorTrue'
  BY <1>1, <1>9, <1>a DEF ItemTrue, AuthorTrue
<1>10. ModeratorTrue' /\ AuthorTrue' /\ SavesTrue'
  BY <1>1, <1>a, <1>b, <1>c DEF ItemTrue, SavesTrue
<1> QED
  BY <1>7, <1>8, <1>10 DEF ItemTrue

\* A socket joins the room, or connects again.
LEMMA ConnectKeeps ==
  ASSUME ItemInv, NEW p \in ItemPages, Item!Join(p) \/ Item!Reconnect(p)
  PROVE  ItemInv'
<1> USE TwoPages DEF ItemInv, ItemTyped
<1>1. /\ socket[p] # "none" /\ \/ socket' = [socket EXCEPT ![p] = "open"]
                               \/ socket' = [socket EXCEPT ![p] = "connecting"]
      /\ room \subseteq room'
      /\ UNCHANGED <<itemRow, itemTicket, fetch, item, editing, field, editor, touched, onTime,
                     toServer, running, stored, toPage, typed, saves, itemOpens, drops, moves,
                     calm>>
  BY DEF Item!Join, Item!Reconnect, Item!tables, Item!wires, Item!pageVars, Item!counts
<1>2. SocketsTyped'
  BY DEF Item!Join, Item!Reconnect, SocketsTyped
<1>3. TablesTyped' /\ ScreensTyped' /\ QueuesTyped' /\ CountsTyped'
  BY <1>1 DEF TablesTyped, ScreensTyped, QueuesTyped, CountsTyped
<1>4. \A q \in ItemPages : socket'[q] = "none" => socket[q] = "none"
  BY <1>1 DEF SocketsTyped
<1>5. PagesTrue'
  BY <1>1, <1>4 DEF ItemTrue, PagesTrue, Pending, Underway, InQueue
<1>6. ModeratorTrue' /\ AuthorTrue' /\ SavesTrue'
  BY <1>1 DEF ItemTrue, ModeratorTrue, AuthorTrue, SavesTrue, WillFail, Pending,
     Underway, InQueue, Has, Latest
<1> QED
  BY <1>2, <1>3, <1>5, <1>6 DEF ItemTrue

\* What is orphaned is the same, but nobody waits for it.
Disowns ==
    /\ \/ toServer' = Item!OrphanedAll(toServer)
       \/ toServer' = Item!OrphanedAll(Item!Others(toServer))
    /\ running' = {Item!Orphaned(u) : u \in running}
    /\ stored' = Item!OrphanedAll(stored)

\* Orphaning changes no text, and nothing of what comes last.
LEMMA DisownsKeeps ==
  ASSUME QueuesTyped, Disowns
  PROVE  /\ toServer' \in Seq(Item!Update) /\ Item!OrphansFirst(toServer')
         /\ running' \subseteq Item!Update /\ stored' \in Seq(Item!Update)
         /\ \A u \in Underway' : ~u.mine
         /\ \A u \in Pending' : \E v \in Pending :
               u.n = v.n /\ u.text = v.text /\ u.touched = v.touched /\ u.onTime = v.onTime
         /\ stored' = <<>> <=> stored = <<>>
         /\ stored # <<>> => stored'[Len(stored')].text = stored[Len(stored)].text
<1>1. /\ Item!Others(toServer) \in Seq(Item!Update)
      /\ InQueue(Item!Others(toServer)) \subseteq InQueue(toServer)
  BY OthersOf DEF QueuesTyped
<1>2. /\ toServer' \in Seq(Item!Update) /\ Item!OrphansFirst(toServer')
      /\ InQueue(toServer') \subseteq {Item!Orphaned(u) : u \in InQueue(toServer)}
  BY <1>1, OrphanedMany DEF Disowns, QueuesTyped
<1>3. /\ stored' \in Seq(Item!Update)
      /\ stored' = <<>> <=> stored = <<>>
      /\ InQueue(stored') = {Item!Orphaned(u) : u \in InQueue(stored)}
      /\ Len(stored') = Len(stored)
      /\ \A i \in DOMAIN stored : stored'[i] = Item!Orphaned(stored[i])
  BY OrphanedMany DEF Disowns, QueuesTyped
<1>4. /\ \A u \in Pending : u \in Item!Update
      /\ \A u \in Underway : u \in Item!Update
  BY DEF Pending, Underway, InQueue, QueuesTyped
<1>5. running' \subseteq Item!Update
  BY OrphanedOne DEF Disowns, QueuesTyped
<1>6. Pending' \subseteq {Item!Orphaned(u) : u \in Pending}
  BY <1>2 DEF Pending, Disowns
<1>7. Underway' \subseteq {Item!Orphaned(u) : u \in Underway}
  BY <1>3, <1>6 DEF Underway
<1>8. stored # <<>> => stored'[Len(stored')].text = stored[Len(stored)].text
  <2> SUFFICES ASSUME stored # <<>>
               PROVE  stored'[Len(stored')].text = stored[Len(stored)].text
    OBVIOUS
  <2>1. Len(stored) \in DOMAIN stored /\ stored[Len(stored)] \in Item!Update
    BY DEF QueuesTyped
  <2> QED
    BY <1>3, <2>1, OrphanedOne
<1>9. \A u \in Underway' : ~u.mine
  BY <1>4, <1>7, OrphanedOne
<1>10. \A u \in Pending' : \E v \in Pending :
          u.n = v.n /\ u.text = v.text /\ u.touched = v.touched /\ u.onTime = v.onTime
  BY <1>4, <1>6, OrphanedOne
<1> QED
  BY <1>2, <1>3, <1>5, <1>8, <1>9, <1>10

\* A page is left.
LEMMA LeftKeeps ==
  ASSUME ItemInv, NEW p \in ItemPages, Item!Left(p),
         UNCHANGED <<Item!tables, Item!counts, calm>>
  PROVE  ItemInv'
<1> USE TwoPages DEF ItemInv, ItemTyped
<1>1. /\ socket' = [socket EXCEPT ![p] = "none"] /\ room' = room \ {p}
      /\ fetch' = [fetch EXCEPT ![p] = Item!NoFetch]
      /\ item' = [item EXCEPT ![p] = Item!NoItem]
      /\ toPage' = [toPage EXCEPT ![p] = <<>>]
      /\ UNCHANGED <<itemRow, itemTicket, onTime, typed, saves, itemOpens, drops, moves, calm>>
  BY DEF Item!Left, Item!tables, Item!counts
<1>2. /\ Item!NoItem \in ShownItem /\ ~Item!NoItem.shown
      /\ Item!NoFetch \in FetchedItem /\ Item!NoFetch.stage = "none"
      /\ 0 \in Item!Typed
  BY PagesBounds
  DEF Item!NoItem, Item!NoFetch, ShownItem, FetchedItem, Item!Typed, Item!Nothing, Item!Text
<1>3. SocketsTyped'
  BY <1>1 DEF SocketsTyped
<1>4. CASE p = Author
  <2>1. ~editing' /\ field' = 0 /\ editor' = 0 /\ touched' = {} /\ Disowns
    BY <1>4 DEF Item!Left, Item!Disowned, Disowns
  <2>2. QueuesTyped'
    BY <1>1, <2>1, DisownsKeeps DEF QueuesTyped
  <2>3. TablesTyped' /\ ScreensTyped' /\ CountsTyped'
    <3>1. ScreensTyped'
      BY <1>1, <1>2, <2>1 DEF ScreensTyped, Item!Left
    <3>2. TablesTyped' /\ CountsTyped'
      BY <1>1 DEF TablesTyped, CountsTyped, Item!Left
    <3> QED
      BY <3>1, <3>2
  <2>4. /\ fetch'[Author].stage = "none" /\ ~item'[Author].shown /\ toPage'[Author] = <<>>
        /\ fetch'[Me] = fetch[Me] /\ item'[Me] = item[Me] /\ toPage'[Me] = toPage[Me]
        /\ socket'[Me] = socket[Me]
    <3>1. fetch'[Author].stage = "none" /\ fetch'[Me] = fetch[Me]
      BY <1>1, <1>2, <1>4 DEF ScreensTyped
    <3>2. ~item'[Author].shown /\ item'[Me] = item[Me]
      BY <1>1, <1>2, <1>4 DEF ScreensTyped
    <3>3. toPage'[Author] = <<>> /\ toPage'[Me] = toPage[Me]
      BY <1>1, <1>4 DEF QueuesTyped
    <3>4. socket'[Me] = socket[Me]
      BY <1>1, <1>4 DEF SocketsTyped
    <3> QED
      BY <3>1, <3>2, <3>3, <3>4
  <2>5. PagesTrue'
    BY <1>1, <2>1, <2>4, DisownsKeeps DEF ItemTrue, PagesTrue
  <2>6. ModeratorTrue'
    <3>1. Latest(Me)' = Latest(Me)
      BY <2>1, <2>4, DisownsKeeps DEF Latest
    <3>2. Has(Me)' <=> Has(Me)
      BY <2>4 DEF Has
    <3> QED
      BY <1>1, <1>4, <3>1, <3>2 DEF ItemTrue, ModeratorTrue
  <2>7. AuthorTrue'
    BY <2>4 DEF AuthorTrue, Has
  <2>8. SavesTrue'
    BY <1>1, <2>1, DisownsKeeps DEF ItemTrue, SavesTrue
  <2> QED
    BY <1>3, <2>2, <2>3, <2>5, <2>6, <2>7, <2>8 DEF ItemTrue
<1>5. CASE p = Me
  <2>1. UNCHANGED <<editing, field, editor, touched, toServer, running, stored>>
    BY <1>5 DEF Item!Left, Item!Disowned
  <2>2. /\ fetch'[Me].stage = "none" /\ ~item'[Me].shown /\ toPage'[Me] = <<>>
        /\ fetch'[Author] = fetch[Author] /\ item'[Author] = item[Author]
        /\ toPage'[Author] = toPage[Author] /\ socket'[Author] = socket[Author]
    <3>1. fetch'[Me].stage = "none" /\ fetch'[Author] = fetch[Author]
      BY <1>1, <1>2, <1>5 DEF ScreensTyped
    <3>2. ~item'[Me].shown /\ item'[Author] = item[Author]
      BY <1>1, <1>2, <1>5 DEF ScreensTyped
    <3>3. toPage'[Me] = <<>> /\ toPage'[Author] = toPage[Author]
      BY <1>1, <1>5 DEF QueuesTyped
    <3>4. socket'[Author] = socket[Author]
      BY <1>1, <1>5 DEF SocketsTyped
    <3> QED
      BY <3>1, <3>2, <3>3, <3>4
  <2>3. TablesTyped' /\ ScreensTyped' /\ CountsTyped' /\ QueuesTyped'
    <3>1. ScreensTyped'
      BY <1>1, <1>2, <2>1 DEF ScreensTyped
    <3>2. TablesTyped' /\ CountsTyped'
      BY <1>1, <2>1 DEF TablesTyped, CountsTyped
    <3>3. QueuesTyped'
      BY <1>1, <2>1 DEF QueuesTyped
    <3> QED
      BY <3>1, <3>2, <3>3
  <2>4. PagesTrue'
    BY <1>1, <2>1, <2>2 DEF ItemTrue, PagesTrue, Pending, Underway, InQueue
  <2>5. ModeratorTrue'
    BY <2>2 DEF ModeratorTrue, Has
  <2>6. AuthorTrue' /\ SavesTrue'
    BY <1>1, <2>1, <2>2 DEF ItemTrue, AuthorTrue, SavesTrue, Has, Latest, WillFail, Pending,
       Underway, InQueue
  <2> QED
    BY <1>3, <2>3, <2>4, <2>5, <2>6 DEF ItemTrue
<1> QED
  BY <1>4, <1>5

-----------------------------------------------------------------------------
\* A page reads the row, and shows it.
LEMMA ReadKeeps ==
  ASSUME ItemInv, Item!ReadAsAuthor \/ \E m \in {Me} : Item!ReadAsModerator(m)
  PROVE  ItemInv'
<1> USE TwoPages DEF ItemInv, ItemTyped
<1>1. PICK p \in ItemPages :
        /\ Item!ReadItem(p)
        /\ p = Author => Item!ReadAsAuthor
        /\ p = Me => Item!ReadAsModerator(Me)
  BY DEF Item!ReadAsAuthor, Item!ReadAsModerator
<1>2. PICK answer : answer = [stage |-> "answered", text |-> itemRow,
                              editable |-> ~itemTicket.accepted]
  OBVIOUS
<1>3. /\ fetch[p].stage = "asked" /\ fetch' = [fetch EXCEPT ![p] = answer]
      /\ UNCHANGED <<itemRow, itemTicket, socket, room, item, editing, field, editor, touched,
                     onTime, toServer, running, stored, toPage, typed, saves, itemOpens, drops,
                     moves>>
  BY <1>1, <1>2 DEF Item!ReadItem, Item!tables, Item!wires, Item!counts
<1>4. answer \in FetchedItem /\ answer.stage = "answered" /\ answer.text = itemRow
  <2>1. (~itemTicket.accepted) \in BOOLEAN
    OBVIOUS
  <2> QED
    BY <1>2, <2>1 DEF FetchedItem, TablesTyped
<1>5. fetch'[p] = answer /\ \A q \in ItemPages \ {p} : fetch'[q] = fetch[q]
  BY <1>3 DEF ScreensTyped
<1>6. ~item[p].shown /\ socket[p] # "none"
  BY <1>3 DEF ItemTrue, PagesTrue
<1>7. TablesTyped' /\ SocketsTyped' /\ ScreensTyped' /\ QueuesTyped'
  BY <1>3, <1>4 DEF TablesTyped, SocketsTyped, ScreensTyped, QueuesTyped
<1>8. Pending' = Pending /\ Underway' = Underway /\ (WillFail' <=> WillFail)
  BY <1>3 DEF Pending, Underway, InQueue, WillFail
<1>9. PagesTrue'
  BY <1>3, <1>4, <1>5, <1>6, <1>8 DEF ItemTrue, PagesTrue
<1>10. CASE p = Author
  <2>1. calm' = [calm EXCEPT ![Author] = ~Item!InTheApi /\ toServer = <<>>]
    BY <1>1, <1>10 DEF Item!ReadAsAuthor
  <2>2. CountsTyped' /\ calm'[Me] = calm[Me]
        /\ (calm'[Author] => running = {} /\ stored = <<>> /\ toServer = <<>>)
    BY <1>3, <2>1 DEF CountsTyped, Item!InTheApi
  <2>3. Has(Me)' = Has(Me) /\ Latest(Me)' = Latest(Me)
    BY <1>3, <1>5, <1>10 DEF Has, Latest
  <2>4. ModeratorTrue'
    BY <1>3, <2>2, <2>3 DEF ItemTrue, ModeratorTrue
  <2>5. ~editing
    BY <1>6, <1>10 DEF ItemTrue, PagesTrue
  <2>6. SavesTrue'
    BY <1>3, <1>8, <2>5 DEF ItemTrue, SavesTrue
  <2>7. AuthorTrue'
    <3> SUFFICES ASSUME calm'[Author]
                 PROVE  Underway' = {} /\ Pending' = {} /\ stored' = <<>>
                        /\ Latest(Author)' = itemRow' /\ ~item'[Author].shown
      BY DEF AuthorTrue
    <3>0. Underway = {} /\ Pending = {}
      BY <2>2 DEF Underway, Pending, InQueue
    <3>1. Underway' = {} /\ Pending' = {}
      BY <1>8, <3>0
    <3>2. toPage[Author] = <<>>
      BY <1>6, <1>10 DEF ItemTrue, PagesTrue
    <3>3. Latest(Author)' = itemRow'
      BY <1>3, <1>4, <1>5, <1>6, <1>10, <2>2, <3>2 DEF Latest
    <3> QED
      BY <1>3, <1>6, <1>10, <2>2, <3>1, <3>3
  <2> QED
    BY <1>7, <1>9, <2>2, <2>4, <2>6, <2>7 DEF ItemTrue
<1>11. CASE p = Me
  <2>1. calm' = [calm EXCEPT ![Me] = Me \in room /\ stored = <<>> /\ toPage[Me] = <<>>]
    BY <1>1, <1>11 DEF Item!ReadAsModerator
  <2>2. CountsTyped' /\ calm'[Author] = calm[Author]
        /\ (calm'[Me] => Me \in room /\ stored = <<>> /\ toPage[Me] = <<>>)
    BY <1>3, <2>1 DEF CountsTyped
  <2>3. Has(Author)' = Has(Author) /\ Latest(Author)' = Latest(Author)
    BY <1>3, <1>5, <1>11 DEF Has, Latest
  <2>4. AuthorTrue' /\ SavesTrue'
    BY <1>3, <1>8, <2>2, <2>3 DEF ItemTrue, AuthorTrue, SavesTrue
  <2>5. ModeratorTrue'
    <3> SUFFICES ASSUME calm'[Me] PROVE Me \in room' /\ Latest(Me)' = itemRow'
      BY DEF ModeratorTrue
    <3> QED
      BY <1>3, <1>4, <1>5, <1>6, <1>11, <2>2 DEF Latest
  <2> QED
    BY <1>7, <1>9, <2>2, <2>4, <2>5 DEF ItemTrue
<1> QED
  BY <1>10, <1>11

\* The page shows what it has read; it read what is stored, or hears of it.
LEMMA ShowKeeps == ASSUME ItemInv, NEW p \in ItemPages, Item!ShowItem(p)
                   PROVE  ItemInv'
<1> USE TwoPages DEF ItemInv, ItemTyped
<1>1. PICK new : new = [shown |-> TRUE, text |-> fetch[p].text,
                        editable |-> fetch[p].editable]
  OBVIOUS
<1>2. /\ fetch[p].stage = "answered"
      /\ item' = [item EXCEPT ![p] = new] /\ fetch' = [fetch EXCEPT ![p] = Item!NoFetch]
      /\ editor' = IF p = Author THEN fetch[p].text["content"] ELSE editor
      /\ UNCHANGED <<itemRow, itemTicket, socket, room, editing, field, touched,
                     onTime, toServer, running, stored, toPage, typed, saves, itemOpens, drops,
                     moves, calm>>
  BY <1>1 DEF Item!ShowItem, Item!tables, Item!wires, Item!counts
<1>3. fetch[p] \in FetchedItem /\ fetch[p].text["content"] \in Item!Typed
  BY DEF ScreensTyped, FetchedItem, Item!Text, Item!Fields
<1>4. /\ new \in ShownItem /\ new.shown /\ new.text = fetch[p].text
      /\ Item!NoFetch \in FetchedItem /\ Item!NoFetch.stage = "none"
  BY <1>1, <1>3, PagesBounds DEF ShownItem, FetchedItem, Item!NoFetch, Item!Nothing,
     Item!Text, Item!Typed
<1>5. /\ item'[p] = new /\ fetch'[p] = Item!NoFetch
      /\ \A q \in ItemPages \ {p} : fetch'[q] = fetch[q] /\ item'[q] = item[q]
  BY <1>2 DEF ScreensTyped
<1>6. ~item[p].shown /\ socket[p] # "none" /\ Has(p) /\ Has(p)'
  BY <1>2, <1>4, <1>5 DEF ItemTrue, PagesTrue, Has
<1>7. TablesTyped' /\ SocketsTyped' /\ ScreensTyped' /\ QueuesTyped' /\ CountsTyped'
  BY <1>2, <1>3, <1>4
  DEF TablesTyped, SocketsTyped, ScreensTyped, QueuesTyped, CountsTyped
<1>8. Pending' = Pending /\ Underway' = Underway /\ (WillFail' <=> WillFail)
  BY <1>2 DEF Pending, Underway, InQueue, WillFail
<1>9. PagesTrue'
  BY <1>2, <1>4, <1>5, <1>6, <1>8 DEF ItemTrue, PagesTrue
<1>10. \A q \in ItemPages : (Has(q)' <=> Has(q)) /\ Latest(q)' = Latest(q)
  BY <1>2, <1>4, <1>5, <1>6 DEF Has, Latest
<1>11. ModeratorTrue'
  BY <1>2, <1>10 DEF ItemTrue, ModeratorTrue
<1>12. CASE p = Author
  <2>1. ~editing
    BY <1>6, <1>12 DEF ItemTrue, PagesTrue
  <2>2. SavesTrue'
    BY <1>2, <1>8, <2>1 DEF ItemTrue, SavesTrue
  <2>3. AuthorTrue'
    <3> SUFFICES ASSUME calm[Author], ~WillFail
                 PROVE  /\ \A u \in Underway : u.mine
                        /\ Latest(Author) = itemRow /\ Pending = {}
                        /\ editor' = itemRow["content"]
      BY <1>2, <1>4, <1>5, <1>8, <1>10, <1>12 DEF AuthorTrue
    <3>1. /\ \A u \in Underway : u.mine
          /\ Latest(Author) = itemRow /\ Pending = {} /\ stored = <<>>
      BY <1>6, <1>12 DEF ItemTrue, AuthorTrue
    <3>2. toPage[Author] = <<>>
      BY <1>6, <1>12 DEF ItemTrue, PagesTrue
    <3>3. fetch[Author].text = itemRow
      BY <1>6, <1>12, <3>1, <3>2 DEF Latest
    <3> QED
      BY <1>2, <1>12, <3>1, <3>3
  <2> QED
    BY <1>7, <1>9, <1>11, <2>2, <2>3 DEF ItemTrue
<1>13. CASE p = Me
  <2>1. item'[Author] = item[Author] /\ editor' = editor
    BY <1>2, <1>5, <1>13
  <2>2. AuthorTrue' /\ SavesTrue'
    BY <1>2, <1>8, <1>10, <2>1 DEF ItemTrue, AuthorTrue, SavesTrue
  <2> QED
    BY <1>7, <1>9, <1>11, <2>2 DEF ItemTrue
<1> QED
  BY <1>12, <1>13

-----------------------------------------------------------------------------
\* The author edits.
LEMMA EditKeeps ==
  ASSUME ItemInv, \/ Item!StartEditing \/ Item!CancelChanges
                  \/ \E f \in Item!Fields : Item!Type(f)
  PROVE  ItemInv'
<1> USE TwoPages DEF ItemInv, ItemTyped
<1>1. UNCHANGED <<itemRow, itemTicket, socket, room, fetch, item, toServer, running, stored,
                  toPage, saves, itemOpens, drops, moves>>
  BY DEF Item!StartEditing, Item!CancelChanges, Item!Type, Item!tables, Item!wires, Item!counts
<1>2. TablesTyped' /\ SocketsTyped' /\ QueuesTyped'
  BY <1>1 DEF TablesTyped, SocketsTyped, QueuesTyped
<1>3. /\ Pending' = Pending /\ Underway' = Underway /\ (WillFail' <=> WillFail)
      /\ \A q \in ItemPages : (Has(q)' <=> Has(q)) /\ Latest(q)' = Latest(q)
  BY <1>1 DEF Pending, Underway, InQueue, WillFail, Has, Latest
<1>4. item[Author].shown
  BY DEF Item!StartEditing, Item!CancelChanges, Item!Type, ItemTrue, PagesTrue
<1>5. item[Author].text["title"] \in Item!Typed /\ item[Author].text["content"] \in Item!Typed
  BY DEF ScreensTyped, ShownItem, Item!Text, Item!Fields
<1>6. PagesTrue'
  BY <1>1, <1>3, <1>4 DEF ItemTrue, PagesTrue
<1>7. ~Item!Unanswered =>
        /\ Pending = {} /\ ~WillFail
        /\ calm[Author] =>
              /\ item[Author].text = itemRow
              /\ ~editing => editor = itemRow["content"]
  <2> SUFFICES ASSUME ~Item!Unanswered
               PROVE  /\ Pending = {} /\ ~WillFail
                      /\ calm[Author] =>
                            /\ item[Author].text = itemRow
                            /\ ~editing => editor = itemRow["content"]
    OBVIOUS
  <2>1. running = {} /\ stored = <<>> /\ toServer = <<>> /\ toPage[Author] = <<>>
    BY DEF Item!Unanswered, Item!InTheApi
  <2>2. Pending = {} /\ ~WillFail
    BY <2>1 DEF Pending, InQueue, WillFail
  <2> QED
    BY <1>4, <2>1, <2>2 DEF ItemTrue, AuthorTrue, Has, Latest
<1>8. CASE Item!StartEditing
  <2>1. /\ editing' /\ editing' \in BOOLEAN /\ touched' = {}
        /\ field' = item[Author].text["title"] /\ onTime' = ~Item!Unanswered
        /\ ~editing /\ UNCHANGED <<editor, typed, calm>>
    BY <1>8 DEF Item!StartEditing, Item!TitleToEdit, Item!counts
  <2>2. ScreensTyped' /\ CountsTyped'
    <3>1. onTime' \in BOOLEAN
      BY <2>1
    <3> QED
      BY <1>1, <1>5, <2>1, <3>1 DEF ScreensTyped, CountsTyped
  <2>3. ModeratorTrue' /\ AuthorTrue'
    BY <1>1, <1>3, <2>1 DEF ItemTrue, ModeratorTrue, AuthorTrue
  <2>4. SavesTrue'
    BY <1>1, <1>3, <1>7, <2>1 DEF ItemTrue, SavesTrue
  <2> QED
    BY <1>2, <1>6, <2>2, <2>3, <2>4 DEF ItemTrue
<1>9. CASE Item!CancelChanges
  <2>1. /\ editing /\ ~editing' /\ editing' \in BOOLEAN /\ field' = 0 /\ touched' = {}
        /\ editor' = item[Author].text["content"]
        /\ calm' = [calm EXCEPT ![Author] = calm[Author] /\ ~Item!Unanswered]
        /\ UNCHANGED <<onTime, typed>>
    BY <1>9 DEF Item!CancelChanges, Item!Canceled, Item!counts
  <2>2. calm'[Me] = calm[Me] /\ (calm'[Author] => calm[Author] /\ ~Item!Unanswered)
    BY <2>1 DEF CountsTyped
  <2>3. ScreensTyped' /\ CountsTyped'
    <3>1. 0 \in Item!Typed
      BY PagesBounds DEF Item!Typed
    <3>2. calm' \in [ItemPages -> BOOLEAN]
      BY <2>1 DEF CountsTyped
    <3> QED
      BY <1>1, <1>5, <2>1, <3>1, <3>2 DEF ScreensTyped, CountsTyped
  <2>4. ModeratorTrue'
    BY <1>1, <1>3, <2>2 DEF ItemTrue, ModeratorTrue
  <2>5. AuthorTrue'
    BY <1>1, <1>3, <1>4, <1>7, <2>1, <2>2 DEF ItemTrue, AuthorTrue
  <2>6. SavesTrue'
    BY <1>1, <1>3, <2>1 DEF ItemTrue, SavesTrue
  <2> QED
    BY <1>2, <1>6, <2>3, <2>4, <2>5, <2>6 DEF ItemTrue
<1>10. ASSUME NEW f \in Item!Fields, Item!Type(f)
       PROVE  ItemInv'
  <2>1. /\ editing /\ typed < MaxTyped /\ typed' = typed + 1 /\ touched' = touched \cup {f}
        /\ field' = IF f = "title" THEN typed' ELSE field
        /\ editor' = IF f = "content" THEN typed' ELSE editor
        /\ UNCHANGED <<editing, onTime, calm>>
    BY <1>10 DEF Item!Type
  <2>2. typed' \in 0 .. MaxTyped
    <3>1. typed \in Nat /\ MaxTyped \in Nat
      BY PagesBounds DEF CountsTyped
    <3> QED
      BY <2>1, <3>1
  <2>3. ScreensTyped' /\ CountsTyped'
    BY <1>1, <2>1, <2>2 DEF ScreensTyped, CountsTyped, Item!Typed
  <2>4. ModeratorTrue' /\ AuthorTrue'
    BY <1>1, <1>3, <2>1 DEF ItemTrue, ModeratorTrue, AuthorTrue
  <2>5. SavesTrue'
    BY <1>1, <1>3, <2>1 DEF ItemTrue, SavesTrue
  <2> QED
    BY <1>2, <1>6, <2>3, <2>4, <2>5 DEF ItemTrue
<1> QED
  BY <1>8, <1>9, <1>10

\* A save sends the fields that were not touched as they are stored.
LEMMA SaveKeeps == ASSUME ItemInv, Item!SaveChanges
                   PROVE  ItemInv'
<1> USE TwoPages DEF ItemInv, ItemTyped
<1>1. PICK new : new = [title |-> field, content |-> editor]
  OBVIOUS
<1>2. PICK u : u = [n |-> saves', text |-> new, touched |-> touched,
                    onTime |-> onTime /\ calm[Author], mine |-> TRUE]
  OBVIOUS
<1>3. /\ toServer' = Append(toServer, u) /\ editing /\ ~editing' /\ editing' \in BOOLEAN
      /\ saves < MaxSaves /\ saves' = saves + 1 /\ field' = 0 /\ touched' = {}
      /\ UNCHANGED <<itemRow, itemTicket, socket, room, fetch, item, editor, onTime, running,
                     stored, toPage, typed, itemOpens, drops, moves, calm>>
  BY <1>1, <1>2 DEF Item!SaveChanges, Item!tables
<1>4. saves \in Nat /\ saves' \in 1 .. MaxSaves
  <2>1. saves \in Nat /\ MaxSaves \in Nat
    BY PagesBounds DEF CountsTyped
  <2> QED
    BY <1>3, <2>1
<1>5. new \in Item!Text /\ new["title"] = field /\ new["content"] = editor
  BY <1>1 DEF Item!Text, Item!Fields, ScreensTyped
<1>6. u \in Item!Update
  <2>1. (onTime /\ calm[Author]) \in BOOLEAN
    OBVIOUS
  <2> QED
    BY <1>2, <1>4, <1>5, <2>1 DEF Item!Update, ScreensTyped
<1>7. /\ u.n = saves' /\ u.text = new /\ u.touched = touched /\ u.mine
      /\ u.onTime = (onTime /\ calm[Author])
  BY <1>2
<1>8. /\ toServer' \in Seq(Item!Update)
      /\ InQueue(toServer') = InQueue(toServer) \cup {u}
      /\ DOMAIN toServer' = DOMAIN toServer \cup {Len(toServer) + 1}
      /\ \A i \in DOMAIN toServer : toServer'[i] = toServer[i]
      /\ toServer'[Len(toServer) + 1] = u
  BY <1>3, <1>6, QueueAppend DEF QueuesTyped
<1>9. Pending' = Pending \cup {u} /\ Underway' = Underway \cup {u}
  BY <1>3, <1>8 DEF Pending, Underway
<1>10. QueuesTyped'
  <2>1. Item!OrphansFirst(toServer')
    <3> SUFFICES ASSUME NEW i \in DOMAIN toServer', NEW j \in DOMAIN toServer',
                        i < j, toServer'[i].mine
                 PROVE  toServer'[j].mine
      BY DEF Item!OrphansFirst
    <3>1. CASE j = Len(toServer) + 1
      BY <1>7, <1>8, <3>1
    <3>2. CASE j # Len(toServer) + 1
      <4>1. j \in DOMAIN toServer /\ i \in DOMAIN toServer
        <5>1. DOMAIN toServer = 1 .. Len(toServer) /\ Len(toServer) \in Nat
          BY DEF QueuesTyped
        <5> QED
          BY <1>8, <3>2, <5>1
      <4> QED
        BY <1>8, <4>1 DEF QueuesTyped, Item!OrphansFirst
    <3> QED
      BY <3>1, <3>2
  <2> QED
    BY <1>3, <1>8, <2>1 DEF QueuesTyped
<1>11. TablesTyped' /\ SocketsTyped' /\ ScreensTyped' /\ CountsTyped'
  <2>1. 0 \in Item!Typed /\ saves' \in 0 .. MaxSaves
    BY <1>4, PagesBounds DEF Item!Typed
  <2> QED
    BY <1>3, <2>1 DEF TablesTyped, SocketsTyped, ScreensTyped, CountsTyped
<1>12. \A v \in Pending : v.n \in Nat /\ v.n =< saves /\ v.n # saves'
  <2>1. \A v \in Pending : v \in Item!Update /\ v.n =< saves
    BY DEF ItemTrue, PagesTrue, Pending, InQueue, QueuesTyped
  <2>2. \A v \in Item!Update : v.n \in Nat
    BY DEF Item!Update
  <2> QED
    BY <1>3, <1>4, <2>1, <2>2
<1>13. item[Author].shown
  BY <1>3 DEF ItemTrue, PagesTrue
<1>14. PagesTrue'
  <2>1. \A v \in Pending' : v.n =< saves'
    <3>1. \A v \in Pending : v.n =< saves'
      BY <1>3, <1>4, <1>12
    <3> QED
      BY <1>4, <1>7, <1>9, <3>1
  <2> QED
    BY <1>3, <1>13, <2>1 DEF ItemTrue, PagesTrue
<1>15. \A q \in ItemPages : (Has(q)' <=> Has(q)) /\ Latest(q)' = Latest(q)
  BY <1>3 DEF Has, Latest
<1>16. ModeratorTrue'
  BY <1>3, <1>15 DEF ItemTrue, ModeratorTrue
<1>17. AuthorTrue'
  <2> SUFFICES ASSUME calm[Author], Has(Author), ~WillFail
               PROVE  /\ \A v \in Underway' : v.mine
                      /\ Latest(Author) = itemRow
                      /\ \A v \in Pending' : v.n = saves' => editor = v.text["content"]
                      /\ u \in Pending' /\ u.n = saves'
    BY <1>3, <1>13, <1>15 DEF AuthorTrue, WillFail
  <2> QED
    BY <1>5, <1>7, <1>9, <1>12 DEF ItemTrue, AuthorTrue
<1>18. SavesTrue'
  <2> SUFFICES ASSUME NEW v \in Pending', v.onTime, v.n = saves'
               PROVE  /\ \A w \in Pending' : w.text = v.text
                      /\ \A f \in Item!Fields \ v.touched : v.text[f] = itemRow[f]
    BY <1>3 DEF SavesTrue
  <2>1. v = u /\ onTime /\ calm[Author]
    BY <1>7, <1>9, <1>12
  <2>2. Pending = {} /\ ("title" \notin touched => field = itemRow["title"])
                     /\ ("content" \notin touched => editor = itemRow["content"])
    BY <1>3, <2>1 DEF ItemTrue, SavesTrue
  <2> QED
    BY <1>5, <1>7, <1>9, <2>1, <2>2 DEF Item!Fields
<1> QED
  BY <1>10, <1>11, <1>14, <1>16, <1>17, <1>18 DEF ItemTrue

-----------------------------------------------------------------------------
\* What the author hears when a handler fails.
LEMMA FailureHeard ==
  ASSUME QueuesTyped, toPage' = [toPage EXCEPT ![Author] = Append(toPage[Author], Item!Failure)]
  PROVE  /\ toPage' \in [ItemPages -> Seq(Item!Event)]
         /\ toPage'[Me] = toPage[Me]
         /\ WillFail'
<1> USE TwoPages
<1>1. Item!Failure \in Item!Event /\ Item!Failure.event = "error"
  BY DEF Item!Failure, Item!Event
<1>2. toPage[Author] \in Seq(Item!Event)
  BY DEF QueuesTyped
<1>3. PICK s : s = Append(toPage[Author], Item!Failure)
  OBVIOUS
<1>4. s \in Seq(Item!Event) /\ Len(toPage[Author]) + 1 \in DOMAIN s
      /\ s[Len(toPage[Author]) + 1] = Item!Failure
  BY <1>1, <1>2, <1>3, QueueAppend
<1>5. toPage'[Author] = s /\ toPage' \in [ItemPages -> Seq(Item!Event)]
      /\ toPage'[Me] = toPage[Me]
  BY <1>3, <1>4 DEF QueuesTyped
<1> QED
  BY <1>1, <1>4, <1>5 DEF WillFail

\* A handler starts, or fails at once.
LEMMA StartKeeps == ASSUME ItemInv, Item!StartHandler
                    PROVE  ItemInv'
<1> USE TwoPages DEF ItemInv, ItemTyped
<1>1. /\ toServer # <<>> /\ toServer' = Tail(toServer)
      /\ UNCHANGED <<itemRow, itemTicket, socket, room, fetch, item, editing, field, editor,
                     touched, onTime, stored, typed, saves, itemOpens, drops, moves, calm>>
  BY DEF Item!StartHandler, Item!tables, Item!pageVars, Item!counts
<1>2. PICK h : h = Head(toServer)
  OBVIOUS
<1>3. /\ toServer' \in Seq(Item!Update) /\ h \in Item!Update /\ h \in InQueue(toServer)
      /\ InQueue(toServer') \subseteq InQueue(toServer)
      /\ InQueue(toServer) \subseteq InQueue(toServer') \cup {h}
      /\ \A i \in DOMAIN toServer' :
            i + 1 \in DOMAIN toServer /\ toServer'[i] = toServer[i + 1]
  BY <1>1, <1>2, QueueTail DEF QueuesTyped
<1>4. Item!OrphansFirst(toServer')
  <2>1. DOMAIN toServer' \subseteq Nat
    BY <1>3
  <2>2. ASSUME NEW i \in DOMAIN toServer', NEW j \in DOMAIN toServer', i < j
        PROVE  i + 1 < j + 1
    BY <2>1, <2>2
  <2> QED
    BY <1>3, <2>2 DEF QueuesTyped, Item!OrphansFirst
<1>5. TablesTyped' /\ SocketsTyped' /\ ScreensTyped' /\ CountsTyped'
  BY <1>1 DEF TablesTyped, SocketsTyped, ScreensTyped, CountsTyped
<1>6. CASE socket[Author] = "connecting" /\ h.mine
  <2>1. toPage' = [toPage EXCEPT ![Author] = Append(toPage[Author], Item!Failure)]
        /\ UNCHANGED running
    BY <1>2, <1>6 DEF Item!StartHandler
  <2>2. toPage' \in [ItemPages -> Seq(Item!Event)] /\ toPage'[Me] = toPage[Me] /\ WillFail'
    BY <2>1, FailureHeard
  <2>3. Pending' \subseteq Pending /\ Underway' \subseteq Underway
    BY <1>1, <1>3, <2>1 DEF Pending, Underway
  <2>4. item[Author].shown
    BY <1>3, <1>6 DEF ItemTrue, PagesTrue, Underway, Pending
  <2>5. QueuesTyped'
    BY <1>1, <1>3, <1>4, <2>1, <2>2 DEF QueuesTyped
  <2>6. PagesTrue'
    BY <1>1, <2>2, <2>3, <2>4 DEF ItemTrue, PagesTrue
  <2>7. ModeratorTrue'
    BY <1>1, <2>2 DEF ItemTrue, ModeratorTrue, Has, Latest
  <2>8. AuthorTrue'
    BY <2>2 DEF AuthorTrue
  <2>9. SavesTrue'
    BY <1>1, <2>3 DEF ItemTrue, SavesTrue
  <2> QED
    BY <1>5, <2>5, <2>6, <2>7, <2>8, <2>9 DEF ItemTrue
<1>7. CASE ~(socket[Author] = "connecting" /\ h.mine)
  <2>1. running' = running \cup {h} /\ UNCHANGED toPage
    BY <1>2, <1>7 DEF Item!StartHandler
  <2>2. Pending' = Pending
    BY <1>3, <2>1 DEF Pending
  <2>3. Underway' = Underway
    BY <1>1, <2>2 DEF Underway
  <2>4. QueuesTyped'
    BY <1>1, <1>3, <1>4, <2>1 DEF QueuesTyped
  <2>5. PagesTrue'
    BY <1>1, <2>1, <2>2, <2>3 DEF ItemTrue, PagesTrue
  <2>6. ModeratorTrue' /\ SavesTrue'
    BY <1>1, <2>1, <2>2 DEF ItemTrue, ModeratorTrue, Has, Latest, SavesTrue
  <2>7. AuthorTrue'
    BY <1>1, <2>1, <2>2, <2>3 DEF ItemTrue, AuthorTrue, Has, Latest, WillFail
  <2> QED
    BY <1>5, <2>4, <2>5, <2>6, <2>7 DEF ItemTrue
<1> QED
  BY <1>6, <1>7

\* A handler fails, before its statement or after it.
LEMMA FailKeeps ==
  ASSUME ItemInv, NEW u \in running, Item!HandlerFails(u) \/ Item!StoreUnconfirmed(u)
  PROVE  ItemInv'
<1> USE TwoPages DEF ItemInv, ItemTyped
<1>1. /\ running' = running \ {u}
      /\ UNCHANGED <<itemTicket, socket, fetch, item, editing, field, editor, touched, onTime,
                     toServer, stored, typed, saves, itemOpens, drops, moves>>
      /\ IF u.mine
         THEN /\ room' = room \ {Author}
              /\ toPage' = [toPage EXCEPT ![Author] = Append(toPage[Author], Item!Failure)]
         ELSE UNCHANGED <<room, toPage>>
  BY DEF Item!HandlerFails, Item!StoreUnconfirmed, Item!Failed, Item!pageVars, Item!counts
<1>2. \/ UNCHANGED <<itemRow, calm>>
      \/ itemRow' = u.text /\ calm' = [p \in ItemPages |-> FALSE]
  BY DEF Item!HandlerFails, Item!StoreUnconfirmed, Item!Write
<1>3. /\ toPage' \in [ItemPages -> Seq(Item!Event)] /\ toPage'[Me] = toPage[Me]
      /\ u.mine => WillFail'
      /\ ~u.mine => toPage' = toPage
  BY <1>1, FailureHeard DEF QueuesTyped
<1>4. u \in Pending /\ u \in Underway /\ u \in Item!Update
  BY DEF Pending, Underway, QueuesTyped
<1>5. Pending' \subseteq Pending /\ Underway' \subseteq Underway
  BY <1>1 DEF Pending, Underway
<1>6. u.text \in Item!Text
  BY <1>4 DEF Item!Update
<1>7. TablesTyped' /\ SocketsTyped' /\ ScreensTyped' /\ QueuesTyped'
  BY <1>1, <1>2, <1>3, <1>6 DEF TablesTyped, SocketsTyped, ScreensTyped, QueuesTyped
<1>8. CountsTyped' /\ \A p \in ItemPages : calm'[p] => calm[p] /\ itemRow' = itemRow
  BY <1>1, <1>2 DEF CountsTyped
<1>9. PagesTrue'
  BY <1>1, <1>3, <1>4, <1>5 DEF ItemTrue, PagesTrue
<1>10. ModeratorTrue'
  BY <1>1, <1>3, <1>8 DEF ItemTrue, ModeratorTrue, Has, Latest
<1>11. AuthorTrue'
  <2>1. CASE u.mine
    BY <1>3, <2>1 DEF AuthorTrue
  <2>2. CASE ~u.mine
    <3>1. (Has(Author)' <=> Has(Author)) /\ (WillFail' <=> WillFail)
      BY <1>1, <1>3, <2>2 DEF Has, WillFail
    <3> QED
      BY <1>4, <1>8, <2>2, <3>1 DEF ItemTrue, AuthorTrue
  <2> QED
    BY <2>1, <2>2
<1>12. SavesTrue'
  <2>1. editing' /\ onTime' /\ calm'[Author] =>
          /\ Pending' = {}
          /\ "title" \notin touched' => field' = itemRow'["title"]
          /\ "content" \notin touched' => editor' = itemRow'["content"]
    BY <1>1, <1>5, <1>8 DEF ItemTrue, SavesTrue
  <2>2. ASSUME NEW w \in Pending', w.onTime, w.n = saves'
        PROVE  /\ \A v \in Pending' : v.text = w.text
               /\ \A f \in Item!Fields \ w.touched : w.text[f] = itemRow'[f]
    <3>1. /\ \A v \in Pending : v.text = w.text
          /\ \A f \in Item!Fields \ w.touched : w.text[f] = itemRow[f]
      BY <1>1, <1>5, <2>2 DEF ItemTrue, SavesTrue
    <3> QED
      BY <1>2, <1>4, <1>5, <3>1
  <2> QED
    BY <2>1, <2>2 DEF SavesTrue
<1> QED
  BY <1>7, <1>8, <1>9, <1>10, <1>11, <1>12 DEF ItemTrue

\* A statement is done: the row is what the pages will show.
LEMMA StoreKeeps == ASSUME ItemInv, NEW u \in running, Item!Store(u)
                    PROVE  ItemInv'
<1> USE TwoPages DEF ItemInv, ItemTyped
<1>1. /\ running' = running \ {u} /\ itemRow' = u.text /\ stored' = Append(stored, u)
      /\ calm' = [calm EXCEPT ![Author] = calm[Author] /\ u.n = saves]
      /\ UNCHANGED <<itemTicket, socket, room, fetch, item, editing, field, editor, touched,
                     onTime, toServer, toPage, typed, saves, itemOpens, drops, moves>>
  BY DEF Item!Store, Item!Write, Item!pageVars, Item!counts
<1>2. u \in Pending /\ u \in Underway /\ u \in Item!Update /\ u.text \in Item!Text
  BY DEF Pending, Underway, QueuesTyped, Item!Update
<1>3. /\ stored' \in Seq(Item!Update) /\ stored' # <<>> /\ stored'[Len(stored')] = u
      /\ InQueue(stored') = InQueue(stored) \cup {u}
  BY <1>1, <1>2, QueueAppend DEF QueuesTyped
<1>4. Pending' \subseteq Pending /\ Underway' \subseteq Underway
  BY <1>1, <1>2, <1>3 DEF Pending, Underway
<1>5. calm'[Me] = calm[Me] /\ (calm'[Author] => calm[Author] /\ u.n = saves)
  BY <1>1 DEF CountsTyped
<1>6. TablesTyped' /\ SocketsTyped' /\ ScreensTyped' /\ QueuesTyped'
  BY <1>1, <1>2, <1>3 DEF TablesTyped, SocketsTyped, ScreensTyped, QueuesTyped
<1>7. CountsTyped'
  <2>1. (calm[Author] /\ u.n = saves) \in BOOLEAN
    OBVIOUS
  <2> QED
    BY <1>1, <2>1 DEF CountsTyped
<1>8. PagesTrue'
  BY <1>1, <1>4 DEF ItemTrue, PagesTrue
<1>9. \A q \in ItemPages : (Has(q)' <=> Has(q)) /\ Latest(q)' = itemRow'
  BY <1>1, <1>3 DEF Has, Latest
<1>10. ModeratorTrue'
  BY <1>1, <1>5, <1>9 DEF ItemTrue, ModeratorTrue
<1>11. AuthorTrue'
  <2> SUFFICES ASSUME calm[Author], u.n = saves, Has(Author), ~WillFail
               PROVE  /\ \A v \in Underway' : v.mine
                      /\ item[Author].shown
                      /\ ~editing =>
                            /\ \A v \in Pending' : v.n = saves => editor = v.text["content"]
                            /\ editor = u.text["content"]
    BY <1>1, <1>5, <1>9 DEF AuthorTrue, WillFail
  <2> QED
    BY <1>2, <1>4 DEF ItemTrue, AuthorTrue
<1>12. SavesTrue'
  <2>1. ~(editing' /\ onTime' /\ calm'[Author])
    BY <1>1, <1>2, <1>5 DEF ItemTrue, SavesTrue
  <2>2. ASSUME NEW w \in Pending', w.onTime, w.n = saves'
        PROVE  /\ \A v \in Pending' : v.text = w.text
               /\ \A f \in Item!Fields \ w.touched : w.text[f] = itemRow'[f]
    <3>1. \A v \in Pending : v.text = w.text
      BY <1>1, <1>4, <2>2 DEF ItemTrue, SavesTrue
    <3> QED
      BY <1>1, <1>2, <1>4, <3>1
  <2> QED
    BY <2>1, <2>2 DEF SavesTrue
<1> QED
  BY <1>6, <1>7, <1>8, <1>10, <1>11, <1>12 DEF ItemTrue

\* An update is broadcast and acknowledged.
LEMMA BroadcastKeeps ==
  ASSUME ItemInv, NEW i \in DOMAIN stored, Item!Broadcast(i)
  PROVE  ItemInv'
<1> USE TwoPages DEF ItemInv, ItemTyped
<1>1. PICK u : u = stored[i]
  OBVIOUS
<1>2. PICK news : news = [event |-> "update", text |-> u.text]
  OBVIOUS
<1>3. PICK ack : ack = [event |-> "OK", text |-> u.text]
  OBVIOUS
<1>4. /\ stored' = Item!RemoveAt(stored, i)
      /\ toPage' = [p \in ItemPages |->
                      IF p \in Item!Heard THEN Append(toPage[p], news)
                      ELSE IF p = Author /\ u.mine THEN Append(toPage[p], ack)
                      ELSE toPage[p]]
      /\ calm' = [p \in ItemPages |-> calm[p] /\ i = 1]
      /\ UNCHANGED <<itemRow, itemTicket, socket, room, fetch, item, editing, field, editor,
                     touched, onTime, toServer, running, typed, saves, itemOpens, drops, moves>>
  BY <1>1, <1>2, <1>3 DEF Item!Broadcast, Item!tables, Item!pageVars, Item!counts
<1>5. u \in InQueue(stored) /\ u \in Underway /\ u \in Item!Update /\ u.text \in Item!Text
  <2>1. u \in Item!Update
    BY <1>1 DEF QueuesTyped
  <2> QED
    BY <1>1, <2>1 DEF InQueue, Underway, Item!Update
<1>6. /\ news \in Item!Event /\ news.event # "error" /\ news.text = u.text
      /\ ack \in Item!Event /\ ack.event # "error" /\ ack.text = u.text
  BY <1>2, <1>3, <1>5 DEF Item!Event
<1>7. /\ stored' \in Seq(Item!Update) /\ InQueue(stored') \subseteq InQueue(stored)
      /\ i = 1 => stored # <<>> /\ stored' = Tail(stored)
  BY <1>4, QueueRemove DEF QueuesTyped
<1>8. ASSUME i = 1
      PROVE  /\ stored' # <<>> => stored'[Len(stored')] = stored[Len(stored)]
             /\ stored' = <<>> => u = stored[Len(stored)]
  BY <1>1, <1>7, <1>8, QueueTail DEF QueuesTyped
<1>9. /\ toPage'[Me] = IF Me \in room THEN Append(toPage[Me], news) ELSE toPage[Me]
      /\ toPage'[Author] = IF u.mine THEN Append(toPage[Author], ack) ELSE toPage[Author]
  BY <1>4 DEF Item!Heard
<1>10. toPage[Me] \in Seq(Item!Event) /\ toPage[Author] \in Seq(Item!Event)
  BY DEF QueuesTyped
<1>11. /\ Me \in room => /\ toPage'[Me] # <<>> /\ toPage'[Me][Len(toPage'[Me])].text = u.text
                         /\ InQueue(toPage'[Me]) = InQueue(toPage[Me]) \cup {news}
       /\ toPage'[Me] \in Seq(Item!Event)
  BY <1>6, <1>9, <1>10, QueueAppend
<1>12. /\ u.mine => /\ toPage'[Author] # <<>>
                    /\ toPage'[Author][Len(toPage'[Author])].text = u.text
                    /\ InQueue(toPage'[Author]) = InQueue(toPage[Author]) \cup {ack}
       /\ toPage'[Author] \in Seq(Item!Event)
  BY <1>6, <1>9, <1>10, QueueAppend
<1>13. toPage' \in [ItemPages -> Seq(Item!Event)]
  BY <1>4, <1>11, <1>12
<1>14. Pending' = Pending /\ Underway' \subseteq Underway
  BY <1>4, <1>7 DEF Pending, Underway
<1>15. \A p \in ItemPages : calm'[p] => calm[p] /\ i = 1
  BY <1>4
<1>16. TablesTyped' /\ SocketsTyped' /\ ScreensTyped' /\ QueuesTyped' /\ CountsTyped'
  <2>1. \A p \in ItemPages : (calm[p] /\ i = 1) \in BOOLEAN
    OBVIOUS
  <2>2. calm' \in [ItemPages -> BOOLEAN]
    BY <1>4, <2>1
  <2> QED
    BY <1>4, <1>7, <1>13, <2>2
    DEF TablesTyped, SocketsTyped, ScreensTyped, QueuesTyped, CountsTyped
<1>17. (\A k \in DOMAIN toPage[Me] : toPage[Me][k].event # "error")
          => \A k \in DOMAIN toPage'[Me] : toPage'[Me][k].event # "error"
  BY <1>6, <1>9, <1>11 DEF InQueue
<1>18. WillFail => WillFail'
  BY <1>9, <1>12 DEF WillFail, InQueue
<1>19. PagesTrue'
  BY <1>4, <1>5, <1>9, <1>14, <1>17 DEF ItemTrue, PagesTrue
<1>20. \A q \in ItemPages : Has(q)' <=> Has(q)
  BY <1>4 DEF Has
<1>21. ModeratorTrue'
  <2> SUFFICES ASSUME calm'[Me], Has(Me) PROVE Me \in room /\ Latest(Me)' = itemRow
    BY <1>4, <1>20 DEF ModeratorTrue
  <2>1. Me \in room /\ Latest(Me) = itemRow /\ i = 1
    BY <1>15 DEF ItemTrue, ModeratorTrue
  <2>2. stored[Len(stored)].text = itemRow
    BY <1>7, <2>1 DEF Latest
  <2> QED
    BY <1>8, <1>11, <2>1, <2>2 DEF Latest
<1>22. AuthorTrue'
  <2> SUFFICES ASSUME calm'[Author], Has(Author), ~WillFail
               PROVE  /\ \A v \in Underway' : v.mine
                      /\ Latest(Author)' = itemRow
                      /\ item[Author].shown
                      /\ ~editing =>
                           /\ \A v \in Pending : v.n = saves => editor = v.text["content"]
                           /\ (\A v \in Pending : v.n # saves) => editor = itemRow["content"]
    BY <1>4, <1>14, <1>18, <1>20 DEF AuthorTrue
  <2>1. /\ \A v \in Underway : v.mine
        /\ Latest(Author) = itemRow /\ i = 1
        /\ ~item[Author].shown => stored = <<>>
        /\ item[Author].shown /\ ~editing =>
              /\ \A v \in Pending : v.n = saves => editor = v.text["content"]
              /\ (\A v \in Pending : v.n # saves) => editor = itemRow["content"]
    BY <1>15 DEF ItemTrue, AuthorTrue
  <2>2. stored[Len(stored)].text = itemRow /\ item[Author].shown /\ u.mine
    BY <1>5, <1>7, <2>1 DEF Latest
  <2>3. Latest(Author)' = itemRow
    BY <1>8, <1>12, <2>1, <2>2 DEF Latest
  <2> QED
    BY <1>14, <2>1, <2>2, <2>3
<1>23. SavesTrue'
  BY <1>4, <1>14, <1>15 DEF ItemTrue, SavesTrue
<1> QED
  BY <1>16, <1>19, <1>21, <1>22, <1>23 DEF ItemTrue

-----------------------------------------------------------------------------
\* A page takes over what it is told.
LEMMA TakeOverKeeps == ASSUME ItemInv, NEW p \in ItemPages, Item!TakeOver(p)
                       PROVE  ItemInv'
<1> USE TwoPages DEF ItemInv, ItemTyped
<1>1. PICK e : e = Head(toPage[p])
  OBVIOUS
<1>2. PICK new : new = [item[p] EXCEPT !.text = IF item[p].shown THEN e.text ELSE item[p].text]
  OBVIOUS
<1>3. PICK rest : rest = Tail(toPage[p])
  OBVIOUS
<1>4. /\ toPage[p] # <<>> /\ e.event # "error"
      /\ toPage' = [toPage EXCEPT ![p] = rest] /\ item' = [item EXCEPT ![p] = new]
      /\ calm' = [calm EXCEPT ![p] = calm[p] /\ item[p].shown]
      /\ UNCHANGED <<itemRow, itemTicket, socket, room, fetch, editing, field, editor, touched,
                     onTime, toServer, running, stored, typed, saves, itemOpens, drops, moves>>
  BY <1>1, <1>2, <1>3 DEF Item!TakeOver, Item!tables, Item!counts
<1>5. /\ rest \in Seq(Item!Event) /\ e \in Item!Event
      /\ InQueue(rest) \subseteq InQueue(toPage[p])
      /\ InQueue(toPage[p]) \subseteq InQueue(rest) \cup {e}
      /\ rest # <<>> => rest[Len(rest)] = toPage[p][Len(toPage[p])]
      /\ rest = <<>> => e = toPage[p][Len(toPage[p])]
  BY <1>1, <1>3, <1>4, QueueTail DEF QueuesTyped
<1>6. e.text \in Item!Text
  BY <1>4, <1>5 DEF Item!Event
<1>7. /\ new \in ShownItem /\ (new.shown <=> item[p].shown)
      /\ item[p].shown => new.text = e.text
  <2>1. item[p] \in ShownItem
    BY DEF ScreensTyped
  <2>2. CASE item[p].shown
    <3>1. new = [item[p] EXCEPT !.text = e.text]
      BY <1>2, <2>2
    <3> QED
      BY <1>6, <2>1, <2>2, <3>1 DEF ShownItem
  <2>3. CASE ~item[p].shown
    <3>1. new = [item[p] EXCEPT !.text = item[p].text]
      BY <1>2, <2>3
    <3>2. new = item[p]
      BY <2>1, <3>1 DEF ShownItem
    <3> QED
      BY <2>1, <2>3, <3>2
  <2> QED
    BY <2>2, <2>3
<1>8. /\ toPage'[p] = rest /\ item'[p] = new
      /\ \A q \in ItemPages \ {p} : toPage'[q] = toPage[q] /\ item'[q] = item[q]
                                    /\ calm'[q] = calm[q]
      /\ calm'[p] => calm[p] /\ item[p].shown
  BY <1>4 DEF QueuesTyped, ScreensTyped, CountsTyped
<1>9. TablesTyped' /\ SocketsTyped' /\ ScreensTyped' /\ QueuesTyped' /\ CountsTyped'
  <2>1. (calm[p] /\ item[p].shown) \in BOOLEAN
    OBVIOUS
  <2>2. calm' \in [ItemPages -> BOOLEAN]
    BY <1>4, <2>1 DEF CountsTyped
  <2> QED
    BY <1>4, <1>5, <1>7, <2>2
    DEF TablesTyped, SocketsTyped, ScreensTyped, QueuesTyped, CountsTyped
<1>10. Pending' = Pending /\ Underway' = Underway
  BY <1>4 DEF Pending, Underway, InQueue
<1>11. \A q \in ItemPages : Has(q)' <=> Has(q)
  BY <1>4, <1>7, <1>8 DEF Has
<1>12. ASSUME item[p].shown
       PROVE  Latest(p)' = Latest(p)
  BY <1>4, <1>5, <1>7, <1>8, <1>12 DEF Latest
<1>13. /\ WillFail => WillFail'
       /\ (\A k \in DOMAIN toPage[Me] : toPage[Me][k].event # "error")
             => \A k \in DOMAIN toPage'[Me] : toPage'[Me][k].event # "error"
  <2>1. (\E k \in DOMAIN toPage[p] : toPage[p][k].event = "error")
           <=> \E k \in DOMAIN rest : rest[k].event = "error"
    BY <1>4, <1>5 DEF InQueue
  <2> QED
    BY <1>8, <2>1 DEF WillFail
<1>14. p = Author => item[Author].shown
  BY <1>4 DEF ItemTrue, PagesTrue
<1>15. PagesTrue'
  BY <1>4, <1>7, <1>8, <1>10, <1>13, <1>14 DEF ItemTrue, PagesTrue
<1>16. CASE p = Author
  <2>1. Latest(Author)' = Latest(Author) /\ calm'[Author] = calm[Author]
    BY <1>4, <1>12, <1>14, <1>16 DEF CountsTyped
  <2>2. Latest(Me)' = Latest(Me)
    BY <1>4, <1>8, <1>16 DEF Latest
  <2>3. ModeratorTrue'
    BY <1>4, <1>8, <1>11, <1>16, <2>2 DEF ItemTrue, ModeratorTrue
  <2>4. AuthorTrue' /\ SavesTrue'
    BY <1>4, <1>7, <1>8, <1>10, <1>11, <1>13, <1>16, <2>1
    DEF ItemTrue, AuthorTrue, SavesTrue
  <2> QED
    BY <1>9, <1>15, <2>3, <2>4 DEF ItemTrue
<1>17. CASE p = Me
  <2>1. Latest(Author)' = Latest(Author) /\ calm'[Author] = calm[Author]
    BY <1>4, <1>8, <1>17 DEF Latest
  <2>2. ModeratorTrue'
    BY <1>4, <1>8, <1>11, <1>12, <1>17 DEF ItemTrue, ModeratorTrue
  <2>3. AuthorTrue' /\ SavesTrue'
    BY <1>4, <1>8, <1>10, <1>11, <1>13, <1>17, <2>1 DEF ItemTrue, AuthorTrue, SavesTrue
  <2> QED
    BY <1>9, <1>15, <2>2, <2>3 DEF ItemTrue
<1> QED
  BY <1>16, <1>17

\* A connection is lost, with what was on it.
LEMMA DropKeeps == ASSUME ItemInv, NEW p \in ItemPages, Item!Drop(p)
                   PROVE  ItemInv'
<1> USE TwoPages DEF ItemInv, ItemTyped
<1>1. /\ socket[p] \in {"connecting", "open"} /\ drops < MaxDrops /\ drops' = drops + 1
      /\ socket' = [socket EXCEPT ![p] = "down"] /\ room' = room \ {p}
      /\ toPage' = [toPage EXCEPT ![p] = <<>>] /\ calm' = [calm EXCEPT ![p] = FALSE]
      /\ UNCHANGED <<itemRow, itemTicket, fetch, item, editing, field, editor, touched, onTime,
                     typed, saves, itemOpens, moves>>
  BY DEF Item!Drop, Item!tables, Item!pageVars
<1>2. drops' \in 0 .. MaxDrops
  <2>1. drops \in Nat /\ MaxDrops \in Nat
    BY PagesBounds DEF CountsTyped
  <2> QED
    BY <1>1, <2>1
<1>3. TablesTyped' /\ SocketsTyped' /\ ScreensTyped' /\ CountsTyped'
  BY <1>1, <1>2 DEF TablesTyped, SocketsTyped, ScreensTyped, CountsTyped
<1>4. /\ toPage' \in [ItemPages -> Seq(Item!Event)] /\ toPage'[p] = <<>> /\ ~calm'[p]
      /\ \A q \in ItemPages \ {p} : toPage'[q] = toPage[q] /\ calm'[q] = calm[q]
      /\ \A q \in ItemPages : Has(q)' <=> Has(q)
      /\ \A q \in ItemPages : socket'[q] = "none" => socket[q] = "none"
  BY <1>1 DEF QueuesTyped, CountsTyped, SocketsTyped, Has
<1>5. CASE p = Author
  <2>1. /\ toServer' = Item!Others(toServer)
        /\ running' = {Item!Orphaned(u) : u \in running}
        /\ stored' = Item!OrphanedAll(stored)
    BY <1>5 DEF Item!Drop
  <2>2. /\ toServer' \in Seq(Item!Update) /\ Item!OrphansFirst(toServer')
        /\ InQueue(toServer') \subseteq InQueue(toServer)
    BY <2>1, OthersOf DEF QueuesTyped
  <2>3. /\ stored' \in Seq(Item!Update)
        /\ stored' = <<>> <=> stored = <<>>
        /\ InQueue(stored') = {Item!Orphaned(u) : u \in InQueue(stored)}
        /\ Len(stored') = Len(stored)
        /\ \A i \in DOMAIN stored : stored'[i] = Item!Orphaned(stored[i])
    BY <2>1, OrphanedMany DEF QueuesTyped
  <2>4. running' \subseteq Item!Update
    BY <2>1, OrphanedOne DEF QueuesTyped
  <2>5. \A u \in running \cup InQueue(stored) : u \in Item!Update
    BY DEF InQueue, QueuesTyped
  <2>6. stored # <<>> => stored'[Len(stored')].text = stored[Len(stored)].text
    <3> SUFFICES ASSUME stored # <<>>
                 PROVE  stored'[Len(stored')].text = stored[Len(stored)].text
      OBVIOUS
    <3>1. Len(stored) \in DOMAIN stored /\ stored[Len(stored)] \in Item!Update
      BY DEF QueuesTyped
    <3> QED
      BY <2>3, <3>1, OrphanedOne
  <2>7. \A u \in Pending' : \E v \in Pending :
           u.n = v.n /\ u.text = v.text /\ u.touched = v.touched /\ u.onTime = v.onTime
    BY <2>1, <2>2, <2>5, OrphanedOne DEF Pending
  <2>8. \A u \in Underway' : u.mine => u \in Underway
    BY <2>1, <2>2, <2>3, <2>5, OrphanedOne DEF Underway, Pending
  <2>9. QueuesTyped'
    BY <1>4, <2>2, <2>3, <2>4 DEF QueuesTyped
  <2>10. PagesTrue'
    <3>1. \A u \in Pending' : u.n =< saves
      BY <2>7 DEF ItemTrue, PagesTrue
    <3> QED
      BY <1>1, <1>4, <1>5, <2>8, <3>1 DEF ItemTrue, PagesTrue
  <2>11. ModeratorTrue'
    <3>1. Latest(Me)' = Latest(Me)
      BY <1>1, <1>4, <1>5, <2>3, <2>6 DEF Latest
    <3> QED
      BY <1>1, <1>4, <1>5, <3>1 DEF ItemTrue, ModeratorTrue
  <2>12. AuthorTrue'
    BY <1>4, <1>5 DEF AuthorTrue
  <2>13. SavesTrue'
    BY <1>1, <1>4, <1>5, <2>7 DEF ItemTrue, SavesTrue
  <2> QED
    BY <1>3, <2>9, <2>10, <2>11, <2>12, <2>13 DEF ItemTrue
<1>6. CASE p = Me
  <2>1. UNCHANGED <<toServer, running, stored>>
    BY <1>6 DEF Item!Drop
  <2>2. QueuesTyped'
    BY <1>4, <2>1 DEF QueuesTyped
  <2>3. Pending' = Pending /\ Underway' = Underway /\ (WillFail' <=> WillFail)
    BY <1>4, <1>6, <2>1 DEF Pending, Underway, InQueue, WillFail
  <2>4. PagesTrue'
    BY <1>1, <1>4, <1>6, <2>3 DEF ItemTrue, PagesTrue
  <2>5. ModeratorTrue'
    BY <1>4, <1>6 DEF ModeratorTrue
  <2>6. Latest(Author)' = Latest(Author)
    BY <1>1, <1>4, <1>6, <2>1 DEF Latest
  <2>7. AuthorTrue' /\ SavesTrue'
    BY <1>1, <1>4, <1>6, <2>1, <2>3, <2>6 DEF ItemTrue, AuthorTrue, SavesTrue
  <2> QED
    BY <1>3, <2>2, <2>4, <2>5, <2>7 DEF ItemTrue
<1> QED
  BY <1>5, <1>6

-----------------------------------------------------------------------------
\* Every step keeps the invariant.
LEMMA NextItemInv == ItemInv /\ [Item!Next]_(Item!vars) => ItemInv'
<1> SUFFICES ASSUME ItemInv, [Item!Next]_(Item!vars) PROVE ItemInv'
  OBVIOUS
<1> USE TwoPages
<1>1. ASSUME NEW p \in ItemPages, Item!PageStep(p) PROVE ItemInv'
  BY <1>1, OpenKeeps, ConnectKeeps, LeftKeeps, ShowKeeps, TakeOverKeeps, DropKeeps
  DEF Item!PageStep, Item!Leave, Item!FetchFails, Item!HearError
<1>2. CASE Item!ReadAsAuthor \/ \E m \in {Me} : Item!ReadAsModerator(m)
  BY <1>2, ReadKeeps
<1>3. CASE Item!Edit
  BY <1>3, EditKeeps, SaveKeeps DEF Item!Edit
<1>4. CASE Item!GatewayStep
  BY <1>4, StartKeeps, StoreKeeps, FailKeeps, BroadcastKeeps DEF Item!GatewayStep
<1>5. CASE \E m \in {Me} \cup {Null} : Item!Move(m)
  BY <1>5, MoveKeeps
<1>6. CASE UNCHANGED Item!vars
  <2>1. ItemTrue'
    BY <1>6, ItemTrueUnchanged
    DEF Item!vars, Item!tables, Item!pageVars, Item!wires, Item!counts, ItemInv, itemStateVars
  <2>2. ItemTyped'
    BY <1>6 DEF Item!vars, Item!tables, Item!pageVars, Item!wires, Item!counts, ItemInv,
       ItemTyped, TablesTyped, SocketsTyped, ScreensTyped, QueuesTyped, CountsTyped
  <2> QED
    BY <2>1, <2>2 DEF ItemInv
<1> QED
  BY <1>1, <1>2, <1>3, <1>4, <1>5, <1>6 DEF Item!Next

\* ReviewedItem's type invariant.
THEOREM ItemIsTyped == Item!Spec => []Item!TypeOK
<1>1. ItemInv => Item!TypeOK
  BY ItemTypes DEF ItemInv
<1> QED
  BY InitItemInv, NextItemInv, <1>1, PTL DEF Item!Spec

\* When nothing is on its way, author and moderator look at what is stored, and the
\* author's editor holds it (argument and debate review pages, debates.gateway.ts).
THEOREM ItemHolds == Item!Spec => []ItemInStep
<1>1. ItemInv => ItemInStep
  <2> SUFFICES ASSUME ItemInv, ~Item!Unanswered, NEW p \in ItemPages,
                      item[p].shown, toPage[p] = <<>>, calm[p]
               PROVE  /\ item[p].text = itemRow
                      /\ p = Author /\ ~editing => editor = itemRow["content"]
    BY TwoPages DEF ItemInStep, Item!ItemInStep
  <2>1. running = {} /\ stored = <<>> /\ toServer = <<>> /\ toPage[Author] = <<>>
    BY DEF Item!Unanswered, Item!InTheApi
  <2>2. Pending = {} /\ ~WillFail /\ Has(p) /\ Latest(p) = item[p].text
    BY <2>1 DEF Pending, InQueue, WillFail, Has, Latest
  <2> QED
    BY <2>1, <2>2, TwoPages DEF ItemInv, ItemTrue, ModeratorTrue, AuthorTrue
<1> QED
  BY InitItemInv, NextItemInv, <1>1, PTL DEF Item!Spec

\* A save that began when nothing was unanswered changes only what was typed, although
\* the page sends every field (onUpdateArgument, updateArgument).
THEOREM SavesOnlyTyped == Item!Spec => UntouchedStays
<1> DEFINE Change == \A f \in Item!Fields : itemRow'[f] # itemRow[f] =>
                        \E u \in running \ running' :
                            f \in u.touched \/ ~u.onTime \/ u.n # saves
<1>1. ItemInv /\ [Item!Next]_(Item!vars) => [Change]_(Item!vars)
  <2> SUFFICES ASSUME ItemInv, Item!Next, NEW f \in Item!Fields, itemRow'[f] # itemRow[f]
               PROVE  \E u \in running \ running' :
                         f \in u.touched \/ ~u.onTime \/ u.n # saves
    OBVIOUS
  <2>1. PICK u \in running : Item!Store(u) \/ Item!StoreUnconfirmed(u)
    BY DEF Item!Next, Item!PageStep, Item!Edit, Item!GatewayStep, Item!Open, Item!Join,
       Item!Leave, Item!FetchFails, Item!ShowItem, Item!TakeOver, Item!HearError, Item!Drop,
       Item!Reconnect, Item!ReadAsAuthor, Item!ReadAsModerator, Item!ReadItem,
       Item!StartEditing, Item!Type, Item!CancelChanges, Item!SaveChanges,
       Item!StartHandler, Item!HandlerFails, Item!Broadcast, Item!Move, Item!tables
  <2>2. u \notin running' /\ itemRow' = u.text
    BY <2>1 DEF Item!Store, Item!StoreUnconfirmed, Item!Failed, Item!Write
  <2>3. u \in Pending
    BY DEF Pending
  <2>4. u.onTime /\ u.n = saves /\ f \notin u.touched => u.text[f] = itemRow[f]
    BY <2>3 DEF ItemInv, ItemTrue, SavesTrue
  <2> QED
    BY <2>2, <2>4
<1>2. (Item!Spec => [][Change]_(Item!vars)) => (Item!Spec => UntouchedStays)
  BY DEF UntouchedStays, Item!UntouchedStays
<1>3. Item!Spec => [][Change]_(Item!vars)
  BY InitItemInv, NextItemInv, <1>1, PTL DEF Item!Spec
<1> QED
  BY <1>2, <1>3

-----------------------------------------------------------------------------
(* All pages together.                                                     *)

\* The type invariant of the pages: that of every part, whatever the others do.
THEOREM PagesTyped == PagesSpec => []PagesTypeOK
<1>1. Search!Spec => []SearchInv
  <2>1. SearchInv /\ [Search!Next]_(Search!vars) => SearchInv'
    BY NextSearchTyped, NextSearchesTrue, NextLastIsCurrent DEF SearchInv
  <2> QED
    BY <2>1, InitSearchInv, PTL DEF Search!Spec
<1>2. Form!Spec => []FInv
  BY InitFInv, NextFInv, PTL DEF Form!Spec
<1>3. Inbox!Spec => []InboxInv
  BY InitInboxInv, NextInboxInv, PTL DEF Inbox!Spec
<1>4. /\ SearchInv => Search!TypeOK
      /\ FInv => Form!TypeOK
      /\ InboxInv => Inbox!TypeOK
  BY DEF SearchInv, SearchTyped, FInv, FormTyped, InboxInv
<1>5. /\ BoardTypeOK
      /\ Inbox!TypeOK /\ Cache!TypeOK /\ Reading!TypeOK
      /\ Item!TypeOK /\ Form!TypeOK /\ Search!TypeOK
      => PagesTypeOK
  BY DEF PagesTypeOK
<1> QED
  BY <1>1, <1>2, <1>3, <1>4, <1>5, BoardTyped, CacheTyped, ReadingIsTyped, ItemIsTyped, PTL
  DEF PagesSpec

=============================================================================
