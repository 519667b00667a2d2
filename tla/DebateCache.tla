----------------------------- MODULE DebateCache -----------------------------
(***************************************************************************)
(* The API's GET /debates/:id with its cached answer, and the approvals    *)
(* that delete it (controllers debates and moderator).                     *)
(*                                                                         *)
(* A process has one connection to the cache: commands are carried out in  *)
(* the order they are issued, and nobody waits for a set or a del.         *)
(* Statements of the database are on connections of their own and their    *)
(* results come in any order.                                              *)
(***************************************************************************)
EXTENDS Naturals, Sequences

CONSTANTS
    Args,           \* the debate's arguments
    None,           \* nothing cached
    Requests,       \* bound: requests for the debate at a time
    MaxChanges,     \* bound: approvals and other moves of tickets
    MaxCommands     \* bound: commands that wait when an answer is stored

VARIABLES
    published,      \* arguments on ACCEPTED
    undeleted,      \* approvals committed whose del is still to be issued
    changes,
    request,        \* [at, rows, late] by request
    cache,          \* cached arguments, or None
    commands,       \* set and del, issued and not yet carried out
    stale           \* history: the cached answer has an excuse, see CacheIsTrue

vars == <<published, undeleted, changes, request, cache, commands, stale>>

Command == [op : {"del"}] \cup [op : {"set"}, rows : SUBSET Args, late : BOOLEAN]
Request == [at : {"none", "cache", "database", "read"}, rows : SUBSET Args,
            late : BOOLEAN]
Idle == [at |-> "none", rows |-> {}, late |-> FALSE]

TypeOK ==
    /\ published \subseteq Args /\ undeleted \subseteq Args
    /\ changes \in 0 .. MaxChanges
    /\ request \in [Requests -> Request]
    /\ cache \in {None} \cup SUBSET Args
    /\ commands \in Seq(Command)
    /\ stale \in BOOLEAN

Init ==
    /\ published \in SUBSET Args
    /\ undeleted = {} /\ changes = 0
    /\ request = [r \in Requests |-> Idle]
    /\ cache = None /\ commands = <<>> /\ stale = FALSE

-----------------------------------------------------------------------------
\* approveTicket commits.
Approve(a) ==
    /\ changes < MaxChanges /\ a \notin published
    /\ published' = published \cup {a} /\ changes' = changes + 1
    /\ undeleted' = undeleted \cup {a}
    /\ UNCHANGED <<request, cache, commands, stale>>

\* Mutant of Deletes: the deletion of the key forgotten.
NoDeletion == FALSE

\* Whether approveArgument issues cache.del, which nobody waits for.
Deletes == TRUE

\* What was read and not yet handled will be stored after the deletion.
AnswerApproval(a) ==
    /\ a \in undeleted /\ undeleted' = undeleted \ {a}
    /\ commands' = IF Deletes THEN Append(commands, [op |-> "del"]) ELSE commands
    /\ request' = [r \in Requests |->
                      [request[r] EXCEPT !.late = @ \/ request[r].at = "read"]]
    /\ UNCHANGED <<published, changes, cache, stale>>

\* updateTicket moves an accepted ticket off the list: nothing is deleted.
TakeOff(a) ==
    /\ changes < MaxChanges /\ a \in published
    /\ published' = published \ {a} /\ changes' = changes + 1
    /\ stale' = TRUE
    /\ request' = [r \in Requests |->
                      [request[r] EXCEPT !.late = @ \/ request[r].at = "read"]]
    /\ commands' = [i \in DOMAIN commands |->
                       IF commands[i].op = "set"
                       THEN [commands[i] EXCEPT !.late = TRUE] ELSE commands[i]]
    /\ UNCHANGED <<undeleted, cache>>

\* The reader's server component asks, once per page.
Ask(r) ==
    /\ request[r].at = "none"
    /\ request' = [request EXCEPT ![r].at = "cache"]
    /\ UNCHANGED <<published, undeleted, changes, cache, commands, stale>>

\* The get is carried out after what was issued before it.
CacheHit(r) ==
    /\ request[r].at = "cache" /\ commands = <<>>
    /\ cache # None
    /\ request' = [request EXCEPT ![r] = Idle]
    /\ UNCHANGED <<published, undeleted, changes, cache, commands, stale>>

\* A miss, or an error of the cache.
CacheMiss(r) ==
    /\ request[r].at = "cache"
    /\ request' = [request EXCEPT ![r].at = "database"]
    /\ UNCHANGED <<published, undeleted, changes, cache, commands, stale>>

\* The snapshot of getDebateArguments.
ReadDebate(r) ==
    /\ request[r].at = "database"
    /\ request' = [request EXCEPT ![r] = [at |-> "read", rows |-> published,
                                          late |-> FALSE]]
    /\ UNCHANGED <<published, undeleted, changes, cache, commands, stale>>

\* The result: cache.set is issued and the answer sent.
AnswerDebate(r) ==
    /\ request[r].at = "read" /\ Len(commands) < MaxCommands
    /\ commands' = Append(commands, [op |-> "set", rows |-> request[r].rows,
                                     late |-> request[r].late])
    /\ request' = [request EXCEPT ![r] = Idle]
    /\ UNCHANGED <<published, undeleted, changes, cache, stale>>

CarryOut ==
    /\ commands # <<>> /\ commands' = Tail(commands)
    /\ LET command == Head(commands) IN
       IF command.op = "del"
       THEN cache' = None /\ stale' = FALSE
       ELSE cache' = command.rows /\ stale' = command.late
    /\ UNCHANGED <<published, undeleted, changes, request>>

\* The cache is away: the error is dropped, the key keeps what it had.
CommandFails ==
    /\ commands # <<>> /\ commands' = Tail(commands)
    /\ stale' = (stale \/ Head(commands).op = "del")
    /\ UNCHANGED <<published, undeleted, changes, request, cache>>

\* EX: 60
Expire ==
    /\ cache # None
    /\ cache' = None /\ stale' = FALSE
    /\ UNCHANGED <<published, undeleted, changes, request, commands>>

-----------------------------------------------------------------------------
Next ==
    \/ \E a \in Args : Approve(a) \/ AnswerApproval(a) \/ TakeOff(a)
    \/ \E r \in Requests : \/ Ask(r) \/ CacheHit(r) \/ CacheMiss(r)
                           \/ ReadDebate(r) \/ AnswerDebate(r)
    \/ CarryOut \/ CommandFails \/ Expire

Spec == Init /\ [][Next]_vars

-----------------------------------------------------------------------------
(* Properties.                                                             *)

\* What is cached is what is published, once the deletions of all approvals have
\* been carried out, but for three excuses: an argument was taken off ACCEPTED,
\* which deletes nothing; the deletion failed; or the cached rows had been read
\* before an approval and were handled after its deletion.  Rows read before an
\* approval and handled before it is answered do no harm.
CacheIsTrue ==
    cache \notin {None, published} =>
        \/ undeleted # {}
        \/ \E i \in DOMAIN commands : commands[i].op = "del"
        \/ stale
=============================================================================
