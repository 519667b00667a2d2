------------------------------ MODULE ApiProcess ------------------------------
(***************************************************************************)
(* One process of the API: its keep-alive connections and the requests on  *)
(* them, the pool of database clients, and the shutdown that a signal      *)
(* starts (apps/api connection-drain, shutdown and main, packages          *)
(* telemetry and db).                                                      *)
(*                                                                         *)
(* A request is of one of three kinds: "query" takes a client, runs its    *)
(* statement and gives the client back; "lookup" does so too, but keeps    *)
(* the client when the statement fails (or, in getAll, the filters);       *)
(* "stream" counts and then stays open until its client leaves or the      *)
(* notifications complete.  Websockets, closed by Nest before the server,  *)
(* and work that outlives its request are left out.                        *)
(***************************************************************************)
EXTENDS Naturals, FiniteSets, Sequences, SequencesExt

CONSTANTS
    Conns,          \* bound: connections at a time
    PoolSize        \* pg's max, the clients of the pool

ASSUME ConnsAreFinite == IsFiniteSet(Conns)
ASSUME PoolSizeIsNat == PoolSize \in Nat

VARIABLES
    process,        \* "starting", "up", "exited" or "killed"
    link,           \* by connection: "none", "open", or "gone" (client left)
    step,           \* where the request of the connection is
    kind,           \* its kind
    close,          \* what the drain has arranged for it
    waiters,        \* connections waiting for a client of the pool
    leaked,         \* clients nobody will give back
    heard,          \* signals received
    closing,        \* how far closeApp has got
    completed,      \* notifications$ has completed
    sweep,          \* a setImmediate(closeIdleConnections) is pending
    code            \* exit code runShutdown has settled on

connVars == <<link, step, kind, close>>
poolVars == <<waiters, leaked>>
closeVars == <<heard, closing, completed, sweep, code>>
vars == <<process, connVars, poolVars, closeVars>>

Kinds == {"query", "lookup", "stream"}
BeforeHeaders == {"arrived", "waiting", "querying", "hung", "refused", "answering"}
AfterHeaders == {"streaming", "sending"}
Signals == {"SIGTERM", "SIGINT"}
ClosingSteps == <<"no", "destroying", "destroyed", "serving", "pool", "redis", "closed">>

TypeOK ==
    /\ process \in {"starting", "up", "exited", "killed"}
    /\ link \in [Conns -> {"none", "open", "gone"}]
    /\ step \in [Conns -> {"idle"} \cup BeforeHeaders \cup AfterHeaders]
    /\ kind \in [Conns -> Kinds]
    /\ close \in [Conns -> {"no", "header", "listener"}]
    /\ waiters \in Seq(Conns)
    /\ leaked \in 0 .. PoolSize
    /\ heard \subseteq Signals
    /\ closing \in ToSet(ClosingSteps) \cup {"failed"}
    /\ completed \in BOOLEAN /\ sweep \in BOOLEAN
    /\ code \in {"none", "0", "1"}
    /\ \A c \in Conns : /\ step[c] = "waiting" <=> c \in ToSet(waiters)
                        /\ link[c] = "none" => step[c] = "idle"

Init ==
    /\ process = "starting"
    /\ link = [c \in Conns |-> "none"]
    /\ step = [c \in Conns |-> "idle"]
    /\ kind = [c \in Conns |-> "query"]
    /\ close = [c \in Conns |-> "no"]
    /\ waiters = <<>> /\ leaked = 0
    /\ heard = {} /\ closing = "no"
    /\ completed = FALSE /\ sweep = FALSE /\ code = "none"

Running == process = "up"
Draining == heard # {}
\* A closing that failed ends the process next, which accepts no more here.
Listening == Running /\ closing \in {"no", "destroying", "destroyed"}
PoolEnding == closing \in {"pool", "redis", "closed"}

Holders == {c \in Conns : step[c] \in {"querying", "hung"}}
Free == PoolSize - Cardinality(Holders) - leaked

GoTo(c, s) == step' = [step EXCEPT ![c] = s]

-----------------------------------------------------------------------------
(* Start.                                                                  *)

\* bootstrap: the pool's first statement and the Redis clients connect.
Started ==
    /\ process = "starting" /\ process' = "up"
    /\ UNCHANGED <<connVars, poolVars, closeVars>>

\* PG_PROVIDER exits with 1, and so does Nest when a provider rejects.
StartFails ==
    /\ process = "starting" /\ process' = "exited" /\ code' = "1"
    /\ UNCHANGED <<connVars, poolVars, heard, closing, completed, sweep>>

-----------------------------------------------------------------------------
(* Connections and requests.                                               *)

Accept(c) ==
    /\ Listening
    /\ link[c] = "none"
    /\ link' = [link EXCEPT ![c] = "open"]
    /\ UNCHANGED <<process, step, kind, close, poolVars, closeVars>>

\* Mutant of CloseOnArrival: the listener of the event forgets the drain.
NeverOnArrival == "no"

\* The "request" listener of trackConnectionsForDrain.
CloseOnArrival == IF Draining THEN "header" ELSE "no"

Arrive(c, k) ==
    /\ Running
    /\ link[c] = "open" /\ step[c] = "idle"
    /\ GoTo(c, "arrived")
    /\ kind' = [kind EXCEPT ![c] = k]
    /\ close' = [close EXCEPT ![c] = CloseOnArrival]
    /\ UNCHANGED <<process, link, poolVars, closeVars>>

\* pool.connect(): refused by a pool that is ending, else first come, first served.
Connect(c) ==
    /\ Running
    /\ step[c] = "arrived"
    /\ \/ /\ PoolEnding
          /\ GoTo(c, "refused") /\ UNCHANGED waiters
       \/ /\ ~PoolEnding /\ (Free = 0 \/ waiters # <<>>)
          /\ GoTo(c, "waiting") /\ waiters' = Append(waiters, c)
       \/ /\ ~PoolEnding /\ Free > 0 /\ waiters = <<>>
          /\ GoTo(c, "querying") /\ UNCHANGED waiters
    /\ UNCHANGED <<process, link, kind, close, leaked, closeVars>>

\* An ending pool serves nobody who waits.
Grant ==
    /\ Running
    /\ waiters # <<>> /\ Free > 0 /\ ~PoolEnding
    /\ GoTo(Head(waiters), "querying")
    /\ waiters' = Tail(waiters)
    /\ UNCHANGED <<process, link, kind, close, leaked, closeVars>>

\* Headers of a stream go out with the count; a completed subject ends it at once.
AfterQuery(c) ==
    IF kind[c] # "stream" THEN "answering"
    ELSE IF link[c] = "gone" \/ completed THEN "sending"
    ELSE "streaming"

QueryEnds(c) ==
    /\ Running
    /\ step[c] = "querying"
    /\ GoTo(c, AfterQuery(c))
    /\ UNCHANGED <<process, link, kind, close, poolVars, closeVars>>

\* finally { client.release() }, which getOneByEmailOrUsername does not have.
QueryFails(c) ==
    /\ Running
    /\ step[c] = "querying"
    /\ GoTo(c, "answering")
    /\ leaked' = IF kind[c] = "lookup" THEN leaked + 1 ELSE leaked
    /\ UNCHANGED <<process, link, kind, close, waiters, closeVars>>

\* The database never answers.
Hang(c) ==
    /\ Running
    /\ step[c] = "querying"
    /\ GoTo(c, "hung")
    /\ UNCHANGED <<process, link, kind, close, poolVars, closeVars>>

SendHeaders(c) ==
    /\ Running
    /\ step[c] \in {"answering", "refused"}
    /\ GoTo(c, "sending")
    /\ UNCHANGED <<process, link, kind, close, poolVars, closeVars>>

EndStream(c) ==
    /\ Running
    /\ step[c] = "streaming" /\ completed
    /\ GoTo(c, "sending")
    /\ UNCHANGED <<process, link, kind, close, poolVars, closeVars>>

\* "Connection: close" ends the connection with the response; the listener of
\* "finish" schedules a sweep of the idle ones.
Finish(c) ==
    /\ Running
    /\ step[c] = "sending"
    /\ GoTo(c, "idle")
    /\ link' = [link EXCEPT ![c] = IF @ = "gone" \/ close[c] = "header" THEN "none" ELSE @]
    /\ sweep' = (sweep \/ (close[c] = "listener" /\ link[c] = "open"))
    /\ close' = [close EXCEPT ![c] = "no"]
    /\ UNCHANGED <<process, kind, poolVars, heard, closing, completed, code>>

\* Mutant of WithoutIdle: closeAllConnections.
WithoutAny == [c \in Conns |-> "none"]

WithoutIdle == [c \in Conns |-> IF step[c] = "idle" THEN "none" ELSE link[c]]

Sweep ==
    /\ Running
    /\ sweep /\ sweep' = FALSE
    /\ link' = WithoutIdle
    /\ UNCHANGED <<process, step, kind, close, poolVars, heard, closing, completed, code>>

\* keepAliveTimeout
KeepAliveEnds(c) ==
    /\ Running
    /\ link[c] = "open" /\ step[c] = "idle"
    /\ link' = [link EXCEPT ![c] = "none"]
    /\ UNCHANGED <<process, step, kind, close, poolVars, closeVars>>

\* A client leaves.  A stream ends with it, any other request goes on.
HangUp(c) ==
    /\ Running
    /\ link[c] = "open"
    /\ IF step[c] \in {"idle", "streaming"}
       THEN link' = [link EXCEPT ![c] = "none"] /\ GoTo(c, "idle")
       ELSE link' = [link EXCEPT ![c] = "gone"] /\ UNCHANGED step
    /\ UNCHANGED <<process, kind, close, poolVars, closeVars>>

-----------------------------------------------------------------------------
(* Shutdown.                                                               *)

\* startDrainingConnections, for each response in flight.
DrainOf(c) ==
    CASE link[c] = "open" /\ step[c] \in BeforeHeaders -> "header"
      [] link[c] = "open" /\ step[c] \in AfterHeaders -> "listener"
      [] OTHER -> close[c]

\* handleShutdownSignals and the first statement of closeApp.  Each signal has a
\* process.once, so the same signal again meets Node's default and kills.
Receive(signal) ==
    /\ Running
    /\ IF signal \in heard
       THEN /\ process' = "killed"
            /\ UNCHANGED <<heard, closing, close>>
       ELSE /\ heard' = heard \cup {signal}
            /\ IF heard = {}
               THEN /\ closing' = "destroying"
                    /\ close' = [c \in Conns |-> DrainOf(c)]
               ELSE UNCHANGED <<closing, close>>
            /\ UNCHANGED process
    /\ UNCHANGED <<link, step, kind, poolVars, completed, sweep, code>>

\* app.close() runs onModuleDestroy of every module first.
CompleteStreams ==
    /\ Running
    /\ closing = "destroying" /\ closing' = "destroyed"
    /\ completed' = TRUE
    /\ UNCHANGED <<process, connVars, poolVars, heard, sweep, code>>

\* server.close() closes what is idle and waits for the rest.
CloseServer ==
    /\ Running
    /\ closing = "destroyed" /\ closing' = "serving"
    /\ link' = WithoutIdle
    /\ UNCHANGED <<process, step, kind, close, poolVars, heard, completed, sweep, code>>

\* Mutant of ServerClosed: nothing waits for the server.
NotWaiting == TRUE

ServerClosed == \A c \in Conns : link[c] # "open"

EndPool ==
    /\ Running
    /\ closing = "serving" /\ ServerClosed
    /\ closing' = "pool"
    /\ UNCHANGED <<process, connVars, poolVars, heard, completed, sweep, code>>

\* Mutant of PoolEnded: end() does not wait for clients that are out.
EndedAnyTime == TRUE

PoolEnded == Holders = {} /\ leaked = 0

CloseRedis ==
    /\ Running
    /\ closing = "pool" /\ PoolEnded
    /\ closing' = "redis"
    /\ UNCHANGED <<process, connVars, poolVars, heard, completed, sweep, code>>

CloseReturns ==
    /\ Running
    /\ closing = "redis" /\ closing' = "closed"
    /\ code' = IF code = "none" THEN "0" ELSE code
    /\ UNCHANGED <<process, connVars, poolVars, heard, completed, sweep>>

\* A hook, the pool or a Redis client rejects; what was not closed stays open.
CloseFails ==
    /\ Running
    /\ closing \in {"destroying", "destroyed", "serving", "redis"}
    /\ closing' = "failed"
    /\ code' = IF code = "none" THEN "1" ELSE code
    /\ UNCHANGED <<process, connVars, poolVars, heard, completed, sweep>>

\* Something that only the timeout can end.
Stuck == leaked > 0 \/ \E c \in Conns : step[c] = "hung"

\* withTimeout: closeApp itself goes on, with nobody waiting for it.  Steps that
\* are not stuck are taken to be done within the 15 s.
TimeOut ==
    /\ Running
    /\ heard # {} /\ code = "none" /\ Stuck
    /\ code' = "1"
    /\ UNCHANGED <<process, connVars, poolVars, heard, closing, completed, sweep>>

\* shutdownTelemetry, which has a timeout of its own and never rejects.
Exit ==
    /\ Running
    /\ code # "none"
    /\ process' = "exited"
    /\ UNCHANGED <<connVars, poolVars, closeVars>>

-----------------------------------------------------------------------------
\* The network and the clients.
Outside ==
    \/ \E c \in Conns : \/ Accept(c) \/ HangUp(c) \/ KeepAliveEnds(c)
                        \/ \E k \in Kinds : Arrive(c, k)
    \/ \E s \in Signals : Receive(s)

\* What the event loop and the database do with a request.
Serve(c) ==
    \/ Connect(c) \/ QueryEnds(c) \/ SendHeaders(c) \/ EndStream(c) \/ Finish(c)

CloseStep ==
    CompleteStreams \/ CloseServer \/ EndPool \/ CloseRedis \/ CloseReturns

Next ==
    \/ Started \/ StartFails
    \/ Outside
    \/ \E c \in Conns : Serve(c) \/ QueryFails(c) \/ Hang(c)
    \/ Grant \/ Sweep
    \/ CloseStep \/ CloseFails \/ TimeOut \/ Exit

Fairness ==
    /\ \A c \in Conns : WF_vars(Serve(c)) /\ WF_vars(KeepAliveEnds(c))
    /\ WF_vars(Grant) /\ WF_vars(Sweep)
    /\ WF_vars(CloseStep) /\ WF_vars(TimeOut) /\ WF_vars(Exit)

Spec == Init /\ [][Next]_vars
FairSpec == Spec /\ Fairness

-----------------------------------------------------------------------------
(* Properties.                                                             *)

\* Requests use the pool until app.close() returns (shutdown.ts): no handler whose
\* client still waits is refused a client by the ending pool, not even on a
\* connection that was opened, or asked again, while the shutdown was under way or
\* after its timeout; nor does it wait in a queue the pool no longer serves.
PoolOutlivesRequests ==
    \A c \in Conns : link[c] = "open" =>
        step[c] # "refused" /\ (PoolEnding => step[c] # "waiting")

\* Exit code 0 means that every request was answered to whoever still waited for
\* it, and that every client of the pool was given back: also those of handlers
\* whose own client had left, which the server does not wait for.
CleanExit ==
    process = "exited" /\ code = "0" =>
        /\ \A c \in Conns : link[c] = "open" => step[c] = "idle"
        /\ Holders = {} /\ leaked = 0

\* From the signal on, no response keeps its connection: the drain has reached every
\* request that somebody waits for, also on connections accepted since, and
\* when the request ends its connection closes or is about to be swept.
DrainReaches ==
    Draining => \A c \in Conns :
        link[c] = "open" /\ step[c] # "idle" => close[c] # "no"

LastAnswer ==
    [][Draining => \A c \in Conns :
          link[c] = "open" /\ step[c] # "idle" /\ step'[c] = "idle" =>
              link'[c] = "none" \/ sweep']_vars

\* A shutdown ends: open streams, clients that keep asking on a connection of
\* their own, clients of the pool that are lost and statements that hang do not
\* keep the process.
ShutdownEnds == Draining ~> ~Running
=============================================================================
