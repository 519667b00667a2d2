---------------------------- MODULE ApiProcessProofs ----------------------------
(***************************************************************************)
(* What a shutdown promises, for any number of connections and any size of *)
(* the pool, whatever fails, hangs or leaves.                              *)
(***************************************************************************)
EXTENDS ApiProcess, FiniteSetTheorems, TLAPS

Types ==
    /\ link \in [Conns -> {"none", "open", "gone"}]
    /\ step \in [Conns -> {"idle"} \cup BeforeHeaders \cup AfterHeaders]

\* Nobody waits for a refused request, and it is on no connection that a client
\* could open anew.
RefusedAlone ==
    \A c \in Conns :
        /\ link[c] = "open" => step[c] # "refused"
        /\ link[c] = "none" => step[c] \notin {"arrived", "refused"}

\* The pool ends after the last connection, and nothing listens any more.
ServerBeforePool == PoolEnding => \A c \in Conns : link[c] # "open"

\* Redis is closed after the last client of the pool came back.
PoolBeforeRedis ==
    closing \in {"redis", "closed"} =>
        leaked = 0 /\ \A c \in Conns : step[c] \notin {"querying", "hung"}

\* Only a closing that returned settles on 0; without a signal nothing closes.
ClosedBeforeZero ==
    /\ code = "0" => closing = "closed"
    /\ heard = {} => closing = "no"

IInv == Types /\ RefusedAlone /\ ServerBeforePool /\ PoolBeforeRedis /\ ClosedBeforeZero

\* Nothing is open, held or closing at the start.
LEMMA InitIInv == Init => IInv
  BY DEF Init, IInv, Types, RefusedAlone, ServerBeforePool, PoolEnding,
         PoolBeforeRedis, ClosedBeforeZero

\* The start of the process.
LEMMA StartIInv == ASSUME IInv, Started \/ StartFails
                   PROVE  IInv'
  BY DEF Started, StartFails, connVars, poolVars, closeVars, IInv, Types, RefusedAlone,
         ServerBeforePool, PoolEnding, PoolBeforeRedis, ClosedBeforeZero

\* Connections come only before the server closes; requests on those that are open.
LEMMA OutsideIInv == ASSUME IInv, NEW c \in Conns,
                            \/ Accept(c) \/ HangUp(c) \/ KeepAliveEnds(c)
                            \/ \E k \in Kinds : Arrive(c, k)
                     PROVE  IInv'
<1> USE DEF IInv, Types, RefusedAlone, ServerBeforePool, PoolEnding, PoolBeforeRedis,
            ClosedBeforeZero, BeforeHeaders, AfterHeaders, GoTo, poolVars, closeVars
<1>1. CASE Accept(c)
  BY <1>1 DEF Accept, Listening
<1>2. CASE HangUp(c)
  BY <1>2 DEF HangUp
<1>3. CASE KeepAliveEnds(c)
  BY <1>3 DEF KeepAliveEnds
<1>4. ASSUME NEW k \in Kinds, Arrive(c, k)
      PROVE  IInv'
  BY <1>4 DEF Arrive
<1> QED
  BY <1>1, <1>2, <1>3, <1>4

\* An ending pool refuses, and grants nothing.
LEMMA ServeIInv == ASSUME IInv, NEW c \in Conns,
                          Serve(c) \/ QueryFails(c) \/ Hang(c)
                   PROVE  IInv'
<1> USE DEF IInv, Types, RefusedAlone, ServerBeforePool, PoolEnding, PoolBeforeRedis,
            ClosedBeforeZero, BeforeHeaders, AfterHeaders, GoTo, poolVars, closeVars
<1>1. CASE Connect(c)
  BY <1>1 DEF Connect
<1>2. CASE QueryEnds(c)
  BY <1>2 DEF QueryEnds, AfterQuery
<1>3. CASE SendHeaders(c)
  BY <1>3 DEF SendHeaders
<1>4. CASE EndStream(c)
  BY <1>4 DEF EndStream
<1>5. CASE Finish(c)
  BY <1>5 DEF Finish
<1>6. CASE QueryFails(c)
  BY <1>6 DEF QueryFails
<1>7. CASE Hang(c)
  BY <1>7 DEF Hang
<1> QED
  BY <1>1, <1>2, <1>3, <1>4, <1>5, <1>6, <1>7 DEF Serve

\* The sweep and the pool's queue.
LEMMA GrantSweepIInv == ASSUME IInv, Grant \/ Sweep
                        PROVE  IInv'
<1> USE DEF IInv, Types, RefusedAlone, ServerBeforePool, PoolEnding, PoolBeforeRedis,
            ClosedBeforeZero, BeforeHeaders, AfterHeaders, GoTo, closeVars
<1>1. CASE Grant
  BY <1>1 DEF Grant
<1>2. CASE Sweep
  BY <1>2 DEF Sweep, WithoutIdle, poolVars
<1> QED
  BY <1>1, <1>2

\* Signals, and the steps of the closing in their order.
LEMMA CloseIInv == ASSUME IInv,
                          \/ \E s \in Signals : Receive(s)
                          \/ CloseStep \/ CloseFails \/ TimeOut \/ Exit
                   PROVE  IInv'
<1> USE DEF IInv, Types, RefusedAlone, ServerBeforePool, PoolEnding, PoolBeforeRedis,
            ClosedBeforeZero, connVars, poolVars, closeVars
<1>1. ASSUME NEW s \in Signals, Receive(s)
      PROVE  IInv'
  BY <1>1 DEF Receive
<1>2. CASE CompleteStreams
  BY <1>2 DEF CompleteStreams
<1>3. CASE CloseServer
  BY <1>3 DEF CloseServer, WithoutIdle
<1>4. CASE EndPool
  BY <1>4 DEF EndPool, ServerClosed
<1>5. CASE CloseRedis
  BY <1>5 DEF CloseRedis, PoolEnded, Holders
<1>6. CASE CloseReturns
  BY <1>6 DEF CloseReturns
<1>7. CASE CloseFails \/ TimeOut \/ Exit
  BY <1>7 DEF CloseFails, TimeOut, Exit
<1> QED
  BY <1>1, <1>2, <1>3, <1>4, <1>5, <1>6, <1>7 DEF CloseStep

\* Every step keeps the order of the closing.
LEMMA NextIInv == IInv /\ [Next]_vars => IInv'
<1> SUFFICES ASSUME IInv, [Next]_vars
             PROVE  IInv'
  OBVIOUS
<1>1. CASE Started \/ StartFails
  BY <1>1, StartIInv
<1>2. CASE Outside
  BY <1>2, OutsideIInv, CloseIInv DEF Outside
<1>3. ASSUME NEW c \in Conns, Serve(c) \/ QueryFails(c) \/ Hang(c)
      PROVE  IInv'
  BY <1>3, ServeIInv
<1>4. CASE Grant \/ Sweep
  BY <1>4, GrantSweepIInv
<1>5. CASE CloseStep \/ CloseFails \/ TimeOut \/ Exit
  BY <1>5, CloseIInv
<1>6. CASE UNCHANGED vars
  BY <1>6 DEF vars, connVars, poolVars, closeVars, IInv, Types, RefusedAlone,
              ServerBeforePool, PoolEnding, PoolBeforeRedis, ClosedBeforeZero
<1> QED
  BY <1>1, <1>2, <1>3, <1>4, <1>5, <1>6 DEF Next

\* The order of the closing is kept in every run of the process.
THEOREM Ordered == Spec => []IInv
  BY InitIInv, NextIInv, PTL DEF Spec

\* No handler whose client still waits meets the ending of the pool (closeApp:
\* app.close() before PG_PROVIDER's end), however many connections there are and
\* whatever came after the signal.
THEOREM PoolOutlives == Spec => []PoolOutlivesRequests
<1>1. IInv => PoolOutlivesRequests
  BY DEF IInv, RefusedAlone, ServerBeforePool, PoolOutlivesRequests
<1> QED
  BY <1>1, Ordered, PTL

\* Exit code 0 (runShutdown) means that everybody was answered and every client
\* of the pool came back.
THEOREM ZeroIsClean == Spec => []CleanExit
<1>1. IInv => CleanExit
  <2> SUFFICES ASSUME IInv, code = "0"
               PROVE  /\ \A c \in Conns : link[c] # "open"
                      /\ Holders = {} /\ leaked = 0
    BY DEF CleanExit
  <2>1. closing = "closed" /\ PoolEnding
    BY DEF IInv, ClosedBeforeZero, PoolEnding
  <2> QED
    BY <2>1 DEF IInv, ServerBeforePool, PoolBeforeRedis, Holders
<1> QED
  BY <1>1, Ordered, PTL

-----------------------------------------------------------------------------
(* The pool: who holds a client, who waits for one, and in which order.    *)

\* The queue holds each connection that waits, once.
QueueOf(w, s) ==
    /\ w \in Seq(Conns)
    /\ \A i, j \in 1 .. Len(w) : w[i] = w[j] => i = j
    /\ \A c \in Conns : s[c] = "waiting" <=> \E i \in 1 .. Len(w) : w[i] = c

\* A client that is out is with a request or lost; what is not open has no request.
PoolInv ==
    /\ Types
    /\ QueueOf(waiters, step)
    /\ leaked \in Nat /\ Cardinality(Holders) + leaked =< PoolSize
    /\ \A c \in Conns : link[c] = "none" => step[c] = "idle"

\* Those who hold a client are finitely many.
LEMMA HoldersFinite == IsFiniteSet(Holders) /\ Cardinality(Holders) \in Nat
<1>1. Holders \subseteq Conns
  BY DEF Holders
<1> QED
  BY <1>1, ConnsAreFinite, FS_Subset, FS_CardinalityType

\* What neither queues, grants nor gives back leaves the pool as it is.
LEMMA PoolUntouched ==
    ASSUME PoolInv, waiters' = waiters, leaked' = leaked,
           step' \in [Conns -> {"idle"} \cup BeforeHeaders \cup AfterHeaders],
           \A c \in Conns : /\ step'[c] = "waiting" <=> step[c] = "waiting"
                            /\ step'[c] \in {"querying", "hung"}
                               <=> step[c] \in {"querying", "hung"}
    PROVE  /\ QueueOf(waiters, step)'
           /\ leaked' \in Nat /\ Cardinality(Holders') + leaked' =< PoolSize
<1>1. Holders' = Holders
  BY DEF Holders
<1> QED
  BY <1>1 DEF PoolInv, QueueOf

\* The pool does not depend on what connections do without a request.
LEMMA PoolSame ==
    ASSUME PoolInv, UNCHANGED <<waiters, leaked, step>>,
           link' \in [Conns -> {"none", "open", "gone"}],
           \A c \in Conns : link'[c] = "none" => link[c] = "none" \/ step[c] = "idle"
    PROVE  PoolInv'
<1>1. Types'
  BY DEF PoolInv, Types
<1>2. Holders' = Holders
  BY DEF Holders
<1> QED
  BY <1>1, <1>2 DEF PoolInv, QueueOf

\* A statement that hangs keeps its client out.
LEMMA HungHolds == ASSUME PoolInv, NEW c \in Conns, Hang(c)
                   PROVE  \A d \in Conns : step'[d] \in {"querying", "hung"}
                                             <=> step[d] \in {"querying", "hung"}
  BY DEF PoolInv, Types, Hang, GoTo

\* A request that does not wait takes a free client.
LEMMA PoolTakes ==
    ASSUME PoolInv, NEW c \in Conns, step[c] \notin {"querying", "hung"}, Free > 0,
           leaked' = leaked, step' = [step EXCEPT ![c] = "querying"]
    PROVE  leaked' \in Nat /\ Cardinality(Holders') + leaked' =< PoolSize
<1>1. Holders' = Holders \cup {c} /\ c \notin Holders
  BY DEF Holders, PoolInv, Types
<1>2. Cardinality(Holders') = Cardinality(Holders) + 1
  BY <1>1, HoldersFinite, FS_AddElement
<1> QED
  BY <1>2, HoldersFinite, PoolSizeIsNat DEF PoolInv, Free

\* A request that ends gives its client back or keeps it for good.
LEMMA PoolGivesBack ==
    ASSUME PoolInv, NEW c \in Conns, step[c] \in {"querying", "hung"}, NEW s,
           s \notin {"querying", "hung", "waiting"},
           s \in {"idle"} \cup BeforeHeaders \cup AfterHeaders,
           leaked' \in {leaked, leaked + 1}, waiters' = waiters,
           step' = [step EXCEPT ![c] = s]
    PROVE  /\ QueueOf(waiters, step)'
           /\ leaked' \in Nat /\ Cardinality(Holders') + leaked' =< PoolSize
<1>1. Holders' = Holders \ {c} /\ c \in Holders
  BY DEF Holders, PoolInv, Types
<1>2. Cardinality(Holders') = Cardinality(Holders) - 1
  BY <1>1, HoldersFinite, FS_RemoveElement
<1>3. QueueOf(waiters, step)'
  BY DEF PoolInv, QueueOf, Types
<1> QED
  BY <1>2, <1>3, HoldersFinite, PoolSizeIsNat DEF PoolInv

\* A request that has to wait goes to the end of the queue.
LEMMA PoolQueues ==
    ASSUME PoolInv, NEW c \in Conns, step[c] = "arrived",
           leaked' = leaked, waiters' = Append(waiters, c),
           step' = [step EXCEPT ![c] = "waiting"]
    PROVE  /\ QueueOf(waiters, step)'
           /\ leaked' \in Nat /\ Cardinality(Holders') + leaked' =< PoolSize
<1>1. Holders' = Holders
  BY DEF Holders, PoolInv, Types
<1>2. /\ waiters \in Seq(Conns) /\ Len(waiters) \in Nat
      /\ waiters' \in Seq(Conns) /\ Len(waiters') = Len(waiters) + 1
      /\ \A i \in 1 .. Len(waiters) : waiters'[i] = waiters[i]
      /\ waiters'[Len(waiters) + 1] = c
  BY DEF PoolInv, QueueOf
<1>3. \A i \in 1 .. Len(waiters) : waiters[i] # c
  BY DEF PoolInv, QueueOf
<1>4. \A i, j \in 1 .. Len(waiters') : waiters'[i] = waiters'[j] => i = j
  BY <1>2, <1>3 DEF PoolInv, QueueOf
<1>5. ASSUME NEW d \in Conns
      PROVE  step'[d] = "waiting" <=> \E i \in 1 .. Len(waiters') : waiters'[i] = d
  <2>1. CASE d = c
    BY <2>1, <1>2 DEF PoolInv, Types
  <2>2. CASE d # c
    <3>1. step'[d] = step[d]
      BY <2>2 DEF PoolInv, Types
    <3> QED
      BY <3>1, <2>2, <1>2 DEF PoolInv, QueueOf
  <2> QED
    BY <2>1, <2>2
<1> QED
  BY <1>1, <1>2, <1>4, <1>5 DEF PoolInv, QueueOf

\* The first who waits is served and leaves the queue.
LEMMA PoolGrants ==
    ASSUME PoolInv, Grant
    PROVE  /\ QueueOf(waiters, step)' /\ Head(waiters) \in Conns
           /\ step[Head(waiters)] = "waiting"
           /\ leaked' \in Nat /\ Cardinality(Holders') + leaked' =< PoolSize
<1> DEFINE c == Head(waiters)
<1>1. /\ waiters \in Seq(Conns) /\ Len(waiters) \in Nat /\ Len(waiters) > 0
      /\ c = waiters[1] /\ c \in Conns
      /\ waiters' \in Seq(Conns) /\ Len(waiters') = Len(waiters) - 1
      /\ \A i \in 1 .. Len(waiters') : waiters'[i] = waiters[i + 1]
  BY DEF PoolInv, QueueOf, Grant
<1>2. step[c] = "waiting"
  BY <1>1 DEF PoolInv, QueueOf
<1>3. step' = [step EXCEPT ![c] = "querying"]
  BY DEF Grant, GoTo
<1>4. leaked' \in Nat /\ Cardinality(Holders') + leaked' =< PoolSize
  BY <1>1, <1>2, <1>3, PoolTakes DEF Grant
<1>5. \A i, j \in 1 .. Len(waiters') : waiters'[i] = waiters'[j] => i = j
  BY <1>1 DEF PoolInv, QueueOf
<1>6. ASSUME NEW d \in Conns
      PROVE  step'[d] = "waiting" <=> \E i \in 1 .. Len(waiters') : waiters'[i] = d
  <2>1. CASE d = c
    <3>1. ASSUME NEW i \in 1 .. Len(waiters'), waiters'[i] = d
          PROVE  FALSE
      BY <3>1, <2>1, <1>1 DEF PoolInv, QueueOf
    <3> QED
      BY <3>1, <2>1, <1>3 DEF PoolInv, Types
  <2>2. CASE d # c
    <3>1. step'[d] = step[d]
      BY <2>2, <1>3 DEF PoolInv, Types
    <3>2. ASSUME NEW i \in 1 .. Len(waiters), waiters[i] = d
          PROVE  i - 1 \in 1 .. Len(waiters') /\ waiters'[i - 1] = d
      BY <3>2, <2>2, <1>1
    <3>3. (\E i \in 1 .. Len(waiters) : waiters[i] = d)
             <=> \E i \in 1 .. Len(waiters') : waiters'[i] = d
      BY <3>2, <1>1
    <3> QED
      BY <3>1, <3>3 DEF PoolInv, QueueOf
  <2> QED
    BY <2>1, <2>2
<1> QED
  BY <1>1, <1>2, <1>4, <1>5, <1>6 DEF QueueOf

\* Connections, signals and the shutdown give nobody a client and take none back.
LEMMA OtherPool == ASSUME IInv, PoolInv,
                          \/ Started \/ StartFails \/ Outside \/ Sweep
                          \/ CloseStep \/ CloseFails \/ TimeOut \/ Exit
                   PROVE  PoolInv'
<1> USE DEF IInv, Types, PoolInv, connVars, poolVars, closeVars
<1>1. CASE Started \/ StartFails \/ Exit
  BY <1>1, PoolSame DEF Started, StartFails, Exit
<1>2. ASSUME NEW c \in Conns, NEW k \in Kinds, Arrive(c, k)
      PROVE  PoolInv'
  BY <1>2, PoolUntouched DEF Arrive, GoTo, BeforeHeaders
<1>3. ASSUME NEW c \in Conns, Accept(c) \/ KeepAliveEnds(c)
      PROVE  PoolInv'
  BY <1>3, PoolSame DEF Accept, KeepAliveEnds
<1>4. ASSUME NEW c \in Conns, HangUp(c)
      PROVE  PoolInv'
  BY <1>4, PoolUntouched DEF HangUp, GoTo
<1>5. CASE Sweep \/ CloseServer
  BY <1>5, PoolSame DEF Sweep, CloseServer, WithoutIdle
<1>6. ASSUME NEW s \in Signals, Receive(s)
      PROVE  PoolInv'
  BY <1>6, PoolSame DEF Receive
<1>7. CASE CompleteStreams \/ EndPool \/ CloseRedis \/ CloseReturns \/ CloseFails \/ TimeOut
  BY <1>7, PoolSame DEF CompleteStreams, EndPool, CloseRedis, CloseReturns, CloseFails, TimeOut
<1> QED
  BY <1>1, <1>2, <1>3, <1>4, <1>5, <1>6, <1>7 DEF Outside, CloseStep

\* A request asks for a client, uses it and gives it back.
LEMMA RequestPool == ASSUME IInv, PoolInv, NEW c \in Conns,
                            Serve(c) \/ QueryFails(c) \/ Hang(c)
                     PROVE  PoolInv'
<1> USE DEF Types, PoolInv, GoTo, BeforeHeaders, AfterHeaders
<1>1. CASE Connect(c)
  <2>1. CASE PoolEnding
    BY <1>1, <2>1, PoolUntouched DEF Connect
  <2>2. CASE ~PoolEnding /\ step'[c] = "waiting"
    <3>1. waiters' = Append(waiters, c) /\ step' = [step EXCEPT ![c] = "waiting"]
      BY <1>1, <2>2 DEF Connect
    <3>2. step[c] = "arrived" /\ leaked' = leaked /\ link' = link
      BY <1>1 DEF Connect
    <3> QED
      BY <3>1, <3>2, PoolQueues
  <2>3. CASE ~PoolEnding /\ step'[c] # "waiting"
    <3>1. /\ waiters' = waiters /\ step' = [step EXCEPT ![c] = "querying"]
          /\ Free > 0 /\ step[c] = "arrived" /\ leaked' = leaked /\ link' = link
      BY <1>1, <2>3 DEF Connect
    <3>2. leaked' \in Nat /\ Cardinality(Holders') + leaked' =< PoolSize
      BY <3>1, PoolTakes
    <3> QED
      BY <3>1, <3>2 DEF QueueOf
  <2> QED
    BY <2>1, <2>2, <2>3
<1>2. CASE QueryEnds(c)
  <2>1. /\ AfterQuery(c) \notin {"querying", "hung", "waiting"}
        /\ AfterQuery(c) \in {"idle"} \cup BeforeHeaders \cup AfterHeaders
    BY DEF AfterQuery
  <2>2. /\ step' = [step EXCEPT ![c] = AfterQuery(c)] /\ step[c] = "querying"
        /\ UNCHANGED <<link, waiters, leaked>>
    BY <1>2 DEF QueryEnds, poolVars
  <2>3. /\ QueueOf(waiters, step)'
        /\ leaked' \in Nat /\ Cardinality(Holders') + leaked' =< PoolSize
    BY <2>1, <2>2, PoolGivesBack
  <2> QED
    BY <2>1, <2>2, <2>3
<1>3. CASE SendHeaders(c)
  BY <1>3, PoolUntouched DEF SendHeaders, poolVars
<1>4. CASE EndStream(c)
  BY <1>4, PoolUntouched DEF EndStream, poolVars
<1>5. CASE Finish(c)
  BY <1>5, PoolUntouched DEF Finish, poolVars
<1>6. CASE QueryFails(c)
  BY <1>6, PoolGivesBack DEF QueryFails
<1>7. CASE Hang(c)
  BY <1>7, PoolUntouched, HungHolds DEF Hang, poolVars
<1> QED
  BY <1>1, <1>2, <1>3, <1>4, <1>5, <1>6, <1>7 DEF Serve

\* No step hands out a client the pool does not have, or serves out of turn.
LEMMA NextPoolInv == IInv /\ PoolInv /\ [Next]_vars => PoolInv'
<1> SUFFICES ASSUME IInv, PoolInv, [Next]_vars
             PROVE  PoolInv'
  OBVIOUS
<1>1. CASE Grant
  <2>1. IInv'
    BY NextIInv
  <2>2. \A c \in Conns : link'[c] = "none" => step'[c] = "idle"
    BY <1>1, PoolGrants DEF Grant, GoTo, PoolInv, Types
  <2> QED
    BY <1>1, <2>1, <2>2, PoolGrants DEF PoolInv, IInv
<1>2. CASE UNCHANGED vars
  BY <1>2 DEF vars, connVars, poolVars, PoolInv, Types, QueueOf, Holders
<1> QED
  BY <1>1, <1>2, OtherPool, RequestPool DEF Next

\* Nobody holds or waits for a client at the start.
LEMMA InitPoolInv == Init => PoolInv
<1> SUFFICES ASSUME Init
             PROVE  PoolInv
  OBVIOUS
<1>1. Holders = {}
  BY DEF Init, Holders
<1>2. Cardinality(Holders) = 0
  BY <1>1, FS_EmptySet
<1> QED
  BY <1>2, InitIInv, PoolSizeIsNat DEF Init, IInv, PoolInv, QueueOf

\* What TypeOK says beyond the pool.
FlagTypes ==
    /\ process \in {"starting", "up", "exited", "killed"}
    /\ kind \in [Conns -> Kinds]
    /\ close \in [Conns -> {"no", "header", "listener"}]
    /\ heard \subseteq Signals
    /\ closing \in ToSet(ClosingSteps) \cup {"failed"}
    /\ completed \in BOOLEAN /\ sweep \in BOOLEAN
    /\ code \in {"none", "0", "1"}

\* The steps of a closing, as a set.
LEMMA ClosingStepsSet ==
    ToSet(ClosingSteps)
        = {"no", "destroying", "destroyed", "serving", "pool", "redis", "closed"}
<1>1. DOMAIN ClosingSteps = 1 .. 7
  BY DEF ClosingSteps
<1> QED
  BY <1>1 DEF ClosingSteps, ToSet

\* Every step keeps the types of the rest.
LEMMA NextFlagTypes == FlagTypes /\ [Next]_vars => FlagTypes'
<1> SUFFICES ASSUME FlagTypes, [Next]_vars
             PROVE  FlagTypes'
  OBVIOUS
<1> USE ClosingStepsSet DEF FlagTypes, connVars, poolVars, closeVars
<1>1. CASE Started \/ StartFails
  BY <1>1 DEF Started, StartFails
<1>2. CASE Outside
  <2>1. ASSUME NEW c \in Conns,
               Accept(c) \/ HangUp(c) \/ KeepAliveEnds(c) \/ \E k \in Kinds : Arrive(c, k)
        PROVE  FlagTypes'
    BY <2>1 DEF Accept, HangUp, KeepAliveEnds, Arrive, CloseOnArrival
  <2>2. ASSUME NEW s \in Signals, Receive(s)
        PROVE  FlagTypes'
    BY <2>2 DEF Receive, DrainOf
  <2> QED
    BY <1>2, <2>1, <2>2 DEF Outside
<1>3. ASSUME NEW c \in Conns, Serve(c) \/ QueryFails(c) \/ Hang(c)
      PROVE  FlagTypes'
  BY <1>3 DEF Serve, Connect, QueryEnds, SendHeaders, EndStream, Finish, QueryFails, Hang
<1>4. CASE Grant \/ Sweep
  BY <1>4 DEF Grant, Sweep
<1>5. CASE CloseStep \/ CloseFails \/ TimeOut \/ Exit
  BY <1>5 DEF CloseStep, CompleteStreams, CloseServer, EndPool, CloseRedis, CloseReturns,
              CloseFails, TimeOut, Exit
<1>6. CASE UNCHANGED vars
  BY <1>6 DEF vars
<1> HIDE DEF FlagTypes, connVars, poolVars, closeVars
<1> QED
  BY <1>1, <1>2, <1>3, <1>4, <1>5, <1>6 DEF Next

\* The pool (packages/db, pg's Pool) never has more clients out than it has, lost
\* ones included, and its queue holds exactly the requests that wait, whatever the
\* size of the pool and the number of connections.
THEOREM PoolNotOverdrawn == Spec => []PoolInv
  BY InitIInv, NextIInv, InitPoolInv, NextPoolInv, PTL DEF Spec

\* Type correctness; clients that are lost are never more than the pool has.
THEOREM TypesHold == Spec => []TypeOK
<1>1. Init => FlagTypes
  <2> SUFFICES ASSUME Init
               PROVE  FlagTypes
    OBVIOUS
  <2>1. closing \in ToSet(ClosingSteps)
    BY ClosingStepsSet DEF Init
  <2>2. kind \in [Conns -> Kinds] /\ close \in [Conns -> {"no", "header", "listener"}]
    BY DEF Init, Kinds
  <2> QED
    BY <2>1, <2>2 DEF Init, FlagTypes
<1>2. PoolInv /\ FlagTypes => TypeOK
  <2> SUFFICES ASSUME PoolInv, FlagTypes
               PROVE  TypeOK
    OBVIOUS
  <2>1. leaked \in 0 .. PoolSize
    BY HoldersFinite, PoolSizeIsNat DEF PoolInv
  <2>2. waiters \in Seq(Conns) /\ \A c \in Conns : step[c] = "waiting" <=> c \in ToSet(waiters)
    <3>1. waiters \in Seq(Conns) /\ DOMAIN waiters = 1 .. Len(waiters)
      BY DEF PoolInv, QueueOf
    <3> QED
      BY <3>1 DEF PoolInv, QueueOf, ToSet
  <2> QED
    BY <2>1, <2>2 DEF PoolInv, Types, FlagTypes, TypeOK
<1> QED
  BY <1>1, <1>2, PoolNotOverdrawn, NextFlagTypes, PTL DEF Spec

-----------------------------------------------------------------------------
(* The drain reaches every response.                                        *)

\* Whoever is asked from the signal on closes with the answer.
LEMMA NextDrainReaches == ASSUME TypeOK, TypeOK', DrainReaches, [Next]_vars
                          PROVE  DrainReaches'
<1> USE DEF TypeOK, DrainReaches, Draining, GoTo, connVars, poolVars, closeVars
<1>1. ASSUME UNCHANGED <<heard, step, close>>,
             \A c \in Conns : link'[c] = "open" => link[c] = "open" \/ step[c] = "idle"
      PROVE  DrainReaches'
  BY <1>1
<1>2. ASSUME NEW c \in Conns, UNCHANGED <<heard, link, close>>,
             \A b \in Conns \ {c} : step'[b] = step[b], step[c] # "idle" \/ step'[c] = "idle"
      PROVE  DrainReaches'
  BY <1>2
<1>3. CASE UNCHANGED <<heard, step, close, link>>
  BY <1>1, <1>3
<1>4. ASSUME NEW c \in Conns, Accept(c) \/ KeepAliveEnds(c)
      PROVE  DrainReaches'
  BY <1>1, <1>4 DEF Accept, KeepAliveEnds
<1>5. ASSUME NEW c \in Conns, HangUp(c)
      PROVE  DrainReaches'
  BY <1>5 DEF HangUp
<1>6. ASSUME NEW c \in Conns, NEW k \in Kinds, Arrive(c, k)
      PROVE  DrainReaches'
  BY <1>6 DEF Arrive, CloseOnArrival
<1>7. ASSUME NEW s \in Signals, Receive(s)
      PROVE  DrainReaches'
  <2>1. CASE s \in heard
    BY <1>3, <1>7, <2>1 DEF Receive
  <2>2. CASE s \notin heard /\ heard # {}
    BY <1>7, <2>2 DEF Receive
  <2>3. CASE s \notin heard /\ heard = {}
    <3>1. close' = [c \in Conns |-> DrainOf(c)] /\ UNCHANGED <<link, step>>
      BY <1>7, <2>3 DEF Receive
    <3>2. ASSUME NEW c \in Conns, link[c] = "open", step[c] # "idle"
          PROVE  DrainOf(c) # "no"
      BY <3>2 DEF DrainOf
    <3> QED
      BY <3>1, <3>2
  <2> QED
    BY <2>1, <2>2, <2>3
<1>8. CASE Outside
  BY <1>4, <1>5, <1>6, <1>7, <1>8 DEF Outside
<1>9. ASSUME NEW c \in Conns, Serve(c) \/ QueryFails(c) \/ Hang(c)
      PROVE  DrainReaches'
  <2>1. CASE Finish(c)
    BY <2>1 DEF Finish
  <2>2. CASE Connect(c)
    BY <1>2, <2>2 DEF Connect
  <2>3. CASE QueryEnds(c) \/ SendHeaders(c) \/ EndStream(c) \/ QueryFails(c) \/ Hang(c)
    BY <1>2, <2>3 DEF QueryEnds, SendHeaders, EndStream, QueryFails, Hang
  <2> QED
    BY <1>9, <2>1, <2>2, <2>3 DEF Serve
<1>10. CASE Grant
  <2>1. Head(waiters) \in Conns /\ step[Head(waiters)] = "waiting"
    <3>1. waiters \in Seq(Conns) /\ waiters # <<>>
      BY <1>10 DEF Grant
    <3>2. Head(waiters) = waiters[1] /\ 1 \in DOMAIN waiters /\ waiters[1] \in Conns
      BY <3>1
    <3>3. Head(waiters) \in ToSet(waiters)
      BY <3>2 DEF ToSet
    <3> QED
      BY <3>2, <3>3
  <2> QED
    BY <1>2, <1>10, <2>1 DEF Grant
<1>11. CASE Sweep \/ CloseServer
  <2>1. UNCHANGED <<heard, step, close>> /\ link' = WithoutIdle
    BY <1>11 DEF Sweep, CloseServer
  <2> QED
    BY <1>1, <2>1 DEF WithoutIdle
<1>12. CASE \/ Started \/ StartFails \/ CompleteStreams \/ EndPool \/ CloseRedis
            \/ CloseReturns \/ CloseFails \/ TimeOut \/ Exit
  BY <1>3, <1>12 DEF Started, StartFails, CompleteStreams, EndPool, CloseRedis,
                     CloseReturns, CloseFails, TimeOut, Exit
<1>13. CASE UNCHANGED vars
  BY <1>3, <1>13 DEF vars
<1> QED
  BY <1>8, <1>9, <1>10, <1>11, <1>12, <1>13 DEF Next, CloseStep

\* No request of a draining process is without the header or the listener that
\* closes its connection (connection-drain.ts), whenever it came.
THEOREM DrainReachesAll == Spec => []DrainReaches
<1>1. Init => DrainReaches
  BY DEF Init, DrainReaches, Draining
<1> QED
  BY <1>1, NextDrainReaches, TypesHold, PTL DEF Spec

\* So each connection gives at most the answer it owes when the signal comes, and one
\* that asks afterwards: what ShutdownEnds asks of clients that never tire.
THEOREM AnswersAreLast == Spec => LastAnswer
<1> DEFINE AnswersLast == Draining => \A c \in Conns :
                      link[c] = "open" /\ step[c] # "idle" /\ step'[c] = "idle" =>
                          link'[c] = "none" \/ sweep'
<1>1. ASSUME TypeOK, TypeOK', DrainReaches, [Next]_vars
      PROVE  [AnswersLast]_vars
  <2> SUFFICES ASSUME Draining, NEW c \in Conns, link[c] = "open", step[c] # "idle",
                      step'[c] = "idle"
               PROVE  link'[c] = "none" \/ sweep'
    OBVIOUS
  <2> USE <1>1 DEF TypeOK, GoTo, connVars, poolVars, closeVars
  <2>1. CASE Outside
    BY <2>1 DEF Outside, Accept, HangUp, KeepAliveEnds, Arrive, Receive
  <2>2. CASE Grant
    BY <2>2 DEF Grant
  <2>3. ASSUME NEW b \in Conns, Serve(b) \/ QueryFails(b) \/ Hang(b)
        PROVE  link'[c] = "none" \/ sweep'
    <3>1. CASE Finish(b)
      <4>1. b = c
        BY <3>1 DEF Finish
      <4>2. close[c] \in {"header", "listener"}
        BY DEF DrainReaches
      <4> QED
        BY <3>1, <4>1, <4>2 DEF Finish
    <3>2. CASE Connect(b)
      BY <3>2 DEF Connect
    <3>3. CASE QueryEnds(b) \/ SendHeaders(b) \/ EndStream(b) \/ QueryFails(b) \/ Hang(b)
      BY <3>3 DEF QueryEnds, AfterQuery, SendHeaders, EndStream, QueryFails, Hang
    <3> QED
      BY <2>3, <3>1, <3>2, <3>3 DEF Serve
  <2>4. CASE \/ Started \/ StartFails \/ Sweep \/ CloseStep \/ CloseFails \/ TimeOut \/ Exit
             \/ UNCHANGED vars
    <3>1. UNCHANGED step
      BY <2>4 DEF Started, StartFails, Sweep, CloseStep, CompleteStreams, CloseServer, EndPool,
                  CloseRedis, CloseReturns, CloseFails, TimeOut, Exit, vars
    <3> QED
      BY <3>1
  <2> QED
    BY <2>1, <2>2, <2>3, <2>4 DEF Next
<1>2. Spec => [][AnswersLast]_vars
  BY <1>1, DrainReachesAll, TypesHold, PTL DEF Spec
<1> QED
  BY <1>2 DEF LastAnswer
=============================================================================
