------------------------- MODULE NotificationsProofs -------------------------
(* Theorems about Notifications, for any events, accounts and limits.       *)
EXTENDS Notifications, TLAPS

USE Limits, NobodyIsNoAccount, NoneIsNoPayload

-----------------------------------------------------------------------------
(* The inductive invariant.  RowsAccounted counts a recipient's rows by     *)
(* unseen, so what bounds the rows is a bound on unseen: each time a job    *)
(* does not learn what it stored it pays with an attempt or with a stall,   *)
(* and it has only so many of both before it has failed.                    *)

Untouched(e) ==
    job[e] = "none" =>
        unseen[e] = 0 /\ published[e] = 0 /\ \A r \in Accounts : rows[e][r] = 0

Accounted(e) ==
    job[e] # "none" =>
        \A r \in Accounts :
            rows[e][r] = IF r \in Recipients(e)
                         THEN unseen[e] + (IF HasRows(e) THEN 1 ELSE 0)
                         ELSE 0

Paid(e) ==
    /\ unseen[e] <= attemptsMade[e] + stalledCounter[e]
                      + (IF job[e] = "stalled" THEN 1 ELSE 0)
    /\ job[e] # "failed" => /\ attemptsMade[e] < MaxAttempts
                            /\ stalledCounter[e] <= MaxStalls
    /\ attemptsMade[e] + stalledCounter[e] <= MaxAttempts + MaxStalls

Addressed(e) ==
    /\ HasRows(e) \/ unseen[e] > 0 => Recipients(e) \subseteq Accounts
    /\ published[e] > 0 => HasRows(e) \/ unseen[e] > 0

EventInv(e) == Untouched(e) /\ Accounted(e) /\ Paid(e) /\ Addressed(e)

IInv == TypeOK /\ \A e \in Events : EventInv(e)

-----------------------------------------------------------------------------
(* A step about some events leaves what is known of the others alone.       *)
LEMMA OtherEvents ==
    ASSUME NEW f \in Events, EventInv(f),
           payload'[f] = payload[f], job'[f] = job[f],
           attemptsMade'[f] = attemptsMade[f],
           stalledCounter'[f] = stalledCounter[f], rows'[f] = rows[f],
           published'[f] = published[f], unseen'[f] = unseen[f]
    PROVE  EventInv(f)'
  BY DEF EventInv, Untouched, Accounted, Paid, Addressed, HasRows, Recipients

\* Nothing is announced yet.
LEMMA InitIInv == Init => IInv
<1> SUFFICES ASSUME Init PROVE IInv
  OBVIOUS
<1>1. TypeOK
  BY DEF Init, TypeOK, States
<1>2. ASSUME NEW e \in Events PROVE EventInv(e)
  BY DEF Init, EventInv, Untouched, Accounted, Paid, Addressed, HasRows
<1> QED
  BY <1>1, <1>2 DEF IInv

\* What the type says of one event.
LEMMA TypeOfEvent ==
    ASSUME TypeOK, NEW e \in Events
    PROVE  /\ payload[e] \in Payload \cup {None}
           /\ job[e] \in States
           /\ job[e] # "none" => payload[e] \in Payload
           /\ attemptsMade[e] \in 0 .. MaxAttempts
           /\ stalledCounter[e] \in 0 .. MaxStalls + 1
           /\ rows[e] \in [Accounts -> Nat]
           /\ published[e] \in Nat
           /\ unseen[e] \in Nat
  BY DEF TypeOK

\* A step of the API, or of the worker that only moves a job on to another step
\* before it has stored anything.
LEMMA MoveOn ==
    ASSUME IInv, NEW e \in Events, NEW state \in States \ {"none", "stalled"},
           job[e] # "none", job[e] # "stalled", job[e] # "failed",
           Becomes(e, state), HasRows(e) <=> HasRows(e)',
           UNCHANGED <<payload, jobVars, rows, unseen, published, crashes>>
    PROVE  IInv'
<1>1. TypeOK'
  BY DEF IInv, TypeOK, Becomes, jobVars
<1>2. EventInv(e)'
  <2>1. Recipients(e)' = Recipients(e)
    BY DEF Recipients
  <2>2. job'[e] = state /\ EventInv(e)
    BY DEF IInv, TypeOK, Becomes
  <2> QED
    BY <2>1, <2>2 DEF EventInv, Untouched, Accounted, Paid, Addressed, jobVars
<1>3. ASSUME NEW f \in Events, f # e PROVE EventInv(f)'
  BY <1>3, OtherEvents DEF IInv, TypeOK, Becomes, jobVars
<1> QED
  BY <1>1, <1>2, <1>3 DEF IInv

-----------------------------------------------------------------------------
(* One lemma per action.                                                    *)

\* An event is announced, with no job of its own yet.
LEMMA AnnounceIInv ==
    ASSUME IInv, NEW e \in Events, NEW p \in Payload, Announce(e, p)
    PROVE  IInv'
<1>1. TypeOK'
  BY DEF IInv, TypeOK, Announce, Becomes, jobVars, States, InMemory
<1>2. EventInv(e)'
  <2>1. /\ job'[e] = "committed" /\ unseen'[e] = 0 /\ published'[e] = 0
        /\ \A r \in Accounts : rows'[e][r] = 0
    BY DEF Announce, Becomes, IInv, TypeOK, EventInv, Untouched, InMemory
  <2>2. ~HasRows(e)'
    BY <2>1 DEF HasRows
  <2>3. Accounted(e)'
    BY <2>1, <2>2 DEF Accounted
  <2>4. Paid(e)'
    <3>1. /\ attemptsMade'[e] = attemptsMade[e] /\ attemptsMade[e] \in Nat
          /\ stalledCounter'[e] = stalledCounter[e] /\ stalledCounter[e] \in Nat
          /\ job[e] = "none"
      BY DEF Announce, IInv, TypeOK, jobVars
    <3>2. Paid(e)
      BY DEF IInv, EventInv
    <3> QED
      BY <2>1, <3>1, <3>2 DEF Paid
  <2>5. Untouched(e)' /\ Addressed(e)'
    BY <2>1, <2>2 DEF Untouched, Addressed
  <2> QED
    BY <2>3, <2>4, <2>5 DEF EventInv
<1>3. ASSUME NEW f \in Events, f # e PROVE EventInv(f)'
  BY <1>3, OtherEvents DEF Announce, IInv, TypeOK, Becomes, jobVars
<1> QED
  BY <1>1, <1>2, <1>3 DEF IInv

\* The announced event becomes a waiting job, or is lost.
LEMMA EnqueueIInv ==
    ASSUME IInv, NEW e \in Events, Enqueue(e) \/ EnqueueFails(e)
    PROVE  IInv'
<1>1. PICK state \in {"waiting", "lost"} :
          /\ job[e] = InMemory
          /\ Becomes(e, state)
          /\ UNCHANGED <<payload, jobVars, rows, published, unseen, crashes>>
  BY DEF Enqueue, EnqueueFails
<1>2. job'[e] = state
  BY <1>1 DEF Becomes, IInv, TypeOK
<1>3. HasRows(e) <=> HasRows(e)'
  BY <1>1, <1>2 DEF HasRows, InMemory
<1>4. state \in States \ {"none", "stalled"}
  BY DEF States, Queued
<1> QED
  BY <1>1, <1>3, <1>4, MoveOn DEF InMemory

\* What was announced and not enqueued is lost with the process.
LEMMA ApiStopsIInv ==
    ASSUME IInv, ApiStops
    PROVE  IInv'
<1>1. TypeOK'
  BY DEF IInv, TypeOK, ApiStops, jobVars, States, InMemory
<1>2. ASSUME NEW f \in Events PROVE EventInv(f)'
  <2>1. EventInv(f) /\ job'[f] = IF job[f] = InMemory THEN "lost" ELSE job[f]
    BY DEF IInv, ApiStops
  <2>2. HasRows(f)' <=> HasRows(f)
    BY <2>1 DEF HasRows, InMemory
  <2>3. Recipients(f)' = Recipients(f)
    BY DEF Recipients, ApiStops
  <2> QED
    BY <2>1, <2>2, <2>3
    DEF ApiStops, EventInv, Untouched, Accounted, Paid, Addressed, jobVars, InMemory
<1> QED
  BY <1>1, <1>2 DEF IInv

\* Steps of the worker and of BullMQ that only move the job on.
LEMMA StepIInv ==
    ASSUME IInv, NEW e \in Events,
           TakeJob(e) \/ Retry(e) \/ PublishFails(e) \/ Complete(e)
    PROVE  IInv'
<1>1. PICK state \in {"active", "waiting", "published", "completed"} :
          Becomes(e, state)
            /\ UNCHANGED <<payload, jobVars, rows, published, unseen, crashes>>
  BY DEF TakeJob, Retry, PublishFails, Complete
<1>2. job'[e] = state
  BY <1>1 DEF Becomes, IInv, TypeOK
<1>3. HasRows(e) <=> HasRows(e)'
  BY DEF TakeJob, Retry, PublishFails, Complete, HasRows, Becomes, IInv, TypeOK
<1>4. state \in States \ {"none", "stalled"}
  BY DEF States, Queued, Running, Settled
<1>5. job[e] \in {"waiting", "delayed", "stored", "published"}
  BY DEF TakeJob, Retry, PublishFails, Complete
<1> QED
  BY <1>1, <1>3, <1>4, <1>5, MoveOn

\* A stored event is published.
LEMMA PublishIInv ==
    ASSUME IInv, NEW e \in Events, Publish(e)
    PROVE  IInv'
<1>1. TypeOK'
  BY DEF IInv, TypeOK, Publish, Becomes, jobVars, States, Queued, Running
<1>2. EventInv(e)'
  <2>1. job'[e] = "published" /\ job[e] = "stored" /\ EventInv(e)
    BY DEF Publish, Becomes, IInv, TypeOK
  <2>2. Recipients(e)' = Recipients(e)
    BY DEF Recipients, Publish
  <2> QED
    BY <2>1, <2>2 DEF Publish, EventInv, Untouched, Accounted, Paid, Addressed,
                      HasRows, jobVars
<1>3. ASSUME NEW f \in Events, f # e PROVE EventInv(f)'
  BY <1>3, OtherEvents DEF Publish, IInv, TypeOK, Becomes, jobVars
<1> QED
  BY <1>1, <1>2, <1>3 DEF IInv

\* What a statement that commits leaves in the table.
LEMMA InsertRowsType ==
    ASSUME TypeOK, NEW e \in Events, InsertRows(e)
    PROVE  /\ rows' \in [Events -> [Accounts -> Nat]]
           /\ \A r \in Accounts : rows'[e][r] = IF r \in Recipients(e)
                                                THEN rows[e][r] + 1 ELSE rows[e][r]
           /\ \A f \in Events \ {e} : rows'[f] = rows[f]
<1> DEFINE new == [r \in Accounts |-> IF r \in Recipients(e) THEN rows[e][r] + 1
                                                             ELSE rows[e][r]]
<1>1. rows \in [Events -> [Accounts -> Nat]] /\ new \in [Accounts -> Nat]
  BY DEF TypeOK
<1>2. rows' = [rows EXCEPT ![e] = new]
  BY DEF InsertRows
<1>3. \A r \in Accounts : new[r] = IF r \in Recipients(e)
                                   THEN rows[e][r] + 1 ELSE rows[e][r]
  OBVIOUS
<1> HIDE DEF new
<1> QED
  BY <1>1, <1>2, <1>3

\* The worker stores the rows of its job.
LEMMA StoreIInv ==
    ASSUME IInv, NEW e \in Events, Store(e)
    PROVE  IInv'
<1>0. TypeOK /\ InsertRows(e) /\ job[e] = "active"
  BY DEF IInv, Store
<1>1. TypeOK'
  BY <1>0, InsertRowsType DEF TypeOK, Store, Becomes, jobVars, States, Queued, Running
<1>2. EventInv(e)'
  <2>1. job'[e] = "stored" /\ EventInv(e)
    BY DEF Store, Becomes, IInv, TypeOK
  <2>2. Recipients(e)' = Recipients(e) /\ Recipients(e) \subseteq Accounts
    BY <1>0 DEF Recipients, Store, InsertRows
  <2>3. Accounted(e)'
    BY <1>0, <2>1, <2>2, InsertRowsType, TypeOfEvent
    DEF Store, EventInv, Accounted, HasRows
  <2>4. Untouched(e)' /\ Paid(e)' /\ Addressed(e)'
    BY <1>0, <2>1, <2>2 DEF Store, EventInv, Untouched, Paid, Addressed, HasRows, jobVars
  <2> QED
    BY <2>3, <2>4 DEF EventInv
<1>3. ASSUME NEW f \in Events, f # e PROVE EventInv(f)'
  <2>1. rows'[f] = rows[f]
    BY <1>0, <1>3, InsertRowsType
  <2> QED
    BY <1>3, <2>1, OtherEvents DEF Store, IInv, TypeOK, Becomes, jobVars
<1> QED
  BY <1>1, <1>2, <1>3 DEF IInv

\* What a failed attempt does to the job.
LEMMA AttemptFailsType ==
    ASSUME IInv, NEW e \in Events, job[e] = "active", AttemptFails(e)
    PROVE  /\ attemptsMade' \in [Events -> 0 .. MaxAttempts]
           /\ attemptsMade'[e] = attemptsMade[e] + 1
           /\ job' \in [Events -> States]
           /\ job'[e] = IF attemptsMade[e] + 1 < MaxAttempts THEN "delayed" ELSE "failed"
           /\ \A f \in Events \ {e} :
                  attemptsMade'[f] = attemptsMade[f] /\ job'[f] = job[f]
<1>1. attemptsMade[e] \in Nat /\ attemptsMade[e] < MaxAttempts
  BY DEF IInv, TypeOK, EventInv, Paid
<1> QED
  BY <1>1 DEF AttemptFails, Becomes, IInv, TypeOK, States, Queued, Settled

\* An attempt fails and is counted.
LEMMA StoreFailsIInv ==
    ASSUME IInv, NEW e \in Events, StoreFails(e)
    PROVE  IInv'
<1>0. TypeOK /\ AttemptFails(e) /\ job[e] = "active"
  BY DEF IInv, StoreFails
<1>1. TypeOK'
  BY <1>0, AttemptFailsType DEF TypeOK, StoreFails
<1>2. EventInv(e)'
  <2>1. EventInv(e)
    BY DEF IInv
  <2>2. Recipients(e)' = Recipients(e)
    BY DEF Recipients, StoreFails
  <2>3. Accounted(e)'
    BY <1>0, <2>1, <2>2, AttemptFailsType, TypeOfEvent
    DEF StoreFails, EventInv, Accounted, HasRows
  <2>4. Untouched(e)' /\ Addressed(e)'
    BY <1>0, <2>1, <2>2, AttemptFailsType, TypeOfEvent
    DEF StoreFails, EventInv, Untouched, Addressed, HasRows
  <2>5. Paid(e)'
    BY <1>0, <2>1, AttemptFailsType, TypeOfEvent DEF StoreFails, EventInv, Paid
  <2> QED
    BY <2>3, <2>4, <2>5 DEF EventInv
<1>3. ASSUME NEW f \in Events, f # e PROVE EventInv(f)'
  BY <1>0, <1>3, AttemptFailsType, OtherEvents DEF StoreFails, IInv
<1> QED
  BY <1>1, <1>2, <1>3 DEF IInv

\* The rows are stored, but the attempt counts as failed.
LEMMA StoreUnconfirmedIInv ==
    ASSUME IInv, NEW e \in Events, StoreUnconfirmed(e)
    PROVE  IInv'
<1>0. TypeOK /\ InsertRows(e) /\ AttemptFails(e) /\ job[e] = "active"
  BY DEF IInv, StoreUnconfirmed
<1>1. TypeOK'
  BY <1>0, AttemptFailsType, InsertRowsType DEF TypeOK, StoreUnconfirmed
<1>2. EventInv(e)'
  <2>1. EventInv(e) /\ unseen'[e] = unseen[e] + 1
    BY DEF IInv, TypeOK, StoreUnconfirmed
  <2>2. Recipients(e)' = Recipients(e) /\ Recipients(e) \subseteq Accounts
    BY <1>0 DEF Recipients, StoreUnconfirmed, InsertRows
  <2>3. Accounted(e)'
    BY <1>0, <2>1, <2>2, InsertRowsType, AttemptFailsType, TypeOfEvent
    DEF EventInv, Accounted, HasRows
  <2>4. Untouched(e)' /\ Paid(e)' /\ Addressed(e)'
    BY <1>0, <2>1, <2>2, AttemptFailsType, TypeOfEvent
    DEF StoreUnconfirmed, EventInv, Untouched, Paid, Addressed, HasRows
  <2> QED
    BY <2>3, <2>4 DEF EventInv
<1>3. ASSUME NEW f \in Events, f # e PROVE EventInv(f)'
  <2>1. rows'[f] = rows[f]
    BY <1>0, <1>3, InsertRowsType
  <2> QED
    BY <1>0, <1>3, <2>1, AttemptFailsType, OtherEvents DEF StoreUnconfirmed, IInv, TypeOK
<1> QED
  BY <1>1, <1>2, <1>3 DEF IInv

\* The jobs a dead worker ran are stalled.
LEMMA WorkerDiesIInv ==
    ASSUME IInv, WorkerDies
    PROVE  IInv'
<1>1. TypeOK'
  BY DEF IInv, TypeOK, WorkerDies, jobVars, States, Queued, Running
<1>2. ASSUME NEW f \in Events PROVE EventInv(f)'
  <2>1. /\ EventInv(f)
        /\ job'[f] = IF job[f] \in Running THEN "stalled" ELSE job[f]
        /\ unseen'[f] = IF job[f] \in {"stored", "published"}
                        THEN unseen[f] + 1 ELSE unseen[f]
    BY DEF IInv, WorkerDies
  <2>2. Recipients(f)' = Recipients(f)
    BY DEF Recipients, WorkerDies
  <2>3. /\ rows' = rows /\ published' = published
        /\ attemptsMade' = attemptsMade /\ stalledCounter' = stalledCounter
    BY DEF WorkerDies, jobVars
  <2>4. Accounted(f)'
    BY <2>1, <2>2, <2>3, TypeOfEvent DEF IInv, EventInv, Accounted, HasRows, Running
  <2>5. Untouched(f)' /\ Addressed(f)'
    BY <2>1, <2>2, <2>3, TypeOfEvent
    DEF IInv, EventInv, Untouched, Addressed, HasRows, Running
  <2>6. Paid(f)'
    BY <2>1, <2>3, TypeOfEvent DEF IInv, EventInv, Paid, Running
  <2> QED
    BY <2>4, <2>5, <2>6 DEF EventInv
<1> QED
  BY <1>1, <1>2 DEF IInv

\* A stalled job waits again, or fails for good.
LEMMA RecoverStalledIInv ==
    ASSUME IInv, NEW e \in Events, RecoverStalled(e)
    PROVE  IInv'
<1>0. /\ stalledCounter[e] \in Nat /\ stalledCounter[e] <= MaxStalls
      /\ stalledCounter'[e] = stalledCounter[e] + 1
      /\ job'[e] = IF stalledCounter[e] + 1 > MaxStalls THEN "failed" ELSE "waiting"
      /\ job[e] = "stalled"
  BY DEF IInv, TypeOK, EventInv, Paid, RecoverStalled, Becomes
<1>1. TypeOK'
  BY <1>0 DEF IInv, TypeOK, RecoverStalled, Becomes, States, Queued, Settled
<1>2. EventInv(e)'
  <2>1. EventInv(e) /\ TypeOK
    BY DEF IInv
  <2>2. Recipients(e)' = Recipients(e)
    BY DEF Recipients, RecoverStalled
  <2>3. Paid(e)'
    BY <1>0, <2>1, TypeOfEvent DEF RecoverStalled, EventInv, Paid
  <2>4. Untouched(e)' /\ Accounted(e)' /\ Addressed(e)'
    BY <1>0, <2>1, <2>2 DEF RecoverStalled, EventInv, Untouched, Accounted, Addressed, HasRows
  <2> QED
    BY <2>3, <2>4 DEF EventInv
<1>3. ASSUME NEW f \in Events, f # e PROVE EventInv(f)'
  BY <1>3, OtherEvents DEF RecoverStalled, IInv, TypeOK, Becomes
<1> QED
  BY <1>1, <1>2, <1>3 DEF IInv

\* Every step of the pipeline keeps the invariant.
LEMMA NextIInv == IInv /\ [Next]_vars => IInv'
<1> SUFFICES ASSUME IInv, [Next]_vars PROVE IInv'
  OBVIOUS
<1>1. CASE UNCHANGED vars
  <2>1. TypeOK'
    BY <1>1 DEF IInv, TypeOK, vars, jobVars
  <2>2. ASSUME NEW f \in Events PROVE EventInv(f)'
    BY <1>1, OtherEvents DEF IInv, vars, jobVars
  <2> QED
    BY <2>1, <2>2 DEF IInv
<1>2. CASE ApiStep
  BY <1>2, AnnounceIInv, EnqueueIInv, ApiStopsIInv DEF ApiStep
<1>3. ASSUME NEW e \in Events, TakeJob(e) \/ RunJob(e) \/ Retry(e) \/ RecoverStalled(e)
      PROVE  IInv'
  BY <1>3, StepIInv, StoreIInv, StoreFailsIInv, StoreUnconfirmedIInv, PublishIInv,
     RecoverStalledIInv DEF RunJob
<1>4. CASE WorkerDies
  BY <1>4, WorkerDiesIInv
<1> QED
  BY <1>1, <1>2, <1>3, <1>4 DEF Next

-----------------------------------------------------------------------------
(* The theorems.                                                            *)

\* The inductive invariant holds in every reachable state of the pipeline.
THEOREM Invariant == Spec => []IInv
  BY InitIInv, NextIInv, PTL DEF Spec

\* Counters stay within the limits of the queue's configuration.
THEOREM TypeCorrect == Spec => []TypeOK
  BY Invariant, PTL DEF IInv

\* No duplicate without a crash or a lost answer, and no notification to anybody
\* else, however attempts and publications fail.
THEOREM EveryRowAccountedFor == Spec => []RowsAccounted
<1>1. IInv => RowsAccounted
  BY DEF IInv, EventInv, Accounted, RowsAccounted
<1> QED
  BY <1>1, Invariant, PTL

\* An event is told at most MaxAttempts + MaxStalls times to anybody.
THEOREM DuplicatesAreBounded == Spec => []DuplicatesBounded
<1>1. IInv => DuplicatesBounded
  <2> SUFFICES ASSUME IInv, NEW e \in Events, NEW r \in Accounts
               PROVE  rows[e][r] <= MaxAttempts + MaxStalls
    BY DEF DuplicatesBounded
  <2>1. EventInv(e) /\ TypeOK
    BY DEF IInv
  <2>2. /\ attemptsMade[e] \in Nat /\ stalledCounter[e] \in Nat
        /\ unseen[e] \in Nat
    BY <2>1, TypeOfEvent
  <2>3. CASE job[e] = "none"
    BY <2>1, <2>3 DEF EventInv, Untouched
  <2>4. CASE job[e] # "none" /\ HasRows(e)
    <3>1. /\ unseen[e] + 1 <= MaxAttempts + MaxStalls
      BY <2>1, <2>2, <2>4 DEF EventInv, Paid, HasRows
    <3> QED
      BY <2>1, <2>2, <2>4, <3>1 DEF EventInv, Accounted
  <2>5. CASE job[e] # "none" /\ ~HasRows(e)
    <3>1. unseen[e] <= MaxAttempts + MaxStalls
      BY <2>1, <2>2 DEF EventInv, Paid
    <3> QED
      BY <2>1, <2>2, <2>5, <3>1 DEF EventInv, Accounted
  <2> QED
    BY <2>3, <2>4, <2>5
<1> QED
  BY <1>1, Invariant, PTL

\* A completed job, and a message on the channel, mean rows for every recipient.
THEOREM ToldMeansStored == Spec => []ToldIsStored
<1>1. IInv => ToldIsStored
  <2> SUFFICES ASSUME IInv, NEW e \in Events,
                      job[e] = "completed" \/ published[e] > 0
               PROVE  /\ Recipients(e) \subseteq Accounts
                      /\ \A r \in Recipients(e) : rows[e][r] > 0
    BY DEF ToldIsStored
  <2>1. EventInv(e) /\ TypeOK /\ unseen[e] \in Nat
    BY TypeOfEvent DEF IInv
  <2>2. HasRows(e) \/ unseen[e] > 0
    BY <2>1 DEF EventInv, Addressed, HasRows
  <2>3. job[e] # "none" /\ Recipients(e) \subseteq Accounts
    BY <2>1, <2>2 DEF EventInv, Addressed, Untouched
  <2>4. ASSUME NEW r \in Recipients(e) PROVE rows[e][r] > 0
    BY <2>1, <2>2, <2>3 DEF EventInv, Accounted
  <2> QED
    BY <2>3, <2>4
<1> QED
  BY <1>1, Invariant, PTL

-----------------------------------------------------------------------------
(* The pipeline implements NotificationDelivery.                            *)

\* The branches of StatusOf exclude each other.
LEMMA StatusValues ==
    /\ StatusOf("none") = "none"
    /\ StatusOf(InMemory) = "proposed"
    /\ StatusOf("lost") = "lost"
    /\ StatusOf("completed") = "delivered"
    /\ StatusOf("failed") = "abandoned"
    /\ \A state \in Queued : StatusOf(state) = "accepted"
<1>1. StatusOf("none") = "none"
  BY DEF StatusOf, InMemory, Queued, Running
<1>2. StatusOf(InMemory) = "proposed"
  BY DEF StatusOf, InMemory, Queued, Running
<1>3. StatusOf("lost") = "lost"
  BY DEF StatusOf, InMemory, Queued, Running
<1>4. StatusOf("completed") = "delivered"
  BY DEF StatusOf, InMemory, Queued, Running
<1>5. StatusOf("failed") = "abandoned"
  BY DEF StatusOf, InMemory, Queued, Running
<1>6. \A state \in Queued : StatusOf(state) = "accepted"
  BY DEF StatusOf, InMemory, Queued, Running
<1> QED
  BY <1>1, <1>2, <1>3, <1>4, <1>5, <1>6

\* The initial states are those of the abstract pipeline.
LEMMA InitRefines == Init => Pipeline!Init
  BY StatusValues DEF Init, Pipeline!Init, status, addressees

\* A step of one event changes the status of that event alone.
LEMMA StatusOfStep ==
    ASSUME TypeOK, NEW e \in Events, NEW state \in States, Becomes(e, state)
    PROVE  /\ status' = [status EXCEPT ![e] = StatusOf(state)]
           /\ status[e] = StatusOf(job[e])
<1>1. job' = [job EXCEPT ![e] = state] /\ job \in [Events -> States]
  BY DEF Becomes, TypeOK
<1>2. \A f \in Events : job'[f] = IF f = e THEN state ELSE job[f]
  BY <1>1
<1> QED
  BY <1>2 DEF status

\* Whom an event is addressed to does not change once it is announced.
LEMMA AddresseesOfStep ==
    ASSUME TypeOK, NEW e \in Events, NEW state \in States \ {"none"},
           Becomes(e, state), job[e] # "none", payload' = payload
    PROVE  addressees' = addressees /\ addressees[e] = Recipients(e)
<1>1. \A f \in Events : job'[f] = "none" <=> job[f] = "none"
  BY DEF Becomes, TypeOK
<1>2. \A f \in Events : Recipients(f)' = Recipients(f)
  BY DEF Recipients
<1> QED
  BY <1>1, <1>2 DEF addressees

\* An announcement is one of the abstract pipeline.
LEMMA AnnounceRefines ==
    ASSUME TypeOK, NEW e \in Events, NEW p \in Payload, Announce(e, p)
    PROVE  Pipeline!Next
<1> DEFINE R == IF p.kind = "generic-moderator" THEN Moderators ELSE {p.recipientId}
<1>1. R \in {Moderators} \cup {{r} : r \in Accounts \cup {Nobody}}
  BY DEF Payload
<1>2. job[e] = "none" /\ Becomes(e, "committed") /\ rows' = rows
      /\ payload' = [payload EXCEPT ![e] = p]
  BY DEF Announce, InMemory
<1>3. /\ status' = [status EXCEPT ![e] = "proposed"] /\ status[e] = "none"
  BY <1>2, StatusOfStep, StatusValues DEF States, InMemory
<1>4. addressees' = [addressees EXCEPT ![e] = R]
  <2>1. \A f \in Events : Recipients(f)' = IF f = e THEN R ELSE Recipients(f)
    BY <1>2 DEF Recipients, TypeOK
  <2>2. \A f \in Events : (job'[f] = "none") = (f # e /\ job[f] = "none")
    BY <1>2 DEF Becomes, TypeOK
  <2> HIDE DEF R
  <2> QED
    BY <2>1, <2>2 DEF addressees
<1> HIDE DEF R
<1>5. Pipeline!Propose(e, R)
  BY <1>2, <1>3, <1>4 DEF Pipeline!Propose
<1> QED
  BY <1>1, <1>5 DEF Pipeline!Next

\* Steps between two states of the same status.
LEMMA StatusKept ==
    ASSUME TypeOK, NEW e \in Events, NEW state \in States \ {"none"},
           Becomes(e, state), job[e] # "none", StatusOf(job[e]) = StatusOf(state),
           payload' = payload, rows' = rows
    PROVE  UNCHANGED Pipeline!vars
<1>1. status' = [status EXCEPT ![e] = status[e]]
  BY StatusOfStep
<1>2. status' = status
  BY <1>1 DEF status
<1> QED
  BY <1>2, AddresseesOfStep DEF Pipeline!vars

\* A statement that commits is a delivery.
LEMMA InsertIsDelivery ==
    ASSUME NEW e \in Events, InsertRows(e), addressees[e] = Recipients(e)
    PROVE  Pipeline!Delivery(e)
  BY DEF InsertRows, Pipeline!Delivery

\* An event enqueued, or lost, is so in the abstract pipeline.
LEMMA EnqueueRefines ==
    ASSUME TypeOK, NEW e \in Events, Enqueue(e)
    PROVE  Pipeline!Next
<1>1. Becomes(e, "waiting") /\ job[e] = InMemory /\ payload' = payload /\ rows' = rows
  BY DEF Enqueue
<1>2. status' = [status EXCEPT ![e] = "accepted"] /\ status[e] = "proposed"
  BY <1>1, StatusOfStep, StatusValues DEF States, Queued
<1>3. addressees' = addressees
  BY <1>1, AddresseesOfStep DEF States, Queued, InMemory
<1> QED
  BY <1>1, <1>2, <1>3 DEF Pipeline!Accept, Pipeline!Next

\* The notifications that are lost when the API stops are lost together.
LEMMA LoseRefines ==
    ASSUME TypeOK, NEW S \in SUBSET Events, \A e \in S : job[e] = InMemory,
           \A e \in Events : job'[e] = IF e \in S THEN "lost" ELSE job[e],
           payload' = payload, rows' = rows
    PROVE  Pipeline!Next
<1>1. \A e \in S : status[e] = "proposed"
  BY StatusValues DEF status
<1>2. status' = [e \in Events |-> IF e \in S THEN "lost" ELSE status[e]]
  BY StatusValues DEF status
<1>3. addressees' = addressees
  <2>1. \A e \in Events : (job'[e] = "none") = (job[e] = "none")
    BY DEF InMemory
  <2>2. \A e \in Events : Recipients(e)' = Recipients(e)
    BY DEF Recipients
  <2> QED
    BY <2>1, <2>2 DEF addressees
<1>4. Pipeline!Lose(S)
  BY <1>1, <1>2, <1>3 DEF Pipeline!Lose
<1> QED
  BY <1>4 DEF Pipeline!Next

\* Storing the rows puts them into the inboxes.
LEMMA StoreRefines ==
    ASSUME TypeOK, NEW e \in Events, Store(e)
    PROVE  Pipeline!Next
<1>1. Becomes(e, "stored") /\ job[e] = "active" /\ payload' = payload /\ InsertRows(e)
  BY DEF Store
<1>2. status' = [status EXCEPT ![e] = status[e]] /\ status[e] = "accepted"
  BY <1>1, StatusOfStep DEF StatusOf, States, Queued, Running, InMemory
<1>3. status' = status
  BY <1>2 DEF status
<1>4. addressees' = addressees /\ addressees[e] = Recipients(e)
  BY <1>1, AddresseesOfStep DEF States, Queued, Running
<1>5. Pipeline!Deliver(e)
  BY <1>1, <1>2, <1>3, <1>4, InsertIsDelivery DEF Pipeline!Deliver
<1> QED
  BY <1>5 DEF Pipeline!Next

\* A failed attempt leaves the job accepted, or gives it up.
LEMMA AttemptFailsRefines ==
    ASSUME TypeOK, NEW e \in Events, job[e] = "active", AttemptFails(e),
           payload' = payload
    PROVE  /\ addressees' = addressees /\ addressees[e] = Recipients(e)
           /\ status[e] = "accepted"
           /\ status' = status \/ status' = [status EXCEPT ![e] = "abandoned"]
<1>1. PICK state \in {"delayed", "failed"} : Becomes(e, state)
  BY DEF AttemptFails
<1>2. state \in States \ {"none"}
  BY DEF States, Queued, Settled
<1>3. addressees' = addressees /\ addressees[e] = Recipients(e)
  BY <1>1, <1>2, AddresseesOfStep
<1>4. status' = [status EXCEPT ![e] = StatusOf(state)] /\ status[e] = StatusOf(job[e])
  BY <1>1, <1>2, StatusOfStep
<1>5. /\ StatusOf(job[e]) = "accepted"
      /\ StatusOf(state) = "accepted" \/ StatusOf(state) = "abandoned"
  BY DEF StatusOf, Queued, Running, InMemory
<1>6. StatusOf(state) = "accepted" => status' = status
  BY <1>4, <1>5 DEF status
<1> QED
  BY <1>3, <1>4, <1>5, <1>6

\* After a failed attempt the job is tried again, or abandoned.
LEMMA StoreFailsRefines ==
    ASSUME TypeOK, NEW e \in Events, StoreFails(e) \/ StoreUnconfirmed(e)
    PROVE  [Pipeline!Next]_(Pipeline!vars)
<1>1. /\ job[e] = "active" /\ AttemptFails(e) /\ payload' = payload
      /\ InsertRows(e) \/ rows' = rows
  BY DEF StoreFails, StoreUnconfirmed
<1>2. /\ addressees' = addressees /\ addressees[e] = Recipients(e)
      /\ status[e] = "accepted"
      /\ status' = status \/ status' = [status EXCEPT ![e] = "abandoned"]
  BY <1>1, AttemptFailsRefines
<1>3. CASE rows' = rows
  BY <1>2, <1>3 DEF Pipeline!GiveUp, Pipeline!Next, Pipeline!vars
<1>4. CASE InsertRows(e)
  <2>1. Pipeline!Delivery(e)
    BY <1>2, <1>4, InsertIsDelivery
  <2>2. Pipeline!Deliver(e) \/ Pipeline!DeliverAndGiveUp(e)
    BY <1>2, <2>1 DEF Pipeline!Deliver, Pipeline!DeliverAndGiveUp
  <2> QED
    BY <2>2 DEF Pipeline!Next
<1> QED
  BY <1>1, <1>3, <1>4

\* Every recipient has a row by then.
LEMMA CompleteRefines ==
    ASSUME IInv, NEW e \in Events, Complete(e)
    PROVE  Pipeline!Next
<1>1. /\ Becomes(e, "completed") /\ job[e] = "published"
      /\ payload' = payload /\ rows' = rows /\ TypeOK
  BY DEF Complete, IInv
<1>2. status' = [status EXCEPT ![e] = "delivered"] /\ status[e] = "accepted"
  BY <1>1, StatusOfStep DEF StatusOf, States, Queued, Running, Settled, InMemory
<1>3. addressees' = addressees /\ addressees[e] = Recipients(e)
  BY <1>1, AddresseesOfStep DEF States, Settled
<1>4. HasRows(e) /\ unseen[e] \in Nat /\ EventInv(e)
  BY <1>1, TypeOfEvent DEF HasRows, IInv
<1>5. Recipients(e) \subseteq Accounts /\ \A r \in Recipients(e) : rows[e][r] > 0
  BY <1>1, <1>4 DEF EventInv, Accounted, Addressed
<1>6. Pipeline!Close(e)
  BY <1>1, <1>2, <1>3, <1>5 DEF Pipeline!Close
<1> QED
  BY <1>6 DEF Pipeline!Next

\* A stalled job waits again, or is abandoned.
LEMMA RecoverStalledRefines ==
    ASSUME TypeOK, NEW e \in Events, RecoverStalled(e)
    PROVE  [Pipeline!Next]_(Pipeline!vars)
<1>1. job[e] = "stalled" /\ payload' = payload /\ rows' = rows
  BY DEF RecoverStalled
<1>2. CASE Becomes(e, "waiting")
  BY <1>1, <1>2, StatusKept DEF StatusOf, States, Queued, InMemory
<1>3. CASE Becomes(e, "failed")
  <2>1. status' = [status EXCEPT ![e] = "abandoned"] /\ status[e] = "accepted"
    BY <1>1, <1>3, StatusOfStep DEF StatusOf, States, Queued, Settled, InMemory
  <2>2. addressees' = addressees
    BY <1>1, <1>3, AddresseesOfStep DEF States, Settled
  <2> QED
    BY <1>1, <2>1, <2>2 DEF Pipeline!GiveUp, Pipeline!Next
<1> QED
  BY <1>2, <1>3 DEF RecoverStalled

\* A dead worker is no step of the abstract pipeline.
LEMMA WorkerDiesRefines ==
    ASSUME TypeOK, WorkerDies
    PROVE  UNCHANGED Pipeline!vars
<1>1. /\ payload' = payload /\ rows' = rows
      /\ \A f \in Events : job'[f] = IF job[f] \in Running THEN "stalled" ELSE job[f]
  BY DEF WorkerDies
<1>2. \A f \in Events : StatusOf(job'[f]) = StatusOf(job[f])
  BY <1>1 DEF StatusOf, Queued, Running, InMemory
<1>3. \A f \in Events : (job'[f] = "none") = (job[f] = "none")
  BY <1>1 DEF Running
<1>4. \A f \in Events : Recipients(f)' = Recipients(f)
  BY <1>1 DEF Recipients
<1> QED
  BY <1>1, <1>2, <1>3, <1>4 DEF Pipeline!vars, status, addressees

\* Every step is one of the abstract pipeline, or none.
LEMMA NextRefines == IInv /\ [Next]_vars => [Pipeline!Next]_(Pipeline!vars)
<1> SUFFICES ASSUME IInv, [Next]_vars PROVE [Pipeline!Next]_(Pipeline!vars)
  OBVIOUS
<1>0. TypeOK
  BY DEF IInv
<1>1. CASE UNCHANGED vars
  BY <1>1 DEF vars, Pipeline!vars, status, addressees, Recipients
<1>2. CASE ApiStep
  <2>1. ASSUME NEW e \in Events, EnqueueFails(e) PROVE Pipeline!Next
    <3>1. \A f \in Events : job'[f] = IF f \in {e} THEN "lost" ELSE job[f]
      BY <1>0, <2>1 DEF EnqueueFails, Becomes, TypeOK
    <3> QED
      BY <1>0, <2>1, <3>1, LoseRefines DEF EnqueueFails
  <2>2. ASSUME ApiStops PROVE Pipeline!Next
    <3> DEFINE S == {f \in Events : job[f] = InMemory}
    <3>1. \A f \in Events : job'[f] = IF f \in S THEN "lost" ELSE job[f]
      BY <2>2 DEF ApiStops
    <3> QED
      BY <1>0, <2>2, <3>1, LoseRefines DEF ApiStops
  <2> QED
    BY <1>0, <1>2, <2>1, <2>2, AnnounceRefines, EnqueueRefines DEF ApiStep
<1>3. ASSUME NEW e \in Events,
             TakeJob(e) \/ Retry(e) \/ Publish(e) \/ PublishFails(e)
      PROVE  UNCHANGED Pipeline!vars
  <2>1. PICK state \in {"active", "waiting", "published"} :
            Becomes(e, state) /\ payload' = payload /\ rows' = rows
    BY <1>3 DEF TakeJob, Retry, Publish, PublishFails
  <2>2. state \in States \ {"none"}
    BY DEF States, Queued, Running
  <2>3. job[e] \in {"waiting", "delayed", "stored"}
    BY <1>3 DEF TakeJob, Retry, Publish, PublishFails
  <2>4. StatusOf(job[e]) = StatusOf(state) /\ job[e] # "none"
    BY <2>3 DEF StatusOf, Queued, Running, InMemory
  <2> QED
    BY <1>0, <2>1, <2>2, <2>4, StatusKept
<1>4. ASSUME NEW e \in Events, TakeJob(e) \/ RunJob(e) \/ Retry(e) \/ RecoverStalled(e)
      PROVE  [Pipeline!Next]_(Pipeline!vars)
  BY <1>0, <1>3, <1>4, StoreRefines, StoreFailsRefines, CompleteRefines,
     RecoverStalledRefines DEF RunJob
<1> QED
  BY <1>0, <1>1, <1>2, <1>4, WorkerDiesRefines DEF Next

\* The pipeline keeps the promises of NotificationDelivery, for any number of
\* events, accounts, attempts, stalls and workers' deaths.
THEOREM Implements == Spec => Delivered
  BY InitRefines, NextRefines, Invariant, PTL DEF Spec, Delivered, Pipeline!Spec

-----------------------------------------------------------------------------
(* What a queue without fairness still promises: no job goes round for ever. *)

\* A number of steps that a job cannot exceed before it is settled: those of the
\* attempt it is in, and seven for each attempt and stall it has left.
Way(state) ==
    CASE state = "delayed" -> 6
      [] state = "waiting" -> 5
      [] state = "active" -> 4
      [] state = "stored" -> 3
      [] state = "published" -> 2
      [] state = "stalled" -> 1
      [] OTHER -> 0

StepsLeft(e) ==
    7 * ((MaxAttempts - attemptsMade[e]) + (MaxStalls + 1 - stalledCounter[e])) + Way(job[e])

Rests(e) ==
    /\ job'[e] = job[e] /\ attemptsMade'[e] = attemptsMade[e]
    /\ stalledCounter'[e] = stalledCounter[e]
    /\ rows'[e] = rows[e] /\ published'[e] = published[e]

\* Whatever fails, a step that concerns a queued job brings it nearer its settlement,
\* and the job stays the queue's until then.
JobsAdvance ==
    [][\A e \in Events : job[e] \in Queued =>
          \/ Rests(e)
          \/ job'[e] \in Queued \cup Settled /\ StepsLeft(e)' < StepsLeft(e)]_vars

\* What is settled, or was lost before it was a job, stays so: nobody is told of it
\* again by a late retry, a second worker or a recovery from a stall.
SettledForGood ==
    [][\A e \in Events : job[e] \in Settled \cup {"lost"} => Rests(e)]_vars

\* A step about one event: the others rest, and it was not settled.
Concerns(e) ==
    /\ \A f \in Events \ {e} : Rests(f)
    /\ job[e] \notin Settled \cup {"lost"}
    /\ job[e] \in Queued => job'[e] \in Queued \cup Settled /\ StepsLeft(e)' < StepsLeft(e)

\* The counters of a job that is not settled leave room for another attempt and stall.
LEMMA RoomLeft ==
    ASSUME IInv, NEW e \in Events
    PROVE  /\ attemptsMade[e] \in Nat /\ stalledCounter[e] \in Nat
           /\ attemptsMade[e] <= MaxAttempts /\ stalledCounter[e] <= MaxStalls + 1
           /\ Way(job[e]) \in 0 .. 6
           /\ StepsLeft(e) \in Nat
<1>1. /\ attemptsMade[e] \in Nat /\ stalledCounter[e] \in Nat
      /\ attemptsMade[e] <= MaxAttempts /\ stalledCounter[e] <= MaxStalls + 1
  BY DEF IInv, TypeOK
<1>2. Way(job[e]) \in 0 .. 6
  BY DEF Way
<1> QED
  BY <1>1, <1>2 DEF StepsLeft

\* A step within an attempt, or to the next one.
LEMMA StepConcerns ==
    ASSUME IInv, NEW e \in Events,
           TakeJob(e) \/ Retry(e) \/ Publish(e) \/ PublishFails(e) \/ Complete(e) \/ Store(e)
    PROVE  Concerns(e)
<1>1. PICK state \in {"active", "waiting", "published", "completed", "stored"} :
         /\ Becomes(e, state) /\ UNCHANGED jobVars
         /\ Way(state) < Way(job[e])
         /\ job[e] \in {"waiting", "delayed", "stored", "published", "active"}
  BY DEF TakeJob, Retry, Publish, PublishFails, Complete, Store, Way
<1>2. job'[e] = state /\ \A f \in Events \ {e} : job'[f] = job[f]
  BY <1>1 DEF Becomes, IInv, TypeOK
<1>3. \A f \in Events \ {e} : rows'[f] = rows[f] /\ published'[f] = published[f]
  BY InsertRowsType DEF TakeJob, Retry, Publish, PublishFails, Complete, Store, IInv, TypeOK
<1>4. StepsLeft(e)' < StepsLeft(e)
  <2>1. Way(job'[e]) \in Nat /\ Way(job[e]) \in Nat
    BY DEF Way
  <2> QED
    BY <1>1, <1>2, <2>1, RoomLeft DEF StepsLeft, jobVars
<1> QED
  BY <1>1, <1>2, <1>3, <1>4 DEF Concerns, Rests, jobVars, Queued, Running, Settled

\* An attempt that fails is paid for.
LEMMA FailConcerns ==
    ASSUME IInv, NEW e \in Events, StoreFails(e) \/ StoreUnconfirmed(e)
    PROVE  Concerns(e)
<1>1. job[e] = "active" /\ AttemptFails(e) /\ UNCHANGED <<stalledCounter, published>>
  BY DEF StoreFails, StoreUnconfirmed
<1>2. /\ attemptsMade'[e] = attemptsMade[e] + 1
      /\ job'[e] \in {"delayed", "failed"}
      /\ \A f \in Events \ {e} : attemptsMade'[f] = attemptsMade[f] /\ job'[f] = job[f]
  BY <1>1, AttemptFailsType
<1>3. \A f \in Events \ {e} : rows'[f] = rows[f]
  BY InsertRowsType DEF StoreFails, StoreUnconfirmed, IInv
<1>4. StepsLeft(e)' < StepsLeft(e)
  <2>1. Way(job[e]) = 4 /\ Way(job'[e]) \in 0 .. 6
    BY <1>1 DEF Way
  <2> QED
    BY <1>1, <1>2, <2>1, RoomLeft DEF StepsLeft
<1> QED
  BY <1>1, <1>2, <1>3, <1>4 DEF Concerns, Rests, Queued, Running, Settled

\* So is a stall.
LEMMA RecoverConcerns ==
    ASSUME IInv, NEW e \in Events, RecoverStalled(e)
    PROVE  Concerns(e)
<1>1. /\ job[e] = "stalled" /\ UNCHANGED <<attemptsMade, rows, published>>
      /\ stalledCounter'[e] = stalledCounter[e] + 1
      /\ job'[e] \in {"failed", "waiting"}
      /\ \A f \in Events \ {e} : job'[f] = job[f] /\ stalledCounter'[f] = stalledCounter[f]
  BY DEF RecoverStalled, Becomes, IInv, TypeOK
<1>2. StepsLeft(e)' < StepsLeft(e)
  <2>1. Way(job[e]) = 1 /\ Way(job'[e]) \in 0 .. 6
    BY <1>1 DEF Way
  <2> QED
    BY <1>1, <2>1, RoomLeft DEF StepsLeft
<1> QED
  BY <1>1, <1>2 DEF Concerns, Rests, Queued, Running, Settled

\* A step is about one event, or strikes all that the API or the worker has in hand.
LEMMA NextConcerns ==
    ASSUME IInv, [Next]_vars, NEW f \in Events
    PROVE  \/ Rests(f)
           \/ /\ job[f] \notin Settled \cup {"lost"}
              /\ job[f] \in Queued => /\ job'[f] \in Queued \cup Settled
                                      /\ StepsLeft(f)' < StepsLeft(f)
<1>1. ASSUME NEW e \in Events, Concerns(e)
      PROVE  \/ Rests(f)
             \/ /\ job[f] \notin Settled \cup {"lost"}
                /\ job[f] \in Queued => /\ job'[f] \in Queued \cup Settled
                                        /\ StepsLeft(f)' < StepsLeft(f)
  BY <1>1 DEF Concerns
<1>2. ASSUME NEW e \in Events, (\E p \in Payload : Announce(e, p)) \/ Enqueue(e) \/ EnqueueFails(e)
      PROVE  Concerns(e)
  <2>1. job[e] \in {"none", InMemory} /\ UNCHANGED <<jobVars, rows, published>>
    BY <1>2 DEF Announce, Enqueue, EnqueueFails
  <2>2. \A g \in Events \ {e} : job'[g] = job[g]
    BY <1>2 DEF Announce, Enqueue, EnqueueFails, Becomes, IInv, TypeOK
  <2> QED
    BY <2>1, <2>2 DEF Concerns, Rests, jobVars, InMemory, Queued, Running, Settled
<1>3. CASE ApiStops
  <2>1. /\ UNCHANGED <<jobVars, rows, published>>
        /\ job'[f] = IF job[f] = InMemory THEN "lost" ELSE job[f]
    BY <1>3 DEF ApiStops
  <2> QED
    BY <2>1 DEF Rests, jobVars, InMemory, Queued, Running, Settled
<1>4. CASE WorkerDies
  <2>1. /\ UNCHANGED <<jobVars, rows, published>>
        /\ job'[f] = IF job[f] \in Running THEN "stalled" ELSE job[f]
    BY <1>4 DEF WorkerDies
  <2>2. CASE job[f] \in Running
    <3>1. Way(job'[f]) = 1 /\ Way(job[f]) \in 2 .. 4
      BY <2>1, <2>2 DEF Running, Way
    <3>2. StepsLeft(f)' < StepsLeft(f)
      BY <2>1, <3>1, RoomLeft DEF StepsLeft, jobVars
    <3> QED
      BY <2>1, <2>2, <3>2 DEF Running, Queued, Settled
  <2> QED
    BY <2>1, <2>2 DEF Rests, jobVars
<1>5. CASE UNCHANGED vars
  BY <1>5 DEF vars, jobVars, Rests
<1>6. ASSUME NEW e \in Events, TakeJob(e) \/ RunJob(e) \/ Retry(e) \/ RecoverStalled(e)
      PROVE  Concerns(e)
  BY <1>6, StepConcerns, FailConcerns, RecoverConcerns DEF RunJob
<1> QED
  BY <1>1, <1>2, <1>3, <1>4, <1>5, <1>6 DEF Next, ApiStep

\* StepsLeft is a number, so a queued job makes finitely many steps, at most
\* 7 * (MaxAttempts + MaxStalls + 1) + 6: what is left to the fairness of
\* EnqueuedSettles is that they are taken at all.
THEOREM JobsRunOut == Spec => JobsAdvance /\ [](\A e \in Events : StepsLeft(e) \in Nat)
<1> DEFINE Advance == \A e \in Events : job[e] \in Queued =>
                         \/ Rests(e)
                         \/ job'[e] \in Queued \cup Settled /\ StepsLeft(e)' < StepsLeft(e)
<1>1. IInv /\ [Next]_vars => [Advance]_vars
  BY NextConcerns
<1>2. IInv => \A e \in Events : StepsLeft(e) \in Nat
  BY RoomLeft
<1>3. Spec => [][Advance]_vars
  BY <1>1, Invariant, PTL DEF Spec
<1>4. Spec => [](\A e \in Events : StepsLeft(e) \in Nat)
  BY <1>2, Invariant, PTL
<1> QED
  BY <1>3, <1>4 DEF JobsAdvance

\* No completed, failed or lost notification is ever stored or published again.
THEOREM SettledStays == Spec => SettledForGood
<1> DEFINE Stays == \A e \in Events : job[e] \in Settled \cup {"lost"} => Rests(e)
<1>1. IInv /\ [Next]_vars => [Stays]_vars
  BY NextConcerns
<1>2. Spec => [][Stays]_vars
  BY <1>1, Invariant, PTL DEF Spec
<1> QED
  BY <1>2 DEF SettledForGood
=============================================================================
