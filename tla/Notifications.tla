---------------------------- MODULE Notifications ----------------------------
(***************************************************************************)
(* From a change of the domain to rows of the table notification: the API  *)
(* enqueues a BullMQ job once the change is committed, and the worker      *)
(* (apps/notification-worker) runs it: it stores the rows, then publishes  *)
(* a message on the Redis channel that the API's streams listen to.        *)
(*                                                                         *)
(* Modelled with its failures: the API stops with notifications in memory; *)
(* a query fails, or commits and its answer is lost; a publication fails;  *)
(* the worker dies at any step and BullMQ finds its jobs stalled.  The     *)
(* queue itself is durable.  A worker that is merely so slow that BullMQ   *)
(* takes its job for stalled while it still runs is left out.              *)
(***************************************************************************)
EXTENDS Naturals, FiniteSets

CONSTANTS
    Events,         \* changes that somebody is to hear of
    Users,          \* accounts with the role USER
    Moderators,     \* accounts with the role MODERATOR
    Nobody,         \* a recipient id that is no account's, as +null is
    None,           \* no payload yet
    MaxAttempts,    \* defaultJobOptions.attempts
    MaxStalls,      \* BullMQ's maxStalledCount
    Concurrency,    \* jobs one worker runs at a time
    MaxCrashes      \* bound: deaths of the worker

ASSUME RolesDisjoint == Users \cap Moderators = {}
ASSUME NobodyIsNoAccount == Nobody \notin Users \cup Moderators
ASSUME Limits == /\ MaxAttempts \in Nat \ {0}
                 /\ MaxStalls \in Nat
                 /\ Concurrency \in Nat \ {0}
                 /\ MaxCrashes \in Nat

Accounts == Users \cup Moderators

Payload == [kind : {"generic-moderator"}]
             \cup
           [kind : {"ticket-participant"}, recipientId : Accounts \cup {Nobody}]

ASSUME NoneIsNoPayload == None \notin Payload

InMemory == "committed"         \* and enqueued by nothing but a promise in memory
Running == {"active", "stored", "published"}    \* the worker's steps
Queued == {"waiting", "delayed", "stalled"} \cup Running
Settled == {"completed", "failed"}
States == {"none", InMemory, "lost"} \cup Queued \cup Settled

VARIABLES
    payload,        \* what each event's notification says
    job,            \* where it is
    attemptsMade,   \* attempts of the job that ended in an error
    stalledCounter, \* times the job was found stalled
    rows,           \* rows of table notification, by event and recipient
    published,      \* messages on the channel, by event
    unseen,         \* history: times rows were stored and the job did not learn it
    crashes

jobVars == <<attemptsMade, stalledCounter>>
vars == <<payload, job, jobVars, rows, published, unseen, crashes>>

TypeOK ==
    /\ payload \in [Events -> Payload \cup {None}]
    /\ job \in [Events -> States]
    /\ attemptsMade \in [Events -> 0 .. MaxAttempts]
    /\ stalledCounter \in [Events -> 0 .. MaxStalls + 1]
    /\ rows \in [Events -> [Accounts -> Nat]]
    /\ published \in [Events -> Nat]
    /\ unseen \in [Events -> Nat]
    /\ crashes \in 0 .. MaxCrashes
    /\ \A e \in Events : payload[e] = None <=> job[e] = "none"

Init ==
    /\ payload = [e \in Events |-> None]
    /\ job = [e \in Events |-> "none"]
    /\ attemptsMade = [e \in Events |-> 0]
    /\ stalledCounter = [e \in Events |-> 0]
    /\ rows = [e \in Events |-> [r \in Accounts |-> 0]]
    /\ published = [e \in Events |-> 0]
    /\ unseen = [e \in Events |-> 0]
    /\ crashes = 0

Becomes(e, state) == job' = [job EXCEPT ![e] = state]

-----------------------------------------------------------------------------
(* The API.                                                                *)

\* The change is committed and the request answered; nothing waits for the
\* promise that renders and enqueues the notification.
Announce(e, p) ==
    /\ job[e] = "none"
    /\ payload' = [payload EXCEPT ![e] = p]
    /\ Becomes(e, InMemory)
    /\ UNCHANGED <<jobVars, rows, published, unseen, crashes>>

Enqueue(e) ==
    /\ job[e] = InMemory
    /\ Becomes(e, "waiting")
    /\ UNCHANGED <<payload, jobVars, rows, published, unseen, crashes>>

\* Rendering or queue.add fails: the error is caught and logged at most.
EnqueueFails(e) ==
    /\ job[e] = InMemory
    /\ Becomes(e, "lost")
    /\ UNCHANGED <<payload, jobVars, rows, published, unseen, crashes>>

ApiStops ==
    /\ \E e \in Events : job[e] = InMemory
    /\ job' = [e \in Events |-> IF job[e] = InMemory THEN "lost" ELSE job[e]]
    /\ UNCHANGED <<payload, jobVars, rows, published, unseen, crashes>>

-----------------------------------------------------------------------------
(* The worker.                                                             *)

TakeJob(e) ==
    /\ job[e] = "waiting"
    /\ Cardinality({f \in Events : job[f] \in Running}) < Concurrency
    /\ Becomes(e, "active")
    /\ UNCHANGED <<payload, jobVars, rows, published, unseen, crashes>>

Recipients(e) ==
    IF payload[e].kind = "generic-moderator" THEN Moderators
    ELSE {payload[e].recipientId}

\* One statement, for all recipients or none: the foreign key on recipient_id
\* refuses what is no account.
InsertRows(e) ==
    /\ Recipients(e) \subseteq Accounts
    /\ rows' = [rows EXCEPT ![e] =
                  [r \in Accounts |-> IF r \in Recipients(e) THEN @[r] + 1 ELSE @[r]]]

Store(e) ==
    /\ job[e] = "active"
    /\ InsertRows(e)
    /\ Becomes(e, "stored")
    /\ UNCHANGED <<payload, jobVars, published, unseen, crashes>>

\* Mutants of AttemptFails: one attempt too many, and attempts that do not count.
AttemptTooMany(e) ==
    /\ attemptsMade' = [attemptsMade EXCEPT ![e] = @ + 1]
    /\ Becomes(e, IF attemptsMade[e] < MaxAttempts THEN "delayed" ELSE "failed")

AttemptUncounted(e) ==
    /\ UNCHANGED attemptsMade
    /\ Becomes(e, "delayed")

\* The attempt ends in an error: the job is delayed (exponential backoff) until
\* it is tried again, or has failed for good.
AttemptFails(e) ==
    /\ attemptsMade' = [attemptsMade EXCEPT ![e] = @ + 1]
    /\ Becomes(e, IF attemptsMade[e] + 1 < MaxAttempts THEN "delayed" ELSE "failed")

\* Mutant of StoreFails: the worker logs the error and goes on.
StoreFailsSilently(e) ==
    /\ job[e] = "active"
    /\ Becomes(e, "stored")
    /\ UNCHANGED <<payload, jobVars, rows, published, unseen, crashes>>

StoreFails(e) ==
    /\ job[e] = "active"
    /\ AttemptFails(e)
    /\ UNCHANGED <<payload, stalledCounter, rows, published, unseen, crashes>>

\* The statement commits and the connection breaks before the answer.
StoreUnconfirmed(e) ==
    /\ job[e] = "active"
    /\ InsertRows(e)
    /\ AttemptFails(e)
    /\ unseen' = [unseen EXCEPT ![e] = @ + 1]
    /\ UNCHANGED <<payload, stalledCounter, published, crashes>>

Publish(e) ==
    /\ job[e] = "stored"
    /\ published' = [published EXCEPT ![e] = @ + 1]
    /\ Becomes(e, "published")
    /\ UNCHANGED <<payload, jobVars, rows, unseen, crashes>>

\* Mutant of PublishFails: the error is not caught and ends the attempt.
PublishRejects(e) ==
    /\ job[e] = "stored"
    /\ AttemptFails(e)
    /\ UNCHANGED <<payload, stalledCounter, rows, published, unseen, crashes>>

\* The error is caught: the job goes on.
PublishFails(e) ==
    /\ job[e] = "stored"
    /\ Becomes(e, "published")
    /\ UNCHANGED <<payload, jobVars, rows, published, unseen, crashes>>

Complete(e) ==
    /\ job[e] = "published"
    /\ Becomes(e, "completed")
    /\ UNCHANGED <<payload, jobVars, rows, published, unseen, crashes>>

Retry(e) ==
    /\ job[e] = "delayed"
    /\ Becomes(e, "waiting")
    /\ UNCHANGED <<payload, jobVars, rows, published, unseen, crashes>>

\* Mutant of WorkerDies: a job leaves the queue when it is taken.
WorkerDiesWithJobs ==
    /\ crashes < MaxCrashes
    /\ \E e \in Events : job[e] \in Running
    /\ job' = [e \in Events |-> IF job[e] \in Running THEN "lost" ELSE job[e]]
    /\ crashes' = crashes + 1
    /\ UNCHANGED <<payload, jobVars, rows, published, unseen>>

\* The locks of the jobs it ran expire.
WorkerDies ==
    /\ crashes < MaxCrashes
    /\ \E e \in Events : job[e] \in Running
    /\ job' = [e \in Events |-> IF job[e] \in Running THEN "stalled" ELSE job[e]]
    /\ unseen' = [e \in Events |-> IF job[e] \in {"stored", "published"}
                                   THEN unseen[e] + 1 ELSE unseen[e]]
    /\ crashes' = crashes + 1
    /\ UNCHANGED <<payload, jobVars, rows, published>>

\* Mutant of RecoverStalled: once more than allowed.
RecoverOnceMore(e) ==
    /\ job[e] = "stalled"
    /\ stalledCounter' = [stalledCounter EXCEPT ![e] = @ + 1]
    /\ Becomes(e, IF stalledCounter[e] > MaxStalls THEN "failed" ELSE "waiting")
    /\ UNCHANGED <<payload, attemptsMade, rows, published, unseen, crashes>>

\* BullMQ puts a stalled job back, up to maxStalledCount times.
RecoverStalled(e) ==
    /\ job[e] = "stalled"
    /\ stalledCounter' = [stalledCounter EXCEPT ![e] = @ + 1]
    /\ Becomes(e, IF stalledCounter[e] + 1 > MaxStalls THEN "failed" ELSE "waiting")
    /\ UNCHANGED <<payload, attemptsMade, rows, published, unseen, crashes>>

-----------------------------------------------------------------------------
ApiStep ==
    \/ \E e \in Events : \/ \E p \in Payload : Announce(e, p)
                         \/ Enqueue(e)
                         \/ EnqueueFails(e)
    \/ ApiStops

\* What the worker does with a job it runs.
RunJob(e) ==
    \/ Store(e)
    \/ StoreFails(e)
    \/ StoreUnconfirmed(e)
    \/ Publish(e)
    \/ PublishFails(e)
    \/ Complete(e)

Next ==
    \/ ApiStep
    \/ \E e \in Events : TakeJob(e) \/ RunJob(e) \/ Retry(e) \/ RecoverStalled(e)
    \/ WorkerDies

Spec == Init /\ [][Next]_vars

\* A worker runs, takes waiting jobs and finishes what it took: its statements
\* and its publications end, well or not.  BullMQ promotes delayed jobs and looks
\* for stalled ones.  Nothing is promised of the API's unawaited promises.
Fairness ==
    \A e \in Events : /\ WF_vars(TakeJob(e))
                      /\ WF_vars(RunJob(e))
                      /\ WF_vars(Retry(e))
                      /\ WF_vars(RecoverStalled(e))

FairSpec == Spec /\ Fairness

-----------------------------------------------------------------------------
(* The abstract specification it implements.                               *)

StatusOf(state) ==
    CASE state = "none" -> "none"
      [] state = InMemory -> "proposed"
      [] state = "lost" -> "lost"
      [] state \in Queued -> "accepted"
      [] state = "completed" -> "delivered"
      [] state = "failed" -> "abandoned"

status == [e \in Events |-> StatusOf(job[e])]
addressees == [e \in Events |-> IF job[e] = "none" THEN {} ELSE Recipients(e)]

Pipeline == INSTANCE NotificationDelivery WITH
    Audiences <- {Moderators} \cup {{r} : r \in Accounts \cup {Nobody}},
    status <- status, to <- addressees, inbox <- rows

-----------------------------------------------------------------------------
(* Properties.                                                             *)

HasRows(e) == job[e] \in {"stored", "published", "completed"}

\* Every row is accounted for: a recipient has a row for each time the job did
\* not learn that it had stored one, and one more once it knows.  So without a
\* crash or a lost answer nobody hears twice of the same event, whatever else
\* fails and is retried; nobody but the recipients hears of it; and of many
\* recipients all hear equally often.
RowsAccounted ==
    \A e \in Events : job[e] # "none" =>
        \A r \in Accounts :
            rows[e][r] = IF r \in Recipients(e)
                         THEN unseen[e] + (IF HasRows(e) THEN 1 ELSE 0)
                         ELSE 0

\* However crashes, lost answers and retries combine, a recipient is told of one
\* event at most this often.
DuplicatesBounded ==
    \A e \in Events, r \in Accounts : rows[e][r] <= MaxAttempts + MaxStalls

\* A job is completed, and the streams are told to add one to the badge, only
\* when every recipient has a row to read; what is addressed to nobody never is.
ToldIsStored ==
    \A e \in Events : job[e] = "completed" \/ published[e] > 0 =>
        /\ Recipients(e) \subseteq Accounts
        /\ \A r \in Recipients(e) : rows[e][r] > 0

\* Whatever fails: accepted notifications are not lost, reach all their recipients
\* together, and nothing is delivered once the job is completed or given up.
Delivered == Pipeline!Spec

\* What was enqueued is carried out or given up: no job is forgotten.
EnqueuedSettles ==
    \A e \in Events : job[e] \in Queued ~> job[e] \in Settled
=============================================================================
