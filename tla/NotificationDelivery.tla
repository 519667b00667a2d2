------------------------- MODULE NotificationDelivery -------------------------
(***************************************************************************)
(* What the notification pipeline promises, without jobs and workers: once *)
(* a notification is accepted it is delivered to all its recipients        *)
(* together, at least once before it is closed as delivered, and never     *)
(* again after it is closed.  It may be delivered several times, and it    *)
(* may be given up, even after a delivery.                                 *)
(***************************************************************************)
EXTENDS Naturals

CONSTANTS
    Events,
    Accounts,
    Audiences   \* whom a notification may be addressed to; not always accounts

VARIABLES
    status,     \* of each event's notification
    to,         \* whom it is addressed to
    inbox       \* how often each account has it

vars == <<status, to, inbox>>

Init ==
    /\ status = [e \in Events |-> "none"]
    /\ to = [e \in Events |-> {}]
    /\ inbox = [e \in Events |-> [r \in Accounts |-> 0]]

Propose(e, R) ==
    /\ status[e] = "none"
    /\ to' = [to EXCEPT ![e] = R]
    /\ status' = [status EXCEPT ![e] = "proposed"]
    /\ UNCHANGED inbox

Accept(e) ==
    /\ status[e] = "proposed"
    /\ status' = [status EXCEPT ![e] = "accepted"]
    /\ UNCHANGED <<to, inbox>>

\* The API is the only place where notifications are lost, and several at once.
Lose(S) ==
    /\ \A e \in S : status[e] = "proposed"
    /\ status' = [e \in Events |-> IF e \in S THEN "lost" ELSE status[e]]
    /\ UNCHANGED <<to, inbox>>

Delivery(e) ==
    /\ to[e] \subseteq Accounts
    /\ inbox' = [inbox EXCEPT ![e] =
                   [r \in Accounts |-> IF r \in to[e] THEN @[r] + 1 ELSE @[r]]]

Deliver(e) ==
    /\ status[e] = "accepted"
    /\ Delivery(e)
    /\ UNCHANGED <<status, to>>

\* The last attempt may store the rows without learning it.
DeliverAndGiveUp(e) ==
    /\ status[e] = "accepted"
    /\ Delivery(e)
    /\ status' = [status EXCEPT ![e] = "abandoned"]
    /\ UNCHANGED to

Close(e) ==
    /\ status[e] = "accepted"
    /\ to[e] \subseteq Accounts
    /\ \A r \in to[e] : inbox[e][r] > 0
    /\ status' = [status EXCEPT ![e] = "delivered"]
    /\ UNCHANGED <<to, inbox>>

GiveUp(e) ==
    /\ status[e] = "accepted"
    /\ status' = [status EXCEPT ![e] = "abandoned"]
    /\ UNCHANGED <<to, inbox>>

Next ==
    \/ \E S \in SUBSET Events : Lose(S)
    \/ \E e \in Events : \/ \E R \in Audiences : Propose(e, R)
                         \/ Accept(e)
                         \/ Deliver(e)
                         \/ DeliverAndGiveUp(e)
                         \/ Close(e)
                         \/ GiveUp(e)

Spec == Init /\ [][Next]_vars
=============================================================================
