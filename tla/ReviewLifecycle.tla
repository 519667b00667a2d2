--------------------------- MODULE ReviewLifecycle ---------------------------
(***************************************************************************)
(* What the moderation tables promise about ONE debate or argument, seen   *)
(* without tickets: who may make it go where.                              *)
(*                                                                         *)
(* An item is nobody's until a moderator takes it off the waiting list.    *)
(* From then on that moderator alone decides: moves it, publishes it, or   *)
(* puts it back.  Its author can hand it in anew at any time, which sends  *)
(* it back to the waiting list with nobody in charge, and can rewrite it.  *)
(***************************************************************************)
CONSTANTS Items, Moderators, Texts, Nobody

VARIABLES
    stage,      \* where each item is
    holder,     \* the moderator in charge of it
    text,       \* what it says
    by          \* the moderator whose request was carried out last, or Nobody
                \* when that was an author's

vars == <<stage, holder, text, by>>

Decided == {"in review", "canceled", "published"}
Stages == {"absent", "draft", "waiting"} \cup Decided

Init ==
    /\ stage = [i \in Items |-> "absent"]
    /\ holder = [i \in Items |-> Nobody]
    /\ text = [i \in Items |-> Nobody]
    /\ by = Nobody

\* saveArgumentAsDraft
Draft(i, x) ==
    /\ stage[i] = "absent"
    /\ stage' = [stage EXCEPT ![i] = "draft"]
    /\ text' = [text EXCEPT ![i] = x]
    /\ UNCHANGED holder

\* createDebate, createArgument, submitDraft
HandIn(i, x) ==
    /\ stage' = [stage EXCEPT ![i] = "waiting"]
    /\ holder' = [holder EXCEPT ![i] = Nobody]
    /\ text' = [text EXCEPT ![i] = x]

\* updateDraft, updateArgument, updateDebate
Rewrite(i, x) ==
    /\ stage[i] # "absent"
    /\ text' = [text EXCEPT ![i] = x]
    /\ UNCHANGED <<stage, holder>>

\* updateTicket on a waiting item.  Taking it without moving it leaves it on the
\* waiting list, where another moderator can take it over.
Take(m, i, s) ==
    /\ stage[i] = "waiting"
    /\ s \in {"waiting"} \cup Decided
    /\ stage' = [stage EXCEPT ![i] = s]
    /\ holder' = [holder EXCEPT ![i] = m]
    /\ UNCHANGED text

\* updateTicket by the moderator in charge.
Move(m, i, s) ==
    /\ stage[i] \in Decided
    /\ holder[i] = m
    /\ s \in Decided
    /\ stage' = [stage EXCEPT ![i] = s]
    /\ UNCHANGED <<holder, text>>

PutBack(m, i) ==
    /\ stage[i] \in Decided
    /\ holder[i] = m
    /\ stage' = [stage EXCEPT ![i] = "waiting"]
    /\ holder' = [holder EXCEPT ![i] = Nobody]
    /\ UNCHANGED text

\* approveTicket
Publish(m, i) ==
    /\ holder[i] = m
    /\ stage' = [stage EXCEPT ![i] = "published"]
    /\ UNCHANGED <<holder, text>>

\* A request may concern nothing among Items.
Next ==
    \/ /\ by' = Nobody
       /\ \/ UNCHANGED <<stage, holder, text>>
          \/ \E i \in Items, x \in Texts : Draft(i, x) \/ HandIn(i, x) \/ Rewrite(i, x)
    \/ \E m \in Moderators :
        /\ by' = m
        /\ \/ UNCHANGED <<stage, holder, text>>
           \/ \E i \in Items :
                 \/ \E s \in Stages : Take(m, i, s) \/ Move(m, i, s)
                 \/ PutBack(m, i)
                 \/ Publish(m, i)

Spec == Init /\ [][Next]_vars
=============================================================================
