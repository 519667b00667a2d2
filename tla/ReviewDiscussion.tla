--------------------------- MODULE ReviewDiscussion ---------------------------
(***************************************************************************)
(* What the review of a ticket promises to those who discuss it, without   *)
(* sockets, rooms and handlers.                                            *)
(*                                                                         *)
(* A message is carried out at most once, or is lost.  Carried out, it is  *)
(* a comment of whoever may comment then, or the new text of a comment of  *)
(* its sender's.  Comments never go.  A reader sees some of the comments,  *)
(* each with a text it has or had, and may lose sight of them.             *)
(***************************************************************************)
EXTENDS Naturals, Sequences

CONSTANTS Readers, Messages, Author, Moderators, Nobody

VARIABLES
    charge,     \* the moderator in charge of the ticket, or Nobody
    used,       \* the messages there have been
    pending,    \* those that wait to be carried out, with their senders
    comments,   \* who made each, and its text: that of its latest message
    texts,      \* all texts each comment had
    sees        \* what each reader sees: comments, each with a text

vars == <<charge, used, pending, comments, texts, sees>>

Accounts == Moderators \cup {Author}
Versions == UNION {{<<i, x>> : x \in texts[i]} : i \in DOMAIN comments}

Init ==
    /\ charge = Nobody
    /\ used = {} /\ pending = {}
    /\ comments = <<>> /\ texts = <<>>
    /\ sees = [r \in Readers |-> {}]

Assign ==
    /\ charge' \in Moderators \cup {Nobody}
    /\ UNCHANGED <<used, pending, comments, texts, sees>>

Send(n, a) ==
    /\ n \notin used
    /\ used' = used \cup {n}
    /\ pending' = pending \cup {<<n, a>>}
    /\ UNCHANGED <<charge, comments, texts, sees>>

\* With a connection several are lost at once.
Lose ==
    /\ pending' \subseteq pending
    /\ UNCHANGED <<charge, used, comments, texts, sees>>

CarryOut(n, a) ==
    /\ <<n, a>> \in pending
    /\ pending' = pending \ {<<n, a>>}
    /\ UNCHANGED <<charge, used, sees>>

Post(n, a) ==
    /\ CarryOut(n, a)
    /\ a \in {Author, charge}
    /\ comments' = Append(comments, [by |-> a, text |-> n])
    /\ texts' = Append(texts, {n})

Edit(n, a, i) ==
    /\ CarryOut(n, a)
    /\ comments[i].by = a
    /\ comments' = [comments EXCEPT ![i].text = n]
    /\ texts' = [texts EXCEPT ![i] = @ \cup {n}]

See(r) ==
    /\ sees' = [sees EXCEPT ![r] = sees'[r]]
    /\ sees'[r] \subseteq Versions
    /\ UNCHANGED <<charge, used, pending, comments, texts>>

Next ==
    \/ Assign
    \/ Lose
    \/ \E n \in Messages, a \in Accounts :
          \/ Send(n, a)
          \/ Post(n, a)
          \/ \E i \in DOMAIN comments : Edit(n, a, i)
    \/ \E r \in Readers : See(r)

Spec == Init /\ [][Next]_vars
=============================================================================
