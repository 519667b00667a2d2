--------------------------- MODULE DebateTagsProofs ---------------------------
(***************************************************************************)
(* What concurrent transactions of createDebate leave in the tag tables,   *)
(* for any number of requests, tags and names.                             *)
(***************************************************************************)
EXTENDS DebateTags, SequenceTheorems, FiniteSetTheorems, TLAPS

Row == [name : Names, by : Requests]
Asked == [tagsIds : SUBSET Nat, createdTags : NewTags]

\* How far a transaction can be once it has inserted its tags.
Inserted == {"tagged", "written", "committed", "rolledback"}

Types ==
    /\ stage \in [Requests -> {"none", "begun"} \cup Inserted]
    /\ request \in [Requests -> {None} \cup Asked]
    /\ \A r \in Requests : stage[r] # "none" => request[r] \in Asked
    /\ debate_tag \in Seq(Row)
    /\ seen \in [Requests -> SUBSET TagIds]
    /\ assoc_debate_tag \in [Requests -> SUBSET Nat]

\* A request chose committed tags and saw nothing else, and only its own statement adds
\* rows of its own.
Foundations ==
    /\ \A i \in TagIds : stage[debate_tag[i].by] \in Inserted
    /\ \A r \in Requests : /\ stage[r] # "none" => request[r].tagsIds \subseteq Committed
                           /\ seen[r] \subseteq Committed

\* A name typed in a request has a row of that request, or one its look-up saw.
Covered(r, typed) ==
    \/ \E i \in TagIds : debate_tag[i].name = typed /\ debate_tag[i].by = r
    \/ \E i \in seen[r] : Matches(debate_tag[i].name, typed)

TypedCovered ==
    \A r \in Requests : stage[r] \in {"tagged", "written", "committed"} =>
        \A n \in DOMAIN request[r].createdTags : Covered(r, request[r].createdTags[n])

\* The associations are those the tags of the request call for.
Associated ==
    \A r \in Requests :
        stage[r] \in {"written", "committed"} => assoc_debate_tag[r] = AllTags(r)

\* What a look-up saw it did not insert again, whoever commits afterwards.
LookedUp ==
    \A i, j \in TagIds :
        /\ debate_tag[i].name.word = debate_tag[j].name.word
        /\ debate_tag[i].by # debate_tag[j].by
        /\ ~debate_tag[i].name.padded
        => i \notin seen[debate_tag[j].by]

TInv == Types /\ Foundations /\ TypedCovered /\ Associated /\ LookedUp

\* The tables are empty at the start.
LEMMA InitTInv == Init => TInv
<1> SUFFICES ASSUME Init
             PROVE  TInv
  OBVIOUS
<1>1. TagIds = {}
  BY DEF Init, TagIds
<1>2. debate_tag \in Seq(Row)
  BY EmptySeq DEF Init
<1> QED
  BY <1>1, <1>2 DEF Init, TInv, Types, Foundations, TypedCovered, Associated, LookedUp

\* Ids of tags are the places of their rows.
LEMMA Rows == ASSUME Types
              PROVE  /\ Len(debate_tag) \in Nat /\ TagIds \subseteq Nat
                     /\ \A i \in TagIds : /\ debate_tag[i] \in Row
                                          /\ debate_tag[i].by \in Requests
                     /\ Committed \subseteq TagIds
<1>1. Len(debate_tag) \in Nat /\ \A i \in TagIds : debate_tag[i] \in Row
  BY LenProperties, ElementOfSeq DEF Types, TagIds
<1> QED
  BY <1>1 DEF TagIds, Row, Committed

\* A step that only moves a transaction on, to where it was not and away from
\* nothing committed.
LEMMA StageMoves ==
    ASSUME TInv, NEW r \in Requests, NEW s \in {"begun"} \cup Inserted,
           stage[r] # "committed", stage' = [stage EXCEPT ![r] = s],
           UNCHANGED debate_tag
    PROVE  /\ TagIds' = TagIds /\ Committed \subseteq Committed'
           /\ stage' \in [Requests -> {"none", "begun"} \cup Inserted]
           /\ s \in Inserted => \A i \in TagIds' : stage'[debate_tag'[i].by] \in Inserted
<1>1. TagIds' = TagIds
  BY DEF TagIds
<1>2. Committed \subseteq Committed'
  BY <1>1, Rows DEF TInv, Types, Committed
<1> QED
  BY <1>1, <1>2, Rows DEF TInv, Types, Foundations

\* A call begins: it has added no row yet.
LEMMA BeginTInv == ASSUME TInv, NEW r \in Requests, NEW ids \in SUBSET Committed,
                          NEW names \in NewTags, Begin(r, ids, names)
                   PROVE  TInv'
<1> USE DEF TInv
<1> DEFINE asked == [tagsIds |-> ids, createdTags |-> names]
<1>1. /\ stage[r] = "none" /\ stage' = [stage EXCEPT ![r] = "begun"]
      /\ request' = [request EXCEPT ![r] = asked]
      /\ UNCHANGED <<debate_tag, assoc_debate_tag, seen>>
  BY DEF Begin
<1>2. /\ TagIds' = TagIds /\ Committed \subseteq Committed'
      /\ stage' \in [Requests -> {"none", "begun"} \cup Inserted]
  BY <1>1, StageMoves
<1>3. asked \in Asked
  BY Rows DEF Asked
<1>4. asked.tagsIds \subseteq Committed
  OBVIOUS
<1> HIDE DEF asked
<1>5. request' \in [Requests -> {None} \cup Asked]
  BY <1>1, <1>3 DEF Types
<1>6. Types'
  BY <1>1, <1>2, <1>3, <1>5 DEF Types
<1>7. \A i \in TagIds : debate_tag[i].by # r
  BY <1>1 DEF Foundations, Inserted
<1>8. \A i \in TagIds : debate_tag[i].by \in Requests
  BY Rows
<1>9. Foundations'
  BY <1>1, <1>2, <1>4, <1>7, <1>8 DEF Types, Foundations
<1>10. TypedCovered'
  BY <1>1, <1>2 DEF Types, TypedCovered, Covered, Matches
<1>11. Associated' /\ LookedUp'
  BY <1>1, <1>2 DEF Types, Associated, AllTags, LookedUp
<1> QED
  BY <1>6, <1>9, <1>10, <1>11

\* A transaction associates its debate, commits or rolls back.
LEMMA FinishTInv == ASSUME TInv, NEW r \in Requests,
                           InsertDebate(r) \/ Commit(r) \/ RollBack(r)
                    PROVE  TInv'
<1> USE DEF TInv
<1>1. PICK s \in Inserted : stage' = [stage EXCEPT ![r] = s]
  BY DEF InsertDebate, Commit, RollBack, Inserted
<1>2. stage[r] \in {"begun", "tagged", "written"} /\ UNCHANGED <<debate_tag, request, seen>>
  BY DEF InsertDebate, Commit, RollBack
<1>3. /\ TagIds' = TagIds /\ Committed \subseteq Committed'
      /\ stage' \in [Requests -> {"none", "begun"} \cup Inserted]
      /\ \A i \in TagIds' : stage'[debate_tag'[i].by] \in Inserted
  BY <1>1, <1>2, StageMoves
<1>4. assoc_debate_tag' = assoc_debate_tag
        \/ assoc_debate_tag' = [assoc_debate_tag EXCEPT ![r] = AllTags(r)]
  BY DEF InsertDebate, Commit, RollBack
<1>5. AllTags(r) \subseteq Nat
  BY <1>2, Rows DEF Types, Asked, AllTags
<1>6. Types'
  BY <1>1, <1>2, <1>3, <1>4, <1>5 DEF Types
<1>7. Foundations'
  BY <1>1, <1>2, <1>3 DEF Types, Foundations
<1>8. TypedCovered'
  BY <1>1, <1>2, <1>3 DEF Types, TypedCovered, Covered, Matches, InsertDebate, Commit,
                          RollBack
<1>9. Associated'
  BY <1>2, <1>3 DEF Types, Associated, AllTags, InsertDebate, Commit, RollBack
<1>10. LookedUp'
  BY <1>2, <1>3 DEF LookedUp
<1> QED
  BY <1>6, <1>7, <1>8, <1>9, <1>10

\* The statement that inserts the new names appends rows of its own, for every name
\* it found missing, and saw exactly what was committed.
LEMMA InsertTInv == ASSUME TInv, NEW r \in Requests, InsertTags(r)
                    PROVE  TInv'
<1> USE DEF TInv
<1> DEFINE typed == request[r].createdTags
<1>1. PICK order \in SetToSeqs(Missing(typed)) :
          debate_tag' = debate_tag \o
              [j \in DOMAIN order |-> [name |-> typed[order[j]], by |-> r]]
  BY DEF InsertTags
<1> DEFINE k == Cardinality(Missing(typed))
           new == [j \in 1 .. k |-> [name |-> typed[order[j]], by |-> r]]
           L == Len(debate_tag)
<1>2. /\ stage[r] = "begun" /\ stage' = [stage EXCEPT ![r] = "tagged"]
      /\ seen' = [seen EXCEPT ![r] = Committed]
      /\ UNCHANGED <<request, assoc_debate_tag>>
  BY DEF InsertTags
<1>3. PICK m \in Nat : typed \in [1 .. m -> Names] /\ request[r].tagsIds \subseteq Nat
  <2>1. typed \in NewTags /\ request[r].tagsIds \subseteq Nat
    BY <1>2 DEF Types, Asked
  <2>2. PICK m \in 0 .. MaxNewTags : typed \in [1 .. m -> Names]
    BY <2>1 DEF NewTags
  <2> QED
    BY <2>1, <2>2, MaxNewTagsIsNat
<1>4. /\ k \in Nat /\ order \in [1 .. k -> Missing(typed)]
      /\ \A n \in Missing(typed) : \E j \in 1 .. k : order[j] = n
  <2>1. IsFiniteSet(Missing(typed)) /\ k \in Nat
    <3>1. Missing(typed) \subseteq 1 .. m
      BY <1>3 DEF Missing
    <3>2. IsFiniteSet(1 .. m)
      BY FS_Interval
    <3>3. IsFiniteSet(Missing(typed))
      BY <3>1, <3>2, FS_Subset
    <3> QED
      BY <3>3, FS_CardinalityType
  <2>2. /\ order \in [1 .. k -> Missing(typed)]
        /\ \A i, j \in 1 .. k : i # j => order[i] # order[j]
    BY <1>1 DEF SetToSeqs
  <2>3. order \in Injection(1 .. k, Missing(typed))
    BY <2>2 DEF Injection, IsInjective
  <2>4. IsFiniteSet(1 .. k) /\ Cardinality(1 .. k) = k
    <3>1. IsFiniteSet(1 .. k) /\ Cardinality(1 .. k) = IF 1 > k THEN 0 ELSE k - 1 + 1
      BY <2>1, FS_Interval
    <3> QED
      BY <2>1, <3>1
  <2>5. order \in Surjection(1 .. k, Missing(typed))
    BY <2>1, <2>3, <2>4, FS_Injection
  <2> QED
    BY <2>1, <2>2, <2>5 DEF Surjection
<1>5. new \in Seq(Row) /\ Len(new) = k /\ \A j \in 1 .. k : new[j].by = r
  <2>1. \A j \in 1 .. k : new[j] \in Row /\ new[j].by = r
    BY <1>3, <1>4 DEF Missing, Row
  <2> QED
    BY <1>4, <2>1, IsASeq
<1>6. debate_tag' = debate_tag \o new
  BY <1>1, <1>4
<1>7. /\ debate_tag' \in Seq(Row) /\ L \in Nat
      /\ TagIds' = 1 .. L + k
      /\ \A i \in 1 .. L : debate_tag'[i] = debate_tag[i]
      /\ \A j \in 1 .. k : debate_tag'[L + j] = new[j]
  <2>1. debate_tag \in Seq(Row) /\ L \in Nat
    BY LenProperties DEF Types
  <2> HIDE DEF new, k, L
  <2> QED
    BY <1>4, <1>5, <1>6, <2>1, ConcatProperties DEF L, TagIds
<1>8. TagIds = 1 .. L
  BY DEF TagIds
<1>9. \A i \in TagIds' : \/ i \in TagIds /\ debate_tag'[i] = debate_tag[i]
                         \/ i \notin TagIds /\ debate_tag'[i].by = r
                            /\ \E n \in Missing(typed) : debate_tag'[i].name = typed[n]
  <2> TAKE i \in TagIds'
  <2>1. CASE i \in TagIds
    BY <1>7, <1>8, <2>1
  <2>2. CASE i \notin TagIds
    <3>1. i - L \in 1 .. k /\ i = L + (i - L)
      BY <1>4, <1>7, <1>8, <2>2
    <3>2. debate_tag'[i] = new[i - L]
      BY <1>7, <3>1
    <3> QED
      BY <1>4, <2>2, <3>1, <3>2
  <2> QED
    BY <2>1, <2>2
<1>10. \A n \in Missing(typed) : \E i \in TagIds' : debate_tag'[i].name = typed[n]
                                                    /\ debate_tag'[i].by = r
  <2> TAKE n \in Missing(typed)
  <2>1. PICK j \in 1 .. k : order[j] = n
    BY <1>4
  <2>2. L + j \in TagIds' /\ debate_tag'[L + j] = new[j]
    BY <1>4, <1>7
  <2> QED
    BY <2>1, <2>2
<1> HIDE DEF typed, k, new, L
<1>11. TagIds \subseteq TagIds'
  BY <1>4, <1>7, <1>8
<1>12. \A i \in TagIds : debate_tag[i].by # r /\ debate_tag[i].by \in Requests
  BY <1>2, Rows DEF Foundations, Inserted
<1>13. Committed' = Committed
  <2>1. \A q \in Requests : stage'[q] = "committed" <=> stage[q] = "committed"
    BY <1>2 DEF Types
  <2> QED
    BY <1>2, <1>9, <1>11, <1>12, <2>1 DEF Types, Committed
<1>14. Types'
  <2>1. seen' \in [Requests -> SUBSET TagIds']
    BY <1>2, <1>11 DEF Types, Committed
  <2> QED
    BY <1>2, <1>7, <2>1 DEF Types, Inserted
<1>15. Foundations'
  <2>1. \A q \in Requests : seen'[q] \subseteq Committed'
    BY <1>2, <1>13 DEF Types, Foundations
  <2> QED
    BY <1>2, <1>9, <1>12, <1>13, <2>1 DEF Types, Foundations, Inserted
<1>16. TypedCovered'
  <2> SUFFICES ASSUME NEW q \in Requests, stage'[q] \in {"tagged", "written", "committed"},
                      NEW n \in DOMAIN request[q].createdTags
               PROVE  \/ \E i \in TagIds' : /\ debate_tag'[i].name = request[q].createdTags[n]
                                            /\ debate_tag'[i].by = q
                      \/ \E i \in seen'[q] :
                            Matches(debate_tag'[i].name, request[q].createdTags[n])
    BY <1>2 DEF TypedCovered, Covered, Matches
  <2>1. CASE q # r
    <3>1. Covered(q, request[q].createdTags[n]) /\ seen'[q] = seen[q]
      BY <1>2, <2>1 DEF Types, TypedCovered
    <3>2. seen[q] \subseteq TagIds
      BY DEF Types
    <3> QED
      BY <1>9, <1>11, <3>1, <3>2 DEF Covered
  <2>2. CASE q = r /\ n \in Missing(typed)
    BY <1>10, <2>2 DEF typed
  <2>3. CASE q = r /\ n \notin Missing(typed)
    <3>1. PICK i \in Committed : Matches(debate_tag[i].name, request[q].createdTags[n])
      BY <2>3 DEF Missing, typed
    <3>2. i \in TagIds /\ seen'[q] = Committed
      BY <1>2, <2>3 DEF Committed, Types
    <3> QED
      BY <1>9, <1>11, <3>1, <3>2
  <2> QED
    BY <2>1, <2>2, <2>3
<1>17. Associated'
  BY <1>2, <1>9, <1>11 DEF Types, Associated, AllTags
<1>18. LookedUp'
  <2> SUFFICES ASSUME NEW i \in TagIds', NEW j \in TagIds',
                      debate_tag'[i].name.word = debate_tag'[j].name.word,
                      debate_tag'[i].by # debate_tag'[j].by,
                      ~debate_tag'[i].name.padded
               PROVE  i \notin seen'[debate_tag'[j].by]
    BY DEF LookedUp
  <2>1. CASE j \in TagIds
    <3>1. debate_tag'[j] = debate_tag[j] /\ seen'[debate_tag[j].by] = seen[debate_tag[j].by]
      BY <1>2, <1>9, <1>12, <2>1 DEF Types
    <3>2. CASE i \in TagIds
      BY <1>9, <2>1, <3>1, <3>2 DEF LookedUp
    <3>3. CASE i \notin TagIds
      BY <1>12, <2>1, <3>1, <3>3 DEF Types
    <3> QED
      BY <3>2, <3>3
  <2>2. CASE j \notin TagIds
    <3>1. PICK n \in Missing(typed) : debate_tag'[j].name = typed[n] /\ debate_tag'[j].by = r
      BY <1>9, <2>2
    <3>2. seen'[debate_tag'[j].by] = Committed
      BY <1>2, <3>1 DEF Types
    <3>3. ASSUME i \in Committed
          PROVE  FALSE
      <4>1. i \in TagIds /\ debate_tag'[i] = debate_tag[i]
        BY <1>9, <3>3 DEF Committed
      <4> QED
        BY <3>1, <3>3, <4>1 DEF Missing, Matches
    <3> QED
      BY <3>2, <3>3
  <2> QED
    BY <2>1, <2>2
<1> QED
  BY <1>14, <1>15, <1>16, <1>17, <1>18

\* Every statement of every transaction keeps what the tables owe each other.
LEMMA NextTInv == TInv /\ [Next]_vars => TInv'
<1> SUFFICES ASSUME TInv, [Next]_vars
             PROVE  TInv'
  OBVIOUS
<1>1. CASE Next
  BY <1>1, BeginTInv, InsertTInv, FinishTInv DEF Next
<1>2. CASE UNCHANGED vars
  BY <1>2 DEF vars, TInv, Types, Foundations, TypedCovered, Covered, Matches, Associated,
              AllTags, LookedUp, TagIds, Committed
<1> QED
  BY <1>1, <1>2

\* The inductive invariant of the tag tables holds in every run.
THEOREM TablesAgree == Spec => []TInv
  BY InitTInv, NextTInv, PTL DEF Spec

\* createDebate loses no tag that was typed: it is a tag of the debate, whatever commits
\* or rolls back meanwhile, unless the look-up of its own request found a committed tag of
\* that word; and then that tag is still there, although the debate does not get it.
THEOREM TypedTagsThere == Spec => []TypedTagsExist
<1>1. TInv => TypedTagsExist
  <2> SUFFICES ASSUME TInv, NEW r \in Debates, NEW n \in DOMAIN request[r].createdTags,
                      NEW typed, typed = request[r].createdTags[n]
               PROVE  \/ \E i \in assoc_debate_tag[r] \cap Committed :
                            debate_tag[i].name = typed
                      \/ \E i \in seen[r] \cap Committed : Matches(debate_tag[i].name, typed)
    BY DEF TypedTagsExist
  <2>1. r \in Requests /\ stage[r] = "committed"
    BY DEF Debates
  <2>2. Covered(r, typed) /\ assoc_debate_tag[r] = AllTags(r) /\ seen[r] \subseteq Committed
    BY <2>1 DEF TInv, TypedCovered, Associated, Foundations
  <2>3. ASSUME NEW i \in TagIds, debate_tag[i].by = r
        PROVE  i \in AllTags(r) \cap Committed
    BY <2>1, <2>3 DEF AllTags, Committed
  <2> QED
    BY <2>2, <2>3 DEF Covered
<1> QED
  BY <1>1, TablesAgree, PTL

\* A debate is associated with the tags chosen and inserted for it (assocDebateTagSql)
\* and no other, and none of them disappears with a transaction that rolls back.
THEOREM OwnTagsShown == Spec => []ShowsItsTags
<1>1. TInv => ShowsItsTags
  <2> SUFFICES ASSUME TInv, NEW r \in Debates
               PROVE  /\ request[r].tagsIds \cup {i \in Committed : debate_tag[i].by = r}
                            \subseteq assoc_debate_tag[r] \cap Committed
                      /\ \A i \in assoc_debate_tag[r] :
                            i \in request[r].tagsIds \/ debate_tag[i].by = r
    BY DEF ShowsItsTags
  <2>1. r \in Requests /\ stage[r] = "committed"
    BY DEF Debates
  <2>2. assoc_debate_tag[r] = AllTags(r) /\ request[r].tagsIds \subseteq Committed
    BY <2>1 DEF TInv, Associated, Foundations
  <2> QED
    BY <2>2 DEF AllTags, Committed
<1> QED
  BY <1>1, TablesAgree, PTL

\* Two transactions that insert one word overlapped: neither look-up saw the other's
\* row, unless blanks hid it (the join of insertTagsSql).
THEOREM DuplicatesNeedOverlap == Spec => []DuplicatesOverlap
<1>1. TInv => DuplicatesOverlap
  BY DEF TInv, LookedUp, DuplicatesOverlap, Duplicates, Committed
<1> QED
  BY <1>1, TablesAgree, PTL
===============================================================================
