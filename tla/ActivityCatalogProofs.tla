------------------------- MODULE ActivityCatalogProofs -------------------------
(***************************************************************************)
(* The properties of ActivityCatalog, for any number of requests, any set  *)
(* of edits and of categories.                                             *)
(***************************************************************************)
EXTENDS ActivityCatalog, TLAPS

LEMMA EditedIsActivity ==
  ASSUME NEW a \in Activity, NEW e \in Edits
  PROVE  Edited(e, a) \in Activity
<1>1. e \in Edit
  BY EditsAssumption
<1> QED
  BY <1>1 DEF Edited, Edit, Activity

LEMMA StampedIsActivity ==
  ASSUME TypeOK, NEW p \in Requests, IsTransition(p), At(p, "write"),
         Stamped(p, activity).publishedAt <= MaxPublications
  PROVE  Stamped(p, activity) \in Activity
<1>1. req[p].op \in Targets
  BY DEF TypeOK, Request, IsTransition, At
<1>2. activity.publishedAt \in Nat
  BY PublicationsAssumption DEF TypeOK, Activity
<1>3. Stamped(p, activity).publishedAt \in 0 .. MaxPublications
  BY <1>2, PublicationsAssumption DEF TypeOK, Stamped, Activity
<1> QED
  BY <1>1, <1>3 DEF TypeOK, Stamped, Activity, Targets, Statuses

LEMMA TypeInit == Init => TypeOK
BY PublicationsAssumption DEF Init, TypeOK, Activity, Statuses

LEMMA TypeStep == TypeOK /\ [Next]_vars => TypeOK'
<1> SUFFICES ASSUME TypeOK, [Next]_vars PROVE TypeOK'
  OBVIOUS
<1> USE DEF TypeOK
<1>1. ASSUME NEW p \in Requests, NEW r \in Request, Submit(p, r) PROVE TypeOK'
  BY <1>1 DEF Submit, At
<1>2. ASSUME NEW p \in Requests, Refuse(p) PROVE TypeOK'
  BY <1>2 DEF Refuse, End
<1>3. ASSUME NEW p \in Requests, Read(p) PROVE TypeOK'
  BY <1>2, <1>3 DEF Read, At
<1>4. ASSUME NEW p \in Requests, Write(p) PROVE TypeOK'
  <2>1. CASE Refuse(p)
    BY <1>2, <2>1
  <2>2. CASE activity' = Written(p) /\ ~Refuse(p)
    <3>1. CASE IsTransition(p)
      BY <1>4, <2>2, <3>1, StampedIsActivity DEF Write, Written, End
    <3>2. CASE ~IsTransition(p)
      <4>1. req[p].edit \in Edits
        BY <1>4, <3>2 DEF Write, At, IsTransition, Request, Targets
      <4>2. Written(p) \in Activity
        BY <3>2, <4>1, EditedIsActivity DEF Written
      <4> QED
        BY <1>4, <2>2, <4>2 DEF Write, End
    <3> QED
      BY <3>1, <3>2
  <2> QED
    BY <1>4, <2>1, <2>2 DEF Write
<1>5. ASSUME NEW c \in Categories, SetCategory(c) PROVE TypeOK'
  BY <1>5 DEF SetCategory
<1>6. CASE SetProvider
  BY <1>6 DEF SetProvider
<1>7. CASE UNCHANGED vars
  BY <1>7 DEF vars
<1> QED
  BY <1>1, <1>2, <1>3, <1>4, <1>5, <1>6, <1>7 DEF Next

(* Only a write changes the activity, and the check of the table holds then.*)
LEMMA OnlyWritesChange ==
  ASSUME [Next]_vars, activity' # activity
  PROVE  \E p \in Requests : /\ At(p, "write") /\ pc' = [pc EXCEPT ![p] = "idle"]
                             /\ activity' = Written(p) /\ PublishedCheck(activity')
BY DEF Next, vars, Submit, Refuse, Read, Write, End, SetCategory, SetProvider

(* The activity, its row check, and the types, in every reachable state.    *)
THEOREM CatalogTypes == Spec => []TypeOK
BY TypeInit, TypeStep, PTL DEF Spec

(* What is published is complete, whatever overlaps.                        *)
THEOREM WhatIsPublishedIsComplete == Spec => []PublishedIsComplete
<1>1. Init => PublishedIsComplete
  BY DEF Init, PublishedIsComplete
<1>2. PublishedIsComplete /\ [Next]_vars => PublishedIsComplete'
  <2> SUFFICES ASSUME PublishedIsComplete, [Next]_vars PROVE PublishedIsComplete'
    OBVIOUS
  <2>1. CASE activity' = activity
    BY <2>1 DEF PublishedIsComplete
  <2>2. CASE activity' # activity
    BY <2>2, OnlyWritesChange DEF PublishedIsComplete, PublishedCheck
  <2> QED
    BY <2>1, <2>2
<1> QED
  BY <1>1, <1>2, PTL DEF Spec

(* The public never meets a row that the mapper refuses.                    *)
THEOREM ThePublicReadsWhatIsThere == Spec => []PublicReadsSucceed
<1>1. ASSUME TypeOK, PublishedIsComplete, IsPublic(activity)
      PROVE  RequiredPublished \subseteq Present(activity)
  <2>1. activity.place # "none" /\ activity.publishedAt # 0 /\ "text" \in activity.filled
    BY <1>1 DEF IsPublic, PublishedIsComplete, IsComplete, Needed
  <2>2. NamesOf["text"] \subseteq Present(activity)
    BY <2>1 DEF Present
  <2>3. {"locationType", "publishedAt"} \subseteq Present(activity)
    BY <2>1 DEF Present
  <2> QED
    BY <2>2, <2>3 DEF NamesOf, RequiredPublished
<1>2. TypeOK /\ PublishedIsComplete => PublicReadsSucceed
  BY <1>1 DEF PublicReadsSucceed, PublicGet
<1> QED
  BY <1>2, CatalogTypes, WhatIsPublishedIsComplete, PTL

-----------------------------------------------------------------------------
(* A request that nothing raced still sees the row it decided on.           *)
Decided ==
  \A p \in Requests :
    At(p, "write") /\ ~raced[p] =>
      /\ unpublished[p] <=> activity.publishedAt = 0
      /\ IF IsTransition(p) THEN MayTransition(activity.status, req[p].op)
                            ELSE IsMutable(activity.status)

(* Nobody publishes what was never stamped: an activity without published_at*)
(* is not PUBLISHED, and what is decided stays decided.                     *)
LEMMA DecidedStep == TypeOK /\ Decided /\ [Next]_vars => Decided'
<1> SUFFICES ASSUME TypeOK, Decided, [Next]_vars,
                    NEW q \in Requests, At(q, "write")', ~raced'[q]
             PROVE  /\ unpublished'[q] <=> activity'.publishedAt = 0
                    /\ IF IsTransition(q)' THEN MayTransition(activity'.status, req'[q].op)
                                           ELSE IsMutable(activity'.status)
  BY DEF Decided, MayTransition, IsMutable
<1> USE DEF TypeOK, Decided, At, IsTransition
<1>1. ASSUME NEW p \in Requests, NEW r \in Request, Submit(p, r)
      PROVE  /\ At(q, "write") /\ ~raced[q]
             /\ UNCHANGED <<activity, unpublished>> /\ req'[q] = req[q]
  BY <1>1 DEF Submit
<1>2. ASSUME NEW p \in Requests, Refuse(p)
      PROVE  /\ At(q, "write") /\ ~raced[q]
             /\ UNCHANGED activity /\ unpublished'[q] = unpublished[q] /\ req'[q] = req[q]
  BY <1>2 DEF Refuse, End
<1>3. ASSUME NEW p \in Requests, Read(p), ~Refuse(p), p # q
      PROVE  /\ At(q, "write") /\ ~raced[q]
             /\ UNCHANGED activity /\ unpublished'[q] = unpublished[q] /\ req'[q] = req[q]
  BY <1>3 DEF Read
<1>4. CASE Read(q) /\ ~Refuse(q)
  <2>1. UNCHANGED <<activity, req>> /\ unpublished'[q] = (activity.publishedAt = 0)
    BY <1>4 DEF Read
  <2>2. IF IsTransition(q) THEN MayTransition(activity.status, req[q].op)
                           ELSE IsMutable(activity.status)
    BY <1>4 DEF Read, IsAllowed
  <2> QED
    BY <2>1, <2>2 DEF MayTransition, IsMutable
<1>5. ASSUME NEW p \in Requests, Write(p), ~Refuse(p)
      PROVE  FALSE
  BY <1>5 DEF Write, End
<1> QED
  BY <1>1, <1>2, <1>3, <1>4, <1>5 DEF Next, Write, SetCategory, SetProvider, vars

(* A request that nothing raced keeps to the lifecycle, and to the time of  *)
(* the first publication.                                                   *)
THEOREM UnracedRequestsKeepTheLifecycle == Spec => UnracedKeepsLifecycle
<1> DEFINE Keeps ==
      \A p \in Requests :
        At(p, "write") /\ ~raced[p] /\ pc'[p] = "idle" /\ activity' # activity =>
          /\ activity.status # "ARCHIVED"
          /\ activity'.status \in {activity.status} \cup Transitions[activity.status]
          /\ activity.publishedAt # 0 => activity'.publishedAt = activity.publishedAt
<1>1. Init => Decided
  BY DEF Init, Decided, At
<1>2. ASSUME TypeOK, Decided, [Next]_vars, NEW p \in Requests,
             At(p, "write"), ~raced[p], pc'[p] = "idle", activity' # activity
      PROVE  /\ activity.status # "ARCHIVED"
             /\ activity'.status \in {activity.status} \cup Transitions[activity.status]
             /\ activity.publishedAt # 0 => activity'.publishedAt = activity.publishedAt
  <2>1. activity' = Written(p)
    BY <1>2, OnlyWritesChange DEF At, TypeOK
  <2>2. activity.publishedAt # 0 => ~unpublished[p]
    BY <1>2 DEF Decided
  <2>3. CASE IsTransition(p)
    <3>1. activity' = Stamped(p, activity) /\ MayTransition(activity.status, req[p].op)
      BY <1>2, <2>1, <2>3 DEF Decided, Written
    <3>2. activity'.status = req[p].op /\ req[p].op \in Targets
      BY <1>2, <3>1, <2>3 DEF Stamped, TypeOK, Activity, At, IsTransition, Request
    <3>3. activity'.publishedAt # activity.publishedAt => unpublished[p]
      BY <1>2, <3>1 DEF Stamped, TypeOK, Activity
    <3>4. activity.status # "ARCHIVED"
      <4> SUFFICES ASSUME activity.status = "ARCHIVED" PROVE activity' = activity
        BY <1>2
      <4>1. req[p].op = "ARCHIVED"
        BY <3>1 DEF MayTransition, Transitions
      <4> QED
        BY <1>2, <3>1, <4>1 DEF Stamped, TypeOK, Activity
    <3> QED
      BY <2>2, <3>1, <3>2, <3>3, <3>4 DEF MayTransition
  <2>4. CASE ~IsTransition(p)
    <3>1. activity' = Edited(req[p].edit, activity) /\ IsMutable(activity.status)
      BY <1>2, <2>1, <2>4 DEF Decided, Written
    <3>2. activity'.status = activity.status /\ activity'.publishedAt = activity.publishedAt
      BY <1>2, <3>1 DEF Edited, TypeOK, Activity
    <3> QED
      BY <3>1, <3>2 DEF IsMutable
  <2> QED
    BY <2>3, <2>4
<1>3. TypeOK /\ Decided /\ [Next]_vars => [Keeps]_vars
  BY <1>2
<1> QED
  BY <1>1, <1>3, CatalogTypes, DecidedStep, PTL DEF Spec, UnracedKeepsLifecycle
=============================================================================
