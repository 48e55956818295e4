---------------------------- MODULE ActivityCatalog ----------------------------
(***************************************************************************)
(* ProviderActivitiesService with ActivityLifecyclePolicy, for one activity*)
(* of a provider, and the category and provider status it depends on.      *)
(*                                                                         *)
(* A request reads the activity without a lock, decides, and updates the   *)
(* row by its id.  The update is the only write of its transaction, so it  *)
(* commits it: the columns it names are set in the row as it is then, and a*)
(* check constraint may refuse the result.                                 *)
(*                                                                         *)
(* The details of an activity are abstracted to what publishing asks for:  *)
(* its place ("none" when it has no location type), and which of the groups*)
(* of NamesOf are filled in: "text" stands for what every publication needs*)
(* besides, "address" for what a place on site needs, "url" for the link of*)
(* an activity online.  Media, slugs and titles are left out.              *)
(***************************************************************************)
EXTENDS Naturals

CONSTANTS
  Requests,         \* request slots, used again and again
  None,             \* no request
  Categories,
  Edits,            \* the updates that are requested
  MaxPublications   \* how often published_at may be set

Fields == {"text", "address", "url"}
NamesOf ==
  [text    |-> {"shortDescription", "fullDescription", "priceMinor", "currency",
                "durationMinutes", "minParticipants", "maxParticipants",
                "cancellationPolicy", "cancellationWindowMinutes", "bookingCutoffMinutes"},
   address |-> {"addressLine1", "city", "country"},
   url     |-> {"onlineUrl"}]
Places == {"none", "ONSITE", "ONLINE", "HYBRID"}
Statuses == {"DRAFT", "PUBLISHED", "PAUSED", "ARCHIVED"}

(* An update clears and fills fields and may name a place and a category.   *)
Edit == [clear : SUBSET Fields, fill : SUBSET Fields, place : Places \cup {"keep"},
         category : Categories \cup {None}]

ASSUME EditsAssumption == Edits \subseteq Edit /\ None \notin Categories
ASSUME PublicationsAssumption == MaxPublications \in Nat

VARIABLES
  activity,   \* the committed row
  active,     \* the active categories
  operating,  \* the provider is ACTIVE
  pc, req,
  unpublished,  \* unpublished[p]: published_at was NULL when request p read it
  raced       \* raced[p]: the row was written since request p read it

vars == <<activity, active, operating, pc, req, unpublished, raced>>

(* published_at is the number of times it was set; 0 is NULL.               *)
Activity == [status : Statuses, filled : SUBSET Fields, place : Places,
             category : Categories, publishedAt : 0 .. MaxPublications]

Targets == {"PUBLISHED", "PAUSED", "ARCHIVED"}
Request == [op : Targets, edit : {None}] \cup [op : {"update"}, edit : Edits]
IsTransition(p) == req[p].op # "update"

-----------------------------------------------------------------------------
NeededAtPlace(place) ==  \* forgets what every place needs
  IF place = "ONLINE" THEN {"url"} ELSE {"address"}

Needed(place) ==
  {"text"} \cup (IF place \in {"ONSITE", "HYBRID"} THEN {"address"} ELSE {})
           \cup (IF place \in {"ONLINE", "HYBRID"} THEN {"url"} ELSE {})

(* missingPublishFields, and the same in activities_published_fields_check. *)
IsComplete(a) == a.place # "none" /\ Needed(a.place) \subseteq a.filled

NoPublishedCheck(a) == TRUE  \* a table without the check
PublishedCheck(a) == a.status = "PUBLISHED" => IsComplete(a) /\ a.publishedAt # 0

(* Types, and the check of the table.                                       *)
TypeOK ==
  /\ activity \in Activity
  /\ active \in SUBSET Categories
  /\ operating \in BOOLEAN
  /\ pc \in [Requests -> {"idle", "read", "write"}]
  /\ req \in [Requests -> Request \cup {None}]
  /\ \A p \in Requests : pc[p] = "idle" \/ req[p] \in Request
  /\ unpublished \in [Requests -> BOOLEAN]
  /\ raced \in [Requests -> BOOLEAN]

(* create inserts a DRAFT, however incomplete.                              *)
Init ==
  /\ activity \in [status : {"DRAFT"}, filled : SUBSET Fields, place : Places,
                   category : Categories, publishedAt : {0}]
  /\ active = Categories
  /\ operating = TRUE
  /\ pc = [p \in Requests |-> "idle"]
  /\ req = [p \in Requests |-> None]
  /\ unpublished = [p \in Requests |-> FALSE]
  /\ raced = [p \in Requests |-> FALSE]

-----------------------------------------------------------------------------
At(p, here) == pc[p] = here

(* The request ends; what it read is forgotten.                             *)
End(p) ==
  /\ pc' = [pc EXCEPT ![p] = "idle"]
  /\ req' = [req EXCEPT ![p] = None]
  /\ UNCHANGED <<active, operating>>

Refuse(p) ==
  /\ End(p)
  /\ unpublished' = [unpublished EXCEPT ![p] = FALSE]
  /\ raced' = [raced EXCEPT ![p] = FALSE]
  /\ UNCHANGED activity

(* Only requests that passed authorize, which reads nothing of the activity.*)
Submit(p, r) ==
  /\ At(p, "idle")
  /\ pc' = [pc EXCEPT ![p] = "read"]
  /\ req' = [req EXCEPT ![p] = r]
  /\ UNCHANGED <<activity, active, operating, unpublished, raced>>

Transitions == [DRAFT |-> {"PUBLISHED", "ARCHIVED"}, PUBLISHED |-> {"PAUSED", "ARCHIVED"},
                PAUSED |-> {"PUBLISHED", "ARCHIVED"}, ARCHIVED |-> {}]

MayTransition(from, to) == from = to \/ to \in Transitions[from]

IsMutable(status) == status # "ARCHIVED"

(* assertPublishable                                                        *)
MayPublish(a) == IsComplete(a) /\ a.category \in active /\ operating

(* The columns an update names, set in row a.                               *)
Edited(e, a) ==
  [a EXCEPT !.filled = (@ \ e.clear) \cup e.fill,
            !.place = IF e.place = "keep" THEN @ ELSE e.place,
            !.category = IF e.category = None THEN @ ELSE e.category]

IsAllowed(p, a) ==
  IF IsTransition(p)
    THEN /\ MayTransition(a.status, req[p].op)
         /\ req[p].op = "PUBLISHED" => MayPublish(a)
    ELSE /\ IsMutable(a.status)
         /\ a.status = "PUBLISHED" => MayPublish(Edited(req[p].edit, a))

Read(p) ==
  /\ At(p, "read")
  /\ IF ~IsAllowed(p, activity)
       THEN Refuse(p)
       ELSE /\ unpublished' = [unpublished EXCEPT ![p] = activity.publishedAt = 0]
            /\ raced' = [raced EXCEPT ![p] = FALSE]
            /\ pc' = [pc EXCEPT ![p] = "write"]
            /\ UNCHANGED <<activity, active, operating, req>>

(* A publication that renews published_at.                                  *)
StampAlways(p, a) ==
  [a EXCEPT !.status = req[p].op,
            !.publishedAt = IF req[p].op = "PUBLISHED" THEN @ + 1 ELSE @]

(* The update sets published_at if it was NULL when the request read it.    *)
Stamped(p, a) ==
  [a EXCEPT !.status = req[p].op,
            !.publishedAt = IF req[p].op = "PUBLISHED" /\ unpublished[p] THEN @ + 1 ELSE @]

Written(p) == IF IsTransition(p) THEN Stamped(p, activity) ELSE Edited(req[p].edit, activity)

Write(p) ==
  /\ At(p, "write")
  /\ Written(p).publishedAt <= MaxPublications
  /\ \/ /\ ~PublishedCheck(Written(p))
        /\ Refuse(p)
     \/ /\ PublishedCheck(Written(p))
        /\ activity' = Written(p)
        /\ unpublished' = [unpublished EXCEPT ![p] = FALSE]
        /\ raced' = [q \in Requests |-> q # p /\ (At(q, "write") \/ raced[q])]
        /\ End(p)

-----------------------------------------------------------------------------
(* CategoriesService.setActive and ProvidersService.setStatus               *)
SetCategory(c) ==
  /\ active' = IF c \in active THEN active \ {c} ELSE active \cup {c}
  /\ UNCHANGED <<activity, operating, pc, req, unpublished, raced>>

SetProvider ==
  /\ operating' = ~operating
  /\ UNCHANGED <<activity, active, pc, req, unpublished, raced>>

(* PublicActivitiesService.get; list has the same condition.                *)
IsPublic(a) == a.status = "PUBLISHED" /\ operating /\ a.category \in active

(* The columns of row a that are not NULL, among those that may be.         *)
Present(a) ==
  (UNION {NamesOf[f] : f \in a.filled})
    \cup (IF a.place = "none" THEN {} ELSE {"locationType"})
    \cup (IF a.publishedAt = 0 THEN {} ELSE {"publishedAt"})

(* The mapper of public activities throws when one of these is NULL.        *)
RequiredPublished ==
  {"shortDescription", "priceMinor", "currency", "durationMinutes", "locationType",
   "publishedAt", "fullDescription", "minParticipants", "maxParticipants",
   "cancellationPolicy", "cancellationWindowMinutes", "bookingCutoffMinutes"}

PublicGet(a) ==
  IF ~IsPublic(a) THEN "notFound"
  ELSE IF RequiredPublished \subseteq Present(a) THEN "found" ELSE "internalError"

Next ==
  \/ \E p \in Requests :
       \/ \E r \in Request : Submit(p, r)
       \/ Read(p) \/ Write(p)
       \/ ~At(p, "idle") /\ Refuse(p)
  \/ \E c \in Categories : SetCategory(c)
  \/ SetProvider

Spec == Init /\ [][Next]_vars

-----------------------------------------------------------------------------
(***************************************************************************)
(* Properties                                                              *)
(***************************************************************************)

(* "Publishing validates every required ... field" (README.md:162): what is *)
(* published is complete, also after edits and a publication that were each *)
(* checked against a row the other had not written yet.                     *)
PublishedIsComplete ==
  activity.status = "PUBLISHED" => IsComplete(activity) /\ activity.publishedAt # 0

(* "Published activity invariant violated" (activity.mapper.ts:161) is never*)
(* answered to the public, whatever edits, publications and changes of the  *)
(* category and the provider overlap.                                       *)
PublicReadsSucceed == PublicGet(activity) # "internalError"

(* A request that nothing raced moves the activity along its lifecycle,     *)
(* never changes an archived one, and keeps the time of first publication.  *)
UnracedKeepsLifecycle ==
  [][\A p \in Requests :
       At(p, "write") /\ ~raced[p] /\ pc'[p] = "idle" /\ activity' # activity =>
         /\ activity.status # "ARCHIVED"
         /\ activity'.status \in {activity.status} \cup Transitions[activity.status]
         /\ activity.publishedAt # 0 => activity'.publishedAt = activity.publishedAt]_vars
=============================================================================
