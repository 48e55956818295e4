---------------------------- MODULE SessionSchedule ----------------------------
(***************************************************************************)
(* ProviderSessionsService and RecurringSchedulesService, for the sessions *)
(* of one activity.  Time is counted in steps of the clock; a local time is*)
(* its instant here.  Nothing books yet, so booked_count stays 0; capacity *)
(* and booking cutoff are in order, and every template has the same length.*)
(* The time a template was last generated is left out.                     *)
(*                                                                         *)
(* A request is a slot of Requests and runs in one transaction; what it    *)
(* writes is invisible until it commits.  A generation inserts the         *)
(* occurrences of its template one after the other.  The unique index on   *)
(* (activity_id, starts_at) makes a row that enters it wait for every other*)
(* transaction that has inserted a row at that start or has updated the row*)
(* there, whatever it changed.  An UPDATE that moves a session marks the   *)
(* old row first and only then enters the index at the new start.          *)
(***************************************************************************)
EXTENDS Integers, FiniteSets, FiniteSetsExt

CONSTANTS
  Requests,     \* each slot carries one request
  First,        \* the request of the past that created the first session
  None,         \* no request, template or session
  Templates,    \* recurring schedules
  Occurrences,  \* Occurrences[t]: the starts template t generates
  Lengths,      \* possible durations of a session
  Operations,   \* which operations are requested
  Horizon       \* the clock stops here

Times == 1 .. Horizon
AllOperations == {"create", "update", "cancel", "complete", "generate"}

ASSUME OccurrencesAssumption == Occurrences \in [Templates -> SUBSET Times]
ASSUME LengthsAssumption == Lengths \subseteq Nat \ {0} /\ Lengths # {}
ASSUME HorizonAssumption == Horizon \in Nat
ASSUME OperationsAssumption == Operations \subseteq AllOperations

VARIABLES
  now,        \* the clock
  archived,   \* the activity is ARCHIVED
  sessions,   \* sessions[s]: committed row of session s, or NoRow
  lock,       \* lock[s]: the request that holds the row, or None
  pending,    \* pending[p]: the sessions generation p has inserted so far
  todo,       \* todo[p]: the starts it has yet to insert
  candidates, \* candidates[p]: all the starts it set out to insert
  pc, req, reply,
  vacated     \* vacated[p]: a session moved off a start p wants, while p ran

requestVars == <<lock, pending, todo, candidates, pc, req, reply, vacated>>
vars == <<now, archived, sessions, requestVars>>

(* A manual session is named by the request that created it, a generated    *)
(* one by its template and start.  Before the requests there was a manual   *)
(* session, and one template may have been generated in part.               *)
Manual == Requests \cup {First}
Sessions == Manual \cup (Templates \X Times)
TemplateOf(s) == IF s \in Manual THEN None ELSE s[1]

ASSUME NamesAssumption ==
  /\ First \notin Requests /\ None \notin Sessions \cup Templates
  /\ Manual \cap (Templates \X Times) = {}

NoRow == [start |-> 0, length |-> 0, status |-> "NONE", version |-> 0]
NewRow(start, length) ==
  [start |-> start, length |-> length, status |-> "SCHEDULED", version |-> 0]
EndOf(r) == r.start + r.length
Exists(s) == sessions[s] # NoRow

At(p, here) == pc[p] = here

(* create and update name a start and a length; update may keep either (0). *)
Request ==
  {r \in [op : Operations, session : Sessions \cup {None}, start : 0 .. Horizon,
          length : Lengths \cup {0}, template : Templates \cup {None}] :
     /\ r.op \in {"update", "cancel", "complete"} <=> r.session # None
     /\ r.op = "generate" <=> r.template # None
     /\ r.op = "create" => r.start # 0 /\ r.length # 0
     /\ r.op = "generate" => r.start # 0 /\ r.length = 0  \* start: throughDate
     /\ r.op \in {"cancel", "complete"} => r.start = 0 /\ r.length = 0}

Row ==
  [start : Times, length : Lengths, version : Nat,
   status : {"SCHEDULED", "CANCELLED", "COMPLETED"}]

(* Types, and what a request has locked or inserted ends with it.           *)
TypeOK ==
  /\ now \in Nat
  /\ archived \in BOOLEAN
  /\ sessions \in [Sessions -> Row \cup {NoRow}]
  /\ lock \in [Sessions -> Requests \cup {None}]
  /\ pending \in [Requests -> SUBSET (Templates \X Times)]
  /\ todo \in [Requests -> SUBSET Times] /\ candidates \in [Requests -> SUBSET Times]
  /\ pc \in [Requests -> {"idle", "check", "lock", "write", "enter", "insert",
                          "conflicts", "commit", "done"}]
  /\ req \in [Requests -> Request \cup {None}]
  /\ reply \in [Requests -> {"none", "ok", "unchanged", "refused"}]
  /\ vacated \in [Requests -> BOOLEAN]
  /\ \A p \in Requests : At(p, "idle") \/ req[p] \in Request
  /\ \A p \in Requests : At(p, "done") => pending[p] = {} /\ \A s \in Sessions : lock[s] # p

Init ==
  /\ now = 0
  /\ archived = FALSE
  /\ \E start \in Times, t \in Templates, through \in 0 .. Horizon :
       LET generated == {o \in Occurrences[t] : o <= through}
       IN  /\ start \notin generated
           /\ sessions = [s \in Sessions |->
                            IF s = First THEN NewRow(start, Min(Lengths))
                            ELSE IF s \in {t} \X generated THEN NewRow(s[2], Min(Lengths))
                            ELSE NoRow]
  /\ lock = [s \in Sessions |-> None]
  /\ pending = [p \in Requests |-> {}]
  /\ todo = [p \in Requests |-> {}] /\ candidates = [p \in Requests |-> {}]
  /\ pc = [p \in Requests |-> "idle"]
  /\ req = [p \in Requests |-> None]
  /\ reply = [p \in Requests |-> "none"]
  /\ vacated = [p \in Requests |-> FALSE]

-----------------------------------------------------------------------------
Goto(p, there) == pc' = [pc EXCEPT ![p] = there]

Kept(new, old) == IF new = 0 THEN old ELSE new

(* The start of the row that a creation or a change writes.                 *)
OldStart(p) == sessions[req[p].session].start
NewStart(p) == IF req[p].session = None THEN req[p].start
                                        ELSE Kept(req[p].start, OldStart(p))

(* The unique index: committed rows with a start, and the requests that     *)
(* have an uncommitted row or an uncommitted update of a row there.         *)
Taken(start) == {s \in Sessions : Exists(s) /\ sessions[s].start = start}
HasEntered(q, start) ==
  \/ \E s \in pending[q] : s[2] = start
  \/ At(q, "commit") /\ req[q].op # "generate" /\ NewStart(q) = start
IsWriting(q, start) ==
  \/ HasEntered(q, start)
  \/ pc[q] \in {"enter", "commit"} /\ req[q].session # None /\ OldStart(q) = start
Writing(start) == {q \in Requests : IsWriting(q, start)}

Unlock(p) == [s \in Sessions |-> IF lock[s] = p THEN None ELSE lock[s]]

(* The transaction of p ends, with its locks and pending rows.              *)
End(p, r) ==
  /\ lock' = Unlock(p)
  /\ pending' = [pending EXCEPT ![p] = {}]
  /\ todo' = [todo EXCEPT ![p] = {}]
  /\ reply' = [reply EXCEPT ![p] = r]
  /\ Goto(p, "done")
  /\ UNCHANGED <<now, archived, candidates, req>>

Refuse(p) == End(p, "refused") /\ UNCHANGED <<sessions, vacated>>

Continue(p, there) ==
  /\ Goto(p, there)
  /\ UNCHANGED <<now, archived, sessions, lock, pending, todo, candidates, req, reply,
                 vacated>>

Submit(p, r) ==
  /\ At(p, "idle")
  /\ r.session # None => Exists(r.session)
  /\ req' = [req EXCEPT ![p] = r]
  /\ Goto(p, IF r.session = None THEN "check" ELSE "lock")
  /\ UNCHANGED <<now, archived, sessions, lock, pending, todo, candidates, reply, vacated>>

-----------------------------------------------------------------------------
(* create                                                                   *)
ScheduleAnything(p) ==  \* forgets that the activity must be mutable
  /\ At(p, "check") /\ req[p].op = "create"
  /\ IF req[p].start <= now THEN Refuse(p) ELSE Continue(p, "write")

CheckCreate(p) ==
  /\ At(p, "check") /\ req[p].op = "create"
  /\ IF archived \/ req[p].start <= now THEN Refuse(p) ELSE Continue(p, "write")

(* The row enters the unique index, once nobody else is writing there.      *)
EnterIndex(p) ==
  /\ Writing(NewStart(p)) \ {p} = {}
  /\ IF Taken(NewStart(p)) # {} THEN Refuse(p) ELSE Continue(p, "commit")

Create(p) == At(p, "write") /\ req[p].op = "create" /\ EnterIndex(p)

CommitCreate(p) ==
  /\ At(p, "commit") /\ req[p].op = "create"
  /\ sessions' = [sessions EXCEPT ![p] = NewRow(req[p].start, req[p].length)]
  /\ End(p, "ok")
  /\ UNCHANGED vacated

-----------------------------------------------------------------------------
(* update, cancel and complete lock the session before they read it.        *)
ReadUnlocked(p) == TRUE  \* reads the session without a lock
LockFree(p) == lock[req[p].session] = None

ChangesTime(p) == req[p].start # 0 \/ req[p].length # 0

MayUpdate(p, row) ==
  /\ row.status = "SCHEDULED"
  /\ row.start > now
  /\ ChangesTime(p) => TemplateOf(req[p].session) = None
  /\ req[p].start # 0 => req[p].start > now

MayCancel(row) == row.status # "COMPLETED"
MayComplete(row) == row.status # "CANCELLED" /\ EndOf(row) <= now

(* A session that already is what the request wants is answered as it is.   *)
IsAlready(p, row) ==
  \/ req[p].op = "cancel" /\ row.status = "CANCELLED"
  \/ req[p].op = "complete" /\ row.status = "COMPLETED"

IsAllowed(p, row) ==
  \/ req[p].op = "update" /\ MayUpdate(p, row)
  \/ req[p].op = "cancel" /\ MayCancel(row)
  \/ req[p].op = "complete" /\ MayComplete(row)

LockSession(p) ==
  LET s == req[p].session
  IN  /\ At(p, "lock")
      /\ LockFree(p)
      /\ \/ /\ IsAlready(p, sessions[s])
            /\ End(p, "unchanged")
            /\ UNCHANGED <<sessions, vacated>>
         \/ /\ ~IsAlready(p, sessions[s]) /\ ~IsAllowed(p, sessions[s])
            /\ Refuse(p)
         \/ /\ ~IsAlready(p, sessions[s]) /\ IsAllowed(p, sessions[s])
            /\ lock' = [lock EXCEPT ![s] = p]
            /\ Goto(p, "write")
            /\ UNCHANGED <<now, archived, sessions, pending, todo, candidates, req, reply,
                           vacated>>

Changed(p, row) ==
  LET next == [row EXCEPT !.version = @ + 1]
  IN  CASE req[p].op = "cancel" -> [next EXCEPT !.status = "CANCELLED"]
        [] req[p].op = "complete" -> [next EXCEPT !.status = "COMPLETED"]
        [] req[p].op = "update" -> [next EXCEPT !.start = Kept(req[p].start, @),
                                                !.length = Kept(req[p].length, @)]

(* The UPDATE.  One that keeps the start needs no new entry in the index.   *)
Change(p) ==
  /\ At(p, "write") /\ req[p].session # None
  /\ Continue(p, IF NewStart(p) = OldStart(p) THEN "commit" ELSE "enter")

Move(p) == At(p, "enter") /\ EnterIndex(p)

CommitChange(p) ==
  LET s == req[p].session
  IN  /\ At(p, "commit") /\ s # None
      /\ sessions' = [sessions EXCEPT ![s] = Changed(p, sessions[s])]
      /\ vacated' = [q \in Requests |->
                       \/ vacated[q]
                       \/ /\ NewStart(p) # OldStart(p)
                          /\ ~At(q, "done") /\ OldStart(p) \in candidates[q]]
      /\ End(p, "ok")

-----------------------------------------------------------------------------
(* generate                                                                 *)
Candidates(p) ==
  {o \in Occurrences[req[p].template] : o <= req[p].start /\ o > now}

CheckGenerate(p) ==
  /\ At(p, "check") /\ req[p].op = "generate"
  /\ IF archived
       THEN Refuse(p)
       ELSE /\ todo' = [todo EXCEPT ![p] = Candidates(p)]
            /\ candidates' = [candidates EXCEPT ![p] = Candidates(p)]
            /\ Goto(p, IF Candidates(p) = {} THEN "commit" ELSE "insert")
            /\ UNCHANGED <<now, archived, sessions, lock, pending, req, reply, vacated>>

Own(p, start) == <<req[p].template, start>>

(* The rows of createMany are in the order of the dates.                    *)
AnyOccurrence(p) == todo[p]
NextOccurrence(p) == {Min(todo[p])}

(* ON CONFLICT DO NOTHING                                                   *)
InsertOccurrence(p) ==
  /\ At(p, "insert")
  /\ \E o \in NextOccurrence(p) :
       /\ Writing(o) \ {p} = {}
       /\ pending' = IF Taken(o) = {} THEN [pending EXCEPT ![p] = @ \cup {Own(p, o)}]
                                      ELSE pending
       /\ todo' = [todo EXCEPT ![p] = @ \ {o}]
       /\ Goto(p, IF todo[p] = {o} THEN "conflicts" ELSE "insert")
  /\ UNCHANGED <<now, archived, sessions, lock, candidates, req, reply, vacated>>

NoConflicts(p) == {}  \* commits whatever it skipped
Conflicts(p) == {s \in Sessions : /\ Exists(s)
                                  /\ sessions[s].start \in candidates[p]
                                  /\ TemplateOf(s) # req[p].template}

CheckConflicts(p) ==
  /\ At(p, "conflicts")
  /\ IF Conflicts(p) # {} THEN Refuse(p) ELSE Continue(p, "commit")

CommitGeneration(p) ==
  /\ At(p, "commit") /\ req[p].op = "generate"
  /\ sessions' = [s \in Sessions |-> IF s \in pending[p] THEN NewRow(s[2], Min(Lengths))
                                                         ELSE sessions[s]]
  /\ End(p, "ok")
  /\ UNCHANGED vacated

(* The requests that p waits for: those writing where it wants to enter the *)
(* index, or the holder of the row it wants to lock.                        *)
WaitsFor(p) ==
  CASE At(p, "insert") -> (UNION {Writing(o) : o \in NextOccurrence(p)}) \ {p}
    [] At(p, "write") /\ req[p].op = "create" -> Writing(NewStart(p)) \ {p}
    [] At(p, "enter") -> Writing(NewStart(p)) \ {p}
    [] At(p, "lock") -> {lock[req[p].session]} \ {None}
    [] OTHER -> {}

-----------------------------------------------------------------------------
Tick == now < Horizon /\ now' = now + 1 /\ UNCHANGED <<archived, sessions, requestVars>>

Archive == ~archived /\ archived' = TRUE /\ UNCHANGED <<now, sessions, requestVars>>

(* A lost connection, a failed statement, or the deadlock that PostgreSQL   *)
(* breaks by failing one of the statements in it.                           *)
Abort(p) == pc[p] \notin {"idle", "done"} /\ Refuse(p)

Step(p) ==
  \/ CheckCreate(p) \/ Create(p) \/ CommitCreate(p)
  \/ LockSession(p) \/ Change(p) \/ Move(p) \/ CommitChange(p)
  \/ CheckGenerate(p) \/ InsertOccurrence(p) \/ CheckConflicts(p) \/ CommitGeneration(p)

Next ==
  \/ \E p \in Requests : (\E r \in Request : Submit(p, r)) \/ Step(p) \/ Abort(p)
  \/ Tick
  \/ Archive

Spec == Init /\ [][Next]_vars

-----------------------------------------------------------------------------
(***************************************************************************)
(* Properties                                                              *)
(***************************************************************************)

(* No two sessions of the activity start at the same instant, whoever       *)
(* created, moved or generated them.                                        *)
OneSessionPerStart ==
  \A s, q \in Sessions :
    Exists(s) /\ Exists(q) /\ sessions[s].start = sessions[q].start => s = q

Materialized(p) ==
  \A o \in candidates[p] : Exists(Own(p, o))

Generated(p) == reply[p] = "ok" /\ req[p].op = "generate"

(* "Atomic conflict rejection when another session owns an occurrence"      *)
(* (README.md:164): a generation that succeeds has materialized all of its  *)
(* occurrences, unless a session is moved off one of those starts meanwhile:*)
(* neither sessions created or generated earlier, nor concurrent ones, nor  *)
(* its own of an earlier attempt, make it lose an occurrence.               *)
GenerationsLoseNothing ==
  \A p \in Requests : Generated(p) /\ ~vacated[p] => Materialized(p)

(* A cancelled or completed session never changes again, although the       *)
(* requests that change sessions race each other.                           *)
FinishedStays ==
  [][\A s \in Sessions :
       sessions[s].status \in {"CANCELLED", "COMPLETED"} => sessions'[s] = sessions[s]]_vars

(* A session is completed only after its end, even when its duration was    *)
(* extended while the completion was requested.                             *)
CompletedAfterEnd ==
  \A s \in Sessions : sessions[s].status = "COMPLETED" => EndOf(sessions[s]) <= now

(* A request that has read the activity and may still add a session to it.  *)
MayAdd(p) ==
  /\ pc[p] \in {"write", "insert", "conflicts", "commit"}
  /\ req[p].session = None

(* "Archived activities cannot be scheduled"                                *)
(* (provider-sessions.service.ts:336).  The activity is read without a lock,*)
(* so a request that overlaps the archival may still schedule it.  Those are*)
(* the only ones: once the activity is archived no further request gets that*)
(* far, and without them its sessions are neither added to nor lost.        *)
ArchiveSettles ==
  [][archived =>
       /\ \A p \in Requests : MayAdd(p)' => MayAdd(p)
       /\ (\A p \in Requests : ~MayAdd(p)) =>
            \A s \in Sessions : Exists(s)' <=> Exists(s)]_vars

(* Generations of overlapping templates, new sessions, cancellations and    *)
(* completions wait for each other, but never in a circle: PostgreSQL fails *)
(* a request with a deadlock only where an update moves a session, which has*)
(* marked its old start and waits for the new one.                          *)
OnlyMovesDeadlock ==
  \A S \in (SUBSET Requests) \ {{}} :
    (\A p \in S : WaitsFor(p) \cap S # {}) => \E p \in S : At(p, "enter")
=============================================================================
