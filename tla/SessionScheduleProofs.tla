------------------------- MODULE SessionScheduleProofs -------------------------
(***************************************************************************)
(* The properties of SessionSchedule, for any number of requests, sessions *)
(* and templates, whatever starts they generate.                           *)
(***************************************************************************)
EXTENDS SessionSchedule, WellFoundedInduction, TLAPS

Generating(p) ==
  pc[p] \in {"insert", "conflicts"} \/ (At(p, "commit") /\ req[p].op = "generate")
Changing(p) == pc[p] \in {"write", "enter", "commit"} /\ req[p].session # None

(* A generated session keeps the start it is named by: nothing moves it.    *)
StartsAreKept == \A s \in Templates \X Times : Exists(s) => sessions[s].start = s[2]

(* A start in the unique index belongs to one request that has entered it.  *)
Disjoint ==
  \A p, q \in Requests : p # q =>
    \A o \in Times : ~(HasEntered(p, o) /\ HasEntered(q, o))

(* Nothing starts where a request has entered but the row it changes; the   *)
(* rows of a generation are before those it has yet to insert.              *)
Reserves(p) ==
  /\ ~Generating(p) => pending[p] = {}
  /\ \A s \in pending[p] : s = Own(p, s[2]) /\ \A o \in todo[p] : s[2] < o
  /\ \A o \in Times : HasEntered(p, o) => Taken(o) \subseteq {req[p].session}

(* Who has locked a session to change it finds it as it was when it decided.*)
Holds(p) ==
  LET s == req[p].session
  IN  Changing(p) =>
        /\ lock[s] = p
        /\ sessions[s].status = "SCHEDULED"
        /\ req[p].op = "complete" => EndOf(sessions[s]) <= now
        /\ req[p].op = "update" /\ ChangesTime(p) => TemplateOf(s) = None

Locks(p) == \A s \in Sessions : lock[s] = p => Changing(p) /\ s = req[p].session

Aims(p) ==
  /\ At(p, "lock") \/ Changing(p) => req[p].session \in Sessions /\ Exists(req[p].session)
  /\ At(p, "enter") => req[p].session # None
  /\ At(p, "write") /\ req[p].session = None => req[p].op = "create"

(* The name of a request is that of a session only when it is done.         *)
IsNew(p) == ~At(p, "done") => sessions[p] = NoRow

(* Each occurrence a generation has dealt with is inserted or taken.        *)
Progresses(p) ==
  /\ reply[p] = "ok" => At(p, "done")
  /\ Generating(p) => req[p].op = "generate"
  /\ At(p, "insert") => todo[p] # {}
  /\ Generating(p) /\ ~At(p, "insert") => todo[p] = {}
  /\ pc[p] \in {"insert", "conflicts"} /\ ~vacated[p] =>
       \A o \in candidates[p] \ todo[p] : Own(p, o) \in pending[p] \/ Taken(o) # {}
  /\ Generating(p) /\ At(p, "commit") /\ ~vacated[p] =>
       \A o \in candidates[p] : Own(p, o) \in pending[p] \/ Exists(Own(p, o))
  /\ Generated(p) /\ ~vacated[p] => Materialized(p)

Part(p) ==
  Reserves(p) /\ Aims(p) /\ Holds(p) /\ Locks(p) /\ IsNew(p) /\ Progresses(p)

Rows ==
  /\ StartsAreKept
  /\ OneSessionPerStart
  /\ CompletedAfterEnd

IInv == TypeOK /\ Rows /\ Disjoint /\ \A p \in Requests : Part(p)

-----------------------------------------------------------------------------
LEMMA Smallest ==
  ASSUME NEW S \in SUBSET Nat, S # {}
  PROVE  Min(S) \in S /\ \A n \in S : Min(S) <= n
<1>1. \E m \in S : \A n \in S : <<n, m>> \notin OpToRel(<, Nat)
  BY NatLessThanWellFounded, WFMin
<1>2. ASSUME NEW m \in Nat, NEW n \in Nat, n < m
      PROVE  <<n, m>> \in OpToRel(<, Nat)
  <2>1. <<n, m>> \in Nat \X Nat /\ <<n, m>>[1] < <<n, m>>[2]
    BY <1>2
  <2> QED
    BY <2>1 DEF OpToRel
<1>3. PICK m \in S : \A n \in S : <<n, m>> \notin OpToRel(<, Nat)
  BY <1>1
<1>4. ASSUME NEW n \in S PROVE m <= n
  <2>1. m \in Nat /\ n \in Nat
    OBVIOUS
  <2>2. ~(n < m)
    BY <1>2, <1>3, <2>1
  <2> QED
    BY <2>1, <2>2
<1> QED
  BY <1>4 DEF Min

LEMMA RequestFields ==
  ASSUME NEW r \in Request
  PROVE  /\ r.session \in Sessions \cup {None}
         /\ r.start \in 0 .. Horizon /\ r.length \in Lengths \cup {0}
         /\ r.op \in {"create", "update", "cancel", "complete", "generate"}
         /\ r.op \in {"update", "cancel", "complete"} <=> r.session # None
         /\ r.op = "generate" <=> r.template # None
         /\ r.op = "generate" => r.template \in Templates
         /\ r.op = "create" => r.start # 0 /\ r.length # 0
BY OperationsAssumption DEF Request, AllOperations

LEMMA NamesOfSessions ==
  /\ \A p \in Requests : p \in Sessions /\ p \in Manual /\ p # First /\ p # None
  /\ First \in Sessions
  /\ \A s \in Sessions : s \in Manual \/ s \in Templates \X Times
  /\ \A s \in Templates \X Times : s \in Sessions /\ s \notin Manual /\ TemplateOf(s) = s[1]
  /\ \A t \in Templates, o \in Times : <<t, o>> \in Templates \X Times
  /\ \A s \in Templates \X Times : s = <<s[1], s[2]>> /\ s[1] \in Templates /\ s[2] \in Times
  /\ None \notin Sessions /\ None \notin Templates
BY NamesAssumption DEF Sessions, Manual, TemplateOf

LEMMA RowFacts ==
  /\ NoRow \notin Row
  /\ NoRow.start = 0 /\ NoRow.status = "NONE"
  /\ \A o \in Times, n \in Lengths :
       NewRow(o, n) \in Row /\ NewRow(o, n).start = o /\ NewRow(o, n).status = "SCHEDULED"
  /\ Min(Lengths) \in Lengths
  /\ \A r \in Row : EndOf(r) \in Nat /\ r.start # 0
<1>1. Min(Lengths) \in Lengths
  BY LengthsAssumption, Smallest
<1>2. \A o \in Times : o \in Nat /\ o # 0
  BY HorizonAssumption DEF Times
<1>3. ASSUME NEW r \in Row PROVE EndOf(r) \in Nat /\ r.start # 0
  <2>1. r.start \in Times /\ r.length \in Nat
    BY LengthsAssumption DEF Row
  <2> QED
    BY <1>2, <2>1 DEF EndOf
<1>4. NoRow \notin Row /\ NoRow.start = 0 /\ NoRow.status = "NONE"
  BY DEF NoRow, Row
<1>5. ASSUME NEW o \in Times, NEW n \in Lengths
      PROVE  NewRow(o, n) \in Row /\ NewRow(o, n).start = o /\ NewRow(o, n).status = "SCHEDULED"
  BY DEF Row, NewRow
<1> QED
  BY <1>1, <1>3, <1>4, <1>5

LEMMA TypeInit == Init => TypeOK
<1> SUFFICES ASSUME Init PROVE TypeOK
  OBVIOUS
<1>1. PICK start \in Times, t \in Templates, through \in 0 .. Horizon :
        sessions = [s \in Sessions |->
                      IF s = First THEN NewRow(start, Min(Lengths))
                      ELSE IF s \in {t} \X {o \in Occurrences[t] : o <= through}
                             THEN NewRow(s[2], Min(Lengths))
                      ELSE NoRow]
  BY DEF Init
<1>2. \A s \in {t} \X {o \in Occurrences[t] : o <= through} : s[2] \in Times
  BY OccurrencesAssumption
<1>3. sessions \in [Sessions -> Row \cup {NoRow}]
  BY <1>1, <1>2, RowFacts
<1> QED
  BY <1>3 DEF Init, TypeOK, At

LEMMA RowsInit == Init => Rows /\ \A p \in Requests : IsNew(p)
<1> SUFFICES ASSUME Init PROVE Rows /\ \A p \in Requests : IsNew(p)
  OBVIOUS
<1>1. PICK start \in Times, t \in Templates, through \in 0 .. Horizon :
        /\ start \notin {o \in Occurrences[t] : o <= through}
        /\ sessions = [s \in Sessions |->
                         IF s = First THEN NewRow(start, Min(Lengths))
                         ELSE IF s \in {t} \X {o \in Occurrences[t] : o <= through}
                                THEN NewRow(s[2], Min(Lengths))
                         ELSE NoRow]
  BY DEF Init
<1> DEFINE generated == {o \in Occurrences[t] : o <= through}
<1>2. \A s \in Sessions :
        \/ s = First /\ sessions[s].start = start /\ sessions[s].status = "SCHEDULED"
        \/ /\ s \in Templates \X Times /\ s[2] \in generated /\ s = <<t, s[2]>>
           /\ sessions[s].start = s[2] /\ sessions[s].status = "SCHEDULED"
        \/ s # First /\ s \notin {t} \X generated /\ sessions[s] = NoRow
  <2>1. generated \subseteq Times
    BY OccurrencesAssumption
  <2>2. \A s \in {t} \X generated : /\ s \in Templates \X Times /\ s[2] \in generated
                                    /\ s = <<t, s[2]>> /\ NewRow(s[2], Min(Lengths)).start = s[2]
                                    /\ NewRow(s[2], Min(Lengths)).status = "SCHEDULED"
    BY <2>1, RowFacts
  <2> QED
    BY <1>1, <2>2, RowFacts
<1>3. StartsAreKept
  BY <1>2, NamesOfSessions DEF StartsAreKept, Exists, Manual
<1>4. OneSessionPerStart
  BY <1>1, <1>2 DEF OneSessionPerStart, Exists
<1>5. CompletedAfterEnd
  BY <1>2, RowFacts DEF CompletedAfterEnd
<1>6. \A p \in Requests : IsNew(p)
  BY <1>2, NamesOfSessions DEF IsNew
<1> QED
  BY <1>3, <1>4, <1>5, <1>6 DEF Rows

LEMMA InitHolds == Init => IInv
<1> SUFFICES ASSUME Init PROVE IInv
  OBVIOUS
<1>1. \A p \in Requests, o \in Times : ~HasEntered(p, o)
  BY DEF Init, HasEntered, At
<1>2. \A p \in Requests :
        Reserves(p) /\ Aims(p) /\ Holds(p) /\ Locks(p) /\ Progresses(p)
  BY <1>1, NamesOfSessions
     DEF Init, Reserves, Aims, Holds, Locks, Progresses, At, Generating, Changing, Generated
<1> QED
  BY <1>1, <1>2, TypeInit, RowsInit DEF IInv, Part, Disjoint

-----------------------------------------------------------------------------
(* What a request relies on of the steps of others.                         *)
LEMMA Undisturbed ==
  ASSUME IInv, NEW q \in Requests,
         pc'[q] = pc[q], req'[q] = req[q], reply'[q] = reply[q],
         pending'[q] = pending[q], todo'[q] = todo[q], candidates'[q] = candidates[q],
         vacated'[q] \in BOOLEAN, vacated[q] => vacated'[q],
         now' \in Nat, now <= now',
         \A s \in Sessions : lock'[s] = q <=> lock[s] = q,
         \A s \in Sessions : Exists(s) => Exists(s)',
         Changing(q) => sessions'[req[q].session] = sessions[req[q].session],
         ~At(q, "done") => sessions'[q] = sessions[q],
         \A o \in Times : HasEntered(q, o) => Taken(o)' \subseteq Taken(o),
         ~At(q, "done") /\ ~vacated'[q] =>
           \A o \in candidates[q] : Taken(o) # {} => Taken(o)' # {}
  PROVE  Part(q)' /\ \A o \in Times : HasEntered(q, o)' <=> HasEntered(q, o)
<1>5. \A o \in Times : HasEntered(q, o)' <=> HasEntered(q, o)
  BY DEF HasEntered, NewStart, OldStart, Changing, At, Kept
<1>1. Reserves(q)'
  <2>1. \A s \in pending[q] : Own(q, s[2])' = Own(q, s[2])
    BY DEF Own
  <2>2. \A o \in Times : HasEntered(q, o) => Taken(o)' \subseteq {req[q].session}
    BY DEF IInv, Part, Reserves
  <2> QED
    BY <1>5, <2>1, <2>2 DEF IInv, Part, Reserves, Generating, At
<1>2. Holds(q)' /\ Locks(q)'
  <2>5. Locks(q)'
    BY DEF IInv, Part, Locks, Changing
  <2> SUFFICES ASSUME Changing(q)
               PROVE  /\ lock'[req[q].session] = q
                      /\ sessions'[req[q].session].status = "SCHEDULED"
                      /\ req[q].op = "complete" => EndOf(sessions'[req[q].session]) <= now'
                      /\ req[q].op = "update" /\ ChangesTime(q) => TemplateOf(req[q].session) = None
    BY <2>5 DEF Holds, Changing, ChangesTime, EndOf
  <2>1. req[q].session \in Sessions
    BY DEF IInv, Part, Aims
  <2>2. Holds(q) /\ sessions'[req[q].session] = sessions[req[q].session]
    BY DEF IInv, Part
  <2>3. EndOf(sessions[req[q].session]) \in Nat /\ now \in Nat
    <3>1. sessions[req[q].session] \in Row
      BY <2>1, <2>2, RowFacts DEF IInv, TypeOK, Holds
    <3> QED
      BY <3>1, RowFacts DEF IInv, TypeOK
  <2> QED
    BY <2>1, <2>2, <2>3 DEF Holds
<1>3. IsNew(q)' /\ Aims(q)'
  BY DEF IInv, Part, IsNew, Aims, At, Changing
<1>4. Progresses(q)'
  <2> DEFINE Here == Progresses(q)
  <2>1. Here
    BY DEF IInv, Part
  <2>2. \A o \in candidates[q] : Own(q, o)' = Own(q, o)
    BY DEF Own
  <2>3. ASSUME Generating(q), NEW o \in candidates[q], Exists(Own(q, o))
        PROVE  Exists(Own(q, o))'
    <3>1. req[q].template \in Templates /\ o \in Times
      BY <2>1, <2>3, RequestFields DEF Progresses, Generating, IInv, TypeOK, At
    <3> QED
      BY <2>2, <2>3, <3>1, NamesOfSessions DEF Own, Exists
  <2>4. Generated(q) /\ Materialized(q) => Materialized(q)'
    <3> SUFFICES ASSUME Generated(q), NEW o \in candidates[q], Exists(Own(q, o))
                 PROVE  Exists(Own(q, o))'
      BY DEF Materialized
    <3>1. req[q].template \in Templates /\ o \in Times
      BY <2>1, RequestFields DEF Progresses, Generated, IInv, TypeOK, At
    <3> QED
      BY <2>2, <3>1, NamesOfSessions DEF Own, Exists
  <2> QED
    BY <2>1, <2>2, <2>3, <2>4 DEF Progresses, At, Generating, Generated
<1> QED
  BY <1>1, <1>2, <1>3, <1>4, <1>5 DEF Part

-----------------------------------------------------------------------------
(* A step of p leaves what other requests have.                             *)
StepOf(p) ==
  \A q \in Requests \ {p} :
    /\ pc'[q] = pc[q] /\ req'[q] = req[q] /\ reply'[q] = reply[q]
    /\ pending'[q] = pending[q] /\ todo'[q] = todo[q] /\ candidates'[q] = candidates[q]
    /\ \A s \in Sessions : lock'[s] = q <=> lock[s] = q

LEMMA EndFacts ==
  ASSUME TypeOK, NEW p \in Requests, NEW r, End(p, r)
  PROVE  /\ StepOf(p) /\ UNCHANGED <<now, archived, candidates, req>>
         /\ pc'[p] = "done" /\ pending'[p] = {} /\ reply'[p] = r
         /\ \A s \in Sessions : lock'[s] # p
         /\ \A o \in Times : ~HasEntered(p, o)'
<1>1. /\ StepOf(p) /\ UNCHANGED <<now, archived, candidates, req>>
      /\ pc'[p] = "done" /\ pending'[p] = {} /\ reply'[p] = r
      /\ \A s \in Sessions : lock'[s] # p
  BY NamesOfSessions DEF TypeOK, End, Goto, Unlock, StepOf
<1> QED
  BY <1>1 DEF HasEntered, At

LEMMA EndType ==
  ASSUME TypeOK, NEW p \in Requests, ~At(p, "idle"),
         NEW r \in {"ok", "unchanged", "refused"}, End(p, r),
         sessions' \in [Sessions -> Row \cup {NoRow}], vacated' \in [Requests -> BOOLEAN]
  PROVE  TypeOK'
<1>1. lock' \in [Sessions -> Requests \cup {None}]
  BY DEF TypeOK, End, Unlock
<1>2. /\ pending' \in [Requests -> SUBSET (Templates \X Times)]
      /\ todo' \in [Requests -> SUBSET Times]
      /\ pc' \in [Requests -> {"idle", "check", "lock", "write", "enter", "insert",
                               "conflicts", "commit", "done"}]
      /\ reply' \in [Requests -> {"none", "ok", "unchanged", "refused"}]
  BY DEF TypeOK, End, Goto
<1>3. \A q \in Requests : At(q, "idle")' \/ req'[q] \in Request
  BY DEF TypeOK, End, Goto, At
<1>4. ASSUME NEW q \in Requests, At(q, "done")'
      PROVE  pending'[q] = {} /\ \A s \in Sessions : lock'[s] # q
  <2>1. CASE q = p
    BY <2>1, EndFacts
  <2>2. CASE q # p
    BY <1>4, <2>2, NamesOfSessions DEF TypeOK, End, Goto, At, Unlock
  <2> QED
    BY <2>1, <2>2
<1> QED
  BY <1>1, <1>2, <1>3, <1>4 DEF TypeOK, End

LEMMA RowsStand ==
  ASSUME Rows, TypeOK, UNCHANGED sessions, now' \in Nat, now <= now'
  PROVE  Rows'
<1>1. StartsAreKept' /\ OneSessionPerStart'
  BY DEF Rows, StartsAreKept, OneSessionPerStart, Exists
<1>2. CompletedAfterEnd'
  <2> SUFFICES ASSUME NEW s \in Sessions, sessions[s].status = "COMPLETED"
               PROVE  EndOf(sessions[s]) <= now'
    BY DEF CompletedAfterEnd, EndOf
  <2>1. sessions[s] \in Row
    BY RowFacts DEF TypeOK
  <2>2. EndOf(sessions[s]) \in Nat /\ now \in Nat /\ EndOf(sessions[s]) <= now
    BY <2>1, RowFacts DEF TypeOK, Rows, CompletedAfterEnd
  <2> QED
    BY <2>2
<1> QED
  BY <1>1, <1>2 DEF Rows

LEMMA StillDisjoint ==
  ASSUME Disjoint, NEW p \in Requests,
         \A q \in Requests \ {p} : \A o \in Times : HasEntered(q, o)' => HasEntered(q, o),
         \A o \in Times : HasEntered(p, o)' =>
           HasEntered(p, o) \/ \A q \in Requests \ {p} : ~HasEntered(q, o)
  PROVE  Disjoint'
<1> SUFFICES ASSUME NEW q \in Requests, NEW r \in Requests, q # r, NEW o \in Times,
                    HasEntered(q, o)', HasEntered(r, o)'
             PROVE  FALSE
  BY DEF Disjoint
<1>1. CASE q = p
  BY <1>1 DEF Disjoint
<1>2. CASE r = p
  BY <1>2 DEF Disjoint
<1>3. CASE q # p /\ r # p
  BY <1>3 DEF Disjoint
<1> QED
  BY <1>1, <1>2, <1>3

(* Steps that leave the rows.                                               *)
LEMMA Quiet ==
  ASSUME IInv, TypeOK', NEW p \in Requests, StepOf(p), UNCHANGED <<now, sessions>>,
         \A q \in Requests \ {p} : vacated'[q] = vacated[q],
         Part(p)',
         \A o \in Times : HasEntered(p, o)' =>
           HasEntered(p, o) \/ \A q \in Requests \ {p} : ~HasEntered(q, o)
  PROVE  IInv'
<1>1. Rows'
  BY RowsStand DEF IInv, TypeOK
<1>2. ASSUME NEW q \in Requests \ {p}
      PROVE  Part(q)' /\ \A o \in Times : HasEntered(q, o)' <=> HasEntered(q, o)
  <2>1. \A o \in Times : HasEntered(q, o) => Taken(o)' \subseteq Taken(o)
    BY DEF Taken, Exists
  <2>2. \A o \in candidates[q] : Taken(o) # {} => Taken(o)' # {}
    BY DEF Taken, Exists
  <2>3. \A s \in Sessions : Exists(s) => Exists(s)'
    BY DEF Exists
  <2>4. now' \in Nat /\ now <= now' /\ vacated'[q] \in BOOLEAN /\ (vacated[q] => vacated'[q])
    BY DEF IInv, TypeOK
  <2>5. /\ pc'[q] = pc[q] /\ req'[q] = req[q] /\ reply'[q] = reply[q]
        /\ pending'[q] = pending[q] /\ todo'[q] = todo[q] /\ candidates'[q] = candidates[q]
        /\ \A s \in Sessions : lock'[s] = q <=> lock[s] = q
    BY DEF StepOf
  <2>6. sessions' = sessions
    OBVIOUS
  <2> QED
    BY <2>1, <2>2, <2>3, <2>4, <2>5, <2>6, Undisturbed
<1>3. Disjoint'
  BY <1>2, StillDisjoint DEF IInv
<1> QED
  BY <1>1, <1>2, <1>3 DEF IInv

LEMMA QuietEnd ==
  ASSUME IInv, NEW p \in Requests, ~At(p, "idle"),
         NEW r \in {"unchanged", "refused"}, End(p, r), UNCHANGED <<sessions, vacated>>
  PROVE  IInv'
<1>1. TypeOK'
  BY EndType DEF IInv, TypeOK
<1>2. Part(p)'
  BY EndFacts DEF IInv, Part, Reserves, Aims, Holds, Locks, IsNew, Progresses, At, Generating,
         Changing, Generated
<1> QED
  BY <1>1, <1>2, EndFacts, Quiet DEF IInv

LEMMA RefuseStep ==
  ASSUME IInv, NEW p \in Requests, ~At(p, "idle"), Refuse(p)
  PROVE  IInv'
BY QuietEnd DEF Refuse

LEMMA SubmitStep ==
  ASSUME IInv, NEW p \in Requests, NEW r \in Request, Submit(p, r)
  PROVE  IInv'
<1>1. TypeOK'
  BY DEF IInv, TypeOK, Submit, Goto, At
<1>3. /\ StepOf(p) /\ UNCHANGED <<now, sessions, vacated, pending>>
      /\ \A o \in Times : ~HasEntered(p, o)'
  <2>1. StepOf(p) /\ UNCHANGED <<now, sessions, vacated, pending>>
    BY DEF IInv, TypeOK, Submit, Goto, StepOf
  <2>2. pending[p] = {} /\ ~At(p, "commit")'
    BY DEF IInv, TypeOK, Part, Reserves, Generating, At, Submit, Goto
  <2> QED
    BY <2>1, <2>2 DEF HasEntered
<1>2. Part(p)'
  <2>1. Aims(p)'
    BY RequestFields DEF Aims, Submit, Goto, At, IInv, TypeOK, Exists, Changing
  <2>2. \A o \in Times : ~HasEntered(p, o)'
    BY <1>3
  <2>3. Locks(p)'
    BY DEF IInv, TypeOK, Part, Locks, Changing, At, Submit, Goto
  <2> QED
    BY <2>1, <2>2, <2>3 DEF IInv, TypeOK, Part, Reserves, Holds, IsNew, Progresses, At,
           Generating, Changing, Generated, Submit, Goto
<1> QED
  BY <1>1, <1>2, <1>3, Quiet

(* Going on to a place where nothing has entered the index.                 *)
LEMMA ContinueFacts ==
  ASSUME IInv, NEW p \in Requests, ~At(p, "idle"), ~At(p, "done"),
         NEW there \in {"write", "enter", "commit"}, Continue(p, there)
  PROVE  /\ TypeOK' /\ StepOf(p) /\ pc'[p] = there
         /\ UNCHANGED <<now, sessions, lock, pending, todo, candidates, req, reply, vacated>>
BY DEF IInv, TypeOK, Continue, Goto, At, StepOf

LEMMA CheckCreateStep ==
  ASSUME IInv, NEW p \in Requests, CheckCreate(p)
  PROVE  IInv'
<1>1. CASE Refuse(p)
  BY <1>1, RefuseStep DEF CheckCreate, At
<1>2. CASE Continue(p, "write")
  <2>1. At(p, "check") /\ req[p].op = "create" /\ req[p].session = None
    BY RequestFields DEF IInv, TypeOK, At, CheckCreate
  <2>2. /\ TypeOK' /\ StepOf(p) /\ pc'[p] = "write"
        /\ UNCHANGED <<now, sessions, lock, pending, todo, candidates, req, reply, vacated>>
    BY <1>2, <2>1, ContinueFacts DEF At
  <2>3. pending[p] = {} /\ \A o \in Times : ~HasEntered(p, o)'
    BY <2>1, <2>2 DEF IInv, Part, Reserves, Generating, At, HasEntered
  <2>4. \A u \in Sessions : lock[u] # p
    BY <2>1 DEF IInv, Part, Locks, Changing, At
  <2>5. Part(p)'
    BY <2>1, <2>2, <2>3, <2>4 DEF IInv, Part, Reserves, Aims, Holds, Locks, IsNew, Progresses,
           At, Generating, Changing, Generated
  <2> QED
    BY <2>2, <2>3, <2>5, Quiet
<1> QED
  BY <1>1, <1>2 DEF CheckCreate

LEMMA LockSessionStep ==
  ASSUME IInv, NEW p \in Requests, LockSession(p)
  PROVE  IInv'
<1> DEFINE s == req[p].session
<1>1. CASE End(p, "unchanged") /\ UNCHANGED <<sessions, vacated>>
  BY <1>1, QuietEnd DEF LockSession, At
<1>2. CASE Refuse(p)
  BY <1>2, RefuseStep DEF LockSession, At
<1>3. CASE /\ ~IsAlready(p, sessions[s]) /\ IsAllowed(p, sessions[s])
           /\ lock' = [lock EXCEPT ![s] = p]
           /\ Goto(p, "write")
           /\ UNCHANGED <<now, archived, sessions, pending, todo, candidates, req, reply,
                          vacated>>
  <2>1. At(p, "lock") /\ lock[s] = None
    BY DEF LockSession, LockFree
  <2>2. s \in Sessions
    BY <1>3, <2>1, RequestFields DEF IInv, TypeOK, At, IsAllowed
  <2>3. TypeOK'
    BY <1>3, <2>1, <2>2 DEF IInv, TypeOK, Goto, At
  <2>4. StepOf(p)
    BY <1>3, <2>1, <2>2, NamesOfSessions DEF IInv, TypeOK, Goto, StepOf
  <2>5. Exists(s) /\ sessions[s].status = "SCHEDULED"
    <3>1. Exists(s)
      BY <2>1 DEF IInv, Part, Aims
    <3>2. sessions[s] \in Row
      BY <2>2, <3>1 DEF IInv, TypeOK, Exists
    <3> QED
      BY <1>3, <2>2, <3>1, <3>2, RequestFields
         DEF Row, IsAlready, IsAllowed, MayUpdate, MayCancel, MayComplete
  <2>7. Holds(p)' /\ Aims(p)' /\ Locks(p)'
    <3>1. \A u \in Sessions : lock[u] # p
      BY <2>1 DEF IInv, Part, Locks, Changing, At
    <3>2. s # None /\ pc'[p] = "write"
      BY <1>3, <2>2, NamesOfSessions DEF Goto, IInv, TypeOK
    <3>3. lock'[s] = p /\ \A u \in Sessions \ {s} : lock'[u] = lock[u]
      BY <1>3, <2>2 DEF IInv, TypeOK
    <3>4. Locks(p)' /\ Aims(p)'
      BY <1>3, <2>2, <2>5, <3>1, <3>2, <3>3 DEF Locks, Aims, Changing, At, Exists
    <3>5. Holds(p)'
      BY <1>3, <2>1, <2>2, <2>5, <3>2, <3>3
         DEF Holds, At, ChangesTime, EndOf, IsAllowed, MayUpdate, MayComplete
    <3> QED
      BY <3>4, <3>5
  <2>8. pending[p] = {} /\ \A o \in Times : ~HasEntered(p, o)'
    BY <1>3, <2>1 DEF IInv, TypeOK, Part, Reserves, Generating, At, HasEntered, Goto
  <2>6. Part(p)'
    BY <1>3, <2>1, <2>7, <2>8 DEF IInv, TypeOK, Part, Reserves, IsNew, Progresses, At, Generating,
           Generated, Goto
  <2> QED
    BY <1>3, <2>3, <2>4, <2>6, <2>8, Quiet
<1> QED
  BY <1>1, <1>2, <1>3 DEF LockSession

-----------------------------------------------------------------------------
(* A request that has locked a session has its start to itself.             *)
LEMMA LockedStartsAreOwn ==
  ASSUME IInv, NEW p \in Requests, Changing(p), NEW q \in Requests \ {p}
  PROVE  OldStart(p) \in Times /\ ~HasEntered(q, OldStart(p))
<1> DEFINE s == req[p].session
<1>1. s \in Sessions /\ Exists(s) /\ lock[s] = p
  BY DEF IInv, Part, Aims, Holds
<1>2. OldStart(p) \in Times /\ s \in Taken(OldStart(p))
  BY <1>1 DEF OldStart, Taken, Exists, IInv, TypeOK, Row
<1>3. ASSUME HasEntered(q, OldStart(p)) PROVE FALSE
  <2>1. req[q].session = s
    BY <1>2, <1>3 DEF IInv, Part, Reserves
  <2>2. pending[q] = {} \/ req[q].session = None
    BY RequestFields DEF IInv, TypeOK, Part, Reserves, Progresses, Generating, At
  <2>3. Changing(q)
    BY <1>1, <1>3, <2>1, <2>2, NamesOfSessions DEF HasEntered, Changing, At
  <2> QED
    BY <1>1, <2>1, <2>3 DEF IInv, Part, Holds
<1> QED
  BY <1>2, <1>3

(* The start a request enters is then its own.                              *)
LEMMA EnteredStep ==
  ASSUME IInv, NEW p \in Requests, pc[p] \in {"write", "enter"},
         NewStart(p) \in Times, req[p].op # "generate",
         \A q \in Requests \ {p} : ~HasEntered(q, NewStart(p)),
         Taken(NewStart(p)) \subseteq {req[p].session}, Continue(p, "commit")
  PROVE  IInv'
<1>1. /\ TypeOK' /\ StepOf(p) /\ pc'[p] = "commit"
      /\ UNCHANGED <<now, sessions, lock, pending, todo, candidates, req, reply, vacated>>
  BY ContinueFacts DEF At
<1>2. pending[p] = {} /\ ~Generating(p) /\ ~Generating(p)'
  BY <1>1 DEF IInv, Part, Reserves, Generating, At
<1>3. \A o \in Times : HasEntered(p, o)' => o = NewStart(p)
  BY <1>1, <1>2 DEF HasEntered, NewStart, OldStart
<1>4. Reserves(p)'
  BY <1>1, <1>2, <1>3 DEF Reserves, Taken, Exists
<1>5. Part(p)'
  BY <1>1, <1>2, <1>4 DEF IInv, Part, Aims, Holds, Locks, IsNew, Progresses, At, Changing,
         Generated, ChangesTime, EndOf, Exists
<1>6. \A o \in Times : HasEntered(p, o)' => \A q \in Requests \ {p} : ~HasEntered(q, o)
  BY <1>3
<1> QED
  BY <1>1, <1>5, <1>6, Quiet

LEMMA EnterIndexStep ==
  ASSUME IInv, NEW p \in Requests, pc[p] \in {"write", "enter"},
         NewStart(p) \in Times, req[p].op # "generate", EnterIndex(p)
  PROVE  IInv'
<1>1. CASE Refuse(p)
  BY <1>1, RefuseStep DEF At
<1>2. CASE Taken(NewStart(p)) = {} /\ Continue(p, "commit")
  <2>1. \A q \in Requests \ {p} : ~HasEntered(q, NewStart(p))
    BY DEF EnterIndex, Writing, IsWriting
  <2> QED
    BY <1>2, <2>1, EnteredStep
<1> QED
  BY <1>1, <1>2 DEF EnterIndex

LEMMA CreateStep ==
  ASSUME IInv, NEW p \in Requests, Create(p)
  PROVE  IInv'
<1>1. req[p] \in Request /\ req[p].op = "create" /\ At(p, "write") /\ req[p].session = None
  BY RequestFields DEF IInv, TypeOK, Create, At
<1>2. NewStart(p) \in Times
  BY <1>1, RequestFields, HorizonAssumption DEF NewStart, Times
<1> QED
  BY <1>1, <1>2, EnterIndexStep DEF Create, At

(* The new start of a request that changes a session.                       *)
LEMMA StartOfChange ==
  ASSUME IInv, NEW p \in Requests, Changing(p)
  PROVE  /\ req[p] \in Request /\ req[p].op \in {"update", "cancel", "complete"}
         /\ req[p].session \in Sessions /\ Exists(req[p].session)
         /\ OldStart(p) \in Times /\ NewStart(p) \in Times
         /\ NewStart(p) = Kept(req[p].start, OldStart(p))
<1>1. req[p] \in Request /\ req[p].op \in {"update", "cancel", "complete"}
  BY RequestFields DEF IInv, TypeOK, At, Changing
<1>2. req[p].session \in Sessions /\ Exists(req[p].session) /\ req[p].session # None
  BY DEF IInv, Part, Aims, Changing
<1>3. OldStart(p) \in Times
  BY <1>2 DEF IInv, TypeOK, Exists, Row, OldStart
<1>4. NewStart(p) \in Times /\ NewStart(p) = Kept(req[p].start, OldStart(p))
  BY <1>1, <1>2, <1>3, RequestFields, HorizonAssumption DEF NewStart, Kept, Times
<1> QED
  BY <1>1, <1>2, <1>3, <1>4

LEMMA ChangeStep ==
  ASSUME IInv, NEW p \in Requests, Change(p)
  PROVE  IInv'
<1>1. At(p, "write") /\ req[p].session # None /\ Changing(p)
  BY DEF Change, Changing, At
<1>2. /\ req[p].op \in {"update", "cancel", "complete"} /\ NewStart(p) \in Times
      /\ req[p].session \in Sessions /\ Exists(req[p].session)
  BY <1>1, StartOfChange
<1>3. CASE NewStart(p) = OldStart(p) /\ Continue(p, "commit")
  <2>1. \A q \in Requests \ {p} : ~HasEntered(q, NewStart(p))
    BY <1>1, <1>3, LockedStartsAreOwn
  <2>2. Taken(NewStart(p)) \subseteq {req[p].session}
    BY <1>2, <1>3 DEF Taken, OldStart, IInv, Rows, OneSessionPerStart
  <2> QED
    BY <1>1, <1>2, <1>3, <2>1, <2>2, EnteredStep DEF At
<1>4. CASE Continue(p, "enter")
  <2>1. /\ TypeOK' /\ StepOf(p) /\ pc'[p] = "enter"
        /\ UNCHANGED <<now, sessions, lock, pending, todo, candidates, req, reply, vacated>>
    BY <1>1, <1>4, ContinueFacts DEF At
  <2>2. pending[p] = {} /\ \A o \in Times : ~HasEntered(p, o)'
    BY <1>1, <2>1 DEF IInv, Part, Reserves, Generating, At, HasEntered
  <2>3. Part(p)'
    BY <1>1, <2>1, <2>2 DEF IInv, Part, Reserves, Aims, Holds, Locks, IsNew, Progresses, At,
           Generating, Changing, Generated, ChangesTime, EndOf, Exists
  <2> QED
    BY <2>1, <2>2, <2>3, Quiet
<1> QED
  BY <1>3, <1>4 DEF Change

LEMMA MoveStep ==
  ASSUME IInv, NEW p \in Requests, Move(p)
  PROVE  IInv'
<1>1. At(p, "enter") /\ Changing(p)
  BY DEF Move, Changing, At, IInv, Part, Aims
<1>2. req[p].op # "generate" /\ NewStart(p) \in Times
  BY <1>1, StartOfChange
<1> QED
  BY <1>1, <1>2, EnterIndexStep DEF Move, At

-----------------------------------------------------------------------------
(* The commit of row s by a request that created or changed it.             *)
LEMMA PutStep ==
  ASSUME IInv, NEW p \in Requests, At(p, "commit"), req[p].op # "generate",
         NEW s \in Sessions, NEW row \in Row,
         sessions' = [sessions EXCEPT ![s] = row], End(p, "ok"),
         (s = p /\ req[p].session = None) \/ (s = req[p].session /\ s # None),
         row.start = NewStart(p),
         s \in Templates \X Times => row.start = s[2],
         row.status = "COMPLETED" => EndOf(row) <= now,
         vacated' \in [Requests -> BOOLEAN],
         \A q \in Requests : vacated[q] => vacated'[q],
         \A q \in Requests : /\ row.start # sessions[s].start
                             /\ ~At(q, "done") /\ sessions[s].start \in candidates[q]
                             => vacated'[q]
  PROVE  IInv'
<1>1. TypeOK'
  <2>1. sessions' \in [Sessions -> Row \cup {NoRow}]
    BY DEF IInv, TypeOK
  <2> QED
    BY <2>1, EndType DEF IInv, At
<1>2. /\ \A u \in Sessions \ {s} : sessions'[u] = sessions[u]
      /\ sessions'[s] = row /\ row # NoRow /\ row.start \in Times /\ row.start # 0
  BY RowFacts DEF IInv, TypeOK, Row
<1>3. HasEntered(p, row.start) /\ Taken(row.start) \subseteq {s}
  <2>1. HasEntered(p, row.start)
    BY DEF HasEntered
  <2>2. Taken(row.start) \subseteq {req[p].session}
    BY <1>2, <2>1 DEF IInv, Part, Reserves
  <2> QED
    BY <2>1, <2>2, NamesOfSessions DEF Taken
<1>4. Rows'
  <2>1. StartsAreKept'
    BY <1>2, NamesOfSessions DEF IInv, Rows, StartsAreKept, Exists
  <2>2. OneSessionPerStart'
    <3> SUFFICES ASSUME NEW u \in Sessions, u # s, Exists(u), sessions[u].start = row.start
                 PROVE  FALSE
      BY <1>2 DEF IInv, Rows, OneSessionPerStart, Exists
    <3> QED
      BY <1>3 DEF Taken
  <2>3. CompletedAfterEnd'
    <3>1. now' = now
      BY DEF End
    <3> QED
      BY <1>2, <3>1 DEF IInv, Rows, CompletedAfterEnd, EndOf
  <2> QED
    BY <2>1, <2>2, <2>3 DEF Rows
<1>5. Part(p)'
  <2>1. reply[p] # "ok" /\ req'[p] = req[p] /\ pc'[p] = "done" /\ pending'[p] = {}
    BY EndFacts DEF IInv, Part, Progresses, At
  <2> QED
    BY <2>1, EndFacts DEF IInv, Part, Reserves, Aims, Holds, Locks, IsNew, Progresses, At,
           Generating, Changing, Generated
<1>7. ASSUME NEW q \in Requests \ {p}
      PROVE  Part(q)' /\ \A o \in Times : HasEntered(q, o)' <=> HasEntered(q, o)
  <2>1. /\ pc'[q] = pc[q] /\ req'[q] = req[q] /\ reply'[q] = reply[q]
        /\ pending'[q] = pending[q] /\ todo'[q] = todo[q] /\ candidates'[q] = candidates[q]
        /\ \A u \in Sessions : lock'[u] = q <=> lock[u] = q
        /\ now' = now
    BY EndFacts DEF StepOf, IInv
  <2>2. /\ now' \in Nat /\ now <= now' /\ vacated'[q] \in BOOLEAN
        /\ vacated[q] => vacated'[q]
    BY <1>1, <2>1 DEF IInv, TypeOK
  <2>3. \A u \in Sessions : Exists(u) => Exists(u)'
    BY <1>2 DEF Exists
  <2>4. ASSUME Changing(q)
        PROVE  sessions'[req[q].session] = sessions[req[q].session]
    <3>1. req[q].session \in Sessions /\ lock[req[q].session] = q
      BY <2>4 DEF IInv, Part, Aims, Holds
    <3>2. req[q].session # s
      <4>1. CASE s = p
        BY <4>1, <2>4, RowFacts DEF IInv, Part, IsNew, Aims, Exists, At
      <4>2. CASE s = req[p].session /\ s # None
        <5>1. Changing(p)
          BY <4>2 DEF Changing, At
        <5> QED
          BY <3>1, <4>2, <5>1 DEF IInv, Part, Holds
      <4> QED
        BY <4>1, <4>2
    <3> QED
      BY <1>2, <3>1, <3>2
  <2>5. ~At(q, "done") => sessions'[q] = sessions[q]
    <3> SUFFICES ASSUME ~At(q, "done"), s = q PROVE FALSE
      BY <1>2, NamesOfSessions
    <3>1. Changing(p) /\ sessions[q] = NoRow
      BY DEF IInv, Part, IsNew, Changing, At
    <3> QED
      BY <3>1 DEF IInv, Part, Aims, Exists
  <2>6. ASSUME NEW o \in Times, HasEntered(q, o) PROVE Taken(o)' \subseteq Taken(o)
    <3>1. row.start # o
      BY <1>2, <1>3, <2>6 DEF IInv, Disjoint
    <3> QED
      BY <1>2, <3>1 DEF Taken, Exists
  <2>7. ASSUME ~At(q, "done"), ~vacated'[q], NEW o \in candidates[q], Taken(o) # {}
        PROVE  Taken(o)' # {}
    <3>1. PICK u \in Sessions : Exists(u) /\ sessions[u].start = o
      BY <2>7 DEF Taken
    <3>2. CASE u # s
      BY <1>2, <3>1, <3>2 DEF Taken, Exists
    <3>3. CASE u = s
      <4>1. row.start = sessions[s].start
        BY <2>7, <3>1, <3>3
      <4> QED
        BY <1>2, <3>1, <3>3, <4>1 DEF Taken, Exists
    <3> QED
      BY <3>2, <3>3
  <2> QED
    BY <2>1, <2>2, <2>3, <2>4, <2>5, <2>6, <2>7, Undisturbed
<1>6. Disjoint'
  BY <1>7, EndFacts, StillDisjoint DEF IInv
<1> QED
  BY <1>1, <1>4, <1>5, <1>6, <1>7 DEF IInv

LEMMA CommitCreateStep ==
  ASSUME IInv, NEW p \in Requests, CommitCreate(p)
  PROVE  IInv'
<1> DEFINE row == NewRow(req[p].start, req[p].length)
<1>1. /\ req[p] \in Request /\ req[p].op = "create" /\ At(p, "commit")
      /\ req[p].session = None
  BY RequestFields DEF IInv, TypeOK, CommitCreate, At
<1>2. row \in Row /\ row.status = "SCHEDULED" /\ row.start = NewStart(p)
  <2>1. req[p].start \in Times /\ req[p].length \in Lengths
    BY <1>1, RequestFields, HorizonAssumption DEF Times
  <2> QED
    BY <1>1, <2>1, RowFacts DEF NewStart
<1>3. p \in Sessions /\ p \notin Templates \X Times
  BY NamesOfSessions
<1>4. sessions' = [sessions EXCEPT ![p] = row] /\ End(p, "ok") /\ UNCHANGED vacated
  BY DEF CommitCreate
<1>5. sessions[p].start = 0 /\ vacated' \in [Requests -> BOOLEAN]
  BY <1>1, <1>4, RowFacts DEF IInv, TypeOK, Part, IsNew, At
<1>6. \A q \in Requests : sessions[p].start \notin candidates[q]
  <2>1. \A q \in Requests : candidates[q] \subseteq Times /\ 0 \notin Times
    BY DEF IInv, TypeOK, Times
  <2> QED
    BY <1>5, <2>1
<1> HIDE DEF row
<1> QED
  BY <1>1, <1>2, <1>3, <1>4, <1>5, <1>6, PutStep

LEMMA ChangedFacts ==
  ASSUME IInv, NEW p \in Requests, Changing(p)
  PROVE  LET s == req[p].session
             row == Changed(p, sessions[s])
         IN  /\ s \in Sessions /\ row \in Row /\ req[p].op # "generate"
             /\ row.start = NewStart(p)
             /\ s \in Templates \X Times => row.start = s[2]
             /\ row.status = "COMPLETED" => EndOf(row) <= now
<1> DEFINE s == req[p].session
           old == sessions[s]
           row == Changed(p, old)
<1>1. /\ s \in Sessions /\ old \in Row /\ Exists(s)
      /\ old.status = "SCHEDULED"
      /\ req[p].op = "complete" => EndOf(old) <= now
      /\ req[p].op = "update" /\ ChangesTime(p) => TemplateOf(s) = None
  BY DEF IInv, TypeOK, Part, Aims, Holds, Exists
<1>2. /\ req[p] \in Request /\ req[p].op \in {"update", "cancel", "complete"}
      /\ NewStart(p) = Kept(req[p].start, old.start)
      /\ req[p].op \in {"cancel", "complete"} => req[p].start = 0
  <2>1. req[p] \in Request /\ NewStart(p) = Kept(req[p].start, old.start)
        /\ req[p].op \in {"update", "cancel", "complete"}
    BY StartOfChange DEF OldStart
  <2> QED
    BY <2>1 DEF Request
<1>3. s \in Templates \X Times => old.start = s[2] /\ TemplateOf(s) # None
  BY <1>1, NamesOfSessions DEF IInv, Rows, StartsAreKept
<1>4. \/ /\ req[p].op = "cancel"
         /\ row = [old EXCEPT !.version = @ + 1, !.status = "CANCELLED"]
      \/ /\ req[p].op = "complete"
         /\ row = [old EXCEPT !.version = @ + 1, !.status = "COMPLETED"]
      \/ /\ req[p].op = "update"
         /\ row = [old EXCEPT !.start = Kept(req[p].start, @),
                              !.length = Kept(req[p].length, @), !.version = @ + 1]
  BY <1>1, <1>2 DEF Changed, Row
<1>5. /\ Kept(req[p].start, old.start) \in Times /\ Kept(req[p].length, old.length) \in Lengths
      /\ old.version + 1 \in Nat
  BY <1>1, <1>2, RequestFields, HorizonAssumption DEF Kept, Row, Times
<1> HIDE DEF row, old
<1>6. row \in Row
  BY <1>1, <1>4, <1>5 DEF Row
<1>7. s \in Templates \X Times => row.start = s[2]
  <2> SUFFICES ASSUME s \in Templates \X Times PROVE row.start = old.start
    BY <1>3
  <2>1. req[p].op = "update" => Kept(req[p].start, old.start) = old.start
    BY <1>1, <1>3 DEF Kept, ChangesTime
  <2> QED
    BY <1>1, <1>4, <2>1 DEF Row
<1>8. row.status = "COMPLETED" => EndOf(row) <= now
  <2> SUFFICES ASSUME row.status = "COMPLETED" PROVE EndOf(row) <= now
    OBVIOUS
  <2>1. req[p].op = "complete" /\ row.start = old.start /\ row.length = old.length
    BY <1>1, <1>4 DEF Row
  <2>2. EndOf(row) = EndOf(old)
    BY <2>1 DEF EndOf
  <2> QED
    BY <1>1, <2>1, <2>2
<1>9. req[p].op # "generate" /\ row.start = NewStart(p)
  BY <1>1, <1>2, <1>4 DEF Row, Kept
<1> QED
  BY <1>1, <1>6, <1>7, <1>8, <1>9 DEF row, old

LEMMA CommitChangeStep ==
  ASSUME IInv, NEW p \in Requests, CommitChange(p)
  PROVE  IInv'
<1> DEFINE s == req[p].session
           row == Changed(p, sessions[s])
<1>1. At(p, "commit") /\ s # None /\ Changing(p)
  BY DEF CommitChange, Changing, At
<1>2. /\ s \in Sessions /\ row \in Row /\ req[p].op # "generate"
      /\ row.start = NewStart(p)
      /\ s \in Templates \X Times => row.start = s[2]
      /\ row.status = "COMPLETED" => EndOf(row) <= now
  BY <1>1, ChangedFacts
<1>3. /\ sessions' = [sessions EXCEPT ![s] = row] /\ End(p, "ok")
      /\ vacated' = [q \in Requests |->
                       \/ vacated[q]
                       \/ /\ NewStart(p) # OldStart(p)
                          /\ ~At(q, "done") /\ OldStart(p) \in candidates[q]]
  BY DEF CommitChange
<1>4. \A q \in Requests :
        /\ vacated'[q] \in BOOLEAN
        /\ vacated'[q] <=> \/ vacated[q]
                           \/ /\ NewStart(p) # OldStart(p)
                              /\ ~At(q, "done") /\ OldStart(p) \in candidates[q]
  BY <1>3, Zenon DEF IInv, TypeOK
<1>5. vacated' \in [Requests -> BOOLEAN]
  BY <1>3, <1>4, Zenon
<1> HIDE DEF row
<1>6. \A q \in Requests : vacated[q] => vacated'[q]
  BY <1>4
<1>7. \A q \in Requests : /\ row.start # sessions[s].start
                          /\ ~At(q, "done") /\ sessions[s].start \in candidates[q]
                          => vacated'[q]
  BY <1>2, <1>4 DEF OldStart
<1> QED
  BY <1>1, <1>2, <1>3, <1>5, <1>6, <1>7, PutStep

-----------------------------------------------------------------------------
LEMMA CheckGenerateStep ==
  ASSUME IInv, NEW p \in Requests, CheckGenerate(p)
  PROVE  IInv'
<1>1. CASE Refuse(p)
  BY <1>1, RefuseStep DEF CheckGenerate, At
<1>2. CASE ~Refuse(p)
  <2>1. /\ req[p] \in Request /\ req[p].op = "generate" /\ At(p, "check")
        /\ req[p].template \in Templates
    BY RequestFields DEF IInv, TypeOK, CheckGenerate, At
  <2>2. Candidates(p) \in SUBSET Times
    BY <2>1, OccurrencesAssumption DEF Candidates
  <2>3. /\ todo' = [todo EXCEPT ![p] = Candidates(p)]
        /\ candidates' = [candidates EXCEPT ![p] = Candidates(p)]
        /\ Goto(p, IF Candidates(p) = {} THEN "commit" ELSE "insert")
        /\ UNCHANGED <<now, archived, sessions, lock, pending, req, reply, vacated>>
    BY <1>2 DEF CheckGenerate
  <2> HIDE DEF Candidates
  <2>4. TypeOK'
    BY <2>1, <2>2, <2>3 DEF IInv, TypeOK, Goto, At
  <2>5. StepOf(p)
    BY <2>3 DEF IInv, TypeOK, Goto, StepOf
  <2>6. /\ pending[p] = {} /\ reply[p] # "ok" /\ sessions[p] = NoRow
        /\ req[p].session = None /\ \A u \in Sessions : lock[u] # p
    BY <2>1, RequestFields
       DEF IInv, Part, Reserves, Progresses, IsNew, Locks, Changing, Generating, At
  <2>7. /\ pc'[p] \in {"insert", "commit"} /\ todo'[p] = candidates'[p]
        /\ pc'[p] = "insert" => todo'[p] # {}
        /\ pc'[p] = "commit" => todo'[p] = {}
    BY <2>2, <2>3 DEF IInv, TypeOK, Goto
  <2>9. \A o \in Times : ~HasEntered(p, o)'
    BY <2>1, <2>3, <2>6 DEF HasEntered
  <2>8. Part(p)'
    BY <2>1, <2>3, <2>6, <2>7, <2>9
       DEF Part, Reserves, Aims, Holds, Locks, IsNew, Progresses, At, Generating, Changing,
           Generated
  <2> QED
    BY <2>3, <2>4, <2>5, <2>8, <2>9, Quiet
<1> QED
  BY <1>1, <1>2

LEMMA InsertStep ==
  ASSUME IInv, NEW p \in Requests, InsertOccurrence(p)
  PROVE  IInv'
<1>1. PICK o \in {Min(todo[p])} :
      /\ At(p, "insert") /\ Writing(o) \ {p} = {}
      /\ pending' = IF Taken(o) = {} THEN [pending EXCEPT ![p] = @ \cup {Own(p, o)}]
                                     ELSE pending
      /\ todo' = [todo EXCEPT ![p] = @ \ {o}]
      /\ Goto(p, IF todo[p] = {o} THEN "conflicts" ELSE "insert")
      /\ UNCHANGED <<now, archived, sessions, lock, candidates, req, reply, vacated>>
  BY DEF InsertOccurrence, NextOccurrence
<1>2. /\ o \in todo[p] /\ o \in Times
      /\ \A n \in todo[p] \ {o} : o < n
  <2>1. todo[p] \in SUBSET Nat /\ todo[p] # {} /\ todo[p] \subseteq Times
    BY <1>1, HorizonAssumption DEF IInv, TypeOK, Times, Part, Progresses
  <2>2. o \in todo[p] /\ \A n \in todo[p] : o <= n
    BY <1>1, <2>1, Smallest
  <2> QED
    BY <2>1, <2>2
<1>3. /\ req[p] \in Request /\ req[p].op = "generate" /\ req[p].template \in Templates
      /\ reply[p] # "ok" /\ sessions[p] = NoRow /\ req[p].session = None
      /\ \A u \in Sessions : lock[u] # p
  BY <1>1, RequestFields
     DEF IInv, TypeOK, At, Part, Progresses, IsNew, Locks, Changing, Generating
<1>4. Own(p, o) \in Templates \X Times /\ Own(p, o)[2] = o /\ Own(p, o)' = Own(p, o)
  BY <1>1, <1>2, <1>3 DEF Own
<1>5. TypeOK'
  <2>1. pending' \in [Requests -> SUBSET (Templates \X Times)]
    BY <1>1, <1>4 DEF IInv, TypeOK
  <2> QED
    BY <1>1, <2>1 DEF IInv, TypeOK, Goto, At
<1>6. StepOf(p)
  BY <1>1 DEF IInv, TypeOK, Goto, StepOf
<1>7. /\ pending'[p] = IF Taken(o) = {} THEN pending[p] \cup {Own(p, o)} ELSE pending[p]
      /\ todo'[p] = todo[p] \ {o}
      /\ pc'[p] = IF todo[p] = {o} THEN "conflicts" ELSE "insert"
  BY <1>1 DEF IInv, TypeOK, Goto
<1>8. \A n \in Times : HasEntered(p, n)' =>
        \/ HasEntered(p, n)
        \/ n = o /\ Taken(o) = {} /\ \A q \in Requests \ {p} : ~HasEntered(q, o)
  <2>1. \A q \in Requests \ {p} : ~HasEntered(q, o)
    BY <1>1 DEF Writing, IsWriting
  <2>2. \A n \in Times : HasEntered(p, n)' => \E x \in pending'[p] : x[2] = n
    BY <1>7 DEF HasEntered, At
  <2>3. \A x \in pending'[p] : x \in pending[p] \/ (x[2] = o /\ Taken(o) = {})
    BY <1>4, <1>7
  <2> QED
    BY <2>1, <2>2, <2>3 DEF HasEntered
<1>9. Reserves(p)'
  <2>1. ASSUME NEW s \in pending'[p]
        PROVE  s = Own(p, s[2])' /\ \A n \in todo'[p] : s[2] < n
    <3>1. CASE s \in pending[p]
      BY <1>1, <1>7, <3>1 DEF IInv, Part, Reserves, Own
    <3>2. CASE s = Own(p, o)
      BY <1>1, <1>2, <1>4, <1>7, <3>2 DEF Own
    <3> QED
      BY <1>7, <3>1, <3>2
  <2>2. ASSUME NEW n \in Times, HasEntered(p, n)'
        PROVE  Taken(n)' \subseteq {req'[p].session}
    <3>1. Taken(n)' = Taken(n) /\ req' = req
      BY <1>1 DEF Taken, Exists
    <3> QED
      BY <1>8, <2>2, <3>1 DEF IInv, Part, Reserves
  <2>3. Generating(p)'
    BY <1>7 DEF Generating
  <2> QED
    BY <2>1, <2>2, <2>3 DEF Reserves
<1>10. Progresses(p)'
  <2>1. ASSUME ~vacated[p], NEW n \in candidates[p], n \notin todo'[p]
        PROVE  Own(p, n)' \in pending'[p] \/ Taken(n)' # {}
    <3>1. CASE n = o
      BY <1>1, <1>4, <1>7, <3>1 DEF Taken, Exists
    <3>2. CASE n # o
      BY <1>1, <1>7, <2>1, <3>2 DEF IInv, Part, Progresses, At, Own, Taken, Exists
    <3> QED
      BY <3>1, <3>2
  <2>2. pc'[p] = "conflicts" => todo'[p] = {}
    BY <1>7
  <2>3. pc'[p] = "insert" => todo'[p] # {}
    BY <1>2, <1>7
  <2> QED
    BY <1>1, <1>3, <1>7, <2>1, <2>2, <2>3 DEF Progresses, At, Generating, Generated
<1>11. Part(p)'
  BY <1>1, <1>3, <1>7, <1>9, <1>10 DEF Part, Aims, Holds, Locks, Changing, IsNew, At
<1> QED
  BY <1>1, <1>5, <1>6, <1>8, <1>11, Quiet

LEMMA ConflictsStep ==
  ASSUME IInv, NEW p \in Requests, CheckConflicts(p)
  PROVE  IInv'
<1>1. CASE Refuse(p)
  BY <1>1, RefuseStep DEF CheckConflicts, At
<1>2. CASE ~Refuse(p)
  <2>1. At(p, "conflicts") /\ Conflicts(p) = {} /\ Continue(p, "commit")
    BY <1>2 DEF CheckConflicts
  <2>2. TypeOK' /\ StepOf(p) /\ UNCHANGED <<now, sessions, vacated, pending, candidates, req>>
    BY <2>1 DEF IInv, TypeOK, Continue, Goto, At, StepOf
  <2>3. ASSUME ~vacated[p], NEW o \in candidates[p]
        PROVE  Own(p, o) \in pending[p] \/ Exists(Own(p, o))
    <3>1. Own(p, o) \in pending[p] \/ Taken(o) # {}
      <4>1. Progresses(p) /\ pc[p] = "conflicts" /\ todo[p] = {}
        BY <2>1 DEF IInv, Part, Progresses, Generating, At
      <4> QED
        BY <2>3, <4>1 DEF Progresses
    <3>2. ASSUME NEW s \in Taken(o) PROVE s = Own(p, o) /\ Exists(s)
      <4>1. s \in Sessions /\ Exists(s) /\ sessions[s].start = o
        BY <3>2 DEF Taken
      <4>2. TemplateOf(s) = req[p].template
        BY <2>1, <4>1 DEF Conflicts
      <4>3. req[p].template \in Templates
        BY <2>1, RequestFields DEF IInv, TypeOK, Part, Progresses, Generating, At
      <4>4. s \in Templates \X Times
        BY <4>1, <4>2, <4>3, NamesOfSessions DEF TemplateOf
      <4>5. s = <<s[1], s[2]>> /\ s[1] = req[p].template /\ s[2] = o
        BY <4>1, <4>2, <4>4, NamesOfSessions DEF IInv, Rows, StartsAreKept
      <4> QED
        BY <4>1, <4>5 DEF Own
    <3> QED
      BY <3>1, <3>2
  <2>4. pc'[p] = "commit" /\ todo'[p] = todo[p] /\ reply'[p] = reply[p] /\ lock' = lock
    BY <2>1 DEF IInv, TypeOK, Continue, Goto
  <2>6. /\ req[p].op = "generate" /\ req[p].session = None
        /\ \A u \in Sessions : lock[u] # p
    BY <2>1, RequestFields
       DEF IInv, TypeOK, Part, Progresses, Locks, Changing, Generating, At
  <2>7. \A o \in Times : HasEntered(p, o)' => HasEntered(p, o)
    BY <2>2, <2>6 DEF HasEntered
  <2>5. Part(p)'
    <3>1. Reserves(p)'
      BY <2>1, <2>2, <2>4, <2>6, <2>7
         DEF IInv, Part, Reserves, Generating, Own, Taken, Exists, At
    <3>2. Progresses(p)'
      BY <2>1, <2>2, <2>3, <2>4, <2>6
         DEF IInv, Part, Progresses, Generating, Own, Exists, At, Generated
    <3> QED
      BY <2>1, <2>2, <2>4, <2>6, <3>1, <3>2
         DEF IInv, Part, Aims, Holds, Locks, Changing, IsNew, At
  <2> QED
    BY <2>2, <2>5, <2>7, Quiet
<1> QED
  BY <1>1, <1>2

(* The rows a generation is about to commit are new.                        *)
LEMMA PendingAreNew ==
  ASSUME IInv, NEW p \in Requests, NEW s \in pending[p]
  PROVE  /\ s \in Templates \X Times /\ s \in Sessions /\ s[2] \in Times
         /\ s = Own(p, s[2]) /\ Taken(s[2]) = {} /\ ~Exists(s)
<1>1. /\ s \in Templates \X Times /\ s \in Sessions /\ s[2] \in Times
      /\ s = Own(p, s[2]) /\ HasEntered(p, s[2])
  BY NamesOfSessions DEF IInv, TypeOK, Part, Reserves, HasEntered
<1>2. req[p].session = None
  BY RequestFields DEF IInv, TypeOK, Part, Reserves, Progresses, Generating, At
<1>3. Taken(s[2]) = {}
  BY <1>1, <1>2, NamesOfSessions DEF IInv, Part, Reserves, Taken
<1> QED
  BY <1>1, <1>3 DEF IInv, Rows, StartsAreKept, Taken

LEMMA CommitStep ==
  ASSUME IInv, NEW p \in Requests, CommitGeneration(p)
  PROVE  IInv'
<1>1. /\ At(p, "commit") /\ req[p].op = "generate" /\ Generating(p)
      /\ End(p, "ok") /\ UNCHANGED vacated
      /\ sessions' = [s \in Sessions |-> IF s \in pending[p] THEN NewRow(s[2], Min(Lengths))
                                                            ELSE sessions[s]]
  BY DEF CommitGeneration, Generating
<1>2. \A s \in pending[p] :
        /\ s \in Templates \X Times /\ s \in Sessions /\ s[2] \in Times
        /\ s = Own(p, s[2]) /\ Taken(s[2]) = {} /\ ~Exists(s)
        /\ sessions'[s] \in Row /\ sessions'[s].start = s[2]
        /\ sessions'[s].status = "SCHEDULED" /\ sessions'[s] # NoRow
  BY <1>1, PendingAreNew, RowFacts
<1>3. \A s \in Sessions \ pending[p] : sessions'[s] = sessions[s]
  BY <1>1
<1>4. TypeOK'
  <2>1. sessions' \in [Sessions -> Row \cup {NoRow}]
    <3>1. \A s \in Sessions : sessions'[s] \in Row \cup {NoRow}
      BY <1>2, <1>3 DEF IInv, TypeOK
    <3> QED
      BY <1>1, <3>1
  <2> QED
    BY <1>1, <2>1, EndType DEF IInv, TypeOK, At
<1>5. Rows'
  <2>1. StartsAreKept'
    BY <1>2, <1>3, NamesOfSessions DEF IInv, Rows, StartsAreKept, Exists
  <2>2. OneSessionPerStart'
    <3> SUFFICES ASSUME NEW s \in Sessions, NEW u \in Sessions, Exists(s)', Exists(u)',
                        sessions'[s].start = sessions'[u].start
                 PROVE  s = u
      BY DEF OneSessionPerStart
    <3>1. CASE s \in pending[p] /\ u \in pending[p]
      BY <1>2, <3>1
    <3>2. CASE s \in pending[p] /\ u \notin pending[p]
      BY <1>2, <1>3, <3>2 DEF Taken, Exists
    <3>3. CASE s \notin pending[p] /\ u \in pending[p]
      BY <1>2, <1>3, <3>3 DEF Taken, Exists
    <3>4. CASE s \notin pending[p] /\ u \notin pending[p]
      BY <1>3, <3>4 DEF IInv, Rows, OneSessionPerStart, Exists
    <3> QED
      BY <3>1, <3>2, <3>3, <3>4
  <2>3. CompletedAfterEnd'
    <3>1. now' = now
      BY <1>1 DEF End
    <3> QED
      BY <1>2, <1>3, <3>1 DEF IInv, Rows, CompletedAfterEnd, EndOf
  <2> QED
    BY <2>1, <2>2, <2>3 DEF Rows
<1>7. Part(p)'
  <2>1. /\ pc'[p] = "done" /\ pending'[p] = {} /\ reply'[p] = "ok"
        /\ UNCHANGED <<candidates, req>> /\ \A u \in Sessions : lock'[u] # p
        /\ \A o \in Times : ~HasEntered(p, o)'
    BY <1>1, EndFacts DEF IInv
  <2>2. ASSUME ~vacated[p], NEW o \in candidates[p] PROVE Exists(Own(p, o))'
    <3>1. Own(p, o) \in pending[p] \/ Exists(Own(p, o))
      BY <1>1, <2>2 DEF IInv, Part, Progresses
    <3>2. Own(p, o) \in Sessions
      <4>1. req[p].template \in Templates /\ o \in Times
        BY <1>1, RequestFields DEF IInv, TypeOK, Part, Progresses, Generating, At
      <4> QED
        BY <4>1, NamesOfSessions DEF Own
    <3> QED
      BY <1>2, <1>3, <2>1, <3>1, <3>2 DEF Exists, Own
  <2>3. Progresses(p)'
    BY <1>1, <2>1, <2>2 DEF Progresses, At, Generating, Generated, Materialized
  <2> QED
    BY <2>1, <2>3 DEF Part, Reserves, Aims, Holds, Locks, IsNew, At, Generating, Changing
<1>8. ASSUME NEW q \in Requests \ {p}
      PROVE  Part(q)' /\ \A o \in Times : HasEntered(q, o)' <=> HasEntered(q, o)
  <2>1. /\ pc'[q] = pc[q] /\ req'[q] = req[q] /\ reply'[q] = reply[q]
        /\ pending'[q] = pending[q] /\ todo'[q] = todo[q] /\ candidates'[q] = candidates[q]
        /\ \A u \in Sessions : lock'[u] = q <=> lock[u] = q
        /\ now' = now /\ vacated' = vacated
    BY <1>1, EndFacts DEF StepOf, IInv
  <2>2. now' \in Nat /\ now <= now' /\ vacated'[q] \in BOOLEAN /\ (vacated[q] => vacated'[q])
    BY <1>4, <2>1 DEF IInv, TypeOK
  <2>3. \A u \in Sessions : Exists(u) => Exists(u)'
    BY <1>2, <1>3 DEF Exists
  <2>4. Changing(q) => sessions'[req[q].session] = sessions[req[q].session]
    BY <1>2, <1>3 DEF IInv, Part, Aims
  <2>5. sessions'[q] = sessions[q]
    BY <1>2, <1>3, NamesOfSessions
  <2>6. ASSUME NEW o \in Times, HasEntered(q, o) PROVE Taken(o)' \subseteq Taken(o)
    <3>1. \A s \in pending[p] : s[2] # o
      BY <2>6 DEF IInv, Disjoint, HasEntered
    <3> QED
      BY <1>2, <1>3, <3>1 DEF Taken, Exists
  <2>7. \A o \in candidates[q] : Taken(o) # {} => Taken(o)' # {}
    BY <1>2, <1>3 DEF Taken, Exists
  <2> QED
    BY <2>1, <2>2, <2>3, <2>4, <2>5, <2>6, <2>7, Undisturbed
<1>6. Disjoint'
  BY <1>1, <1>8, EndFacts, StillDisjoint DEF IInv
<1> QED
  BY <1>4, <1>5, <1>6, <1>7, <1>8 DEF IInv

LEMMA OutsideStep ==
  ASSUME IInv, Tick \/ Archive \/ UNCHANGED vars
  PROVE  IInv'
<1> USE DEF requestVars
<1>1. UNCHANGED <<sessions, requestVars>> /\ now' \in Nat /\ now <= now' /\ archived' \in BOOLEAN
  <2>1. now \in Nat /\ archived \in BOOLEAN
    BY DEF IInv, TypeOK
  <2>2. CASE Tick
    BY <2>1, <2>2 DEF Tick
  <2>3. CASE Archive
    BY <2>1, <2>3 DEF Archive
  <2>4. CASE UNCHANGED vars
    BY <2>1, <2>4 DEF vars
  <2> QED
    BY <2>2, <2>3, <2>4
<1>2. TypeOK'
  BY <1>1 DEF IInv, TypeOK, At
<1>3. Rows'
  BY <1>1, RowsStand DEF IInv, requestVars
<1>4. ASSUME NEW q \in Requests
      PROVE  Part(q)' /\ \A o \in Times : HasEntered(q, o)' <=> HasEntered(q, o)
  <2>1. \A o \in Times : HasEntered(q, o) => Taken(o)' \subseteq Taken(o)
    BY <1>1 DEF Taken, Exists
  <2>2. \A o \in candidates[q] : Taken(o) # {} => Taken(o)' # {}
    BY <1>1 DEF Taken, Exists
  <2>3. \A s \in Sessions : Exists(s) => Exists(s)'
    BY <1>1 DEF Exists
  <2>4. vacated'[q] \in BOOLEAN /\ vacated' = vacated
    BY <1>1 DEF IInv, TypeOK, requestVars
  <2> QED
    BY <1>1, <2>1, <2>2, <2>3, <2>4, Undisturbed DEF requestVars
<1>5. Disjoint'
  BY <1>4 DEF IInv, Disjoint
<1> QED
  BY <1>2, <1>3, <1>4, <1>5 DEF IInv

LEMMA InvariantStep == IInv /\ [Next]_vars => IInv'
<1> SUFFICES ASSUME IInv, [Next]_vars PROVE IInv'
  OBVIOUS
<1>1. ASSUME NEW p \in Requests, NEW r \in Request, Submit(p, r) PROVE IInv'
  BY <1>1, SubmitStep
<1>2. ASSUME NEW p \in Requests, Step(p) PROVE IInv'
  BY <1>2, CheckCreateStep, CreateStep, CommitCreateStep, LockSessionStep, ChangeStep, MoveStep,
     CommitChangeStep, CheckGenerateStep, InsertStep, ConflictsStep, CommitStep DEF Step
<1>3. ASSUME NEW p \in Requests, Abort(p) PROVE IInv'
  BY <1>3, RefuseStep DEF Abort, At
<1>4. CASE Tick \/ Archive \/ UNCHANGED vars
  BY <1>4, OutsideStep
<1> QED
  BY <1>1, <1>2, <1>3, <1>4 DEF Next

(* IInv is inductive.                                                       *)
THEOREM ScheduleInvariantHolds == Spec => []IInv
BY InitHolds, InvariantStep, PTL DEF Spec

(* No two sessions of the activity start at the same instant, whoever       *)
(* created, moved or generated them.                                        *)
THEOREM StartsAreUnique == Spec => []OneSessionPerStart
<1>1. IInv => OneSessionPerStart
  BY DEF IInv, Rows
<1> QED
  BY <1>1, ScheduleInvariantHolds, PTL

(* What is completed is over.                                               *)
THEOREM CompletionsWaitForTheEnd == Spec => []CompletedAfterEnd
<1>1. IInv => CompletedAfterEnd
  BY DEF IInv, Rows
<1> QED
  BY <1>1, ScheduleInvariantHolds, PTL

(* A generation that succeeds has materialized what it set out to, unless a *)
(* session was moved away from under it.                                    *)
THEOREM GenerationsAreWhole == Spec => []GenerationsLoseNothing
<1>1. IInv => GenerationsLoseNothing
  BY DEF IInv, Part, Progresses, GenerationsLoseNothing
<1> QED
  BY <1>1, ScheduleInvariantHolds, PTL

-----------------------------------------------------------------------------
(* Who waits without having moved a session waits for a lock or in the      *)
(* index, and blocks others only with the rows of a generation.             *)
LEMMA WaitersBlockWithPending ==
  ASSUME IInv, NEW p \in Requests, NEW q \in Requests, q \in WaitsFor(p),
         ~At(q, "enter"), WaitsFor(q) # {}
  PROVE  At(q, "insert") /\ (At(p, "insert") => HasEntered(q, Min(todo[p])))
<1>1. pc[q] \in {"insert", "write", "lock"} /\ (At(q, "write") => req[q].op = "create")
  BY DEF WaitsFor, At
<1>2. At(q, "write") => req[q].session = None
  BY <1>1, RequestFields DEF IInv, TypeOK, At
<1>3. ~Changing(q)
  BY <1>1, <1>2 DEF Changing, At
<1>4. ASSUME NEW o, IsWriting(q, o) PROVE At(q, "insert") /\ HasEntered(q, o)
  <2>1. HasEntered(q, o)
    BY <1>1, <1>4 DEF IsWriting, At
  <2>2. pending[q] # {}
    BY <1>1, <2>1 DEF HasEntered, At
  <2> QED
    <3>1. Generating(q)
      BY <2>2 DEF IInv, Part, Reserves
    <3> QED
      BY <1>1, <2>1, <3>1 DEF Generating, At
<1>5. CASE At(p, "insert")
  <2>1. IsWriting(q, Min(todo[p]))
    BY <1>5 DEF WaitsFor, NextOccurrence, Writing, At
  <2> QED
    BY <1>4, <2>1
<1>6. CASE At(p, "lock")
  <2>1. q = lock[req[p].session] /\ req[p].session \in Sessions
    BY <1>6 DEF WaitsFor, At, IInv, Part, Aims
  <2> QED
    BY <1>3, <2>1 DEF IInv, Part, Locks
<1>7. CASE ~At(p, "insert") /\ ~At(p, "lock")
  <2>1. IsWriting(q, NewStart(p))
    BY <1>7 DEF WaitsFor, At, Writing
  <2> QED
    BY <1>4, <1>7, <2>1
<1> QED
  BY <1>5, <1>6, <1>7

(* What a generation waits for in another has a row before all that the     *)
(* other has yet to insert.                                                 *)
LEMMA WaitingIsOrdered ==
  ASSUME IInv, NEW p \in Requests, NEW q \in Requests,
         At(p, "insert"), At(q, "insert"), HasEntered(q, Min(todo[p]))
  PROVE  Min(todo[p]) < Min(todo[q])
<1>1. PICK s \in pending[q] : s[2] = Min(todo[p])
  BY DEF HasEntered, At
<1>3. todo[q] \in SUBSET Nat /\ todo[q] # {}
  BY HorizonAssumption DEF IInv, TypeOK, Times, Part, Progresses
<1>4. Min(todo[q]) \in todo[q]
  BY <1>3, Smallest
<1> QED
  BY <1>1, <1>4 DEF IInv, Part, Reserves

(* In a circle without a moved session all are blocked by generations, and  *)
(* the one that waits at the latest start can wait for no other.            *)
LEMMA CirclesHaveAMove == IInv => OnlyMovesDeadlock
<1> SUFFICES ASSUME IInv, NEW S \in SUBSET Requests, S # {},
                    \A p \in S : WaitsFor(p) \cap S # {}, \A p \in S : ~At(p, "enter")
             PROVE  FALSE
  BY DEF OnlyMovesDeadlock
<1>1. ASSUME NEW p \in S
      PROVE  \E q \in S : At(q, "insert") /\ (At(p, "insert") => HasEntered(q, Min(todo[p])))
  <2>1. PICK q \in S : q \in WaitsFor(p)
    OBVIOUS
  <2>2. WaitsFor(q) # {} /\ ~At(q, "enter") /\ q \in Requests /\ p \in Requests
    OBVIOUS
  <2> QED
    BY <2>1, <2>2, WaitersBlockWithPending
<1> DEFINE Left == {Horizon - Min(todo[p]) : p \in {q \in S : At(q, "insert")}}
<1>2. ASSUME NEW p \in S, At(p, "insert")
      PROVE  Min(todo[p]) \in Nat /\ Min(todo[p]) <= Horizon
  <2>1. todo[p] \in SUBSET Nat /\ todo[p] # {} /\ todo[p] \subseteq 1 .. Horizon
    BY <1>2, HorizonAssumption DEF IInv, TypeOK, Times, Part, Progresses
  <2>2. Min(todo[p]) \in todo[p]
    BY <2>1, Smallest
  <2> QED
    BY <2>1, <2>2, HorizonAssumption
<1>3. Left \in SUBSET Nat /\ Left # {}
  BY <1>1, <1>2, HorizonAssumption
<1>4. PICK p \in S : At(p, "insert") /\ Horizon - Min(todo[p]) = Min(Left)
  BY <1>3, Smallest
<1>5. PICK q \in S : At(q, "insert") /\ HasEntered(q, Min(todo[p]))
  BY <1>1, <1>4
<1>6. Min(todo[p]) < Min(todo[q])
  <2>1. p \in Requests /\ q \in Requests
    OBVIOUS
  <2>2. At(p, "insert") /\ At(q, "insert") /\ HasEntered(q, Min(todo[p]))
    BY <1>4, <1>5
  <2> HIDE DEF Left
  <2> QED
    BY <2>1, <2>2, WaitingIsOrdered
<1>7. Min(Left) <= Horizon - Min(todo[q])
  <2>1. Horizon - Min(todo[q]) \in Left
    BY <1>5
  <2> HIDE DEF Left
  <2> QED
    BY <1>3, <2>1, Smallest
<1>8. /\ Min(todo[p]) \in Nat /\ Min(todo[q]) \in Nat /\ Horizon \in Nat
      /\ Horizon - Min(todo[p]) <= Horizon - Min(todo[q])
  BY <1>2, <1>4, <1>5, <1>7, HorizonAssumption
<1> QED
  BY <1>6, <1>8

(* Requests wait for each other in a circle only where an update moves a    *)
(* session: nothing else makes PostgreSQL fail one with a deadlock.         *)
THEOREM OnlyMovesCanDeadlock == Spec => []OnlyMovesDeadlock
BY CirclesHaveAMove, ScheduleInvariantHolds, PTL

-----------------------------------------------------------------------------
(* How a step changes the sessions.                                         *)
LEMMA WritesOfSessions ==
  ASSUME IInv, [Next]_vars, sessions' # sessions
  PROVE  \E p \in Requests :
           \/ /\ At(p, "commit") /\ req[p].op = "create" /\ sessions[p] = NoRow
              /\ req[p].session = None
              /\ \A s \in Sessions \ {p} : sessions'[s] = sessions[s]
           \/ /\ At(p, "commit") /\ req[p].session \in Sessions
              /\ sessions[req[p].session].status = "SCHEDULED"
              /\ Exists(req[p].session) /\ sessions'[req[p].session] # NoRow
              /\ \A s \in Sessions \ {req[p].session} : sessions'[s] = sessions[s]
           \/ /\ At(p, "commit") /\ req[p].session = None
              /\ \A s \in Sessions : Exists(s) => sessions'[s] = sessions[s]
<1>1. ASSUME NEW p \in Requests, CommitCreate(p)
      PROVE  /\ At(p, "commit") /\ req[p].op = "create" /\ sessions[p] = NoRow
             /\ req[p].session = None
             /\ \A s \in Sessions \ {p} : sessions'[s] = sessions[s]
  <2>1. sessions' = [sessions EXCEPT ![p] = NewRow(req[p].start, req[p].length)]
    BY <1>1 DEF CommitCreate
  <2>2. req[p].session = None
    BY <1>1, RequestFields DEF CommitCreate, IInv, TypeOK, At
  <2> QED
    BY <1>1, <2>1, <2>2 DEF CommitCreate, IInv, TypeOK, Part, IsNew, At
<1>2. ASSUME NEW p \in Requests, CommitChange(p)
      PROVE  /\ At(p, "commit") /\ req[p].session \in Sessions
             /\ sessions[req[p].session].status = "SCHEDULED"
             /\ Exists(req[p].session) /\ sessions'[req[p].session] # NoRow
             /\ \A s \in Sessions \ {req[p].session} : sessions'[s] = sessions[s]
  <2> DEFINE s == req[p].session
             row == Changed(p, sessions[s])
  <2>1. At(p, "commit") /\ Changing(p)
    BY <1>2 DEF CommitChange, Changing, At
  <2>2. s \in Sessions /\ row \in Row /\ row # NoRow
    BY <2>1, ChangedFacts, RowFacts
  <2>3. sessions' = [sessions EXCEPT ![s] = row] /\ req' = req
    BY <1>2 DEF CommitChange, End
  <2>4. Exists(s) /\ sessions[s].status = "SCHEDULED"
    BY <2>1 DEF IInv, Part, Aims, Holds
  <2> HIDE DEF row
  <2>5. sessions'[s] = row
    BY <2>2, <2>3 DEF IInv, TypeOK
  <2> QED
    BY <2>1, <2>2, <2>3, <2>4, <2>5 DEF Exists, IInv, TypeOK
<1>3. ASSUME NEW p \in Requests, CommitGeneration(p)
      PROVE  /\ At(p, "commit") /\ req[p].session = None
             /\ \A s \in Sessions : Exists(s) => sessions'[s] = sessions[s]
  BY <1>3, PendingAreNew, RequestFields DEF CommitGeneration, IInv, TypeOK, At
<1>4. \E p \in Requests : CommitCreate(p) \/ CommitChange(p) \/ CommitGeneration(p)
  BY DEF Next, vars, Submit, Step, CheckCreate, Create, LockSession, Change, Move, EnterIndex,
         CheckGenerate, InsertOccurrence, CheckConflicts, Abort, Refuse, Continue, Tick, Archive
<1> QED
  BY <1>1, <1>2, <1>3, <1>4

(* What is cancelled or completed stays as it is.                           *)
THEOREM FinishedSessionsStay == Spec => FinishedStays
<1> DEFINE Stays ==
      \A s \in Sessions :
        sessions[s].status \in {"CANCELLED", "COMPLETED"} => sessions'[s] = sessions[s]
<1>1. ASSUME IInv, [Next]_vars, NEW s \in Sessions,
             sessions[s].status \in {"CANCELLED", "COMPLETED"}
      PROVE  sessions'[s] = sessions[s]
  <2>1. Exists(s)
    BY <1>1, RowFacts DEF Exists
  <2> QED
    BY <1>1, <2>1, WritesOfSessions DEF Exists
<1>2. IInv /\ [Next]_vars => [Stays]_vars
  BY <1>1
<1> QED
  BY <1>2, ScheduleInvariantHolds, PTL DEF Spec, FinishedStays

(* An archived activity gets no sessions but those of requests that had read*)
(* it before.                                                               *)
THEOREM ArchivedActivitiesSettle == Spec => ArchiveSettles
<1> DEFINE Settles ==
      archived =>
        /\ \A p \in Requests : MayAdd(p)' => MayAdd(p)
        /\ (\A p \in Requests : ~MayAdd(p)) =>
             \A s \in Sessions : Exists(s)' <=> Exists(s)
<1>1. ASSUME IInv, [Next]_vars, archived, NEW p \in Requests, ~MayAdd(p)
      PROVE  ~MayAdd(p)'
  <2> USE DEF MayAdd, At, Goto, Refuse, Continue, End
  <2>1. ASSUME NEW q \in Requests, NEW r \in Request, Submit(q, r) PROVE ~MayAdd(p)'
    BY <1>1, <2>1 DEF Submit, IInv, TypeOK
  <2>2. ASSUME NEW q \in Requests, CheckCreate(q) \/ CheckGenerate(q) PROVE ~MayAdd(p)'
    BY <1>1, <2>2 DEF CheckCreate, CheckGenerate, IInv, TypeOK
  <2>3. ASSUME NEW q \in Requests, LockSession(q) PROVE ~MayAdd(p)'
    <3>1. At(q, "lock") /\ req[q].session # None
      BY <1>1, <2>3, NamesOfSessions DEF LockSession, IInv, Part, Aims
    <3>2. req' = req /\ \A r \in Requests \ {q} : pc'[r] = pc[r]
      BY <1>1, <2>3 DEF LockSession, IInv, TypeOK
    <3> QED
      BY <1>1, <3>1, <3>2
  <2>4. ASSUME NEW q \in Requests, InsertOccurrence(q) \/ CheckConflicts(q) PROVE ~MayAdd(p)'
    BY <1>1, <2>4 DEF InsertOccurrence, CheckConflicts, IInv, TypeOK
  <2>5. ASSUME NEW q \in Requests,
               CommitCreate(q) \/ CommitChange(q) \/ CommitGeneration(q) \/ Abort(q)
        PROVE  ~MayAdd(p)'
    <3>1. pc' = [pc EXCEPT ![q] = "done"] /\ req' = req
      BY <2>5 DEF CommitCreate, CommitChange, CommitGeneration, Abort
    <3> QED
      BY <1>1, <3>1 DEF IInv, TypeOK
  <2>7. ASSUME NEW q \in Requests, Create(q) \/ Change(q) \/ Move(q) PROVE ~MayAdd(p)'
    <3>1. At(q, "write") \/ req[q].session # None
      BY <1>1, <2>7 DEF Create, Change, Move, IInv, Part, Aims
    <3>2. req' = req /\ \A r \in Requests \ {q} : pc'[r] = pc[r]
      BY <1>1, <2>7 DEF Create, Change, Move, EnterIndex, IInv, TypeOK
    <3> QED
      BY <1>1, <3>1, <3>2
  <2>6. CASE Tick \/ Archive \/ UNCHANGED vars
    BY <1>1, <2>6 DEF Tick, Archive, vars, requestVars
  <2> QED
    BY <1>1, <2>1, <2>2, <2>3, <2>4, <2>5, <2>6, <2>7 DEF Next, Step
<1>2. ASSUME IInv, [Next]_vars, \A p \in Requests : ~MayAdd(p), NEW s \in Sessions
      PROVE  Exists(s)' <=> Exists(s)
  <2>1. CASE sessions' = sessions
    BY <2>1 DEF Exists
  <2>2. CASE sessions' # sessions
    <3>1. PICK p \in Requests :
            /\ req[p].session \in Sessions /\ Exists(req[p].session) /\ sessions'[req[p].session] # NoRow
            /\ \A u \in Sessions \ {req[p].session} : sessions'[u] = sessions[u]
      BY <1>2, <2>2, WritesOfSessions DEF MayAdd, At
    <3>2. CASE s = req[p].session
      BY <3>1, <3>2 DEF Exists
    <3>3. CASE s # req[p].session
      BY <3>1, <3>3 DEF Exists
    <3> QED
      BY <3>2, <3>3
  <2> QED
    BY <2>1, <2>2
<1>3. IInv /\ [Next]_vars => [Settles]_vars
  BY <1>1, <1>2
<1> QED
  BY <1>3, ScheduleInvariantHolds, PTL DEF Spec, ArchiveSettles
=============================================================================
