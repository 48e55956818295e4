----------------------- MODULE OrganizationMembersProofs -----------------------
(***************************************************************************)
(* The properties of OrganizationMembers, for any number of requests and   *)
(* accounts, of an employer or a provider.                                 *)
(***************************************************************************)
EXTENDS OrganizationMembers, FiniteSetTheorems, TLAPS

EmployeeOps == {"createEmployee", "setEmployeeStatus"}

(* An employee stays one, and so does an administrator or member of staff.  *)
Kinds ==
  \A u \in Users :
    member[u].role # "NONE" =>
      /\ memberDraft[u].role # "NONE"
      /\ memberDraft[u].role = "EMPLOYEE" <=> member[u].role = "EMPLOYEE"

Holds(p) ==
  /\ \A u \in Users : memberLock[u] = p => u = req[p].user /\ At(p, "commit")
  /\ \A u \in Users : employeeLock[u] = p =>
       /\ u = req[p].user /\ pc[p] \in {"member", "commit"}
       /\ req[p].op \in EmployeeOps

(* What a request relies on for the account it is about.                    *)
Works(p) ==
  LET u == req[p].user
  IN  /\ ~At(p, "idle") => req[p] \in Request
      /\ At(p, "count") \/ At(p, "write") =>
           /\ req[p].op \in {"add", "deactivate", "activate", "update"}
           /\ IsVisible(member[u])
      /\ At(p, "insert") => req[p].op = "add"
      /\ At(p, "employee") \/ At(p, "member") =>
           /\ req[p].op \in EmployeeOps
           /\ req[p].op = "setEmployeeStatus" => employee[u] # "NONE"
      /\ At(p, "member") =>
           /\ employeeLock[u] = p
           /\ employeeDraft[u] = IF req[p].op = "createEmployee" THEN "ACTIVE" ELSE req[p].status
      /\ At(p, "commit") =>
           /\ memberLock[u] = p
           /\ req[p].op \in EmployeeOps =>
                /\ employeeLock[u] = p /\ employeeDraft[u] \in Statuses
                /\ memberDraft[u] = [role |-> "EMPLOYEE", status |-> employeeDraft[u]]
           /\ req[p].op \notin EmployeeOps =>
                employee[u] = "NONE" /\ IsVisible(memberDraft[u])

(* What a request counted still is so, unless it was raced.                 *)
Counted(p) ==
  LET u == req[p].user
  IN  raced[p] = "no" =>
        /\ At(p, "write") \/ At(p, "commit") =>
             ~(Removes(p, member[u]) /\ IsLastAdmin(p))
        /\ At(p, "commit") /\ req[p].op \in {"deactivate", "activate", "update"} =>
             memberDraft[u] = Updated(p, member[u])

IInv ==
  /\ TypeOK /\ EmployeesMatchMembers /\ Kinds
  /\ \A p \in Requests : Holds(p) /\ Works(p) /\ Counted(p)

-----------------------------------------------------------------------------
LEMMA RequestFields ==
  ASSUME NEW r \in Request
  PROVE  /\ r.user \in Users /\ r.role \in Roles /\ r.status \in Statuses
         /\ r.op \in {"add", "deactivate", "activate", "update"} \cup EmployeeOps
         /\ r.op \in EmployeeOps => IsEmployer
         /\ IsEmployer => r.role = "ADMIN" /\ r.op # "update"
         /\ r.role # "NONE" /\ r.role # "EMPLOYEE"
BY DEF Request, Operations, Roles, EmployeeOps

LEMMA Memberships ==
  /\ NoMembership \in Membership /\ "ACTIVE" \in Statuses /\ "INACTIVE" \in Statuses
  /\ \A r \in Roles, s \in Statuses : [role |-> r, status |-> s] \in Membership
  /\ \A m \in Membership : m.role \in Roles \cup {"NONE"} /\ m.status \in Statuses
  /\ \A m \in Membership : m.role = "NONE" => m = NoMembership
  /\ \A m \in Membership, r \in Roles : m.role # "NONE" => [m EXCEPT !.role = r] \in Membership
  /\ \A m \in Membership, s \in Statuses :
       m.role # "NONE" => [m EXCEPT !.status = s] \in Membership
  /\ "ADMIN" \in Roles /\ (IsEmployer => "EMPLOYEE" \in Roles)
BY DEF NoMembership, Membership, Statuses, Roles

LEMMA InitHolds == Init => IInv
<1> SUFFICES ASSUME Init PROVE IInv
  OBVIOUS
<1>1. [role |-> "ADMIN", status |-> "ACTIVE"] \in Membership
  BY Memberships
<1>2. TypeOK
  BY <1>1, Memberships, NoneAssumption DEF Init, TypeOK, Statuses
<1>3. EmployeesMatchMembers /\ Kinds
  BY DEF Init, EmployeesMatchMembers, Kinds, NoMembership
<1>4. \A p \in Requests : Holds(p) /\ Works(p) /\ Counted(p)
  BY NoneAssumption DEF Init, Holds, Works, Counted, At
<1> QED
  BY <1>2, <1>3, <1>4 DEF IInv

(* The fixed part of the state: the sets that depend on the organization.   *)
LEMMA SameSets ==
  ASSUME organization' = organization
  PROVE  /\ IsEmployer' = IsEmployer /\ Roles' = Roles /\ Membership' = Membership
         /\ Request' = Request
BY DEF IsEmployer, Roles, Membership, Request, Operations

(* A request at work has been submitted.                                    *)
LEMMA Submitted ==
  ASSUME IInv, NEW q \in Requests, ~At(q, "idle")
  PROVE  req[q] \in Request /\ req[q].user \in Users
<1>1. req[q] \in Request
  BY DEF IInv, Works
<1> QED
  BY <1>1, RequestFields

LEMMA EmployeesOnly ==
  ASSUME IInv, NEW u \in Users
  PROVE  /\ employee[u] # "NONE" => member[u].role = "EMPLOYEE"
         /\ IsVisible(member[u]) \/ member[u] = NoMembership => employee[u] = "NONE"
<1>1. employee[u] # "NONE" => member[u] = [role |-> "EMPLOYEE", status |-> employee[u]]
  BY DEF IInv, EmployeesMatchMembers
<1>2. employee[u] # "NONE" => member[u].role = "EMPLOYEE"
  BY <1>1
<1> QED
  BY <1>2 DEF IsVisible, NoMembership

(* The steps of other requests, as request q sees them.                     *)
LEMMA Undisturbed ==
  ASSUME IInv, organization' = organization, NEW q \in Requests,
         pc'[q] = pc[q], req'[q] = req[q],
         \A u \in Users : memberLock'[u] = q <=> memberLock[u] = q,
         \A u \in Users : employeeLock'[u] = q <=> employeeLock[u] = q,
         \A u \in Users : memberLock[u] = q =>
           memberDraft'[u] = memberDraft[u] /\ employee'[u] = employee[u],
         \A u \in Users : employeeLock[u] = q => employeeDraft'[u] = employeeDraft[u],
         \A u \in Users : employee[u] # "NONE" => employee'[u] # "NONE",
         \A u \in Users : IsVisible(member[u]) => IsVisible(member'[u])
  PROVE  Holds(q)' /\ Works(q)'
<1>1. Holds(q)'
  BY DEF IInv, Holds, At
<1>2. ~At(q, "idle") => req[q] \in Request /\ req[q].user \in Users
  BY Submitted
<1>3. CASE At(q, "idle")
  BY <1>1, <1>3 DEF Works, At
<1>4. CASE ~At(q, "idle")
  <2> DEFINE u == req[q].user
  <2>1. u \in Users /\ req'[q].user = u /\ Works(q) /\ Holds(q)
    BY <1>2, <1>4 DEF IInv
  <2>2. PICK a \in Users : a = u
    BY <2>1
  <2> HIDE DEF u
  <2>3. (At(q, "count") \/ At(q, "write"))' =>
           req'[q].op \in {"add", "deactivate", "activate", "update"} /\ IsVisible(member'[a])
    BY <2>1, <2>2 DEF Works, At, u
  <2>4. (At(q, "employee") \/ At(q, "member"))' =>
           req'[q].op \in EmployeeOps
           /\ (req'[q].op = "setEmployeeStatus" => employee'[a] # "NONE")
    BY <2>1, <2>2 DEF Works, At, u
  <2>5. At(q, "member")' =>
           /\ employeeLock'[a] = q
           /\ employeeDraft'[a] = IF req'[q].op = "createEmployee" THEN "ACTIVE" ELSE req'[q].status
    BY <2>1, <2>2 DEF Works, At, u
  <2>6. At(q, "commit")' =>
           /\ memberLock'[a] = q
           /\ req'[q].op \in EmployeeOps =>
                /\ employeeLock'[a] = q /\ employeeDraft'[a] \in Statuses
                /\ memberDraft'[a] = [role |-> "EMPLOYEE", status |-> employeeDraft'[a]]
           /\ req'[q].op \notin EmployeeOps =>
                employee'[a] = "NONE" /\ IsVisible(memberDraft'[a])
    BY <2>1, <2>2 DEF Works, At, u
  <2>7. At(q, "insert")' => req'[q].op = "add"
    BY <2>1 DEF Works, At
  <2>8. a = req'[q].user
    BY <2>1, <2>2
  <2>9. ~At(q, "idle")' => req'[q] \in Request'
    BY SameSets, <1>2 DEF At
  <2> QED
    BY <1>1, <2>3, <2>4, <2>5, <2>6, <2>7, <2>8, <2>9 DEF Works
<1> QED
  BY <1>3, <1>4

(* What a request counted stays right while no other transaction commits.   *)
LEMMA StillCounted ==
  ASSUME IInv, organization' = organization, NEW q \in Requests,
         pc'[q] = pc[q], req'[q] = req[q],
         raced'[q] # "no" \/ (raced'[q] = raced[q] /\ member' = member),
         \A u \in Users : memberLock[u] = q => memberDraft'[u] = memberDraft[u]
  PROVE  Counted(q)'
<1> SUFFICES ASSUME raced'[q] = "no", ~At(q, "idle")
             PROVE  Counted(q)'
  BY DEF Counted, At
<1>1. Counted(q) /\ Works(q) /\ raced'[q] = raced[q] /\ member' = member
  BY DEF IInv
<1>2. req[q].user \in Users
  BY Submitted
<1>3. ActiveAdmins' = ActiveAdmins /\ IsEmployer' = IsEmployer
  BY <1>1 DEF ActiveAdmins, IsEmployer
<1>4. IsLastAdmin(q)' = IsLastAdmin(q)
  BY <1>3 DEF IsLastAdmin
<1>5. \A m : Removes(q, m)' = Removes(q, m) /\ Updated(q, m)' = Updated(q, m)
  BY <1>3 DEF Removes, Updated, ByPlatform
<1>6. At(q, "commit") => memberDraft'[req[q].user] = memberDraft[req[q].user]
  BY <1>1, <1>2 DEF Works
<1> QED
  BY <1>1, <1>4, <1>5, <1>6 DEF Counted, At

-----------------------------------------------------------------------------
(* A step of request p that writes no row.                                  *)
LEMMA Advances ==
  ASSUME IInv, organization' = organization, NEW p \in Requests,
         NEW there \in {"authorize", "read", "count", "write", "insert", "employee",
                        "member", "commit"},
         Goto(p, there), UNCHANGED <<tables, drafts, locks, raced>>,
         req' \in [Requests -> Request \cup {None}],
         \A q \in Requests \ {p} : req'[q] = req[q],
         Holds(p)', Works(p)', Counted(p)'
  PROVE  IInv'
<1>1. TypeOK'
  BY SameSets DEF IInv, TypeOK, Goto, tables, drafts, locks
<1>2. EmployeesMatchMembers' /\ Kinds'
  BY DEF IInv, EmployeesMatchMembers, Kinds, tables, drafts
<1>3. ASSUME NEW q \in Requests, q # p
      PROVE  (Holds(q) /\ Works(q) /\ Counted(q))'
  <2>1. pc'[q] = pc[q] /\ req'[q] = req[q]
    BY <1>3 DEF IInv, TypeOK, Goto
  <2>2. UNCHANGED <<member, employee, memberDraft, employeeDraft, memberLock, employeeLock, raced>>
    BY DEF tables, drafts, locks
  <2>3. \A u : IsVisible(member[u]) => IsVisible(member'[u])
    BY <2>2
  <2>4. Holds(q)' /\ Works(q)'
    BY <2>1, <2>2, <2>3, Undisturbed
  <2>5. Counted(q)'
    BY <2>1, <2>2, StillCounted
  <2> QED
    BY <2>4, <2>5
<1> QED
  BY <1>1, <1>2, <1>3 DEF IInv

(* A request that fails leaves the rows as they were committed.             *)
LEMMA RollsBack ==
  ASSUME IInv, organization' = organization, NEW p \in Requests, RollBack(p)
  PROVE  IInv'
<1>1. TypeOK'
  BY SameSets, Memberships, NoneAssumption
     DEF IInv, TypeOK, RollBack, Release, Reset, Goto, tables
<1>2. EmployeesMatchMembers' /\ Kinds'
  BY DEF IInv, EmployeesMatchMembers, Kinds, RollBack, tables
<1>3. ASSUME NEW q \in Requests, q # p
      PROVE  (Holds(q) /\ Works(q) /\ Counted(q))'
  <2>1. pc'[q] = pc[q] /\ req'[q] = req[q] /\ raced'[q] = raced[q]
    BY <1>3 DEF IInv, TypeOK, RollBack, Reset, Goto
  <2>2. UNCHANGED <<member, employee>>
    BY DEF RollBack, tables
  <2>3. /\ \A u \in Users : memberLock'[u] = q <=> memberLock[u] = q
        /\ \A u \in Users : employeeLock'[u] = q <=> employeeLock[u] = q
    BY <1>3, NoneAssumption DEF RollBack, Release
  <2>4. /\ \A u \in Users : memberLock[u] = q => memberDraft'[u] = memberDraft[u]
        /\ \A u \in Users : employeeLock[u] = q => employeeDraft'[u] = employeeDraft[u]
    BY <1>3 DEF RollBack
  <2>5. /\ \A u \in Users : memberLock[u] = q =>
              memberDraft'[u] = memberDraft[u] /\ employee'[u] = employee[u]
        /\ \A u \in Users : employee[u] # "NONE" => employee'[u] # "NONE"
        /\ \A u \in Users : IsVisible(member[u]) => IsVisible(member'[u])
    BY <2>2, <2>4
  <2>6. Holds(q)' /\ Works(q)'
    BY <2>1, <2>3, <2>4, <2>5, Undisturbed
  <2>7. Counted(q)'
    BY <2>1, <2>2, <2>4, StillCounted
  <2> QED
    BY <2>6, <2>7
<1>4. Holds(p)' /\ Works(p)' /\ Counted(p)'
  <2>1. pc'[p] = "idle"
    BY DEF IInv, TypeOK, RollBack, Reset, Goto
  <2>2. \A u \in Users : memberLock'[u] # p /\ employeeLock'[u] # p
    BY NoneAssumption DEF RollBack, Release
  <2> QED
    BY <2>1, <2>2 DEF Holds, Works, Counted, At
<1> QED
  BY <1>1, <1>2, <1>3, <1>4 DEF IInv

LEMMA StatusKeeps ==
  ASSUME IInv, organization' = organization, SetOrganizationStatus
  PROVE  IInv'
<1>1. TypeOK'
  BY SameSets DEF IInv, TypeOK, SetOrganizationStatus, drafts, locks
<1>2. EmployeesMatchMembers' /\ Kinds'
  BY DEF IInv, EmployeesMatchMembers, Kinds, SetOrganizationStatus, drafts
<1>3. ASSUME NEW q \in Requests
      PROVE  (Holds(q) /\ Works(q) /\ Counted(q))'
  <2>1. UNCHANGED <<member, employee, memberDraft, employeeDraft, memberLock, employeeLock,
                    raced, pc, req>>
    BY DEF SetOrganizationStatus, drafts, locks
  <2>2. \A u : IsVisible(member[u]) => IsVisible(member'[u])
    BY <2>1
  <2>3. Holds(q)' /\ Works(q)'
    BY <2>1, <2>2, Undisturbed
  <2>4. Counted(q)'
    BY <2>1, StillCounted
  <2> QED
    BY <2>3, <2>4
<1> QED
  BY <1>1, <1>2, <1>3 DEF IInv

LEMMA SubmitKeeps ==
  ASSUME IInv, organization' = organization, NEW p \in Requests, NEW r \in Request, Submit(p, r)
  PROVE  IInv'
<1>1. TypeOK /\ Holds(p)
  BY DEF IInv
<1>2. req' \in [Requests -> Request \cup {None}] /\ req'[p] = r /\ pc'[p] = "authorize"
      /\ \A q \in Requests \ {p} : req'[q] = req[q]
  BY <1>1 DEF Submit, TypeOK, Goto
<1>3. r \in Request'
  BY SameSets
<1>4. \A u \in Users : memberLock'[u] # p /\ employeeLock'[u] # p
  BY <1>1 DEF Submit, TypeOK, At, locks
<1>5. Holds(p)' /\ Works(p)' /\ Counted(p)'
  BY <1>2, <1>3, <1>4 DEF Holds, Works, Counted, At
<1> QED
  BY <1>1, <1>2, <1>5, Advances DEF Submit, TypeOK

LEMMA AuthorizeKeeps ==
  ASSUME IInv, organization' = organization, NEW p \in Requests, Authorize(p)
  PROVE  IInv'
<1>1. TypeOK /\ Holds(p) /\ Works(p)
  BY DEF IInv
<1>2. ASSUME Continue(p, "read") PROVE IInv'
  <2>1. pc'[p] = "read" /\ req'[p] = req[p] /\ UNCHANGED locks
    BY <1>1, <1>2 DEF Continue, Goto, TypeOK
  <2>2. \A u \in Users : memberLock'[u] # p /\ employeeLock'[u] # p
    BY <1>1, <2>1 DEF Holds, Authorize, At, locks
  <2>3. Holds(p)' /\ Works(p)' /\ Counted(p)'
    BY SameSets, <1>1, <2>1, <2>2 DEF Holds, Works, Counted, Authorize, At
  <2> QED
    BY <1>1, <1>2, <2>3, Advances DEF Continue, TypeOK
<1> QED
  BY <1>2, RollsBack DEF Authorize

(* What the request finds, the later statements rely on.                    *)
LEMMA ReadKeeps ==
  ASSUME IInv, organization' = organization, NEW p \in Requests, Read(p)
  PROVE  IInv'
<1> DEFINE m == member[req[p].user]
<1>1. TypeOK /\ Holds(p) /\ Works(p) /\ At(p, "read")
  BY DEF IInv, Read
<1>2. req[p] \in Request /\ req[p].user \in Users
  BY <1>1, Submitted DEF At
<1>3. ASSUME AfterRead(p, m) # "fail" PROVE IInv'
  <2> DEFINE there == AfterRead(p, m)
  <2>1. Goto(p, there) /\ UNCHANGED <<tables, drafts, locks, req, raced>>
    BY <1>3 DEF Read, Continue
  <2>2. req' \in [Requests -> Request \cup {None}]
    BY SameSets, <1>1, <2>1 DEF TypeOK
  <2>3. /\ there \in {"count", "write", "insert", "employee"}
        /\ there \in {"count", "write"} =>
             /\ req[p].op \in {"add", "deactivate", "activate", "update"} /\ IsVisible(m)
             /\ there = "write" => ~Removes(p, m)
        /\ there = "insert" => req[p].op = "add"
        /\ there = "employee" =>
             /\ req[p].op \in EmployeeOps
             /\ req[p].op = "setEmployeeStatus" => employee[req[p].user] # "NONE"
    <3> HIDE DEF m
    <3>1. req[p].op \in {"add", "deactivate", "activate", "update", "createEmployee",
                         "setEmployeeStatus"}
      BY <1>2, RequestFields DEF EmployeeOps
    <3> QED
      BY <1>3, <3>1 DEF AfterRead, AfterAdd, IsVisible, EmployeeOps, Removes
  <2> HIDE DEF m, there
  <2>4. pc'[p] = there /\ req'[p] = req[p] /\ req' = req
    BY <1>1, <2>1 DEF Goto, TypeOK
  <2>5. \A u \in Users : memberLock'[u] # p /\ employeeLock'[u] # p
    BY <1>1, <2>1 DEF Holds, At, locks
  <2>6. Holds(p)' /\ Works(p)'
    BY SameSets, <1>1, <2>1, <2>3, <2>4, <2>5 DEF Holds, Works, At, tables, m
  <2>7. Counted(p)'
    <3>1. Removes(p, m)' = Removes(p, m)
      BY <2>1 DEF Removes, ByPlatform, m, tables
    <3> QED
      BY <2>1, <2>3, <2>4, <3>1 DEF Counted, At, m
  <2> QED
    BY <1>1, <2>1, <2>3, <2>2, <2>4, <2>6, <2>7, Advances
<1> QED
  BY <1>3, RollsBack DEF Read

LEMMA CountKeeps ==
  ASSUME IInv, organization' = organization, NEW p \in Requests, Count(p)
  PROVE  IInv'
<1>1. TypeOK /\ Holds(p) /\ Works(p) /\ At(p, "count")
  BY DEF IInv, Count
<1>2. ASSUME Continue(p, "write"), ~IsLastAdmin(p) PROVE IInv'
  <2>1. /\ pc'[p] = "write" /\ req' = req
        /\ UNCHANGED <<member, memberLock, employeeLock>>
    BY <1>1, <1>2 DEF Continue, Goto, TypeOK, tables, locks
  <2>2. \A u \in Users : memberLock'[u] # p /\ employeeLock'[u] # p
    BY <1>1, <2>1 DEF Holds, At
  <2>3. Holds(p)' /\ Works(p)'
    BY SameSets, <1>1, <2>1, <2>2 DEF Holds, Works, At
  <2>4. ~IsLastAdmin(p)'
    BY <1>2, <2>1 DEF IsLastAdmin, ActiveAdmins, IsEmployer
  <2>5. Counted(p)'
    BY <2>1, <2>4 DEF Counted, At
  <2> QED
    BY <1>1, <1>2, <2>1, <2>3, <2>5, Advances DEF Continue, TypeOK
<1> QED
  BY <1>2, RollsBack DEF Count

-----------------------------------------------------------------------------
(* The statement that writes the membership is the last of its request.     *)
LEMMA PutsMember ==
  ASSUME IInv, organization' = organization, NEW p \in Requests, NEW m \in Membership,
         pc[p] \in {"write", "insert", "member"},
         PutMember(p, m), Goto(p, "commit"),
         UNCHANGED <<tables, employeeDraft, employeeLock, req, raced>>,
         NEW u \in Users, u = req[p].user,
         m.role # "NONE",
         member[u].role # "NONE" => (m.role = "EMPLOYEE" <=> member[u].role = "EMPLOYEE"),
         req[p].op \in EmployeeOps =>
           /\ employeeLock[u] = p /\ employeeDraft[u] \in Statuses
           /\ m = [role |-> "EMPLOYEE", status |-> employeeDraft[u]],
         req[p].op \notin EmployeeOps => employee[u] = "NONE" /\ IsVisible(m),
         Counted(p)'
  PROVE  IInv'
<1>1. TypeOK /\ Holds(p) /\ Works(p) /\ req[p] \in Request
  BY Submitted DEF IInv, At
<1>2. /\ memberLock' = [memberLock EXCEPT ![u] = p]
      /\ memberDraft' = [memberDraft EXCEPT ![u] = m]
      /\ memberLock[u] = None
      /\ UNCHANGED <<member, employee, operating, employeeDraft, employeeLock, req, raced>>
  BY <1>1 DEF PutMember, tables, Holds, At
<1>3. TypeOK'
  <2>1. memberLock' \in [Users -> Requests \cup {None}] /\ memberDraft' \in [Users -> Membership]
        /\ pc' = [pc EXCEPT ![p] = "commit"]
    BY <1>1, <1>2 DEF TypeOK, Goto
  <2>2. p # None
    BY NoneAssumption
  <2> QED
    BY SameSets, <1>1, <1>2, <2>1, <2>2 DEF TypeOK
<1>4. EmployeesMatchMembers' /\ Kinds'
  <2>1. EmployeesMatchMembers /\ Kinds /\ memberDraft \in [Users -> Membership]
    BY <1>1 DEF IInv, TypeOK
  <2> QED
    BY <1>2, <2>1 DEF EmployeesMatchMembers, Kinds
<1>5. pc'[p] = "commit" /\ memberLock'[u] = p /\ memberDraft'[u] = m
      /\ \A a \in Users \ {u} : memberLock'[a] = memberLock[a] /\ memberDraft'[a] = memberDraft[a]
  BY <1>1, <1>2 DEF TypeOK, Goto
<1>6. ASSUME NEW q \in Requests, q # p
      PROVE  (Holds(q) /\ Works(q) /\ Counted(q))'
  <2>1. pc'[q] = pc[q] /\ req'[q] = req[q] /\ raced'[q] = raced[q]
    BY <1>1, <1>2, <1>6 DEF Goto, TypeOK
  <2>2. /\ \A a \in Users : memberLock'[a] = q <=> memberLock[a] = q
        /\ \A a \in Users : employeeLock'[a] = q <=> employeeLock[a] = q
        /\ \A a \in Users : employeeLock[a] = q => employeeDraft'[a] = employeeDraft[a]
    BY <1>2, <1>5, <1>6, NoneAssumption
  <2>3. \A a \in Users : memberLock[a] = q => memberDraft'[a] = memberDraft[a]
    BY <1>2, <1>5, NoneAssumption
  <2>4. /\ \A a \in Users : memberLock[a] = q =>
              memberDraft'[a] = memberDraft[a] /\ employee'[a] = employee[a]
        /\ \A a \in Users : employee[a] # "NONE" => employee'[a] # "NONE"
        /\ \A a \in Users : IsVisible(member[a]) => IsVisible(member'[a])
    BY <1>2, <2>3
  <2>5. Holds(q)' /\ Works(q)'
    BY <2>1, <2>2, <2>4, Undisturbed
  <2>6. Counted(q)'
    BY <1>2, <2>1, <2>3, StillCounted
  <2> QED
    BY <2>5, <2>6
<1>7. Holds(p)'
  <2>1. \A a \in Users : memberLock[a] # p
    BY <1>1 DEF Holds, At
  <2> QED
    BY <1>1, <1>2, <1>5, <2>1 DEF Holds, At
<1>8. Works(p)'
  BY SameSets, <1>1, <1>2, <1>5 DEF Works, At
<1> QED
  BY <1>3, <1>4, <1>6, <1>7, <1>8 DEF IInv

LEMMA WriteKeeps ==
  ASSUME IInv, organization' = organization, NEW p \in Requests, Write(p)
  PROVE  IInv'
<1>1. TypeOK /\ Holds(p) /\ Works(p) /\ Counted(p) /\ EmployeesMatchMembers /\ At(p, "write")
  BY DEF IInv, Write
<1>2. req[p] \in Request /\ req[p].user \in Users
  BY <1>1, Submitted DEF At
<1>3. PICK u \in Users : u = req[p].user
  BY <1>2
<1> DEFINE m == Updated(p, memberDraft[u])
<1>4. memberLock[u] = None /\ memberDraft[u] = member[u] /\ member[u] \in Membership
      /\ PutMember(p, m)
  BY <1>1, <1>3 DEF Write, PutMember, Holds, At, TypeOK
<1>5. IsVisible(member[u]) /\ req[p].op \in {"add", "deactivate", "activate", "update"}
      /\ req[p].op \notin EmployeeOps
  BY <1>1, <1>3 DEF Works, EmployeeOps
<1>6. employee[u] = "NONE"
  BY <1>5, EmployeesOnly
<1>7. m \in Membership /\ IsVisible(m)
  <2>1. req[p].role \in Roles /\ req[p].role # "NONE" /\ req[p].role # "EMPLOYEE"
    BY <1>2, RequestFields
  <2>2. CASE req[p].op = "add"
    <3>1. PICK r \in Roles : m = [role |-> r, status |-> "ACTIVE"] /\ r # "NONE" /\ r # "EMPLOYEE"
      BY <2>1, <2>2, Memberships DEF Updated
    <3> QED
      BY <3>1, Memberships DEF IsVisible
  <2>3. CASE req[p].op = "update"
    <3>1. m = [member[u] EXCEPT !.role = req[p].role]
      BY <1>4, <2>3 DEF Updated
    <3> QED
      BY <1>4, <1>5, <2>1, <3>1 DEF IsVisible, Membership
  <2>4. CASE req[p].op \in {"activate", "deactivate"}
    <3>1. PICK s \in Statuses : m = [member[u] EXCEPT !.status = s]
      BY <1>4, <2>4, Memberships DEF Updated
    <3> QED
      BY <1>4, <1>5, <3>1 DEF IsVisible, Membership
  <2> QED
    BY <1>5, <2>2, <2>3, <2>4
<1>8. Counted(p)'
  <2>1. UNCHANGED <<member, req, raced>> /\ memberDraft'[u] = m /\ m = Updated(p, member[u])
    BY <1>1, <1>3, <1>4 DEF Write, PutMember, tables, TypeOK
  <2> HIDE DEF m
  <2>2. \A a : Removes(p, a)' = Removes(p, a) /\ Updated(p, a)' = Updated(p, a)
    BY <2>1 DEF Removes, Updated, ByPlatform, IsEmployer
  <2>3. IsLastAdmin(p)' = IsLastAdmin(p)
    BY <2>1 DEF IsLastAdmin, ActiveAdmins, IsEmployer
  <2>4. raced[p] = "no" => ~(Removes(p, member[u]) /\ IsLastAdmin(p))
    BY <1>1, <1>3 DEF Counted
  <2> QED
    BY <1>3, <2>1, <2>2, <2>3, <2>4 DEF Counted
<1> HIDE DEF m
<1> QED
  BY <1>1, <1>3, <1>4, <1>5, <1>6, <1>7, <1>8, PutsMember DEF Write, At, IsVisible

LEMMA InsertKeeps ==
  ASSUME IInv, organization' = organization, NEW p \in Requests, NEW r \in Roles,
         r # "NONE", InsertMember(p, r),
         \/ At(p, "insert") /\ r # "EMPLOYEE"
         \/ At(p, "member") /\ req[p].op = "createEmployee" /\ r = "EMPLOYEE"
  PROVE  IInv'
<1>1. TypeOK /\ Holds(p) /\ Works(p) /\ req[p] \in Request
  BY Submitted DEF IInv, At
<1>2. PICK u \in Users : u = req[p].user
  BY <1>1, RequestFields
<1> DEFINE m == [role |-> r, status |-> "ACTIVE"]
<1>3. ASSUME member[u] = NoMembership,
             PutMember(p, m), Goto(p, "commit"),
             UNCHANGED <<tables, employeeDraft, employeeLock, req, raced>>
      PROVE  IInv'
  <2>1. m \in Membership /\ "ACTIVE" \in Statuses
    BY Memberships
  <2>2. req[p].op \in EmployeeOps =>
          /\ employeeLock[u] = p /\ employeeDraft[u] = "ACTIVE"
          /\ m = [role |-> "EMPLOYEE", status |-> "ACTIVE"]
    BY <1>1, <1>2 DEF Works, At, EmployeeOps
  <2>3. req[p].op \notin EmployeeOps => employee[u] = "NONE" /\ IsVisible(m)
    BY <1>3, EmployeesOnly DEF IsVisible, EmployeeOps
  <2>4. Counted(p)'
    <3>1. member' = member /\ req' = req /\ IsActiveAdmin(member[u])' = FALSE
      BY <1>3 DEF tables, IsActiveAdmin, NoMembership
    <3>2. req[p].op \notin {"deactivate", "activate", "update"}
      BY <1>1 DEF Works, At, EmployeeOps
    <3> QED
      BY <1>2, <3>1, <3>2 DEF Counted, Removes
  <2>5. member[u].role = "NONE"
    BY <1>3 DEF NoMembership
  <2>6. pc[p] \in {"write", "insert", "member"} /\ m.role # "NONE"
    BY DEF At
  <2> HIDE DEF m
  <2> QED
    BY <1>2, <1>3, <2>1, <2>2, <2>3, <2>4, <2>5, <2>6, PutsMember
<1> QED
  BY <1>2, <1>3, RollsBack DEF InsertMember

LEMMA SetEmployeeMemberKeeps ==
  ASSUME IInv, organization' = organization, NEW p \in Requests, SetEmployeeMember(p)
  PROVE  IInv'
<1>1. TypeOK /\ Holds(p) /\ Works(p) /\ req[p] \in Request /\ At(p, "member")
      /\ req[p].op = "setEmployeeStatus"
  BY Submitted DEF IInv, At, SetEmployeeMember
<1>2. PICK u \in Users : u = req[p].user
  BY <1>1, RequestFields
<1>3. memberLock[u] = None /\ memberDraft[u] = member[u]
  BY <1>1, <1>2 DEF SetEmployeeMember, PutMember, Holds, At, TypeOK
<1>4. member[u].role = "EMPLOYEE"
  <2>1. employee[u] # "NONE"
    BY <1>1, <1>2 DEF Works
  <2> QED
    BY <2>1, EmployeesOnly
<1> DEFINE m == [role |-> "EMPLOYEE", status |-> req[p].status]
<1>5. PutMember(p, m)
  BY <1>2, <1>3, <1>4 DEF SetEmployeeMember
<1>6. employeeLock[u] = p /\ employeeDraft[u] = req[p].status /\ req[p].status \in Statuses
  BY <1>1, <1>2, RequestFields DEF Works
<1>7. m \in Membership
  BY <1>1, RequestFields, Memberships DEF EmployeeOps
<1>8. Counted(p)'
  <2>1. member' = member /\ req' = req
    BY DEF SetEmployeeMember, tables
  <2> QED
    BY <1>1, <2>1 DEF Counted, Removes
<1>9. /\ m = [role |-> "EMPLOYEE", status |-> employeeDraft[u]] /\ m.role = "EMPLOYEE"
      /\ req[p].op \in EmployeeOps /\ pc[p] \in {"write", "insert", "member"}
  BY <1>1, <1>6 DEF EmployeeOps, At
<1> HIDE DEF m
<1> QED
  BY <1>2, <1>4, <1>5, <1>6, <1>7, <1>8, <1>9, PutsMember DEF SetEmployeeMember

LEMMA WriteEmployeeKeeps ==
  ASSUME IInv, organization' = organization, NEW p \in Requests, WriteEmployee(p)
  PROVE  IInv'
<1>1. TypeOK /\ Holds(p) /\ Works(p) /\ req[p] \in Request /\ At(p, "employee")
  BY Submitted DEF IInv, At, WriteEmployee
<1>2. PICK u \in Users : u = req[p].user
  BY <1>1, RequestFields
<1>3. ASSUME NEW status \in Statuses, PutEmployee(p, status),
             status = IF req[p].op = "createEmployee" THEN "ACTIVE" ELSE req[p].status
      PROVE  IInv'
  <2>1. /\ employeeLock' = [employeeLock EXCEPT ![u] = p] /\ employeeLock[u] = None
        /\ employeeDraft' = [employeeDraft EXCEPT ![u] = status]
        /\ UNCHANGED <<member, employee, operating, memberDraft, memberLock, req, raced>>
        /\ pc' = [pc EXCEPT ![p] = "member"]
    BY <1>2, <1>3 DEF PutEmployee, WriteEmployee, tables, Goto
  <2>2. TypeOK'
    <3>1. employeeLock' \in [Users -> Requests \cup {None}]
          /\ employeeDraft' \in [Users -> Statuses \cup {"NONE"}]
      BY <1>1, <2>1 DEF TypeOK
    <3> QED
      BY SameSets, NoneAssumption, <1>1, <2>1, <3>1 DEF TypeOK
  <2>3. EmployeesMatchMembers' /\ Kinds'
    BY <2>1 DEF IInv, EmployeesMatchMembers, Kinds
  <2>4. pc'[p] = "member" /\ employeeLock'[u] = p /\ employeeDraft'[u] = status
        /\ \A a \in Users \ {u} : employeeLock'[a] = employeeLock[a]
                                  /\ employeeDraft'[a] = employeeDraft[a]
    BY <1>1, <2>1 DEF TypeOK
  <2>5. ASSUME NEW q \in Requests, q # p
        PROVE  (Holds(q) /\ Works(q) /\ Counted(q))'
    <3>1. pc'[q] = pc[q] /\ req'[q] = req[q] /\ raced'[q] = raced[q]
      BY <1>1, <2>1, <2>5 DEF TypeOK
    <3>2. /\ \A a \in Users : memberLock'[a] = q <=> memberLock[a] = q
          /\ \A a \in Users : employeeLock'[a] = q <=> employeeLock[a] = q
          /\ \A a \in Users : employeeLock[a] = q => employeeDraft'[a] = employeeDraft[a]
      BY <2>1, <2>4, <2>5, NoneAssumption
    <3>3. /\ \A a \in Users : memberLock[a] = q =>
                memberDraft'[a] = memberDraft[a] /\ employee'[a] = employee[a]
          /\ \A a \in Users : employee[a] # "NONE" => employee'[a] # "NONE"
          /\ \A a \in Users : IsVisible(member[a]) => IsVisible(member'[a])
      BY <2>1
    <3>4. Holds(q)' /\ Works(q)'
      BY <3>1, <3>2, <3>3, Undisturbed
    <3>5. Counted(q)'
      BY <2>1, <3>1, StillCounted
    <3> QED
      BY <3>4, <3>5
  <2>6. Holds(p)' /\ Works(p)'
    <3>1. \A a \in Users : memberLock[a] # p /\ employeeLock[a] # p
      BY <1>1 DEF Holds, At
    <3>2. req[p].op \in EmployeeOps /\ (req[p].op = "setEmployeeStatus" => employee[u] # "NONE")
      BY <1>1, <1>2 DEF Works
    <3>3. Holds(p)'
      BY <1>2, <2>1, <2>4, <3>1, <3>2 DEF Holds
    <3> QED
      BY SameSets, <1>1, <1>2, <1>3, <2>1, <2>4, <3>2, <3>3 DEF Works, At
  <2>7. Counted(p)'
    BY <2>4 DEF Counted, At
  <2> QED
    BY <2>2, <2>3, <2>5, <2>6, <2>7 DEF IInv
<1>4. "ACTIVE" \in Statuses /\ req[p].status \in Statuses
  BY <1>1, RequestFields, Memberships
<1> QED
  BY <1>3, <1>4, RollsBack DEF WriteEmployee

LEMMA CommitKeeps ==
  ASSUME IInv, organization' = organization, NEW p \in Requests, Commit(p)
  PROVE  IInv'
<1>1. TypeOK /\ Holds(p) /\ Works(p) /\ req[p] \in Request /\ At(p, "commit")
  BY Submitted DEF IInv, At, Commit
<1>2. PICK u \in Users : u = req[p].user
  BY <1>1, RequestFields
<1>3. /\ memberLock[u] = p /\ \A a \in Users \ {u} : memberLock[a] # p /\ employeeLock[a] # p
      /\ employeeLock[u] = p => req[p].op \in EmployeeOps
  BY <1>1, <1>2 DEF Holds, Works
<1>4. /\ req[p].op \in EmployeeOps =>
           /\ employeeLock[u] = p /\ employeeDraft[u] \in Statuses
           /\ memberDraft[u] = [role |-> "EMPLOYEE", status |-> employeeDraft[u]]
      /\ req[p].op \notin EmployeeOps => employee[u] = "NONE" /\ IsVisible(memberDraft[u])
  BY <1>1, <1>2 DEF Works
<1>5. /\ member'[u] = memberDraft[u] /\ \A a \in Users \ {u} : member'[a] = member[a]
      /\ employee'[u] = IF req[p].op \in EmployeeOps THEN employeeDraft[u] ELSE employee[u]
      /\ \A a \in Users \ {u} : employee'[a] = employee[a]
      /\ UNCHANGED <<operating, memberDraft, employeeDraft>>
  BY <1>3, <1>4 DEF Commit, drafts
<1>6. TypeOK'
  BY SameSets, Memberships, NoneAssumption, <1>1
     DEF TypeOK, Commit, Release, Reset, Goto, drafts
<1>7. EmployeesMatchMembers'
  <2>1. employee'[u] # "NONE" => member'[u] = [role |-> "EMPLOYEE", status |-> employee'[u]]
    BY <1>4, <1>5
  <2>2. member'[u].role = "EMPLOYEE" => employee'[u] # "NONE"
    BY <1>4, <1>5 DEF IsVisible, Statuses
  <2>3. ASSUME NEW a \in Users, a # u
        PROVE  /\ employee'[a] # "NONE" => member'[a] = [role |-> "EMPLOYEE", status |-> employee'[a]]
               /\ member'[a].role = "EMPLOYEE" => employee'[a] # "NONE"
    BY <1>5, <2>3 DEF IInv, EmployeesMatchMembers
  <2> QED
    BY <2>1, <2>2, <2>3 DEF EmployeesMatchMembers
<1>8. Kinds'
  <2>1. memberDraft[u].role # "NONE"
    BY <1>4 DEF IsVisible
  <2> QED
    BY <1>5, <2>1 DEF IInv, Kinds
<1>9. ASSUME NEW q \in Requests, q # p
      PROVE  (Holds(q) /\ Works(q) /\ Counted(q))'
  <2>1. pc'[q] = pc[q] /\ req'[q] = req[q]
    BY <1>1, <1>9 DEF Commit, Reset, Goto, TypeOK
  <2>2. /\ \A a \in Users : memberLock'[a] = q <=> memberLock[a] = q
        /\ \A a \in Users : employeeLock'[a] = q <=> employeeLock[a] = q
    BY <1>9, NoneAssumption DEF Commit, Release
  <2>3. /\ \A a \in Users : memberLock[a] = q => memberDraft'[a] = memberDraft[a]
        /\ \A a \in Users : employeeLock[a] = q => employeeDraft'[a] = employeeDraft[a]
    BY <1>5
  <2>4. \A a \in Users : memberLock[a] = q =>
            memberDraft'[a] = memberDraft[a] /\ employee'[a] = employee[a]
    BY <1>3, <1>5, <1>9
  <2>5. \A a \in Users : employee[a] # "NONE" => employee'[a] # "NONE"
    BY <1>4, <1>5 DEF Statuses
  <2>6. ASSUME NEW a \in Users, IsVisible(member[a]) PROVE IsVisible(member'[a])
    <3>1. a = u => memberDraft[u].role # "NONE" /\ memberDraft[u].role # "EMPLOYEE"
      BY <2>6 DEF IInv, Kinds, IsVisible
    <3> QED
      BY <1>5, <2>6, <3>1 DEF IsVisible
  <2>7. Holds(q)' /\ Works(q)'
    BY <2>1, <2>2, <2>3, <2>4, <2>5, <2>6, Undisturbed
  <2>8. At(q, "write") \/ At(q, "commit") => raced'[q] # "no"
    BY <1>9 DEF Commit, At
  <2>9. Counted(q)'
    BY <2>1, <2>8 DEF Counted, At
  <2> QED
    BY <2>7, <2>9
<1>10. Holds(p)' /\ Works(p)' /\ Counted(p)'
  <2>1. pc'[p] = "idle"
    BY <1>1 DEF TypeOK, Commit, Reset, Goto
  <2>2. \A a \in Users : memberLock'[a] # p /\ employeeLock'[a] # p
    BY NoneAssumption DEF Commit, Release
  <2> QED
    BY <2>1, <2>2 DEF Holds, Works, Counted, At
<1> QED
  BY <1>6, <1>7, <1>8, <1>9, <1>10 DEF IInv

LEMMA InvariantStep == IInv /\ [Next]_vars => IInv'
<1> SUFFICES ASSUME IInv, [Next]_vars PROVE IInv'
  OBVIOUS
<1>1. CASE UNCHANGED vars
  <2>1. UNCHANGED <<organization, member, employee, operating, memberDraft, employeeDraft,
                    memberLock, employeeLock, pc, req, raced>>
    BY <1>1 DEF vars, tables, drafts, locks
  <2>2. TypeOK' /\ EmployeesMatchMembers' /\ Kinds'
    BY SameSets, <2>1 DEF IInv, TypeOK, EmployeesMatchMembers, Kinds
  <2>3. ASSUME NEW q \in Requests PROVE Holds(q)' /\ Works(q)' /\ Counted(q)'
    <3>1. \A a : IsVisible(member[a]) => IsVisible(member'[a])
      BY <2>1
    <3>2. Holds(q)' /\ Works(q)'
      BY <2>1, <3>1, Undisturbed
    <3>3. Counted(q)'
      BY <2>1, StillCounted
    <3> QED
      BY <3>2, <3>3
  <2> QED
    BY <2>2, <2>3 DEF IInv
<1>2. ASSUME organization' = organization, NEW p \in Requests, NEW r \in Request, Submit(p, r)
      PROVE  IInv'
  BY <1>2, SubmitKeeps
<1>3. ASSUME organization' = organization, NEW p \in Requests, Insert(p)
      PROVE  IInv'
  <2> DEFINE r == IF IsEmployer THEN "ADMIN" ELSE req[p].role
  <2>1. req[p] \in Request
    BY <1>3, Submitted DEF Insert, At
  <2>2. r \in Roles /\ r # "NONE" /\ r # "EMPLOYEE"
    BY <2>1, RequestFields, Memberships
  <2>3. InsertMember(p, r) /\ At(p, "insert")
    BY <1>3 DEF Insert
  <2> HIDE DEF r
  <2> QED
    BY <1>3, <2>2, <2>3, InsertKeeps
<1>4. ASSUME organization' = organization, NEW p \in Requests, CreateEmployeeMember(p)
      PROVE  IInv'
  <2>1. req[p] \in Request /\ req[p].op \in EmployeeOps
    BY <1>4, Submitted DEF CreateEmployeeMember, At, EmployeeOps
  <2>2. "EMPLOYEE" \in Roles
    BY <2>1, RequestFields, Memberships
  <2> QED
    BY <1>4, <2>2, InsertKeeps DEF CreateEmployeeMember
<1>5. ASSUME organization' = organization, NEW p \in Requests,
             \/ Authorize(p) \/ Read(p) \/ Count(p) \/ Write(p)
             \/ WriteEmployee(p) \/ SetEmployeeMember(p) \/ Commit(p) \/ Abort(p)
      PROVE  IInv'
  BY <1>5, AuthorizeKeeps, ReadKeeps, CountKeeps, WriteKeeps, WriteEmployeeKeeps,
     SetEmployeeMemberKeeps, CommitKeeps, RollsBack DEF Abort
<1>6. CASE Next
  BY <1>2, <1>3, <1>4, <1>5, <1>6, StatusKeeps DEF Next
<1> QED
  BY <1>1, <1>6

(* At every state the rows agree with each other and with what the requests *)
(* at work have read, locked and counted.                                   *)
THEOREM MembersInvariantHolds == Spec => []IInv
<1> QED
  BY InitHolds, InvariantStep, PTL DEF Spec

(* For any number of concurrent requests the account of an employee can act *)
(* for the employer exactly while the employee is ACTIVE: create and        *)
(* setStatus of EmployeesService write two rows, the changes of             *)
(* administrators neither of an employee's.                                 *)
THEOREM EmployeesStayMatched == Spec => []EmployeesMatchMembers
<1>1. IInv => EmployeesMatchMembers
  BY DEF IInv
<1> QED
  BY <1>1, MembersInvariantHolds, PTL

-----------------------------------------------------------------------------
(* Only a commit changes the memberships, and its own request ends with it. *)
LEMMA OnlyCommits ==
  ASSUME IInv, [Next]_vars, NEW p \in Requests, At(p, "commit"), pc'[p] = "idle",
         NEW a \in Users, member'[a] # member[a]
  PROVE  Commit(p)
<1>1. UNCHANGED vars => member' = member
  BY DEF vars, tables
<1>2. ASSUME NEW q \in Requests
      PROVE  /\ \A r \in Request : Submit(q, r) => member' = member
             /\ RollBack(q) => member' = member
             /\ \A there : Continue(q, there) => member' = member
             /\ Write(q) \/ SetEmployeeMember(q) => member' = member
  BY DEF Submit, RollBack, Continue, Write, SetEmployeeMember, tables
<1>3. ASSUME NEW q \in Requests
      PROVE  /\ Authorize(q) \/ Read(q) \/ Count(q) \/ Abort(q) => member' = member
             /\ Insert(q) \/ CreateEmployeeMember(q) => member' = member
             /\ WriteEmployee(q) => member' = member
  BY <1>2 DEF Authorize, Read, Count, Abort, Insert, CreateEmployeeMember, InsertMember,
              WriteEmployee, PutEmployee, tables
<1>4. SetOrganizationStatus => member' = member
  BY DEF SetOrganizationStatus
<1>5. PICK q \in Requests : Commit(q)
  BY <1>1, <1>2, <1>3, <1>4 DEF Next
<1>6. q = p
  BY <1>5 DEF IInv, TypeOK, Commit, Reset, Goto, At
<1> QED
  BY <1>5, <1>6

(* Who deactivates or demotes the last administrator has not raced.         *)
LEMMA RemovalStep ==
  ASSUME IInv, [Next]_vars, NEW p \in Requests, raced[p] = "no",
         At(p, "idle") \/ req[p].op # "add"
  PROVE  ~RemovesLast(p)
<1> SUFFICES ASSUME RemovesLast(p) PROVE FALSE
  OBVIOUS
<1>1. At(p, "commit") /\ TypeOK /\ Holds(p) /\ Works(p) /\ Counted(p) /\ req[p].op # "add"
      /\ ~ByPlatform(p) /\ pc'[p] = "idle" /\ ActiveAdmins # {} /\ ActiveAdmins' = {}
  BY DEF IInv, RemovesLast, At
<1>2. req[p] \in Request
  BY <1>1, Submitted DEF At
<1>3. PICK u \in Users : u = req[p].user
  BY <1>2, RequestFields
<1>4. PICK a \in Users : IsActiveAdmin(member[a]) /\ ~IsActiveAdmin(member'[a])
  BY <1>1 DEF ActiveAdmins
<1>5. Commit(p)
  BY <1>1, <1>4, OnlyCommits
<1>6. \A b \in Users \ {u} : member'[b] = member[b]
  BY <1>1, <1>3, <1>5 DEF Holds, Commit
<1>7. a = u /\ member'[u] = memberDraft[u] /\ ActiveAdmins = {u}
  <2>1. a = u
    BY <1>4, <1>6
  <2>2. \A b \in Users : IsActiveAdmin(member[b]) => b = u
    BY <1>1, <1>6 DEF ActiveAdmins
  <2> QED
    BY <1>1, <1>3, <1>4, <1>5, <2>1, <2>2 DEF ActiveAdmins, Works, Commit
<1>8. req[p].op \in {"deactivate", "activate", "update"}
  <2>1. IsVisible(member[u]) /\ member[u].role = "ADMIN"
    BY <1>4, <1>7 DEF IsVisible, IsActiveAdmin
  <2>2. memberDraft[u].role # "EMPLOYEE"
    BY <2>1 DEF IInv, Kinds, IsVisible
  <2>3. req[p].op \notin EmployeeOps
    BY <1>1, <1>3, <2>2 DEF Works
  <2> QED
    BY <1>1, <1>2, <2>3, RequestFields
<1>9. memberDraft[u] = Updated(p, member[u]) /\ ~(Removes(p, member[u]) /\ IsLastAdmin(p))
  BY <1>1, <1>3, <1>8 DEF Counted
<1>10. IsLastAdmin(p)
  <2>1. Cardinality(ActiveAdmins) = 1
    BY <1>7, FS_Singleton
  <2> QED
    BY <1>3, <1>7, <2>1 DEF IsLastAdmin
<1>11. Removes(p, member[u])
  <2>1. member[u] \in Membership /\ member[u].role = "ADMIN" /\ member[u].status = "ACTIVE"
    BY <1>1, <1>4, <1>7 DEF TypeOK, IsActiveAdmin
  <2>2. ~IsActiveAdmin(Updated(p, member[u]))
    BY <1>4, <1>7, <1>9
  <2>3. CASE req[p].op = "activate"
    <3>1. Updated(p, member[u]) = [member[u] EXCEPT !.status = "ACTIVE"]
      BY <2>3 DEF Updated
    <3> QED
      BY <2>1, <2>2, <3>1 DEF IsActiveAdmin, Membership
  <2>4. CASE req[p].op = "update"
    <3>1. Updated(p, member[u]) = [member[u] EXCEPT !.role = req[p].role]
      BY <2>4 DEF Updated
    <3>2. req[p].role # "ADMIN"
      BY <2>1, <2>2, <3>1 DEF IsActiveAdmin, Membership
    <3> QED
      BY <1>1, <1>4, <1>7, <2>4, <3>2 DEF Removes
  <2> QED
    BY <1>1, <1>4, <1>7, <1>8, <2>3, <2>4 DEF Removes
<1> QED
  BY <1>9, <1>10, <1>11

(* The count of active administrators in deactivate and update of           *)
(* EmployerAdminsService and ProviderMembersService is right whenever no    *)
(* other commit falls between it and the commit, however many              *)
(* administrators and requests there are.                                   *)
THEOREM RemovalsKeepAnAdmin == Spec => RemovalKeepsLastAdmin
<1>1. IInv /\ [Next]_vars =>
        [\A p \in Requests : raced[p] = "no" /\ (At(p, "idle") \/ req[p].op # "add")
                               => ~RemovesLast(p)]_vars
  BY RemovalStep
<1> QED
  BY <1>1, MembersInvariantHolds, PTL DEF Spec, RemovalKeepsLastAdmin
=============================================================================
