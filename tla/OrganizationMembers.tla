-------------------------- MODULE OrganizationMembers --------------------------
(***************************************************************************)
(* The members of one organization: EmployerAdminsService with             *)
(* EmployeesService when organization is "employer", ProviderMembersService*)
(* when it is "provider".  A membership row is named by its user (a unique *)
(* index allows one per user), and so is the row of an employee with a     *)
(* linked account; employees without one have no membership and are left   *)
(* out.  User accounts stay ACTIVE.                                        *)
(*                                                                         *)
(* A request runs its statements in one transaction at READ COMMITTED: it  *)
(* reads and counts without locks, then writes by id.  What it has written *)
(* is the draft of the rows it has locked.                                 *)
(***************************************************************************)
EXTENDS Naturals, FiniteSets

CONSTANTS
  Organizations, \* the kinds of organization: "employer", "provider"
  Users,         \* accounts that may become members
  Founder,       \* the administrator the organization is created with
  Platform,      \* an account with the role PLATFORM_ADMIN
  Requests,      \* request slots, used again and again
  None           \* no request

ASSUME OrganizationAssumption == Organizations \subseteq {"employer", "provider"}
ASSUME UsersAssumption == Founder \in Users /\ Platform \notin Users /\ IsFiniteSet(Users)
ASSUME NoneAssumption == None \notin Requests

VARIABLES
  organization,   \* its kind
  member,         \* member[u]: committed membership of u
  employee,       \* employee[u]: committed status of the employee linked to u
  operating,      \* the status of the organization is ACTIVE
  memberDraft, employeeDraft,  \* the rows as their lock holders see them
  memberLock, employeeLock,
  pc,             \* pc[p]: the statement request p executes next
  req,            \* req[p]: what it was asked to do
  raced           \* raced[p]: "no" other transaction committed since it read,
                  \*   a deactivation: only some of the "user" it is about,
                  \*   or some of "others"

tables == <<member, employee, operating>>
drafts == <<memberDraft, employeeDraft>>
locks == <<memberLock, employeeLock>>
vars == <<organization, tables, drafts, locks, pc, req, raced>>

IsEmployer == organization = "employer"
Statuses == {"ACTIVE", "INACTIVE"}
Roles == {"ADMIN", IF IsEmployer THEN "EMPLOYEE" ELSE "STAFF"}
Membership == [role : Roles, status : Statuses] \cup {[role |-> "NONE", status |-> "INACTIVE"]}
NoMembership == [role |-> "NONE", status |-> "INACTIVE"]

Operations ==
  IF IsEmployer
    THEN {"add", "deactivate", "activate", "createEmployee", "setEmployeeStatus"}
    ELSE {"add", "deactivate", "activate", "update"}

(* The role is the input of a provider's add and update, the status that of *)
(* setEmployeeStatus; both are fixed where they are no input.               *)
Request ==
  {r \in [op : Operations, actor : Users \cup {Platform}, user : Users,
          role : Roles, status : Statuses] :
     /\ IsEmployer \/ r.op \notin {"add", "update"} => r.role = "ADMIN"
     /\ r.op # "setEmployeeStatus" => r.status = "ACTIVE"}

(* Types; a draft differs from its row only while a request holds the row,  *)
(* and what a request holds ends with it.                                   *)
TypeOK ==
  /\ organization \in Organizations
  /\ member \in [Users -> Membership] /\ memberDraft \in [Users -> Membership]
  /\ employee \in [Users -> Statuses \cup {"NONE"}]
  /\ employeeDraft \in [Users -> Statuses \cup {"NONE"}]
  /\ operating \in BOOLEAN
  /\ memberLock \in [Users -> Requests \cup {None}]
  /\ employeeLock \in [Users -> Requests \cup {None}]
  /\ pc \in [Requests -> {"idle", "authorize", "read", "count", "write", "insert",
                          "employee", "member", "commit"}]
  /\ req \in [Requests -> Request \cup {None}]
  /\ raced \in [Requests -> {"no", "user", "others"}]
  /\ \A u \in Users :
       /\ memberLock[u] = None => memberDraft[u] = member[u]
       /\ employeeLock[u] = None => employeeDraft[u] = employee[u]
       /\ \A p \in Requests : pc[p] = "idle" => p \notin {memberLock[u], employeeLock[u]}

(* create inserts the organization, PENDING, and its first administrator.   *)
Init ==
  /\ organization \in Organizations
  /\ member = [u \in Users |-> IF u = Founder THEN [role |-> "ADMIN", status |-> "ACTIVE"]
                                             ELSE NoMembership]
  /\ employee = [u \in Users |-> "NONE"]
  /\ operating = FALSE
  /\ memberDraft = member /\ employeeDraft = employee
  /\ memberLock = [u \in Users |-> None] /\ employeeLock = [u \in Users |-> None]
  /\ pc = [p \in Requests |-> "idle"]
  /\ req = [p \in Requests |-> None]
  /\ raced = [p \in Requests |-> "no"]

-----------------------------------------------------------------------------
IsActiveAdmin(m) == m.role = "ADMIN" /\ m.status = "ACTIVE"
ActiveAdmins == {u \in Users : IsActiveAdmin(member[u])}
ByPlatform(p) == req[p].actor = Platform

At(p, here) == pc[p] = here
Goto(p, there) == pc' = [pc EXCEPT ![p] = there]

(* A transaction that ends with its locks held.                             *)
KeepLocks(p) == UNCHANGED locks

Release(p) ==
  /\ memberLock' = [u \in Users |-> IF memberLock[u] = p THEN None ELSE memberLock[u]]
  /\ employeeLock' = [u \in Users |-> IF employeeLock[u] = p THEN None ELSE employeeLock[u]]

Reset(p) ==
  /\ Goto(p, "idle")
  /\ req' = [req EXCEPT ![p] = None]

(* The request fails: an exception, a conflict, a lost connection.          *)
RollBack(p) ==
  /\ Release(p)
  /\ memberDraft' = [u \in Users |-> IF memberLock[u] = p THEN member[u] ELSE memberDraft[u]]
  /\ employeeDraft' = [u \in Users |-> IF employeeLock[u] = p THEN employee[u]
                                                             ELSE employeeDraft[u]]
  /\ Reset(p)
  /\ raced' = [raced EXCEPT ![p] = "no"]
  /\ UNCHANGED tables

Continue(p, there) ==
  /\ Goto(p, there)
  /\ UNCHANGED <<tables, drafts, locks, req, raced>>

Submit(p, r) ==
  /\ At(p, "idle")
  /\ req' = [req EXCEPT ![p] = r]
  /\ Goto(p, "authorize")
  /\ UNCHANGED <<tables, drafts, locks, raced>>

(* authorize of the authorization policy, for administrators                *)
Authorize(p) ==
  /\ At(p, "authorize")
  /\ IF ByPlatform(p) \/ (operating /\ req[p].actor \in ActiveAdmins)
       THEN Continue(p, "read")
       ELSE RollBack(p)

-----------------------------------------------------------------------------
(* What the request finds decides what it does next; "fail" is an error.    *)
AfterAdd(p, m) ==
  IF m.role = "NONE" THEN (IF ByPlatform(p) THEN "insert" ELSE "fail")
  ELSE IF m.role = "EMPLOYEE" THEN "fail" ELSE "write"

(* Does the request take an active administrator away?                      *)
NeverCounts(p, m) == FALSE  \* forgets the last administrator
Removes(p, m) ==
  /\ ~ByPlatform(p)
  /\ IsActiveAdmin(m)
  /\ \/ req[p].op = "deactivate"
     \/ req[p].op = "update" /\ req[p].role # "ADMIN"

(* EmployerAdminsService sees only administrators, ProviderMembersService   *)
(* every member.                                                            *)
IsVisible(m) == m.role # "NONE" /\ m.role # "EMPLOYEE"

AfterRead(p, m) ==
  CASE req[p].op = "add" -> AfterAdd(p, m)
    [] req[p].op = "createEmployee" ->
         IF ByPlatform(p) /\ m.role = "NONE" THEN "employee" ELSE "fail"
    [] req[p].op = "setEmployeeStatus" ->
         IF employee[req[p].user] # "NONE" THEN "employee" ELSE "fail"
    [] OTHER -> IF ~IsVisible(m) THEN "fail" ELSE IF Removes(p, m) THEN "count" ELSE "write"

Read(p) ==
  LET m == member[req[p].user]
  IN  /\ At(p, "read")
      /\ IF AfterRead(p, m) = "fail"
           THEN RollBack(p)
           ELSE Continue(p, AfterRead(p, m))

(* The count of active administrators: the employer's includes the member   *)
(* itself, the provider's does not.                                         *)
IsLastAdmin(p) ==
  IF IsEmployer THEN Cardinality(ActiveAdmins) <= 1
                ELSE ActiveAdmins \ {req[p].user} = {}

Count(p) ==
  /\ At(p, "count")
  /\ IF IsLastAdmin(p) THEN RollBack(p) ELSE Continue(p, "write")

(* The update, by the id that was read, of the columns it names.            *)
Updated(p, m) ==
  CASE req[p].op = "add" -> [role |-> IF IsEmployer THEN "ADMIN" ELSE req[p].role,
                             status |-> "ACTIVE"]
    [] req[p].op = "update" -> [m EXCEPT !.role = req[p].role]
    [] req[p].op = "activate" -> [m EXCEPT !.status = "ACTIVE"]
    [] req[p].op = "deactivate" -> [m EXCEPT !.status = "INACTIVE"]

PutMember(p, m) ==
  LET u == req[p].user
  IN  /\ memberLock[u] \in {p, None}
      /\ memberLock' = [memberLock EXCEPT ![u] = p]
      /\ memberDraft' = [memberDraft EXCEPT ![u] = m]

Write(p) ==
  /\ At(p, "write")
  /\ PutMember(p, Updated(p, memberDraft[req[p].user]))
  /\ Goto(p, "commit")
  /\ UNCHANGED <<tables, employeeDraft, employeeLock, req, raced>>

(* An insert waits for a concurrent insert of the same row; the unique      *)
(* index rejects it when that one is committed.                             *)
InsertMember(p, role) ==
  /\ memberLock[req[p].user] \in {p, None}
  /\ IF member[req[p].user] # NoMembership
       THEN RollBack(p)
       ELSE /\ PutMember(p, [role |-> role, status |-> "ACTIVE"])
            /\ Goto(p, "commit")
            /\ UNCHANGED <<tables, employeeDraft, employeeLock, req, raced>>

Insert(p) ==
  /\ At(p, "insert")
  /\ InsertMember(p, IF IsEmployer THEN "ADMIN" ELSE req[p].role)

-----------------------------------------------------------------------------
(* EmployeesService.create and setStatus write the employee, then the       *)
(* membership of the linked account.                                        *)
PutEmployee(p, status) ==
  LET u == req[p].user
  IN  /\ employeeLock' = [employeeLock EXCEPT ![u] = p]
      /\ employeeDraft' = [employeeDraft EXCEPT ![u] = status]
      /\ Goto(p, "member")
      /\ UNCHANGED <<tables, memberDraft, memberLock, req, raced>>

WriteEmployee(p) ==
  /\ At(p, "employee")
  /\ employeeLock[req[p].user] = None
  /\ \/ /\ req[p].op = "createEmployee"
        /\ IF employee[req[p].user] # "NONE" THEN RollBack(p) ELSE PutEmployee(p, "ACTIVE")
     \/ /\ req[p].op = "setEmployeeStatus"
        /\ PutEmployee(p, req[p].status)

CreateEmployeeMember(p) ==
  /\ At(p, "member") /\ req[p].op = "createEmployee"
  /\ InsertMember(p, "EMPLOYEE")

(* A status change that leaves the membership as it is.                     *)
ForgetEmployeeMember(p) ==
  /\ At(p, "member") /\ req[p].op = "setEmployeeStatus"
  /\ Continue(p, "commit")

SetEmployeeMember(p) ==
  /\ At(p, "member") /\ req[p].op = "setEmployeeStatus"
  /\ PutMember(p, IF memberDraft[req[p].user].role = "EMPLOYEE"
                    THEN [role |-> "EMPLOYEE", status |-> req[p].status]
                    ELSE memberDraft[req[p].user])
  /\ Goto(p, "commit")
  /\ UNCHANGED <<tables, employeeDraft, employeeLock, req, raced>>

-----------------------------------------------------------------------------
Commit(p) ==
  /\ At(p, "commit")
  /\ member' = [u \in Users |-> IF memberLock[u] = p THEN memberDraft[u] ELSE member[u]]
  /\ employee' = [u \in Users |-> IF employeeLock[u] = p THEN employeeDraft[u] ELSE employee[u]]
  /\ Release(p)
  /\ Reset(p)
  /\ raced' = [q \in Requests |->
                 IF q = p \/ pc[q] \in {"idle", "authorize", "read"} THEN "no"
                 ELSE IF /\ req[q].op = "deactivate" /\ req[p].actor = req[q].user
                         /\ raced[q] # "others"
                 THEN "user"
                 ELSE "others"]
  /\ UNCHANGED <<operating, drafts>>

Abort(p) == ~At(p, "idle") /\ RollBack(p)

(* setStatus of the organization, for platform administrators only          *)
SetOrganizationStatus ==
  /\ operating' = ~operating
  /\ UNCHANGED <<member, employee, drafts, locks, pc, req, raced>>

Next ==
  /\ \/ \E p \in Requests :
          \/ \E r \in Request : Submit(p, r)
          \/ Authorize(p) \/ Read(p) \/ Count(p) \/ Write(p) \/ Insert(p)
          \/ WriteEmployee(p) \/ CreateEmployeeMember(p) \/ SetEmployeeMember(p)
          \/ Commit(p) \/ Abort(p)
     \/ SetOrganizationStatus
  /\ UNCHANGED organization

Spec == Init /\ [][Next]_vars

-----------------------------------------------------------------------------
(***************************************************************************)
(* Properties                                                              *)
(***************************************************************************)

(* The account of an employee can act for the employer exactly while the    *)
(* employee is ACTIVE, and administrators are not employees: two rows in    *)
(* two tables agree under concurrent changes.                               *)
EmployeesMatchMembers ==
  \A u \in Users :
    /\ employee[u] # "NONE" => member[u] = [role |-> "EMPLOYEE", status |-> employee[u]]
    /\ member[u].role = "EMPLOYEE" => employee[u] # "NONE"

(* "The last active employer administrator cannot be deactivated"           *)
(* (employer-admins.service.ts:152), not even by administrators who         *)
(* deactivate each other: when an administrator deactivates another one,    *)
(* and nobody but that other has changed anything since, an active          *)
(* administrator remains.                                                   *)
LastAdminStays ==
  [][\A p \in Requests :
       /\ At(p, "commit") /\ pc'[p] = "idle" /\ ActiveAdmins # {}
       /\ req[p].op = "deactivate" /\ req[p].actor \in Users \ {req[p].user}
       /\ raced[p] # "others"
       => ActiveAdmins' # {}]_vars

RemovesLast(p) ==
  /\ ActiveAdmins # {} /\ ActiveAdmins' = {}
  /\ At(p, "commit") /\ pc'[p] = "idle"
  /\ ~ByPlatform(p)

(* A request that removes an administrator does not take away the last one  *)
(* when no other commit races it: the check of deactivate and update is     *)
(* right, for the employer's count and the provider's.  (A provider's add   *)
(* that changes a member's role makes no such check.)                       *)
RemovalKeepsLastAdmin ==
  [][\A p \in Requests : raced[p] = "no" /\ (At(p, "idle") \/ req[p].op # "add") => ~RemovesLast(p)]_vars
=============================================================================
