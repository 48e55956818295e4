--------------------------- MODULE AllowanceService ---------------------------
(***************************************************************************)
(* EmployerAllowancesService and AllowanceLedgerService over the tables of *)
(* LedgerStore.  Every request runs its command in one database            *)
(* transaction (a slot of Writers); every SQL statement whose order with   *)
(* other requests matters is an action of its own.  Around the requests,   *)
(* administrators lose and regain authority, employees are deactivated and *)
(* activated, and the employer's default currency changes.                 *)
(*                                                                         *)
(* One employer: the tenant conditions of the queries always hold.         *)
(* Booking debits and refunds have no caller under src/ but tests; they are*)
(* modelled as the methods the booking workflow is meant to call.          *)
(***************************************************************************)
EXTENDS LedgerStore, FiniteSetsExt

CONSTANTS
  Commands,    \* the commands that may be submitted
  NoCommand,
  NoEntry,
  MaxAttempts  \* how often one request may be submitted in all

(* LedgerCommand, without correlation id.  Of its metadata only whether the *)
(* reason of a manual adjustment is blank: MinLength(1) of the DTO counts   *)
(* the spaces that the service then trims.                                  *)
Command ==
  {c \in [account : Accounts, type : TransactionTypes, delta : Deltas,
          currency : Currencies, reference : References, actor : Users,
          blank : BOOLEAN] : c.blank => c.type = "MANUAL_ADJUSTMENT"}

ASSUME CommandsAssumption == Commands \subseteq Command
ASSUME NoCommandAssumption == NoCommand \notin Commands
ASSUME NoEntryAssumption == NoEntry \notin Entry
ASSUME AttemptsAssumption == MaxAttempts \in Nat \ {0}

VARIABLES
  pc,               \* pc[p]: the statement request p executes next
  cmd,              \* cmd[p]: its command
  result,           \* result[p]: how it ended, or "open"
  reply,            \* reply[p]: the ledger entry it returned
  resolving,        \* resolving[p]: inside resolveConcurrentInitialAllocation
  seenRow,          \* seenRow[p]: the account row as p read it, or NoRow
  seenActive,       \* seenActive[p]: the employee was ACTIVE when p read it
  seenCurrency,     \* seenCurrency[p]: the employer's currency as p read it
  attempts,         \* attempts[p]: submissions so far
  authorized,       \* users who pass the policy now: platform administrators and
                    \* active administrators of the active employer
  activeEmployees,  \* accounts whose employee is ACTIVE
  defaultCurrency,  \* the employer's default currency
  dismissed         \* history, dismissed[p]: the actor of p lost authority between
                    \* the policy's check and the audit of a manual adjustment

requestVars == <<pc, cmd, result, reply, resolving, seenRow, seenActive,
                 seenCurrency, attempts>>
environmentVars == <<authorized, activeEmployees, defaultCurrency, dismissed>>
serviceVars == <<storeVars, requestVars, environmentVars>>

(* The vocabulary of commands is that of the abstract specification.        *)
Requests == INSTANCE AllowanceRequests
              WITH Requests <- Writers, ledger <- [a \in Accounts |-> Of(a)]

BookingTypes == {"BOOKING_DEBIT", "CANCELLATION_REFUND"}

ServiceTypeOK ==
  /\ TypeOK
  /\ pc \in [Writers -> {"idle", "authorize", "readEmployee", "readAccount", "create",
                         "lock", "read", "decide", "insert", "audit", "update",
                         "commit", "done"}]
  /\ cmd \in [Writers -> Commands \cup {NoCommand}]
  /\ result \in [Writers -> Requests!Results]
  /\ reply \in [Writers -> Entry \cup {NoEntry}]
  /\ resolving \in [Writers -> BOOLEAN]
  /\ seenRow \in [Writers -> AccountRow \cup {NoRow}]
  /\ seenActive \in [Writers -> BOOLEAN]
  /\ seenCurrency \in [Writers -> Currencies]
  /\ attempts \in [Writers -> 0 .. MaxAttempts]
  /\ dismissed \in [Writers -> BOOLEAN]
  /\ authorized \subseteq Users
  /\ activeEmployees \subseteq Accounts
  /\ defaultCurrency \in Currencies

ServiceInit ==
  /\ Init
  /\ pc = [p \in Writers |-> "idle"]
  /\ cmd = [p \in Writers |-> NoCommand]
  /\ result = [p \in Writers |-> "none"]
  /\ reply = [p \in Writers |-> NoEntry]
  /\ resolving = [p \in Writers |-> FALSE]
  /\ seenRow = [p \in Writers |-> NoRow]
  /\ seenActive = [p \in Writers |-> FALSE]
  /\ attempts = [p \in Writers |-> 0]
  /\ dismissed = [p \in Writers |-> FALSE]
  /\ authorized = Users
  /\ activeEmployees = Accounts
  /\ defaultCurrency \in Currencies
  /\ seenCurrency = [p \in Writers |-> defaultCurrency]

-----------------------------------------------------------------------------
(* What request p sees of its account, and the entry it would append.       *)
Account(p) == cmd[p].account
View(p) == IF lock[Account(p)] = p THEN draft[Account(p)] ELSE row[Account(p)]
Candidate(p) == Requests!NewEntry(cmd[p], seenRow[p].balance, seenRow[p].version)

(* No retry is recognised.                                                  *)
NothingMatches(p) == {}

(* findMatchingTransaction: the values a retry must repeat.  Of the         *)
(* metadata only that a blank reason is not the reason of any entry, since  *)
(* the audit's trigger lets none through.                                   *)
RepeatsValues(e, c) ==
  /\ ~c.blank
  /\ e.type = c.type
  /\ e.delta = c.delta
  /\ e.currency = c.currency
  /\ e.actor = c.actor

(* findMatchingTransaction: the visible entry with the command's reference. *)
Matching(p) == {e \in VisibleEntries(p) : SameReference(e, cmd[p])}

(* A refund whose check is left to the database.                            *)
RefundNeedsNoDebit(p) == TRUE

(* assertRefundMatchesDebit                                                 *)
RefundMatchesDebit(p) ==
  \E d \in VisibleEntries(p) : /\ d.account = Account(p)
                               /\ d.type = "BOOKING_DEBIT"
                               /\ d.reference = cmd[p].reference
                               /\ d.currency = cmd[p].currency
                               /\ cmd[p].delta <= -d.delta

(* A balance whose limits are left to the database.                         *)
AnyBalance(balance, delta) == TRUE

(* AllowanceBalanceStrategy.nextBalance, its two limits                     *)
BalanceIsSupported(balance, delta) == balance + delta \in Balances

(* appendOrReturnExisting up to the append, in the order of its checks.     *)
Verdict(p) ==
  LET c == cmd[p]
      r == seenRow[p]
      created == row[c.account] = NoRow  \* p has just inserted the account
  IN  IF r.currency # c.currency THEN "rejected"
      ELSE IF \E e \in Matching(p) : RepeatsValues(e, c) THEN "retried"
      ELSE IF Matching(p) # {} THEN "reused"
      ELSE IF c.type = "INITIAL_ALLOCATION" /\ ~created THEN "exists"
      ELSE IF c.type = "TOP_UP" /\ ~seenActive[p] THEN "rejected"
      ELSE IF c.type = "CANCELLATION_REFUND" /\ ~RefundMatchesDebit(p) THEN "refund"
      ELSE IF ~DirectionIsValid(c) THEN "rejected"
      ELSE IF ~BalanceIsSupported(r.balance, c.delta) THEN "funds"
      ELSE "append"

-----------------------------------------------------------------------------
Holds(p) == \E a \in Accounts : lock[a] = p

KeepTransaction(p) == UNCHANGED storeVars  \* forgets to end the transaction

(* The transaction of p ends without a change: it threw, or only read.      *)
EndTransaction(p) == IF Holds(p) THEN Rollback(p) ELSE UNCHANGED storeVars

At(p, here) == pc[p] = here
Goto(p, there) == pc' = [pc EXCEPT ![p] = there]

(* The request ends without an entry of its own.                            *)
Refuse(p, r) ==
  /\ EndTransaction(p)
  /\ Goto(p, "done")
  /\ result' = [result EXCEPT ![p] = r]
  /\ UNCHANGED <<cmd, reply, resolving, seenRow, seenActive, seenCurrency, attempts>>

(* Steps that only move on.                                                 *)
Continue(p, there) ==
  /\ Goto(p, there)
  /\ UNCHANGED <<cmd, result, reply, resolving, seenRow, seenActive, seenCurrency,
                 attempts>>

(* Only booking commands are called without the employer policy.            *)
FirstStep(c) == IF c.type \in BookingTypes THEN "lock" ELSE "authorize"

Submit(p, c) ==
  /\ At(p, "idle")
  /\ cmd' = [cmd EXCEPT ![p] = c]
  /\ result' = [result EXCEPT ![p] = "open"]
  /\ attempts' = [attempts EXCEPT ![p] = 1]
  /\ Goto(p, FirstStep(c))
  /\ UNCHANGED <<storeVars, reply, resolving, seenRow, seenActive, seenCurrency,
                 environmentVars>>

(* The caller has no answer and submits the same command again.             *)
Resubmit(p) ==
  /\ result[p] = "unknown"
  /\ attempts[p] < MaxAttempts
  /\ result' = [result EXCEPT ![p] = "open"]
  /\ reply' = [reply EXCEPT ![p] = NoEntry]
  /\ attempts' = [attempts EXCEPT ![p] = @ + 1]
  /\ resolving' = [resolving EXCEPT ![p] = FALSE]
  /\ Goto(p, FirstStep(cmd[p]))
  /\ dismissed' = [dismissed EXCEPT ![p] = FALSE]
  /\ UNCHANGED <<storeVars, cmd, seenRow, seenActive, seenCurrency, authorized,
                 activeEmployees, defaultCurrency>>

(* authorize                                                                *)
Authorize(p) ==
  /\ At(p, "authorize")
  /\ \/ /\ cmd[p].actor \in authorized
        /\ Continue(p, IF cmd[p].type = "INITIAL_ALLOCATION" /\ ~resolving[p]
                         THEN "readEmployee" ELSE "lock")
        /\ UNCHANGED storeVars
     \/ /\ cmd[p].actor \notin authorized
        /\ Refuse(p, "rejected")
  /\ UNCHANGED environmentVars

(* initialAllocation: the employee, then the account, both without a lock.  *)
ReadEmployee(p) ==
  /\ At(p, "readEmployee")
  /\ seenActive' = [seenActive EXCEPT ![p] = Account(p) \in activeEmployees]
  /\ seenCurrency' = [seenCurrency EXCEPT ![p] = defaultCurrency]
  /\ Goto(p, "readAccount")
  /\ UNCHANGED <<storeVars, cmd, result, reply, resolving, seenRow, attempts,
                 environmentVars>>

MayCreate(p) == seenActive[p] /\ cmd[p].currency = seenCurrency[p]

ReadAccount(p) ==
  /\ At(p, "readAccount")
  /\ IF View(p) = NoRow /\ ~MayCreate(p)
       THEN Refuse(p, "rejected")
       ELSE /\ seenRow' = [seenRow EXCEPT ![p] = View(p)]
            /\ Goto(p, IF View(p) = NoRow THEN "create" ELSE "decide")
            /\ UNCHANGED <<storeVars, cmd, result, reply, resolving, seenActive,
                           seenCurrency, attempts>>
  /\ UNCHANGED environmentVars

(* An account that is created with money in it.                             *)
CreateFundedAccount(p) ==
  LET r == [balance |-> 1, version |-> 0, currency |-> cmd[p].currency]
  IN  /\ At(p, "create")
      /\ InsertAccount(p, Account(p), r)
      /\ seenRow' = [seenRow EXCEPT ![p] = r]
      /\ Goto(p, "decide")
      /\ UNCHANGED <<cmd, result, reply, resolving, seenActive, seenCurrency, attempts,
                     environmentVars>>

(* allowanceAccount.create waits while another transaction is inserting the *)
(* same employee's account.  If that one commits, this one fails on the     *)
(* unique index and starts over in resolveConcurrentInitialAllocation.      *)
CreateAccount(p) ==
  LET r == [balance |-> 0, version |-> 0, currency |-> cmd[p].currency]
  IN  /\ At(p, "create")
      /\ InsertAccount(p, Account(p), r)
      /\ seenRow' = [seenRow EXCEPT ![p] = r]
      /\ Goto(p, "decide")
      /\ UNCHANGED <<cmd, result, reply, resolving, seenActive, seenCurrency, attempts,
                     environmentVars>>

ResolveConcurrent(p) ==
  /\ At(p, "create")
  /\ row[Account(p)] # NoRow
  /\ resolving' = [resolving EXCEPT ![p] = TRUE]
  /\ Goto(p, "authorize")
  /\ UNCHANGED <<storeVars, cmd, result, reply, seenRow, seenActive, seenCurrency,
                 attempts, environmentVars>>

(* lockAccount and lockAccountById: SELECT ... FOR UPDATE waits for the     *)
(* holder of the row; no row is a 404.                                      *)
AcquireLock(p) == LockAccount(p, Account(p))

Lock(p) ==
  /\ At(p, "lock")
  /\ \/ row[Account(p)] = NoRow /\ Refuse(p, "rejected")
     \/ AcquireLock(p) /\ Continue(p, "read")
  /\ UNCHANGED environmentVars

(* The account and the employee's status, read after the lock.              *)
Read(p) ==
  /\ At(p, "read")
  /\ seenRow' = [seenRow EXCEPT ![p] = View(p)]
  /\ seenActive' = [seenActive EXCEPT ![p] = Account(p) \in activeEmployees]
  /\ Goto(p, "decide")
  /\ UNCHANGED <<storeVars, cmd, result, reply, resolving, seenCurrency, attempts,
                 environmentVars>>

Decide(p) ==
  /\ At(p, "decide")
  /\ \/ Verdict(p) = "append" /\ Continue(p, "insert") /\ UNCHANGED storeVars
     \/ /\ Verdict(p) = "retried"
        /\ EndTransaction(p)
        /\ \E e \in Matching(p) : reply' = [reply EXCEPT ![p] = e]
        /\ result' = [result EXCEPT ![p] = "retried"]
        /\ Goto(p, "done")
        /\ UNCHANGED <<cmd, resolving, seenRow, seenActive, seenCurrency, attempts>>
     \/ Verdict(p) \notin {"append", "retried"} /\ Refuse(p, Verdict(p))
  /\ UNCHANGED environmentVars

-----------------------------------------------------------------------------
(* append: three statements and the commit.  A statement that the database  *)
(* rejects ends the request with an error the code does not translate.      *)
Fits(e) == e \in Entry

InsertTransaction(p) ==
  /\ At(p, "insert")
  /\ CanLock(p, Account(p))
  /\ IF Fits(Candidate(p)) /\ EntryIsAccepted(p, Candidate(p))
       THEN /\ InsertEntry(p, Candidate(p))
            /\ Continue(p, IF cmd[p].type = "MANUAL_ADJUSTMENT" THEN "audit" ELSE "update")
       ELSE Refuse(p, "dbError")
  /\ UNCHANGED environmentVars

(* auditManualAdjustment.  The trigger refuses a blank reason and checks    *)
(* the actor's authority again.                                             *)
ReasonIsGiven(p) == ~cmd[p].blank
ActorIsAuthorized(p) == cmd[p].actor \in authorized

AuditAdjustment(p) ==
  LET u == [account |-> Account(p), sequence |-> Candidate(p).sequence,
            actor |-> cmd[p].actor, before |-> seenRow[p].balance,
            after |-> Candidate(p).resulting]
  IN  /\ At(p, "audit")
      /\ IF AuditIsAccepted(p, u) /\ ReasonIsGiven(p) /\ ActorIsAuthorized(p)
           THEN InsertAudit(p, u) /\ Continue(p, "update")
           ELSE Refuse(p, "dbError")
      /\ UNCHANGED environmentVars

UpdateProjection(p) ==
  LET r == [balance |-> Candidate(p).resulting, version |-> View(p).version + 1,
            currency |-> View(p).currency]
  IN  /\ At(p, "update")
      /\ CanLock(p, Account(p))
      /\ IF View(p).version = seenRow[p].version /\ UpdateIsAccepted(p, Account(p), r)
           THEN UpdateAccount(p, Account(p), r) /\ Continue(p, "commit")
           ELSE Refuse(p, "dbError")
      /\ UNCHANGED environmentVars

CommitTransaction(p) ==
  /\ At(p, "commit")
  /\ IF CommitIsAccepted(p)
       THEN /\ Commit(p)
            /\ result' = [result EXCEPT ![p] = "applied"]
            /\ reply' = [reply EXCEPT ![p] = Candidate(p)]
            /\ Goto(p, "done")
            /\ UNCHANGED <<cmd, resolving, seenRow, seenActive, seenCurrency, attempts>>
       ELSE Refuse(p, "dbError")
  /\ UNCHANGED environmentVars

-----------------------------------------------------------------------------
(* The server or its connection is lost: before the commit nothing remains, *)
(* after it only the answer is lost.                                        *)
Abort(p) ==
  /\ pc[p] \notin {"idle", "done"}
  /\ Refuse(p, "unknown")
  /\ UNCHANGED environmentVars

LoseAnswer(p) ==
  /\ result[p] \in {"applied", "retried"}
  /\ result' = [result EXCEPT ![p] = "unknown"]
  /\ reply' = [reply EXCEPT ![p] = NoEntry]
  /\ UNCHANGED <<storeVars, pc, cmd, resolving, seenRow, seenActive, seenCurrency,
                 attempts, environmentVars>>

(* Other services and operators: memberships, platform roles and the        *)
(* employer's status; EmployeesService.setStatus; EmployersService.update.  *)
AwaitsAudit(p) ==
  /\ pc[p] \notin {"idle", "authorize", "update", "commit", "done"}
  /\ cmd[p].type = "MANUAL_ADJUSTMENT"

ChangeAuthority ==
  /\ \E u \in Users : authorized' \in {authorized \cup {u}, authorized \ {u}}
  /\ dismissed' = [p \in Writers |->
       dismissed[p] \/ (AwaitsAudit(p) /\ cmd[p].actor \notin authorized')]
  /\ UNCHANGED <<storeVars, requestVars, activeEmployees, defaultCurrency>>

ChangeEmployee ==
  /\ \E a \in Accounts :
       activeEmployees' \in {activeEmployees \cup {a}, activeEmployees \ {a}}
  /\ UNCHANGED <<storeVars, requestVars, authorized, defaultCurrency, dismissed>>

ChangeCurrency ==
  /\ defaultCurrency' \in Currencies
  /\ UNCHANGED <<storeVars, requestVars, authorized, activeEmployees, dismissed>>

Step(p) ==
  \/ Authorize(p)
  \/ ReadEmployee(p)
  \/ ReadAccount(p)
  \/ CreateAccount(p)
  \/ ResolveConcurrent(p)
  \/ Lock(p)
  \/ Read(p)
  \/ Decide(p)
  \/ InsertTransaction(p)
  \/ AuditAdjustment(p)
  \/ UpdateProjection(p)
  \/ CommitTransaction(p)

ServiceNext ==
  \/ \E p \in Writers :
       \/ \E c \in Commands : Submit(p, c)
       \/ Resubmit(p)
       \/ Step(p)
       \/ Abort(p)
       \/ LoseAnswer(p)
  \/ ChangeAuthority
  \/ ChangeEmployee
  \/ ChangeCurrency

(* The server executes the next statement of a request that is not waiting  *)
(* for a lock: weak fairness of the request's steps.  Requests are finitely *)
(* many, so a waiter cannot be overtaken for ever and needs no more.        *)
ServiceSpec == ServiceInit /\ [][ServiceNext]_serviceVars
FairServiceSpec == ServiceSpec /\ \A p \in Writers : WF_serviceVars(Step(p))

-----------------------------------------------------------------------------
(***************************************************************************)
(* Properties                                                              *)
(***************************************************************************)

(* The service's own checks foresee every guard of the database: under all  *)
(* interleavings a request fails on a constraint or trigger only when the   *)
(* reason of a manual adjustment is blank, when its actor lost authority    *)
(* after the policy's check of this very submission, or when the account's  *)
(* version has reached the largest INTEGER.                                 *)
GuardsAreForeseen ==
  \A p \in Writers :
    result[p] = "dbError" =>
      \/ cmd[p].blank
      \/ dismissed[p]
      \/ \E e \in Of(Account(p)) : e.sequence = MaxVersion

(* A command takes effect once, however often it is submitted and whichever *)
(* answers were lost: of two requests with the same command at most one is  *)
(* told that it was applied now, and all that got an answer got the same.   *)
AppliedOnce ==
  \A p, q \in Writers :
    p # q /\ cmd[p] = cmd[q] /\ reply[p] # NoEntry /\ reply[q] # NoEntry =>
      /\ reply[p] = reply[q]
      /\ ~(result[p] = "applied" /\ result[q] = "applied")

DeltaOf(e) == e.delta

(* Accounts that only the service writes start from nothing: the cached     *)
(* balance is the sum of the account's entries.                             *)
Reconciled ==
  \A a \in Accounts :
    row[a] # NoRow => row[a].balance = MapThenSumSet(DeltaOf, Of(a))

(* Every request ends, though it may wait for the lock of a busy account    *)
(* and start over after losing the race to create one.                      *)
RequestsEnd ==
  \A p \in Writers : result[p] = "open" ~> result[p] # "open"

(* The multi-statement, lock-based service does what one indivisible step   *)
(* per command would do.                                                    *)
ImplementsRequests == Requests!RSpec
=============================================================================
