----------------------------- MODULE LedgerStore -----------------------------
(***************************************************************************)
(* The financial tables as PostgreSQL keeps them, under ANY program that   *)
(* can INSERT into allowance_accounts, allowance_transactions and          *)
(* audit_logs and UPDATE allowance_accounts.  UPDATE and DELETE of the     *)
(* ledger and audit rows are rejected by triggers, so they are no action.  *)
(* Each action is one SQL statement of one database transaction at READ    *)
(* COMMITTED; a statement whose CHECK, unique index or trigger fails       *)
(* leaves its transaction aborted, which is Rollback.                      *)
(*                                                                         *)
(* Only the holder of an account's row lock can change the row or append   *)
(* to the account (the append trigger takes the lock itself), so what is   *)
(* not committed yet is kept per account: draft[a] is the row as the       *)
(* holder of lock[a] sees it, and equals row[a] while nobody holds it.     *)
(***************************************************************************)
EXTENDS LedgerEntries

CONSTANTS
  Writers,   \* concurrent database transactions
  NoWriter,  \* the value of a free lock
  NoRow      \* the value of an account that has no row

ASSUME WriterAssumption == NoWriter \notin Writers
ASSUME RowAssumption == NoRow \notin AccountRow

VARIABLES
  row,           \* row[a]: committed row of account a, or NoRow
  entries,       \* committed rows of allowance_transactions
  audits,        \* committed rows of audit_logs linked to a transaction row
  lock,          \* lock[a]: the writer that holds the row lock (or the unique
                 \* index entry of an account it is inserting), or NoWriter
  draft,         \* draft[a]: the row as the holder of lock[a] sees it
  pending,       \* uncommitted rows of allowance_transactions
  pendingAudits  \* uncommitted rows of audit_logs

storeVars == <<row, entries, audits, lock, draft, pending, pendingAudits>>

TypeOK ==
  /\ row \in [Accounts -> AccountRow \cup {NoRow}]
  /\ entries \in SUBSET Entry
  /\ audits \in SUBSET Audit
  /\ lock \in [Accounts -> Writers \cup {NoWriter}]
  /\ draft \in [Accounts -> AccountRow \cup {NoRow}]
  /\ pending \in SUBSET Entry
  /\ pendingAudits \in SUBSET Audit

Init ==
  /\ row = [a \in Accounts |-> NoRow]
  /\ entries = {}
  /\ audits = {}
  /\ lock = [a \in Accounts |-> NoWriter]
  /\ draft = [a \in Accounts |-> NoRow]
  /\ pending = {}
  /\ pendingAudits = {}

-----------------------------------------------------------------------------
(* What transaction w has written and what it sees.                         *)
OwnEntries(w) == {e \in pending : lock[e.account] = w}
OwnAudits(w) == {u \in pendingAudits : lock[u.account] = w}
VisibleEntries(w) == entries \cup OwnEntries(w)
VisibleAudits(w) == audits \cup OwnAudits(w)

CanLock(w, a) == lock[a] \in {w, NoWriter}

(* Triggers and indexes with one clause missing; the checks of the          *)
(* properties below put them in the place of the real ones.                 *)
AnyResulting(r, e) == TRUE
AnyReference(S, e) == TRUE
AnyProjection(S, a, o, n) == n.version \in {o.version, o.version + 1}
NoManualAuditRequired(w) == TRUE

(* The trigger enforce_allowance_ledger_append, clause by clause, for an    *)
(* account whose current row is r.                                          *)
AccountExists(r) == r # NoRow
CurrencyMatchesAccount(r, e) == e.currency = r.currency
SequenceIsNext(r, e) == e.sequence = r.version + 1
ResultingIsConsistent(r, e) == e.resulting = r.balance + e.delta

AppendGuard(r, e) ==
  /\ AccountExists(r)
  /\ CurrencyMatchesAccount(r, e)
  /\ SequenceIsNext(r, e)
  /\ ResultingIsConsistent(r, e)

(* The unique indexes of allowance_transactions over the rows S.            *)
ReferenceIsFree(S, e) == \A d \in S : ~SameReference(d, e)
SequenceIsFree(S, e) ==
  \A d \in S : d.account = e.account => d.sequence # e.sequence
InitialAllocationIsFree(S, e) ==
  e.type = "INITIAL_ALLOCATION" =>
    \A d \in S : d.account = e.account => d.type # "INITIAL_ALLOCATION"

(* The trigger enforce_allowance_account_update: old row o, new row n.      *)
IdentityIsKept(o, n) == n.currency = o.currency
ProjectionHasEntry(S, a, o, n) ==
  n.balance # o.balance \/ n.version # o.version =>
    /\ n.version = o.version + 1
    /\ \E e \in S : /\ e.account = a
                    /\ e.sequence = n.version
                    /\ e.resulting = n.balance

(* The trigger validate_manual_adjustment_audit.  Two of its clauses, that  *)
(* the reason is not blank and that the actor is authorized now, are        *)
(* modelled in AllowanceService; here a rejected audit is one more Rollback.*)
AuditGuard(S, u) ==
  \E e \in S : /\ e.account = u.account
               /\ e.sequence = u.sequence
               /\ e.type = "MANUAL_ADJUSTMENT"
               /\ e.actor = u.actor
               /\ u.before = e.resulting - e.delta
               /\ u.after = e.resulting

AuditIsFree(S, u) ==
  \A v \in S : ~(v.account = u.account /\ v.sequence = u.sequence)

(* The deferred constraint triggers, evaluated when w commits.              *)
ProjectionRequired(w) ==
  \A e \in OwnEntries(w) : /\ draft[e.account].version = e.sequence
                           /\ draft[e.account].balance = e.resulting

InitialAllocationRequired(w) ==
  \A a \in Accounts :
    lock[a] = w /\ row[a] = NoRow =>
      \E e \in VisibleEntries(w) : /\ e.account = a
                                   /\ e.sequence = 1
                                   /\ e.type = "INITIAL_ALLOCATION"

ManualAuditRequired(w) ==
  \A e \in OwnEntries(w) :
    e.type = "MANUAL_ADJUSTMENT" =>
      \E u \in VisibleAudits(w) : u.account = e.account /\ u.sequence = e.sequence

-----------------------------------------------------------------------------
(* SELECT ... FOR UPDATE of an existing account.                            *)
LockAccount(w, a) ==
  /\ lock[a] = NoWriter
  /\ row[a] # NoRow
  /\ lock' = [lock EXCEPT ![a] = w]
  /\ UNCHANGED <<row, entries, audits, draft, pending, pendingAudits>>

(* INSERT INTO allowance_accounts.  While another transaction has inserted  *)
(* the same employee's account and not ended, the unique index makes this   *)
(* one wait; once an account is committed the insert fails.                 *)
InsertAccount(w, a, r) ==
  /\ lock[a] = NoWriter
  /\ row[a] = NoRow
  /\ lock' = [lock EXCEPT ![a] = w]
  /\ draft' = [draft EXCEPT ![a] = r]
  /\ UNCHANGED <<row, entries, audits, pending, pendingAudits>>

(* INSERT INTO allowance_transactions.                                      *)
EntryIsAccepted(w, e) ==
  /\ AppendGuard(draft[e.account], e)
  /\ DirectionIsValid(e)
  /\ ManualActorIsUser(e)
  /\ RefundHasDebit(VisibleEntries(w), e)
  /\ ReferenceIsFree(VisibleEntries(w), e)
  /\ SequenceIsFree(VisibleEntries(w), e)
  /\ InitialAllocationIsFree(VisibleEntries(w), e)

InsertEntry(w, e) ==
  /\ CanLock(w, e.account)
  /\ EntryIsAccepted(w, e)
  /\ lock' = [lock EXCEPT ![e.account] = w]
  /\ pending' = pending \cup {e}
  /\ UNCHANGED <<row, entries, audits, draft, pendingAudits>>

(* UPDATE allowance_accounts.                                               *)
UpdateIsAccepted(w, a, r) ==
  /\ draft[a] # NoRow
  /\ IdentityIsKept(draft[a], r)
  /\ ProjectionHasEntry(VisibleEntries(w), a, draft[a], r)

UpdateAccount(w, a, r) ==
  /\ CanLock(w, a)
  /\ UpdateIsAccepted(w, a, r)
  /\ lock' = [lock EXCEPT ![a] = w]
  /\ draft' = [draft EXCEPT ![a] = r]
  /\ UNCHANGED <<row, entries, audits, pending, pendingAudits>>

(* INSERT INTO audit_logs of a row linked to a transaction row.  A          *)
(* committed manual adjustment already has its one audit row, so only the   *)
(* writer's own entries can still be audited.                               *)
AuditIsAccepted(w, u) ==
  /\ AuditGuard(OwnEntries(w), u)
  /\ AuditIsFree(VisibleAudits(w), u)

InsertAudit(w, u) ==
  /\ AuditIsAccepted(w, u)
  /\ pendingAudits' = pendingAudits \cup {u}
  /\ UNCHANGED <<row, entries, audits, lock, draft, pending>>

Discard(w) ==
  /\ lock' = [a \in Accounts |-> IF lock[a] = w THEN NoWriter ELSE lock[a]]
  /\ pending' = pending \ OwnEntries(w)
  /\ pendingAudits' = pendingAudits \ OwnAudits(w)

CommitIsAccepted(w) ==
  /\ ProjectionRequired(w)
  /\ InitialAllocationRequired(w)
  /\ ManualAuditRequired(w)

Commit(w) ==
  /\ \E a \in Accounts : lock[a] = w
  /\ CommitIsAccepted(w)
  /\ row' = [a \in Accounts |-> IF lock[a] = w THEN draft[a] ELSE row[a]]
  /\ entries' = VisibleEntries(w)
  /\ audits' = VisibleAudits(w)
  /\ Discard(w)
  /\ UNCHANGED draft

(* A failed statement, a failed deferred trigger, a thrown error, a lost    *)
(* connection or a deadlock victim: everything w wrote is gone.             *)
Rollback(w) ==
  /\ \E a \in Accounts : lock[a] = w
  /\ draft' = [a \in Accounts |-> IF lock[a] = w THEN row[a] ELSE draft[a]]
  /\ Discard(w)
  /\ UNCHANGED <<row, entries, audits>>

Next ==
  \E w \in Writers :
    \/ \E a \in Accounts : LockAccount(w, a)
    \/ \E a \in Accounts, r \in AccountRow : InsertAccount(w, a, r)
    \/ \E e \in Entry : InsertEntry(w, e)
    \/ \E a \in Accounts, r \in AccountRow : UpdateAccount(w, a, r)
    \/ \E u \in Audit : InsertAudit(w, u)
    \/ Commit(w)
    \/ Rollback(w)

Spec == Init /\ [][Next]_storeVars

-----------------------------------------------------------------------------
(***************************************************************************)
(* Properties of the committed tables                                      *)
(***************************************************************************)
Of(a) == {e \in entries : e.account = a}

(* The sequence numbers of an account are exactly 1 .. version, each used   *)
(* once, and an account without a row has no entries: what the append, the  *)
(* update and the deferred projection trigger guarantee together, each from *)
(* a different moment of the transaction.                                   *)
Gapless ==
  \A a \in Accounts :
    /\ row[a] = NoRow => Of(a) = {}
    /\ row[a] # NoRow =>
         /\ \A i \in 1 .. row[a].version : \E e \in Of(a) : e.sequence = i
         /\ \A e \in Of(a) : e.sequence <= row[a].version
    /\ \A d, e \in Of(a) : d.sequence = e.sequence => d = e

(* Every entry continues the balance of the entry before it: no entry is    *)
(* lost, inserted in the middle, or computed from a stale balance.          *)
Chained ==
  \A d, e \in entries :
    d.account = e.account /\ e.sequence = d.sequence + 1 =>
      e.resulting = d.resulting + e.delta

(* The cached balance of a committed account is the resulting balance of    *)
(* its last entry; a committed account always has one.                      *)
Projected ==
  \A a \in Accounts :
    row[a] # NoRow =>
      \E e \in Of(a) : /\ e.sequence = row[a].version
                       /\ e.resulting = row[a].balance

(* The history of every account opens with its one initial allocation.      *)
OpensWithAllocation ==
  \A e \in entries : e.type = "INITIAL_ALLOCATION" <=> e.sequence = 1

(* A refund gives back at most what the debit of its booking took, later,   *)
(* on the same account and in the same currency, and a booking is refunded  *)
(* at most once: the refunds of a booking never exceed its debit.           *)
RefundsAreBacked ==
  \A e \in entries :
    e.type = "CANCELLATION_REFUND" =>
      /\ \E d \in Of(e.account) : /\ d.type = "BOOKING_DEBIT"
                                  /\ d.reference = e.reference
                                  /\ d.sequence < e.sequence
                                  /\ d.currency = e.currency
                                  /\ d.delta + e.delta <= 0
      /\ \A f \in Of(e.account) :
           f.type = "CANCELLATION_REFUND" /\ f.reference = e.reference => f = e

(* Manual adjustments and linked audit rows match one to one, and the audit *)
(* states the balances before and after the adjustment.                     *)
AdjustmentsAreAudited ==
  /\ \A u \in audits :
       \E e \in Of(u.account) : /\ e.sequence = u.sequence
                               /\ e.type = "MANUAL_ADJUSTMENT"
                               /\ e.actor = u.actor
                               /\ u.before + e.delta = u.after
                               /\ u.after = e.resulting
  /\ \A e \in entries :
       e.type = "MANUAL_ADJUSTMENT" =>
         \E u \in audits : u.account = e.account /\ u.sequence = e.sequence
  /\ \A u, v \in audits :
       u.account = v.account /\ u.sequence = v.sequence => u = v

(* An account and all its entries are in one currency.                      *)
OneCurrency ==
  \A e \in entries : row[e.account] # NoRow /\ row[e.account].currency = e.currency

(* What a commit may do: history only grows, an account keeps its currency, *)
(* and its version moves with exactly one new entry, or not at all.         *)
AppendOnly ==
  [][/\ entries \subseteq entries'
     /\ audits \subseteq audits'
     /\ \A a \in Accounts :
          row[a] # NoRow =>
            /\ row'[a] # NoRow
            /\ row'[a].currency = row[a].currency
            /\ row'[a].version = row[a].version => row'[a] = row[a]
            /\ row'[a].version \in {row[a].version, row[a].version + 1}]_storeVars

(* The committed tables implement the ledger's promise.                     *)
Ledger == INSTANCE AllowanceLedger WITH ledger <- [a \in Accounts |-> Of(a)]
ImplementsLedger == Ledger!LedgerSpec

-----------------------------------------------------------------------------
(***************************************************************************)
(* The strengthening that makes the properties inductive: what holds of    *)
(* work in progress.                                                       *)
(***************************************************************************)
PendingOf(a) == {e \in pending : e.account = a}

(* Work in progress belongs to a lock holder.                               *)
WorkIsLocked ==
  /\ \A a \in Accounts : lock[a] = NoWriter => draft[a] = row[a]
  /\ \A a \in Accounts : lock[a] # NoWriter => draft[a] # NoRow
  /\ \A e \in pending : lock[e.account] # NoWriter

(* A committed account starts its history at version 1, and its draft is    *)
(* ahead of its row by as many pending entries as it is ahead in version.   *)
DraftFollowsRow(a) ==
  /\ row[a].version >= 1
  /\ draft[a] # NoRow
  /\ draft[a].currency = row[a].currency
  /\ draft[a].version >= row[a].version
  /\ draft[a].version = row[a].version => draft[a] = row[a]
  /\ \A i \in row[a].version + 1 .. draft[a].version :
       \E e \in PendingOf(a) : e.sequence = i

DraftIsAhead == \A a \in Accounts : row[a] # NoRow => DraftFollowsRow(a)

(* A pending entry is a valid next entry as far as it can be: it may still  *)
(* skip a version, which the deferred triggers find out at the commit.      *)
FollowsCommitted(e) ==
  row[e.account] # NoRow =>
    /\ e.type # "INITIAL_ALLOCATION"
    /\ e.sequence > row[e.account].version
    /\ e.sequence = row[e.account].version + 1 =>
         e.resulting = row[e.account].balance + e.delta

IsUnique(e) ==
  /\ \A d \in entries \cup pending : d # e => ~SameReference(d, e)
  /\ \A d \in pending : d.account = e.account /\ d.sequence = e.sequence => d = e

PendingIsValid ==
  \A e \in pending :
    /\ e.currency = draft[e.account].currency
    /\ DirectionIsValid(e)
    /\ ManualActorIsUser(e)
    /\ RefundHasDebit(entries \cup pending, e)
    /\ IsUnique(e)
    /\ FollowsCommitted(e)

PendingAuditsAreValid ==
  /\ \A u \in pendingAudits : AuditGuard(pending, u)
  /\ \A u, v \in pendingAudits :
       u.account = v.account /\ u.sequence = v.sequence => u = v

ReferencesAreUsedOnce ==
  \A d, e \in entries : d # e => ~SameReference(d, e)

Safety ==
  /\ Gapless
  /\ Chained
  /\ Projected
  /\ OpensWithAllocation
  /\ RefundsAreBacked
  /\ AdjustmentsAreAudited
  /\ OneCurrency

IInv ==
  /\ TypeOK
  /\ Safety
  /\ ReferencesAreUsedOnce
  /\ WorkIsLocked
  /\ DraftIsAhead
  /\ PendingIsValid
  /\ PendingAuditsAreValid
=============================================================================
