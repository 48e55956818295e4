---------------------------- MODULE AllowanceProofs ----------------------------
(***************************************************************************)
(* Proofs about LedgerStore, for any accounts, writers, users, references, *)
(* currencies and bounds, and about AllowanceService, for any commands and *)
(* requests.  The service writes the tables only as LedgerStore allows, so *)
(* all that is proved of the tables holds of the service.  What a request  *)
(* has read and decided stays right under its lock until it commits, so    *)
(* its checks foresee the database's guards, a command takes effect once,  *)
(* the cached balance is the sum of the entries, and the service implements*)
(* AllowanceRequests.                                                      *)
(***************************************************************************)
EXTENDS AllowanceService, Sums

(* What Commit and Rollback remove from the uncommitted tables is theirs.   *)
LEMMA TypeStep == TypeOK /\ [Next]_storeVars => TypeOK'
<1> SUFFICES ASSUME TypeOK, [Next]_storeVars PROVE TypeOK'
  OBVIOUS
<1> USE DEF TypeOK
<1>1. ASSUME NEW w \in Writers, NEW a \in Accounts, LockAccount(w, a)
      PROVE  TypeOK'
  BY <1>1 DEF LockAccount
<1>2. ASSUME NEW w \in Writers, NEW a \in Accounts, NEW r \in AccountRow,
             InsertAccount(w, a, r)
      PROVE  TypeOK'
  BY <1>2 DEF InsertAccount
<1>3. ASSUME NEW w \in Writers, NEW e \in Entry, InsertEntry(w, e)
      PROVE  TypeOK'
  BY <1>3 DEF InsertEntry, EntryIsAccepted
<1>4. ASSUME NEW w \in Writers, NEW a \in Accounts, NEW r \in AccountRow,
             UpdateAccount(w, a, r)
      PROVE  TypeOK'
  BY <1>4 DEF UpdateAccount, UpdateIsAccepted
<1>5. ASSUME NEW w \in Writers, NEW u \in Audit, InsertAudit(w, u)
      PROVE  TypeOK'
  BY <1>5 DEF InsertAudit
<1>6. ASSUME NEW w \in Writers, Commit(w)
      PROVE  TypeOK'
  BY <1>6 DEF Commit, CommitIsAccepted, Discard, VisibleEntries, VisibleAudits, OwnEntries, OwnAudits
<1>7. ASSUME NEW w \in Writers, Rollback(w)
      PROVE  TypeOK'
  BY <1>7 DEF Rollback, Discard, OwnEntries, OwnAudits
<1>8. CASE UNCHANGED storeVars
  BY <1>8 DEF storeVars
<1>9. QED
  BY <1>1, <1>2, <1>3, <1>4, <1>5, <1>6, <1>7, <1>8 DEF Next

(* Every column of every row keeps its type.                                *)
LEMMA TypeCorrect == Spec => []TypeOK
<1>1. Init => TypeOK
  BY DEF Init, TypeOK
<1>2. QED
  BY <1>1, TypeStep, PTL DEF Spec

-----------------------------------------------------------------------------
(* A step that leaves the committed tables alone keeps what is said of them.*)
LEMMA CommittedUnchanged ==
  ASSUME Safety, ReferencesAreUsedOnce, UNCHANGED <<row, entries, audits>>
  PROVE  Safety' /\ ReferencesAreUsedOnce'
BY DEF Safety, Gapless, Chained, Projected, OpensWithAllocation,
       RefundsAreBacked, AdjustmentsAreAudited, OneCurrency, Of,
       ReferencesAreUsedOnce

(* The strengthening, without the types and the committed tables.           *)
Work == WorkIsLocked /\ DraftIsAhead /\ PendingIsValid /\ PendingAuditsAreValid

(* A refund backed by some rows is backed by more rows.                     *)
LEMMA RefundMonotone ==
  ASSUME NEW S, NEW T, NEW e, S \subseteq T, RefundHasDebit(S, e)
  PROVE  RefundHasDebit(T, e)
BY DEF RefundHasDebit

LEMMA SameReferenceSymmetric ==
  ASSUME NEW d, NEW e, SameReference(d, e)
  PROVE  SameReference(e, d)
BY DEF SameReference

LEMMA LockAccountStep ==
  ASSUME IInv, NEW w \in Writers, NEW a \in Accounts, LockAccount(w, a)
  PROVE  Work'
<1> USE DEF LockAccount
<1>1. WorkIsLocked'
  BY WriterAssumption DEF IInv, TypeOK, WorkIsLocked
<1>2. DraftIsAhead'
  BY DEF IInv, TypeOK, DraftIsAhead, DraftFollowsRow, PendingOf
<1>3. PendingIsValid'
  BY DEF IInv, TypeOK, PendingIsValid, IsUnique, FollowsCommitted
<1>4. PendingAuditsAreValid'
  BY DEF IInv, TypeOK, PendingAuditsAreValid
<1>5. QED
  BY <1>1, <1>2, <1>3, <1>4 DEF Work

LEMMA InsertAccountStep ==
  ASSUME IInv, NEW w \in Writers, NEW a \in Accounts, NEW r \in AccountRow,
         InsertAccount(w, a, r)
  PROVE  Work'
<1> USE DEF InsertAccount, IInv, TypeOK
<1>1. WorkIsLocked'
  BY WriterAssumption, RowAssumption DEF WorkIsLocked
<1>2. DraftIsAhead'
  BY DEF DraftIsAhead, DraftFollowsRow, PendingOf
<1>3. PendingIsValid'
  <2>1. \A e \in pending : draft'[e.account] = draft[e.account]
    BY DEF WorkIsLocked, Entry
  <2>2. pending' = pending /\ entries' = entries /\ row' = row
    OBVIOUS
  <2>3. QED
    BY <2>1, <2>2, Zenon DEF PendingIsValid, IsUnique, FollowsCommitted
<1>4. PendingAuditsAreValid'
  BY DEF PendingAuditsAreValid
<1>5. QED
  BY <1>1, <1>2, <1>3, <1>4 DEF Work

LEMMA InsertAuditStep ==
  ASSUME IInv, NEW w \in Writers, NEW u \in Audit, InsertAudit(w, u)
  PROVE  Work'
<1> USE DEF InsertAudit, AuditIsAccepted, IInv, TypeOK
<1>1. WorkIsLocked'
  BY DEF WorkIsLocked
<1>2. DraftIsAhead'
  BY DEF DraftIsAhead, DraftFollowsRow, PendingOf
<1>3. PendingIsValid'
  BY DEF PendingIsValid, IsUnique, FollowsCommitted
<1>4. PendingAuditsAreValid'
  <2>1. AuditGuard(pending, u) /\ lock[u.account] = w
    BY DEF AuditGuard, OwnEntries
  <2>2. \A v \in pendingAudits : ~(v.account = u.account /\ v.sequence = u.sequence)
    BY <2>1 DEF AuditIsFree, VisibleAudits, OwnAudits
  <2>3. QED
    BY <2>1, <2>2 DEF PendingAuditsAreValid, AuditGuard
<1>5. QED
  BY <1>1, <1>2, <1>3, <1>4 DEF Work

LEMMA UpdateAccountStep ==
  ASSUME IInv, NEW w \in Writers, NEW a \in Accounts, NEW r \in AccountRow,
         UpdateAccount(w, a, r)
  PROVE  Work'
<1> USE DEF IInv, TypeOK
<1>1. WorkIsLocked'
  BY WriterAssumption, RowAssumption DEF UpdateAccount, UpdateIsAccepted, WorkIsLocked
<1>2. \A e \in VisibleEntries(w) : e.account = a => e \in Of(a) \cup PendingOf(a)
  BY DEF VisibleEntries, OwnEntries, Of, PendingOf
<1>3. DraftIsAhead'
  <2> SUFFICES ASSUME NEW b \in Accounts, row'[b] # NoRow
               PROVE  DraftFollowsRow(b)'
    BY DEF DraftIsAhead
  <2>1. CASE b # a
    BY <2>1 DEF UpdateAccount, UpdateIsAccepted, DraftIsAhead, DraftFollowsRow, PendingOf
  <2>2. CASE b = a
    <3>1. DraftFollowsRow(a) /\ row[a] \in AccountRow /\ draft[a] \in AccountRow
      BY <2>2 DEF UpdateAccount, UpdateIsAccepted, DraftIsAhead, DraftFollowsRow
    <3>2. /\ row' = row /\ pending' = pending /\ draft'[a] = r
          /\ PendingOf(a)' = PendingOf(a)
      BY DEF UpdateAccount, UpdateIsAccepted, PendingOf
    <3>3. CASE r.balance = draft[a].balance /\ r.version = draft[a].version
      <4>1. r = draft[a]
        BY <3>1, <3>3 DEF UpdateAccount, UpdateIsAccepted, IdentityIsKept, AccountRow
      <4>2. QED
        BY <2>2, <3>1, <3>2, <4>1 DEF DraftFollowsRow
    <3>4. CASE ~(r.balance = draft[a].balance /\ r.version = draft[a].version)
      <4>1. /\ r.version = draft[a].version + 1
            /\ \E e \in VisibleEntries(w) : e.account = a /\ e.sequence = r.version
        BY <3>4 DEF UpdateAccount, UpdateIsAccepted, ProjectionHasEntry
      <4>2. PICK e \in VisibleEntries(w) : e.account = a /\ e.sequence = r.version
        BY <4>1
      <4>3. e \notin Of(a)
        BY <2>2, <3>1, <4>1, <4>2 DEF Safety, Gapless, DraftFollowsRow, AccountRow, Entry, Of
      <4>4. e \in PendingOf(a)
        BY <1>2, <4>2, <4>3
      <4>5. /\ r.version > row[a].version
            /\ \A i \in row[a].version + 1 .. r.version :
                 \E d \in PendingOf(a) : d.sequence = i
        <5>1. row[a].version \in Nat /\ draft[a].version \in Nat
          BY <3>1, BoundsAssumption DEF AccountRow
        <5>2. \A i \in row[a].version + 1 .. draft[a].version :
                 \E d \in PendingOf(a) : d.sequence = i
          BY <3>1 DEF DraftFollowsRow
        <5>3. draft[a].version >= row[a].version
          BY <3>1 DEF DraftFollowsRow
        <5>4. \A i \in row[a].version + 1 .. r.version :
                i = r.version \/ i \in row[a].version + 1 .. draft[a].version
          BY <4>1, <5>1
        <5>5. QED
          BY <4>1, <4>2, <4>4, <5>1, <5>2, <5>3, <5>4
      <4>6. r.currency = row[a].currency /\ r # NoRow
        BY <3>1, RowAssumption DEF UpdateAccount, UpdateIsAccepted, IdentityIsKept, DraftFollowsRow
      <4>7. QED
        BY <2>2, <3>1, <3>2, <4>5, <4>6 DEF DraftFollowsRow, AccountRow
    <3>5. QED
      BY <3>3, <3>4
  <2>3. QED
    BY <2>1, <2>2
<1>4. PendingIsValid'
  <2>1. \A e \in pending : draft'[e.account].currency = draft[e.account].currency
    BY DEF UpdateAccount, UpdateIsAccepted, IdentityIsKept, Entry
  <2>2. pending' = pending /\ entries' = entries /\ row' = row
    BY DEF UpdateAccount, UpdateIsAccepted
  <2>3. QED
    BY <2>1, <2>2, Zenon DEF PendingIsValid, IsUnique, FollowsCommitted
<1>5. PendingAuditsAreValid'
  BY DEF UpdateAccount, UpdateIsAccepted, PendingAuditsAreValid
<1>6. QED
  BY <1>1, <1>3, <1>4, <1>5 DEF Work

LEMMA InsertEntryStep ==
  ASSUME IInv, NEW w \in Writers, NEW e \in Entry, InsertEntry(w, e)
  PROVE  Work'
<1> DEFINE a == e.account
<1> USE DEF IInv, TypeOK
<1>1. /\ a \in Accounts
      /\ lock[a] \in {w, NoWriter}
      /\ lock' = [lock EXCEPT ![a] = w]
      /\ row' = row /\ entries' = entries /\ draft' = draft
      /\ pending' = pending \cup {e} /\ pendingAudits' = pendingAudits
  BY DEF InsertEntry, EntryIsAccepted, CanLock, Entry
<1>2. \A d \in entries \cup pending : d.account = a => d \in VisibleEntries(w)
  BY <1>1 DEF WorkIsLocked, VisibleEntries, OwnEntries
<1>3. VisibleEntries(w) \subseteq entries \cup pending
  BY DEF VisibleEntries, OwnEntries
<1>4. draft[a] \in AccountRow
  BY <1>1 DEF InsertEntry, EntryIsAccepted, AppendGuard, AccountExists
<1>5. WorkIsLocked'
  <2>1. draft[a] # NoRow
    BY <1>4, RowAssumption
  <2>2. QED
    BY <1>1, <2>1, WriterAssumption DEF WorkIsLocked, Entry
<1>6. DraftIsAhead'
  <2> SUFFICES ASSUME NEW b \in Accounts, row'[b] # NoRow
               PROVE  DraftFollowsRow(b)'
    BY DEF DraftIsAhead
  <2>1. DraftFollowsRow(b) /\ PendingOf(b) \subseteq PendingOf(b)'
    BY <1>1 DEF DraftIsAhead, PendingOf
  <2>2. QED
    BY <1>1, <2>1 DEF DraftFollowsRow
<1>7. \A d \in entries \cup pending : ~SameReference(d, e) /\ ~SameReference(e, d)
  <2> SUFFICES ASSUME NEW d \in entries \cup pending
               PROVE  ~SameReference(d, e)
    BY SameReferenceSymmetric
  <2>1. CASE d.account = a
    BY <1>2, <2>1 DEF InsertEntry, EntryIsAccepted, ReferenceIsFree
  <2>2. CASE d.account # a
    BY <2>2 DEF SameReference
  <2>3. QED
    BY <2>1, <2>2
<1>8. IsUnique(e)'
  <2>1. \A d \in pending : d.account = a => d.sequence # e.sequence
    BY <1>2 DEF InsertEntry, EntryIsAccepted, SequenceIsFree
  <2>2. QED
    BY <1>1, <1>7, <2>1 DEF IsUnique
<1>9. \A d \in pending : IsUnique(d)'
  <2> SUFFICES ASSUME NEW d \in pending PROVE IsUnique(d)'
    OBVIOUS
  <2>1. IsUnique(d)
    BY DEF PendingIsValid
  <2>2. ~(d.account = a /\ d.sequence = e.sequence)
    BY <1>2 DEF InsertEntry, EntryIsAccepted, SequenceIsFree
  <2>3. QED
    BY <1>1, <1>7, <2>1, <2>2 DEF IsUnique
<1>10. FollowsCommitted(e)'
  <2> SUFFICES ASSUME row[a] # NoRow
               PROVE  /\ e.type # "INITIAL_ALLOCATION"
                      /\ e.sequence > row[a].version
                      /\ e.sequence = row[a].version + 1 =>
                           e.resulting = row[a].balance + e.delta
    BY <1>1 DEF FollowsCommitted
  <2>1. DraftFollowsRow(a) /\ row[a] \in AccountRow
    BY <1>1 DEF DraftIsAhead
  <2>2. row[a].version \in Nat /\ draft[a].version \in Nat
    BY <1>4, <2>1, BoundsAssumption DEF AccountRow
  <2>3. e.sequence = draft[a].version + 1 /\ e.resulting = draft[a].balance + e.delta
    BY DEF InsertEntry, EntryIsAccepted, AppendGuard, SequenceIsNext, ResultingIsConsistent
  <2>4. draft[a].version >= row[a].version
    BY <2>1 DEF DraftFollowsRow
  <2>5. e.sequence > row[a].version
    BY <2>2, <2>3, <2>4
  <2>6. e.sequence = row[a].version + 1 => e.resulting = row[a].balance + e.delta
    BY <2>1, <2>2, <2>3 DEF DraftFollowsRow
  <2>7. PICK f \in Of(a) : f.sequence = 1
    BY <1>1, <2>1, <2>2 DEF Safety, Gapless, DraftFollowsRow
  <2>8. f.type = "INITIAL_ALLOCATION" /\ f \in VisibleEntries(w) /\ f.account = a
    BY <2>7 DEF Safety, OpensWithAllocation, Of, VisibleEntries
  <2>9. e.type # "INITIAL_ALLOCATION"
    BY <2>8 DEF InsertEntry, EntryIsAccepted, InitialAllocationIsFree
  <2>10. QED
    BY <2>5, <2>6, <2>9
<1>11. PendingIsValid'
  <2> SUFFICES ASSUME NEW d \in pending'
               PROVE  /\ d.currency = draft[d.account].currency
                      /\ DirectionIsValid(d)
                      /\ ManualActorIsUser(d)
                      /\ RefundHasDebit(entries \cup pending', d)
                      /\ IsUnique(d)'
                      /\ FollowsCommitted(d)'
    BY <1>1 DEF PendingIsValid
  <2>1. CASE d = e
    <3>1. RefundHasDebit(VisibleEntries(w), e)
      BY DEF InsertEntry, EntryIsAccepted
    <3>2. RefundHasDebit(entries \cup pending', e)
      BY <1>1, <1>3, <3>1, RefundMonotone
    <3>3. QED
      BY <1>8, <1>10, <2>1, <3>2
      DEF InsertEntry, EntryIsAccepted, AppendGuard, CurrencyMatchesAccount
  <2>2. CASE d \in pending
    <3>1. RefundHasDebit(entries \cup pending, d)
      BY <2>2 DEF PendingIsValid
    <3>2. RefundHasDebit(entries \cup pending', d)
      BY <1>1, <3>1, RefundMonotone
    <3>3. FollowsCommitted(d)'
      BY <1>1, <2>2 DEF PendingIsValid, FollowsCommitted
    <3>4. QED
      BY <1>9, <2>2, <3>2, <3>3 DEF PendingIsValid
  <2>3. QED
    BY <1>1, <2>1, <2>2
<1>12. PendingAuditsAreValid'
  BY <1>1 DEF PendingAuditsAreValid, AuditGuard
<1>13. QED
  BY <1>5, <1>6, <1>11, <1>12 DEF Work

LEMMA RollbackStep ==
  ASSUME IInv, NEW w \in Writers, Rollback(w)
  PROVE  Work'
<1> USE DEF IInv, TypeOK
<1>1. /\ row' = row /\ entries' = entries
      /\ pending' = {e \in pending : lock[e.account] # w}
      /\ pendingAudits' = {u \in pendingAudits : lock[u.account] # w}
      /\ lock' = [a \in Accounts |-> IF lock[a] = w THEN NoWriter ELSE lock[a]]
      /\ draft' = [a \in Accounts |-> IF lock[a] = w THEN row[a] ELSE draft[a]]
  BY DEF Rollback, Discard, OwnEntries, OwnAudits
<1>2. WorkIsLocked'
  BY <1>1, WriterAssumption DEF WorkIsLocked, Entry
<1>3. DraftIsAhead'
  <2> SUFFICES ASSUME NEW b \in Accounts, row[b] # NoRow
               PROVE  DraftFollowsRow(b)'
    BY <1>1 DEF DraftIsAhead
  <2>1. DraftFollowsRow(b) /\ row[b] \in AccountRow
    BY DEF DraftIsAhead
  <2>2. CASE lock[b] = w
    <3>1. draft'[b] = row[b] /\ row' = row
      BY <1>1, <2>2
    <3>2. row[b].version \in Nat
      BY <2>1, BoundsAssumption DEF AccountRow
    <3>3. QED
      BY <2>1, <3>1, <3>2 DEF DraftFollowsRow
  <2>3. CASE lock[b] # w
    <3>1. draft'[b] = draft[b] /\ row' = row /\ PendingOf(b)' = PendingOf(b)
      BY <1>1, <2>3 DEF PendingOf
    <3>2. QED
      BY <2>1, <3>1 DEF DraftFollowsRow
  <2>4. QED
    BY <2>2, <2>3
<1>4. PendingIsValid'
  <2> SUFFICES ASSUME NEW d \in pending, lock[d.account] # w
               PROVE  /\ d.currency = draft'[d.account].currency
                      /\ DirectionIsValid(d)
                      /\ ManualActorIsUser(d)
                      /\ RefundHasDebit(entries \cup pending', d)
                      /\ IsUnique(d)'
                      /\ FollowsCommitted(d)'
    BY <1>1 DEF PendingIsValid
  <2>1. d.currency = draft'[d.account].currency
    BY <1>1 DEF PendingIsValid, Entry
  <2>2. RefundHasDebit(entries \cup pending', d)
    BY <1>1 DEF PendingIsValid, RefundHasDebit
  <2>3. IsUnique(d)' /\ FollowsCommitted(d)'
    BY <1>1 DEF PendingIsValid, IsUnique, FollowsCommitted
  <2>4. QED
    BY <2>1, <2>2, <2>3 DEF PendingIsValid
<1>5. PendingAuditsAreValid'
  BY <1>1 DEF PendingAuditsAreValid, AuditGuard
<1>6. QED
  BY <1>2, <1>3, <1>4, <1>5 DEF Work

-----------------------------------------------------------------------------
(* What a commit does to one account: nothing, or it opens the account with *)
(* its initial allocation, or it appends the entry after the last one.      *)
Opening(a, e) ==
  /\ row[a] = NoRow
  /\ Of(a) = {}
  /\ e.sequence = 1
  /\ e.type = "INITIAL_ALLOCATION"

Continuing(a, e) ==
  /\ row[a] \in AccountRow
  /\ e.sequence = row[a].version + 1
  /\ e.resulting = row[a].balance + e.delta
  /\ e.currency = row[a].currency
  /\ e.type # "INITIAL_ALLOCATION"

Appends(a, e) ==
  /\ e \in pending
  /\ e.account = a
  /\ Of(a)' = Of(a) \cup {e}
  /\ row'[a] \in AccountRow
  /\ row'[a].version = e.sequence
  /\ row'[a].balance = e.resulting
  /\ row'[a].currency = e.currency
  /\ Opening(a, e) \/ Continuing(a, e)

LEMMA CommitGrowth ==
  ASSUME IInv, NEW w \in Writers, Commit(w), NEW a \in Accounts
  PROVE  \/ Of(a)' = Of(a) /\ row'[a] = row[a]
         \/ \E e \in pending : Appends(a, e)
<1> USE DEF IInv, TypeOK
<1>1. /\ row'[a] = IF lock[a] = w THEN draft[a] ELSE row[a]
      /\ entries' = entries \cup {e \in pending : lock[e.account] = w}
      /\ ProjectionRequired(w) /\ InitialAllocationRequired(w)
  BY DEF Commit, CommitIsAccepted, VisibleEntries, OwnEntries
<1>2. CASE lock[a] # w
  BY <1>1, <1>2 DEF Of
<1>3. CASE lock[a] = w
  <2>1. Of(a)' = Of(a) \cup PendingOf(a)
    BY <1>1, <1>3 DEF Of, PendingOf
  <2>2. row'[a] = draft[a] /\ draft[a] \in AccountRow
    BY <1>1, <1>3, WriterAssumption DEF WorkIsLocked
  <2>3. \A e \in PendingOf(a) : /\ e \in pending /\ e.account = a /\ e \in Entry
                                /\ e.sequence = draft[a].version
                                /\ e.resulting = draft[a].balance
                                /\ e.currency = draft[a].currency
    BY <1>1, <1>3 DEF PendingOf, ProjectionRequired, OwnEntries, PendingIsValid
  <2>4. \A d, e \in PendingOf(a) : d = e
    BY <2>3 DEF PendingIsValid, IsUnique
  <2>5. ASSUME NEW e \in PendingOf(a)
        PROVE  Of(a)' = Of(a) \cup {e}
    <3>1. PendingOf(a) = {e}
      BY <2>4
    <3>2. QED
      BY <2>1, <3>1
  <2>6. CASE row[a] = NoRow
    <3>1. Of(a) = {}
      BY <2>6 DEF Safety, Gapless
    <3>2. PICK e \in PendingOf(a) : e.sequence = 1 /\ e.type = "INITIAL_ALLOCATION"
      BY <1>1, <1>3, <2>6, <3>1
      DEF InitialAllocationRequired, VisibleEntries, OwnEntries, PendingOf, Of
    <3>3. Appends(a, e)
      BY <2>2, <2>3, <2>5, <2>6, <3>1, <3>2 DEF Appends, Opening
    <3>4. QED
      BY <2>3, <3>3
  <2>7. CASE row[a] # NoRow
    <3>1. DraftFollowsRow(a) /\ row[a] \in AccountRow
      BY <2>7 DEF DraftIsAhead
    <3>2. row[a].version \in Nat /\ draft[a].version \in Nat
      BY <2>2, <3>1, BoundsAssumption DEF AccountRow
    <3>3. CASE draft[a].version = row[a].version
      <4>1. PendingOf(a) = {}
        BY <2>3, <2>7, <3>2, <3>3 DEF PendingIsValid, FollowsCommitted
      <4>2. QED
        BY <2>1, <2>2, <3>1, <3>3, <4>1 DEF DraftFollowsRow
    <3>4. CASE draft[a].version # row[a].version
      <4>1. draft[a].version >= row[a].version + 1
        BY <3>1, <3>2, <3>4 DEF DraftFollowsRow
      <4>2. row[a].version + 1 \in row[a].version + 1 .. draft[a].version
        BY <3>2, <4>1
      <4>3. PICK e \in PendingOf(a) : e.sequence = row[a].version + 1
        BY <3>1, <4>2 DEF DraftFollowsRow
      <4>4. /\ e.type # "INITIAL_ALLOCATION"
            /\ e.resulting = row[a].balance + e.delta
        BY <2>3, <2>7, <4>3 DEF PendingIsValid, FollowsCommitted
      <4>5. draft[a].currency = row[a].currency
        BY <3>1 DEF DraftFollowsRow
      <4>6. Appends(a, e)
        BY <2>2, <2>3, <2>5, <3>1, <4>3, <4>4, <4>5 DEF Appends, Continuing
      <4>7. QED
        BY <2>3, <4>6
    <3>5. QED
      BY <3>3, <3>4
  <2>8. QED
    BY <2>6, <2>7
<1>4. QED
  BY <1>2, <1>3

LEMMA CommitReferences ==
  ASSUME IInv, NEW w \in Writers, Commit(w)
  PROVE  ReferencesAreUsedOnce'
<1> USE DEF IInv, TypeOK
<1>1. entries' \subseteq entries \cup pending
  BY DEF Commit, CommitIsAccepted, VisibleEntries, OwnEntries
<1>2. ASSUME NEW d \in entries \cup pending, NEW e \in entries \cup pending, d # e
      PROVE  ~SameReference(d, e)
  <2>1. CASE e \in pending
    BY <1>2, <2>1 DEF PendingIsValid, IsUnique
  <2>2. CASE d \in pending
    <3>1. ~SameReference(e, d)
      BY <1>2, <2>2 DEF PendingIsValid, IsUnique
    <3>2. QED
      BY <3>1, SameReferenceSymmetric
  <2>3. CASE d \in entries /\ e \in entries
    BY <1>2, <2>3 DEF ReferencesAreUsedOnce
  <2>4. QED
    BY <2>1, <2>2, <2>3
<1>3. QED
  BY <1>1, <1>2 DEF ReferencesAreUsedOnce

LEMMA CommitGapless ==
  ASSUME IInv, NEW w \in Writers, Commit(w)
  PROVE  Gapless'
<1> USE DEF IInv, TypeOK
<1> SUFFICES ASSUME NEW a \in Accounts
             PROVE  /\ row'[a] = NoRow => Of(a)' = {}
                    /\ row'[a] # NoRow =>
                         /\ \A i \in 1 .. row'[a].version :
                              \E e \in Of(a)' : e.sequence = i
                         /\ \A e \in Of(a)' : e.sequence <= row'[a].version
                    /\ \A d, e \in Of(a)' : d.sequence = e.sequence => d = e
  BY DEF Gapless
<1>1. CASE Of(a)' = Of(a) /\ row'[a] = row[a]
  BY <1>1 DEF Safety, Gapless
<1>2. ASSUME NEW n \in pending, Appends(a, n), Opening(a, n)
      PROVE  /\ row'[a] # NoRow
             /\ \A i \in 1 .. row'[a].version : \E e \in Of(a)' : e.sequence = i
             /\ \A e \in Of(a)' : e.sequence <= row'[a].version
             /\ \A d, e \in Of(a)' : d.sequence = e.sequence => d = e
  BY <1>2, RowAssumption DEF Appends, Opening
<1>3. ASSUME NEW n \in pending, Appends(a, n), Continuing(a, n)
      PROVE  /\ row'[a] # NoRow
             /\ \A i \in 1 .. row'[a].version : \E e \in Of(a)' : e.sequence = i
             /\ \A e \in Of(a)' : e.sequence <= row'[a].version
             /\ \A d, e \in Of(a)' : d.sequence = e.sequence => d = e
  <2>1. row'[a] # NoRow /\ row[a] # NoRow /\ row[a].version \in Nat
    BY <1>3, RowAssumption, BoundsAssumption DEF Appends, Continuing, AccountRow
  <2>2. /\ \A i \in 1 .. row[a].version : \E e \in Of(a) : e.sequence = i
        /\ \A e \in Of(a) : e.sequence \in Nat /\ e.sequence <= row[a].version
        /\ \A d, e \in Of(a) : d.sequence = e.sequence => d = e
    BY <2>1, BoundsAssumption DEF Safety, Gapless, Of, Entry
  <2>3. Of(a)' = Of(a) \cup {n} /\ n.sequence = row[a].version + 1
        /\ row'[a].version = row[a].version + 1
    BY <1>3 DEF Appends, Continuing
  <2>4. \A i \in 1 .. row[a].version + 1 : i \in 1 .. row[a].version \/ i = row[a].version + 1
    BY <2>1
  <2>5. QED
    BY <2>1, <2>2, <2>3, <2>4
<1>4. QED
  BY <1>1, <1>2, <1>3, CommitGrowth DEF Appends

LEMMA CommitChained ==
  ASSUME IInv, TypeOK', NEW w \in Writers, Commit(w)
  PROVE  Chained'
<1> USE DEF IInv, TypeOK
<1> SUFFICES ASSUME NEW d \in entries', NEW e \in entries',
                    d.account = e.account, e.sequence = d.sequence + 1
             PROVE  e.resulting = d.resulting + e.delta
  BY DEF Chained
<1> DEFINE a == d.account
<1>1. a \in Accounts /\ d \in Of(a)' /\ e \in Of(a)'
      /\ d.sequence \in Nat /\ e.sequence \in Nat
  BY BoundsAssumption DEF Of, Entry
<1>2. CASE d \in entries /\ e \in entries
  BY <1>2 DEF Safety, Chained
<1>3. CASE ~(d \in entries /\ e \in entries)
  <2>1. PICK n \in pending : Appends(a, n)
    BY <1>1, <1>3, CommitGrowth DEF Of
  <2>2. CASE Opening(a, n)
    BY <1>1, <2>1, <2>2 DEF Appends, Opening
  <2>3. CASE Continuing(a, n)
    <3>1. row[a] # NoRow /\ row[a].version \in Nat
      BY <2>3, RowAssumption, BoundsAssumption DEF Continuing, AccountRow
    <3>2. \A f \in Of(a) : f.sequence <= row[a].version
      BY <1>1, <3>1 DEF Safety, Gapless
    <3>3. n.sequence = row[a].version + 1 /\ Of(a)' = Of(a) \cup {n}
      BY <2>1, <2>3 DEF Appends, Continuing
    <3>4. d \in Of(a) /\ e = n
      BY <1>1, <1>3, <3>1, <3>2, <3>3 DEF Of
    <3>5. PICK f \in Of(a) : f.sequence = row[a].version /\ f.resulting = row[a].balance
      BY <1>1, <3>1 DEF Safety, Projected
    <3>6. d = f
      BY <1>1, <3>1, <3>3, <3>4, <3>5 DEF Safety, Gapless
    <3>7. QED
      BY <2>3, <3>4, <3>5, <3>6 DEF Continuing
  <2>4. QED
    BY <2>1, <2>2, <2>3 DEF Appends
<1>4. QED
  BY <1>2, <1>3

LEMMA CommitRows ==
  ASSUME IInv, TypeOK', NEW w \in Writers, Commit(w)
  PROVE  Projected' /\ OpensWithAllocation' /\ OneCurrency'
<1> USE DEF IInv, TypeOK
<1>1. Projected'
  <2> SUFFICES ASSUME NEW a \in Accounts, row'[a] # NoRow
               PROVE  \E e \in Of(a)' : /\ e.sequence = row'[a].version
                                        /\ e.resulting = row'[a].balance
    BY DEF Projected
  <2>1. CASE Of(a)' = Of(a) /\ row'[a] = row[a]
    BY <2>1 DEF Safety, Projected
  <2>2. ASSUME NEW e \in pending, Appends(a, e)
        PROVE  /\ e \in Of(a)'
               /\ e.sequence = row'[a].version
               /\ e.resulting = row'[a].balance
    BY <2>2 DEF Appends
  <2>3. QED
    BY <2>1, <2>2, CommitGrowth
<1>2. ASSUME NEW e \in entries'
      PROVE  /\ e.type = "INITIAL_ALLOCATION" <=> e.sequence = 1
             /\ row'[e.account] # NoRow
             /\ row'[e.account].currency = e.currency
  <2> DEFINE a == e.account
             Goal == /\ e.type = "INITIAL_ALLOCATION" <=> e.sequence = 1
                     /\ row'[a] # NoRow
                     /\ row'[a].currency = e.currency
  <2>1. a \in Accounts /\ e \in Of(a)'
    BY DEF Of, Entry
  <2>2. CASE Of(a)' = Of(a) /\ row'[a] = row[a]
    BY <2>1, <2>2 DEF Safety, OpensWithAllocation, OneCurrency, Of
  <2>3. ASSUME NEW n \in pending, Appends(a, n), Opening(a, n)
        PROVE  Goal
    BY <2>1, <2>3, RowAssumption DEF Appends, Opening
  <2>4. ASSUME NEW n \in pending, Appends(a, n), Continuing(a, n)
        PROVE  Goal
    <3>1. row[a] # NoRow /\ row[a].version \in Nat /\ row'[a] # NoRow
      BY <2>4, RowAssumption, BoundsAssumption DEF Appends, Continuing, AccountRow
    <3>2. row[a].version >= 1
      BY <2>1, <3>1 DEF DraftIsAhead, DraftFollowsRow
    <3>3. CASE e = n
      BY <2>4, <3>1, <3>2, <3>3 DEF Appends, Continuing
    <3>4. CASE e \in entries
      BY <2>4, <3>1, <3>4 DEF Appends, Continuing, Safety, OpensWithAllocation, OneCurrency
    <3>5. QED
      BY <2>1, <2>4, <3>3, <3>4 DEF Appends, Of
  <2>5. QED
    BY <2>1, <2>2, <2>3, <2>4, CommitGrowth DEF Appends
<1>3. OpensWithAllocation' /\ OneCurrency'
  BY <1>2 DEF OpensWithAllocation, OneCurrency
<1>4. QED
  BY <1>1, <1>3

LEMMA CommitRefunds ==
  ASSUME IInv, TypeOK', NEW w \in Writers, Commit(w)
  PROVE  RefundsAreBacked'
<1> USE DEF IInv, TypeOK
<1>1. entries' = entries \cup {e \in pending : lock[e.account] = w}
  BY DEF Commit, CommitIsAccepted, VisibleEntries, OwnEntries
<1> SUFFICES ASSUME NEW e \in entries', e.type = "CANCELLATION_REFUND"
             PROVE  /\ \E d \in Of(e.account)' : /\ d.type = "BOOKING_DEBIT"
                                                 /\ d.reference = e.reference
                                                 /\ d.sequence < e.sequence
                                                 /\ d.currency = e.currency
                                                 /\ d.delta + e.delta <= 0
                    /\ \A f \in Of(e.account)' :
                         f.type = "CANCELLATION_REFUND" /\ f.reference = e.reference
                           => f = e
  BY DEF RefundsAreBacked
<1>2. \A f \in Of(e.account)' :
        f.type = "CANCELLATION_REFUND" /\ f.reference = e.reference => f = e
  BY CommitReferences DEF ReferencesAreUsedOnce, SameReference, Of
<1>3. CASE e \in entries
  BY <1>1, <1>2, <1>3 DEF Safety, RefundsAreBacked, Of
<1>4. CASE e \in pending /\ lock[e.account] = w
  <2>1. PICK d \in entries \cup pending : /\ d.account = e.account
                                          /\ d.type = "BOOKING_DEBIT"
                                          /\ d.reference = e.reference
                                          /\ d.sequence < e.sequence
                                          /\ d.currency = e.currency
                                          /\ e.delta <= -d.delta
    BY <1>4 DEF PendingIsValid, RefundHasDebit
  <2>2. d \in Of(e.account)'
    BY <1>1, <1>4, <2>1 DEF Of
  <2>3. d.delta \in Int /\ e.delta \in Int
    BY <1>4, <2>1, BoundsAssumption DEF Entry, Deltas
  <2>4. d.delta + e.delta <= 0
    BY <2>1, <2>3
  <2>5. QED
    BY <1>2, <2>1, <2>2, <2>4
<1>5. QED
  BY <1>1, <1>3, <1>4

LEMMA CommitAudits ==
  ASSUME IInv, TypeOK', NEW w \in Writers, Commit(w)
  PROVE  AdjustmentsAreAudited'
<1> USE DEF IInv, TypeOK
<1>1. /\ entries' = entries \cup {e \in pending : lock[e.account] = w}
      /\ audits' = audits \cup {u \in pendingAudits : lock[u.account] = w}
  BY DEF Commit, CommitIsAccepted, VisibleEntries, OwnEntries, VisibleAudits, OwnAudits
<1>2. ASSUME NEW u \in audits'
      PROVE  \E e \in Of(u.account)' : /\ e.sequence = u.sequence
                                       /\ e.type = "MANUAL_ADJUSTMENT"
                                       /\ e.actor = u.actor
                                       /\ u.before + e.delta = u.after
                                       /\ u.after = e.resulting
  <2>1. CASE u \in audits
    BY <1>1, <2>1 DEF Safety, AdjustmentsAreAudited, Of
  <2>2. CASE u \in pendingAudits /\ lock[u.account] = w
    <3>1. PICK e \in pending : /\ e.account = u.account
                               /\ e.sequence = u.sequence
                               /\ e.type = "MANUAL_ADJUSTMENT"
                               /\ e.actor = u.actor
                               /\ u.before = e.resulting - e.delta
                               /\ u.after = e.resulting
      BY <2>2 DEF PendingAuditsAreValid, AuditGuard
    <3>2. e \in Of(u.account)'
      BY <1>1, <2>2, <3>1 DEF Of
    <3>3. e.resulting \in Int /\ e.delta \in Int
      BY <3>1, BoundsAssumption DEF Entry, Deltas, Balances
    <3>4. u.before + e.delta = u.after
      BY <3>1, <3>3
    <3>5. QED
      BY <3>1, <3>2, <3>4
  <2>3. QED
    BY <1>1, <2>1, <2>2
<1>3. ASSUME NEW e \in entries', e.type = "MANUAL_ADJUSTMENT"
      PROVE  \E u \in audits' : u.account = e.account /\ u.sequence = e.sequence
  <2>1. CASE e \in entries
    BY <1>1, <1>3, <2>1 DEF Safety, AdjustmentsAreAudited
  <2>2. CASE e \in pending /\ lock[e.account] = w
    BY <1>3, <2>2 DEF Commit, CommitIsAccepted, ManualAuditRequired, OwnEntries
  <2>3. QED
    BY <1>1, <2>1, <2>2
<1>4. ASSUME NEW u \in audits', NEW v \in audits',
             u.account = v.account, u.sequence = v.sequence
      PROVE  u = v
  <2>1. ASSUME NEW x \in audits, NEW y \in pendingAudits,
               x.account = y.account, x.sequence = y.sequence
        PROVE  FALSE
    <3>1. PICK e \in Of(x.account) : e.sequence = x.sequence
      BY DEF Safety, AdjustmentsAreAudited
    <3>2. PICK p \in pending : p.account = y.account /\ p.sequence = y.sequence
      BY DEF PendingAuditsAreValid, AuditGuard
    <3>3. p.account \in Accounts /\ row[p.account] # NoRow
      BY <2>1, <3>1, <3>2 DEF Safety, Gapless, Entry
    <3>4. p.sequence > row[p.account].version /\ e.sequence <= row[p.account].version
      BY <2>1, <3>1, <3>2, <3>3 DEF Safety, Gapless, PendingIsValid, FollowsCommitted
    <3>5. e.sequence \in Nat /\ p.sequence \in Nat /\ row[p.account].version \in Nat
      BY <3>1, <3>2, <3>3, BoundsAssumption DEF Of, Entry, AccountRow
    <3>6. QED
      BY <2>1, <3>1, <3>2, <3>4, <3>5
  <2>2. QED
    BY <1>1, <1>4, <2>1 DEF Safety, AdjustmentsAreAudited, PendingAuditsAreValid
<1>5. QED
  BY <1>2, <1>3, <1>4 DEF AdjustmentsAreAudited

LEMMA CommitWork ==
  ASSUME IInv, TypeOK', NEW w \in Writers, Commit(w)
  PROVE  Work'
<1> USE DEF IInv, TypeOK
<1>1. /\ entries' = entries \cup {e \in pending : lock[e.account] = w}
      /\ pending' = {e \in pending : lock[e.account] # w}
      /\ pendingAudits' = {u \in pendingAudits : lock[u.account] # w}
      /\ lock' = [a \in Accounts |-> IF lock[a] = w THEN NoWriter ELSE lock[a]]
      /\ row' = [a \in Accounts |-> IF lock[a] = w THEN draft[a] ELSE row[a]]
      /\ draft' = draft
  BY DEF Commit, CommitIsAccepted, Discard, VisibleEntries, OwnEntries, OwnAudits
<1>2. WorkIsLocked'
  BY <1>1, WriterAssumption DEF WorkIsLocked, Entry
<1>3. DraftIsAhead'
  <2> SUFFICES ASSUME NEW b \in Accounts, row'[b] # NoRow
               PROVE  DraftFollowsRow(b)'
    BY DEF DraftIsAhead
  <2>1. CASE lock[b] = w
    <3>1. row'[b] = draft[b] /\ draft'[b] = draft[b] /\ row'[b] \in AccountRow
      BY <1>1, <2>1
    <3>2. row'[b].version >= 1
      <4>1. CASE row'[b] = row[b]
        BY <4>1 DEF DraftIsAhead, DraftFollowsRow
      <4>2. ASSUME NEW e \in pending, Appends(b, e)
            PROVE  row'[b].version >= 1
        BY <4>2, BoundsAssumption DEF Appends, Entry
      <4>3. QED
        BY <4>1, <4>2, CommitGrowth
    <3>3. row'[b].version \in Nat
      BY <3>1, BoundsAssumption DEF AccountRow
    <3>4. QED
      BY <3>1, <3>2, <3>3 DEF DraftFollowsRow
  <2>2. CASE lock[b] # w
    <3>1. row'[b] = row[b] /\ draft'[b] = draft[b] /\ PendingOf(b)' = PendingOf(b)
      BY <1>1, <2>2 DEF PendingOf
    <3>2. QED
      BY <3>1 DEF DraftIsAhead, DraftFollowsRow
  <2>3. QED
    BY <2>1, <2>2
<1>4. PendingIsValid'
  <2> SUFFICES ASSUME NEW e \in pending, lock[e.account] # w
               PROVE  /\ e.currency = draft[e.account].currency
                      /\ DirectionIsValid(e)
                      /\ ManualActorIsUser(e)
                      /\ RefundHasDebit(entries' \cup pending', e)
                      /\ IsUnique(e)'
                      /\ FollowsCommitted(e)'
    BY <1>1 DEF PendingIsValid
  <2>1. entries' \cup pending' = entries \cup pending /\ pending' \subseteq pending
    BY <1>1
  <2>2. row'[e.account] = row[e.account]
    BY <1>1 DEF Entry
  <2>3. IsUnique(e)' /\ FollowsCommitted(e)'
    BY <2>1, <2>2 DEF PendingIsValid, IsUnique, FollowsCommitted
  <2>4. QED
    BY <2>1, <2>3 DEF PendingIsValid
<1>5. PendingAuditsAreValid'
  BY <1>1 DEF PendingAuditsAreValid, AuditGuard
<1>6. QED
  BY <1>2, <1>3, <1>4, <1>5 DEF Work

-----------------------------------------------------------------------------
LEMMA InvariantStep == IInv /\ [Next]_storeVars => IInv'
<1> SUFFICES ASSUME IInv, [Next]_storeVars PROVE IInv'
  OBVIOUS
<1>1. TypeOK'
  BY TypeStep DEF IInv
<1>2. ASSUME UNCHANGED <<row, entries, audits>>, Work'
      PROVE  IInv'
  BY <1>1, <1>2, CommittedUnchanged DEF IInv, Work
<1>3. ASSUME NEW w \in Writers, NEW a \in Accounts, LockAccount(w, a)
      PROVE  IInv'
  BY <1>2, <1>3, LockAccountStep DEF LockAccount
<1>4. ASSUME NEW w \in Writers, NEW a \in Accounts, NEW r \in AccountRow,
             InsertAccount(w, a, r)
      PROVE  IInv'
  BY <1>2, <1>4, InsertAccountStep DEF InsertAccount
<1>5. ASSUME NEW w \in Writers, NEW e \in Entry, InsertEntry(w, e)
      PROVE  IInv'
  BY <1>2, <1>5, InsertEntryStep DEF InsertEntry, EntryIsAccepted
<1>6. ASSUME NEW w \in Writers, NEW a \in Accounts, NEW r \in AccountRow,
             UpdateAccount(w, a, r)
      PROVE  IInv'
  BY <1>2, <1>6, UpdateAccountStep DEF UpdateAccount, UpdateIsAccepted
<1>7. ASSUME NEW w \in Writers, NEW u \in Audit, InsertAudit(w, u)
      PROVE  IInv'
  BY <1>2, <1>7, InsertAuditStep DEF InsertAudit
<1>8. ASSUME NEW w \in Writers, Commit(w)
      PROVE  IInv'
  BY <1>1, <1>8, CommitGapless, CommitChained, CommitRows, CommitRefunds,
     CommitAudits, CommitReferences, CommitWork
  DEF IInv, Safety, Work
<1>9. ASSUME NEW w \in Writers, Rollback(w)
      PROVE  IInv'
  BY <1>2, <1>9, RollbackStep DEF Rollback
<1>10. CASE UNCHANGED storeVars
  <2>1. Work'
    BY <1>10 DEF storeVars, IInv, Work, WorkIsLocked, DraftIsAhead, DraftFollowsRow,
       PendingOf, PendingIsValid, IsUnique, FollowsCommitted, PendingAuditsAreValid
  <2>2. QED
    BY <1>2, <1>10, <2>1 DEF storeVars
<1>11. QED
  BY <1>3, <1>4, <1>5, <1>6, <1>7, <1>8, <1>9, <1>10 DEF Next

(* The strengthened invariant: the committed tables are consistent, and all *)
(* work in progress can only be committed in a way that keeps them so.      *)
THEOREM InvariantHolds == Spec => []IInv
<1>1. Init => IInv
  BY DEF Init, IInv, TypeOK, Safety, Gapless, Chained, Projected,
     OpensWithAllocation, RefundsAreBacked, AdjustmentsAreAudited, OneCurrency, Of,
     ReferencesAreUsedOnce, WorkIsLocked, DraftIsAhead, PendingIsValid,
     PendingAuditsAreValid
<1>2. QED
  BY <1>1, InvariantStep, PTL DEF Spec

(* Whatever a program that may write the tables does, and however its       *)
(* transactions interleave, the constraints and triggers alone keep every   *)
(* committed history gapless, chained, projected into the cached balance,   *)
(* opened by an allocation, with backed refunds, audited adjustments and    *)
(* one currency.                                                            *)
THEOREM TriggersKeepLedger ==
  Spec => [](Gapless /\ Chained /\ Projected /\ OpensWithAllocation
             /\ RefundsAreBacked /\ AdjustmentsAreAudited /\ OneCurrency)
<1>1. IInv => /\ Gapless /\ Chained /\ Projected /\ OpensWithAllocation
              /\ RefundsAreBacked /\ AdjustmentsAreAudited /\ OneCurrency
  BY DEF IInv, Safety
<1>2. QED
  BY <1>1, InvariantHolds, PTL

(* The balance each entry states follows from the one before, whoever wrote *)
(* either.                                                                  *)
THEOREM BalancesAreChained == Spec => []Chained
BY TriggersKeepLedger, PTL

(* The cached version and balance of an account are those of its last entry *)
(* once the writing transaction has committed.                              *)
THEOREM CacheIsProjected == Spec => []Projected
BY TriggersKeepLedger, PTL

(* A refund gives back what one earlier debit of its booking took.          *)
THEOREM RefundsStayBacked == Spec => []RefundsAreBacked
BY TriggersKeepLedger, PTL

(* No manual adjustment is committed without its audit row, nor the row     *)
(* without the adjustment.                                                  *)
THEOREM AdjustmentsStayAudited == Spec => []AdjustmentsAreAudited
BY TriggersKeepLedger, PTL

-----------------------------------------------------------------------------
(* A step that is not a commit changes no committed row.                    *)
LEMMA OnlyCommitsCount ==
  ASSUME Next, \A w \in Writers : ~Commit(w)
  PROVE  UNCHANGED <<row, entries, audits>>
BY DEF Next, LockAccount, InsertAccount, InsertEntry, EntryIsAccepted, UpdateAccount, InsertAudit,
       Rollback

(* Committed history only grows, by at most one entry of an account at a    *)
(* time, and the cached row changes only together with it.                  *)
THEOREM HistoryOnlyGrows == Spec => AppendOnly
<1> DEFINE Grown == /\ entries \subseteq entries'
                    /\ audits \subseteq audits'
                    /\ \A a \in Accounts :
                         row[a] # NoRow =>
                           /\ row'[a] # NoRow
                           /\ row'[a].currency = row[a].currency
                           /\ row'[a].version = row[a].version => row'[a] = row[a]
                           /\ row'[a].version \in {row[a].version, row[a].version + 1}
<1>1. ASSUME IInv, NEW w \in Writers, Commit(w)
      PROVE  Grown
  <2>1. entries \subseteq entries' /\ audits \subseteq audits'
    BY <1>1 DEF Commit, CommitIsAccepted, VisibleEntries, VisibleAudits
  <2>2. ASSUME NEW a \in Accounts, row[a] # NoRow
        PROVE  /\ row'[a] # NoRow
               /\ row'[a].currency = row[a].currency
               /\ row'[a].version = row[a].version => row'[a] = row[a]
               /\ row'[a].version \in {row[a].version, row[a].version + 1}
    <3>1. row[a] \in AccountRow /\ row[a].version \in Nat
      BY <1>1, <2>2, BoundsAssumption DEF IInv, TypeOK, AccountRow
    <3>2. CASE row'[a] = row[a]
      BY <2>2, <3>2
    <3>3. ASSUME NEW e \in pending, Appends(a, e)
          PROVE  /\ row'[a] # NoRow
                 /\ row'[a].currency = row[a].currency
                 /\ row'[a].version = row[a].version + 1
      BY <2>2, <3>1, <3>3, RowAssumption DEF Appends, Opening, Continuing
    <3>4. QED
      BY <1>1, <3>1, <3>2, <3>3, CommitGrowth
  <2>3. QED
    BY <2>1, <2>2
<1>2. ASSUME IInv, UNCHANGED <<row, entries, audits>>
      PROVE  Grown
  BY <1>2 DEF IInv, TypeOK
<1>3. IInv /\ [Next]_storeVars => [Grown]_storeVars
  BY <1>1, <1>2, OnlyCommitsCount
<1>4. QED
  BY <1>3, InvariantHolds, PTL DEF Spec, AppendOnly

(* The entry that a commit adds to an account is one the abstract ledger    *)
(* accepts after the account's history.                                     *)
LEMMA AppendedEntryIsValid ==
  ASSUME IInv, IInv', NEW a \in Accounts, NEW e \in pending, Appends(a, e), e \notin Of(a)
  PROVE  Ledger!ValidEntry(Of(a), e)
<1> USE DEF IInv, TypeOK
<1>1. Ledger!Opens(Of(a), e) \/ Ledger!Continues(Of(a), e)
  <2>1. CASE Opening(a, e)
    BY <2>1 DEF Opening, Ledger!Opens
  <2>2. CASE Continuing(a, e)
    <3>1. row[a] # NoRow
      BY <2>2, RowAssumption DEF Continuing
    <3>2. PICK l \in Of(a) : l.sequence = row[a].version /\ l.resulting = row[a].balance
      BY <3>1 DEF Safety, Projected
    <3>3. \A h \in Of(a) : h.sequence <= l.sequence
      BY <3>1, <3>2 DEF Safety, Gapless
    <3>4. l.currency = row[a].currency
      BY <3>2 DEF Safety, OneCurrency, Of
    <3>5. QED
      BY <2>2, <3>2, <3>3, <3>4 DEF Continuing, Ledger!Continues
  <2>3. QED
    BY <2>1, <2>2 DEF Appends
<1>2. Ledger!DirectionIsValid(e) /\ Ledger!ManualActorIsUser(e)
  BY DEF PendingIsValid, DirectionIsValid, ManualActorIsUser,
         Ledger!DirectionIsValid, Ledger!ManualActorIsUser,
         CreditTypes, DebitTypes, Ledger!CreditTypes, Ledger!DebitTypes
<1>3. Ledger!RefundHasDebit(Of(a), e)
  <2> SUFFICES ASSUME e.type = "CANCELLATION_REFUND"
               PROVE  \E d \in Of(a) : /\ d.account = e.account
                                       /\ d.type = "BOOKING_DEBIT"
                                       /\ d.reference = e.reference
                                       /\ d.sequence < e.sequence
                                       /\ d.currency = e.currency
                                       /\ e.delta <= -d.delta
    BY DEF Ledger!RefundHasDebit
  <2>1. e \in entries' /\ e.account = a /\ Of(a)' = Of(a) \cup {e}
    BY DEF Appends, Of
  <2>2. PICK d \in Of(a)' : /\ d.type = "BOOKING_DEBIT"
                            /\ d.reference = e.reference
                            /\ d.sequence < e.sequence
                            /\ d.currency = e.currency
                            /\ d.delta + e.delta <= 0
    BY <2>1 DEF Safety, RefundsAreBacked
  <2>3. d \in Of(a) /\ d.account = e.account
    BY <2>1, <2>2 DEF Of
  <2>4. d.delta \in Int /\ e.delta \in Int
    BY <2>3, BoundsAssumption DEF Of, Entry, Deltas
  <2>5. QED
    BY <2>2, <2>3, <2>4
<1>4. \A h \in Of(a) : ~Ledger!SameReference(h, e)
  <2> SUFFICES ASSUME NEW h \in Of(a) PROVE ~Ledger!SameReference(h, e)
    OBVIOUS
  <2>1. ~SameReference(e, h)
    BY DEF PendingIsValid, IsUnique, Of, ReferencesAreUsedOnce, Appends
  <2>2. ~SameReference(h, e)
    BY <2>1, SameReferenceSymmetric
  <2>3. QED
    BY <2>2 DEF SameReference, Ledger!SameReference, ReferenceType, Ledger!ReferenceType
<1>5. QED
  BY <1>1, <1>2, <1>3, <1>4 DEF Ledger!ValidEntry

(* The tables under their triggers implement the ledger's promise: every    *)
(* committed transaction, by any program, is a step of AllowanceLedger.     *)
THEOREM StoreImplementsLedger == Spec => ImplementsLedger
<1> DEFINE abstract == [a \in Accounts |-> Of(a)]
<1>1. Init => Ledger!LedgerInit
  BY DEF Init, Ledger!LedgerInit, Of
<1>2. ASSUME IInv, IInv', NEW w \in Writers, Commit(w)
      PROVE  Ledger!LedgerNext
  <2>1. abstract' \in [Accounts -> SUBSET Ledger!Entry]
    BY <1>2 DEF IInv, TypeOK, Of, Entry, Ledger!Entry, Deltas, Ledger!Deltas, Balances,
                Ledger!Balances, Actors, Ledger!Actors, TransactionTypes,
                Ledger!TransactionTypes, CreditTypes, Ledger!CreditTypes, DebitTypes,
                Ledger!DebitTypes
  <2>2. ASSUME NEW a \in Accounts
        PROVE  \/ Of(a)' = Of(a)
               \/ \E e \in Ledger!Entry : /\ e.account = a
                                          /\ Ledger!ValidEntry(Of(a), e)
                                          /\ Of(a)' = Of(a) \cup {e}
    <3>1. ASSUME NEW e \in pending, Appends(a, e), e \notin Of(a)
          PROVE  /\ e \in Ledger!Entry /\ e.account = a
                 /\ Ledger!ValidEntry(Of(a), e)
                 /\ Of(a)' = Of(a) \cup {e}
      <4>1. e \in Of(a)' /\ e.account = a /\ Of(a)' = Of(a) \cup {e}
        BY <3>1 DEF Appends
      <4>2. Ledger!ValidEntry(Of(a), e)
        BY <1>2, <3>1, AppendedEntryIsValid
      <4>3. e \in Ledger!Entry
        BY <2>1, <4>1
      <4>4. QED
        BY <4>1, <4>2, <4>3
    <3>2. ASSUME NEW e \in pending, Appends(a, e), e \in Of(a)
          PROVE  Of(a)' = Of(a)
      BY <3>2 DEF Appends
    <3>3. QED
      BY <1>2, <3>1, <3>2, CommitGrowth
  <2>3. Ledger!Grow
    BY <2>2 DEF Ledger!Grow
  <2>4. QED
    BY <2>1, <2>3 DEF Ledger!LedgerNext
<1>3. ASSUME UNCHANGED <<row, entries, audits>>
      PROVE  UNCHANGED abstract
  BY <1>3 DEF Of
<1>4. IInv /\ IInv' /\ [Next]_storeVars => [Ledger!LedgerNext]_abstract
  BY <1>2, <1>3, OnlyCommitsCount DEF storeVars
<1>5. QED
  BY <1>1, <1>4, InvariantHolds, PTL DEF Spec, ImplementsLedger, Ledger!LedgerSpec

-----------------------------------------------------------------------------
(* What request p has established by the statement it executes next.        *)
HasCommand(p) == cmd[p] \in Commands \/ (At(p, "idle") /\ result[p] = "none")
FoundAccount(p) == At(p, "read") => row[Account(p)] # NoRow
SawRow(p) == pc[p] \in {"decide", "insert", "audit", "update", "commit"} =>
               seenRow[p] \in AccountRow
HasEntry(p) == pc[p] \in {"audit", "update", "commit"} => Candidate(p) \in Entry

Progress(p) == HasCommand(p) /\ FoundAccount(p) /\ SawRow(p) /\ HasEntry(p)

ServiceInv == ServiceTypeOK /\ IInv /\ \A p \in Writers : Progress(p)

-----------------------------------------------------------------------------
(* A command of a running request has the columns of one.                   *)
LEMMA RunningCommand ==
  ASSUME ServiceInv, NEW p \in Writers, pc[p] # "idle"
  PROVE  /\ cmd[p] \in Commands
         /\ Account(p) \in Accounts
         /\ cmd[p].currency \in Currencies
         /\ cmd[p].actor \in Actors
BY CommandsAssumption DEF ServiceInv, Progress, HasCommand, At, Command, Account, Actors

(* The row a request sees of an existing account is a row.                  *)
LEMMA ViewIsRow ==
  ASSUME ServiceInv, NEW p \in Writers, pc[p] # "idle"
  PROVE  /\ View(p) \in AccountRow \cup {NoRow}
         /\ row[Account(p)] # NoRow => View(p) \in AccountRow
BY RunningCommand DEF ServiceInv, View, IInv, TypeOK, DraftIsAhead, DraftFollowsRow

(* A statement of transaction w, or none.                                   *)
Statement(w) ==
  \/ \E a \in Accounts : LockAccount(w, a)
  \/ \E a \in Accounts, r \in AccountRow : InsertAccount(w, a, r)
  \/ \E e \in Entry : InsertEntry(w, e)
  \/ \E a \in Accounts, r \in AccountRow : UpdateAccount(w, a, r)
  \/ \E u \in Audit : InsertAudit(w, u)
  \/ Commit(w)
  \/ Rollback(w)
  \/ UNCHANGED storeVars

LEMMA EndTransactionStep ==
  ASSUME NEW p \in Writers, EndTransaction(p)
  PROVE  Statement(p)
BY DEF EndTransaction, Statement

(* The columns of the entry a request is about to append, or has appended.  *)
LEMMA CandidateColumns ==
  ASSUME NEW p \in Writers
  PROVE  /\ Candidate(p).account = Account(p)
         /\ Candidate(p).sequence = seenRow[p].version + 1
         /\ Candidate(p).resulting = seenRow[p].balance + cmd[p].delta
         /\ Candidate(p).currency = cmd[p].currency
         /\ Candidate(p).actor = cmd[p].actor
BY DEF Candidate, Requests!NewEntry, Account

LEMMA ProjectionStep ==
  ASSUME ServiceInv, NEW p \in Writers, UpdateProjection(p)
  PROVE  Statement(p)
<1> DEFINE r == [balance |-> Candidate(p).resulting, version |-> View(p).version + 1,
                 currency |-> View(p).currency]
<1>1. CASE Refuse(p, "dbError")
  BY <1>1, EndTransactionStep DEF Refuse
<1>2. CASE /\ View(p).version = seenRow[p].version
           /\ UpdateIsAccepted(p, Account(p), r)
           /\ UpdateAccount(p, Account(p), r)
  <2>1. Candidate(p) \in Entry /\ Account(p) \in Accounts
    BY RunningCommand DEF UpdateProjection, At, ServiceInv, Progress, HasEntry
  <2>2. Candidate(p).resulting \in Balances
    BY <2>1 DEF Entry
  <2>3. View(p).version + 1 \in 0 .. MaxVersion
    <3>1. Candidate(p).sequence \in 1 .. MaxVersion
      BY <2>1 DEF Entry
    <3>2. View(p).version + 1 = Candidate(p).sequence
      BY <1>2, CandidateColumns
    <3>3. QED
      BY <3>1, <3>2, BoundsAssumption
  <2>4. View(p).currency \in Currencies
    <3>1. View(p).currency = draft[Account(p)].currency
      BY <1>2 DEF UpdateIsAccepted, IdentityIsKept
    <3>2. draft[Account(p)] \in AccountRow
      BY <1>2, <2>1 DEF UpdateIsAccepted, ServiceInv, IInv, TypeOK
    <3>3. QED
      BY <3>1, <3>2 DEF AccountRow
  <2>5. r \in AccountRow
    BY <2>2, <2>3, <2>4 DEF AccountRow
  <2>6. QED
    BY <1>2, <2>1, <2>5 DEF Statement
<1>3. QED
  BY <1>1, <1>2 DEF UpdateProjection

LEMMA AuditStep ==
  ASSUME ServiceInv, NEW p \in Writers, AuditAdjustment(p)
  PROVE  Statement(p)
<1> DEFINE u == [account |-> Account(p), sequence |-> Candidate(p).sequence,
                 actor |-> cmd[p].actor, before |-> seenRow[p].balance,
                 after |-> Candidate(p).resulting]
<1>1. CASE Refuse(p, "dbError")
  BY <1>1, EndTransactionStep DEF Refuse
<1>2. CASE InsertAudit(p, u)
  <2>1. /\ Candidate(p) \in Entry /\ seenRow[p] \in AccountRow
        /\ Account(p) \in Accounts /\ cmd[p].actor \in Actors
    BY RunningCommand DEF AuditAdjustment, At, ServiceInv, Progress, HasEntry, SawRow
  <2>2. u \in Audit
    BY <2>1 DEF Audit, Entry, AccountRow
  <2>3. QED
    BY <1>2, <2>2 DEF Statement
<1>3. QED
  BY <1>1, <1>2 DEF AuditAdjustment

LEMMA CreationStep ==
  ASSUME ServiceInv, NEW p \in Writers, CreateAccount(p)
  PROVE  Statement(p)
<1> DEFINE r == [balance |-> 0, version |-> 0, currency |-> cmd[p].currency]
<1>1. Account(p) \in Accounts /\ cmd[p].currency \in Currencies
  BY RunningCommand DEF CreateAccount, At
<1>2. r \in AccountRow
  BY <1>1, BoundsAssumption DEF AccountRow, Balances
<1>3. QED
  BY <1>1, <1>2 DEF CreateAccount, Statement

(* Every statement of the service is a statement the tables allow, or       *)
(* leaves them alone.                                                       *)
LEMMA OwnStatement ==
  ASSUME ServiceInv, NEW p \in Writers,
         \/ \E c \in Commands : Submit(p, c)
         \/ Resubmit(p) \/ Step(p) \/ Abort(p) \/ LoseAnswer(p)
  PROVE  Statement(p)
<1>1. CASE Authorize(p)
  BY <1>1, EndTransactionStep DEF Authorize, Refuse, Statement
<1>2. CASE ReadAccount(p)
  BY <1>2, EndTransactionStep DEF ReadAccount, Refuse, Statement
<1>3. CASE Lock(p)
  <2>1. Account(p) \in Accounts
    BY <1>3, RunningCommand DEF Lock, At
  <2>2. QED
    BY <1>3, <2>1, EndTransactionStep DEF Lock, AcquireLock, Refuse, Statement
<1>4. CASE Decide(p)
  BY <1>4, EndTransactionStep DEF Decide, Refuse, Statement
<1>5. CASE InsertTransaction(p)
  BY <1>5, EndTransactionStep DEF InsertTransaction, Fits, Refuse, Statement
<1>6. CASE CommitTransaction(p)
  BY <1>6, EndTransactionStep DEF CommitTransaction, Refuse, Statement
<1>7. CASE Abort(p)
  BY <1>7, EndTransactionStep DEF Abort, Refuse
<1>8. CASE \/ \E c \in Commands : Submit(p, c)
           \/ Resubmit(p) \/ ReadEmployee(p) \/ ResolveConcurrent(p) \/ Read(p)
           \/ LoseAnswer(p)
  BY <1>8 DEF Submit, Resubmit, ReadEmployee, ResolveConcurrent, Read, LoseAnswer, Statement
<1>9. QED
  BY <1>1, <1>2, <1>3, <1>4, <1>5, <1>6, <1>7, <1>8,
     ProjectionStep, AuditStep, CreationStep DEF Step

LEMMA StoreStep ==
  ASSUME ServiceInv, [ServiceNext]_serviceVars
  PROVE  [Next]_storeVars
<1>1. ASSUME NEW p \in Writers, Statement(p)
      PROVE  [Next]_storeVars
  BY <1>1 DEF Statement, Next
<1>2. CASE ChangeAuthority \/ ChangeEmployee \/ ChangeCurrency \/ UNCHANGED serviceVars
  BY <1>2 DEF ChangeAuthority, ChangeEmployee, ChangeCurrency, serviceVars
<1>3. QED
  BY <1>1, <1>2, OwnStatement DEF ServiceNext

-----------------------------------------------------------------------------
(* A committed account stays.                                               *)
LEMMA RowsStay ==
  ASSUME IInv, [Next]_storeVars, NEW a \in Accounts, row[a] # NoRow
  PROVE  row'[a] # NoRow
<1>1. ASSUME NEW w \in Writers, Commit(w)
      PROVE  row'[a] # NoRow
  BY <1>1 DEF Commit, IInv, DraftIsAhead, DraftFollowsRow
<1>2. CASE UNCHANGED <<row, entries, audits>>
  BY <1>2
<1>3. QED
  BY <1>1, <1>2, OnlyCommitsCount DEF storeVars

(* What request q has established does not depend on the others.            *)
LEMMA OthersKeepProgress ==
  ASSUME ServiceInv, [Next]_storeVars, NEW q \in Writers,
         pc'[q] = pc[q], cmd'[q] = cmd[q], result'[q] = result[q], seenRow'[q] = seenRow[q]
  PROVE  Progress(q)'
<1>1. Account(q)' = Account(q) /\ Candidate(q)' = Candidate(q)
  BY DEF Account, Candidate, Requests!NewEntry
<1>2. FoundAccount(q)'
  <2> SUFFICES ASSUME pc[q] = "read" PROVE row'[Account(q)] # NoRow
    BY <1>1 DEF FoundAccount, At
  <2>1. Account(q) \in Accounts /\ row[Account(q)] # NoRow
    BY RunningCommand DEF ServiceInv, Progress, FoundAccount, At
  <2>2. QED
    BY <2>1, RowsStay DEF ServiceInv
<1>3. QED
  BY <1>1, <1>2 DEF ServiceInv, Progress, HasCommand, SawRow, HasEntry, At

(* A request that ends keeps its command and is past every other statement. *)
LEMMA RefuseKeeps ==
  ASSUME ServiceInv, TypeOK', [Next]_storeVars, NEW p \in Writers, pc[p] # "idle",
         NEW r \in Requests!Results, Refuse(p, r), UNCHANGED environmentVars
  PROVE  ServiceTypeOK' /\ \A q \in Writers : Progress(q)'
<1> USE DEF Refuse, Goto
<1>1. ServiceTypeOK'
  BY DEF ServiceInv, ServiceTypeOK, environmentVars
<1>2. Progress(p)'
  BY RunningCommand DEF ServiceInv, ServiceTypeOK, Progress, HasCommand, FoundAccount,
                        SawRow, HasEntry, At
<1>3. ASSUME NEW q \in Writers, q # p
      PROVE  Progress(q)'
  BY <1>3, OthersKeepProgress DEF ServiceInv, ServiceTypeOK
<1>4. QED
  BY <1>1, <1>2, <1>3

(* A step of p that keeps the types and what p has established keeps        *)
(* everything, since the other requests do not notice it.                   *)
LEMMA OwnStep ==
  ASSUME ServiceInv, [Next]_storeVars, NEW p \in Writers, ServiceTypeOK', Progress(p)',
         \A q \in Writers \ {p} : /\ pc'[q] = pc[q] /\ cmd'[q] = cmd[q]
                                  /\ result'[q] = result[q] /\ seenRow'[q] = seenRow[q]
  PROVE  ServiceTypeOK' /\ \A q \in Writers : Progress(q)'
BY OthersKeepProgress

(* A step that only moves on to a statement before which nothing more needs *)
(* to be known.                                                             *)
LEMMA ContinueKeeps ==
  ASSUME ServiceInv, TypeOK', [Next]_storeVars, NEW p \in Writers, pc[p] # "idle",
         NEW there \in {"readEmployee", "lock", "insert", "read", "audit", "update", "commit"},
         Continue(p, there), UNCHANGED environmentVars,
         there = "read" => row[Account(p)] # NoRow /\ row' = row,
         there \in {"insert", "audit", "update", "commit"} => seenRow[p] \in AccountRow,
         there \in {"audit", "update", "commit"} => Candidate(p) \in Entry
  PROVE  ServiceTypeOK' /\ \A q \in Writers : Progress(q)'
<1> USE DEF Continue, Goto
<1>1. ServiceTypeOK'
  BY DEF ServiceInv, ServiceTypeOK, environmentVars
<1>2. pc'[p] = there
  BY DEF ServiceInv, ServiceTypeOK
<1>3. Progress(p)'
  <2>1. Account(p)' = Account(p) /\ Candidate(p)' = Candidate(p)
    BY DEF Account, Candidate, Requests!NewEntry
  <2>2. QED
    BY <1>2, <2>1, RunningCommand DEF Progress, HasCommand, FoundAccount, SawRow, HasEntry, At
<1>4. \A q \in Writers \ {p} : /\ pc'[q] = pc[q] /\ cmd'[q] = cmd[q]
                               /\ result'[q] = result[q] /\ seenRow'[q] = seenRow[q]
  BY DEF ServiceInv, ServiceTypeOK
<1>5. QED
  BY <1>1, <1>3, <1>4, OwnStep

LEMMA SubmitKeeps ==
  ASSUME ServiceInv, TypeOK', [Next]_storeVars, NEW p \in Writers,
         (\E c \in Commands : Submit(p, c)) \/ Resubmit(p)
  PROVE  ServiceTypeOK' /\ \A q \in Writers : Progress(q)'
<1> USE DEF Goto, FirstStep, environmentVars
<1>1. CASE Resubmit(p)
  <2>1. ServiceTypeOK'
    BY <1>1, AttemptsAssumption DEF Resubmit, ServiceInv, ServiceTypeOK, Requests!Results
  <2>2. Progress(p)'
    BY <1>1 DEF Resubmit, ServiceInv, ServiceTypeOK, Progress, HasCommand,
                FoundAccount, SawRow, HasEntry, At
  <2>3. QED
    BY <1>1, <2>1, <2>2, OwnStep DEF Resubmit, ServiceInv, ServiceTypeOK
<1>2. ASSUME NEW c \in Commands, Submit(p, c)
      PROVE  ServiceTypeOK' /\ \A q \in Writers : Progress(q)'
  <2>1. ServiceTypeOK'
    BY <1>2, AttemptsAssumption DEF Submit, ServiceInv, ServiceTypeOK, Requests!Results
  <2>2. Progress(p)'
    BY <1>2 DEF Submit, ServiceInv, ServiceTypeOK, Progress, HasCommand,
                FoundAccount, SawRow, HasEntry, At
  <2>3. \A q \in Writers \ {p} : /\ pc'[q] = pc[q] /\ cmd'[q] = cmd[q]
                                 /\ result'[q] = result[q] /\ seenRow'[q] = seenRow[q]
    BY <1>2 DEF Submit, ServiceInv, ServiceTypeOK
  <2>4. QED
    BY <2>1, <2>2, <2>3, OwnStep
<1>3. QED
  BY <1>1, <1>2

LEMMA ReadKeeps ==
  ASSUME ServiceInv, TypeOK', [Next]_storeVars, NEW p \in Writers,
         ReadEmployee(p) \/ ReadAccount(p) \/ ResolveConcurrent(p) \/ Read(p)
  PROVE  ServiceTypeOK' /\ \A q \in Writers : Progress(q)'
<1> USE DEF Goto, environmentVars
<1>1. pc[p] # "idle" /\ View(p) \in AccountRow \cup {NoRow} /\ cmd[p] \in Commands
  BY ViewIsRow, RunningCommand DEF ReadEmployee, ReadAccount, ResolveConcurrent, Read, At
<1>2. CASE ReadEmployee(p)
  <2>1. ServiceTypeOK'
    BY <1>2 DEF ReadEmployee, ServiceInv, ServiceTypeOK
  <2>2. Progress(p)'
    BY <1>1, <1>2 DEF ReadEmployee, ServiceInv, ServiceTypeOK, Progress, HasCommand,
                      FoundAccount, SawRow, HasEntry, At
  <2>3. QED
    BY <1>2, <2>1, <2>2, OwnStep DEF ReadEmployee, ServiceInv, ServiceTypeOK
<1>3. CASE ResolveConcurrent(p)
  <2>1. ServiceTypeOK'
    BY <1>3 DEF ResolveConcurrent, ServiceInv, ServiceTypeOK
  <2>2. Progress(p)'
    BY <1>1, <1>3 DEF ResolveConcurrent, ServiceInv, ServiceTypeOK, Progress, HasCommand,
                      FoundAccount, SawRow, HasEntry, At
  <2>3. QED
    BY <1>3, <2>1, <2>2, OwnStep DEF ResolveConcurrent, ServiceInv, ServiceTypeOK
<1>4. CASE Read(p)
  <2>1. ServiceTypeOK'
    BY <1>1, <1>4 DEF Read, ServiceInv, ServiceTypeOK
  <2>2. View(p) \in AccountRow
    BY <1>1, <1>4, ViewIsRow DEF Read, ServiceInv, Progress, FoundAccount
  <2>3. Progress(p)'
    BY <1>1, <1>4, <2>2 DEF Read, ServiceInv, ServiceTypeOK, Progress, HasCommand,
                            FoundAccount, SawRow, HasEntry, At
  <2>4. QED
    BY <1>4, <2>1, <2>3, OwnStep DEF Read, ServiceInv, ServiceTypeOK
<1>5. CASE ReadAccount(p)
  <2>1. CASE Refuse(p, "rejected")
    BY <1>1, <1>5, <2>1, RefuseKeeps DEF ReadAccount, Requests!Results
  <2>2. CASE ~Refuse(p, "rejected")
    <3>1. ServiceTypeOK'
      BY <1>1, <1>5, <2>2 DEF ReadAccount, ServiceInv, ServiceTypeOK
    <3>2. Progress(p)'
      BY <1>1, <1>5, <2>2 DEF ReadAccount, ServiceInv, ServiceTypeOK, Progress, HasCommand,
                              FoundAccount, SawRow, HasEntry, At
    <3>3. QED
      BY <1>5, <2>2, <3>1, <3>2, OwnStep DEF ReadAccount, ServiceInv, ServiceTypeOK
  <2>3. QED
    BY <2>1, <2>2
<1>6. QED
  BY <1>2, <1>3, <1>4, <1>5

LEMMA CreateKeeps ==
  ASSUME ServiceInv, TypeOK', [Next]_storeVars, NEW p \in Writers, CreateAccount(p)
  PROVE  ServiceTypeOK' /\ \A q \in Writers : Progress(q)'
<1> USE DEF CreateAccount, Goto, environmentVars
<1> DEFINE r == [balance |-> 0, version |-> 0, currency |-> cmd[p].currency]
<1>1. cmd[p] \in Commands /\ r \in AccountRow
  BY RunningCommand, BoundsAssumption DEF At, AccountRow, Balances
<1>2. ServiceTypeOK'
  BY <1>1 DEF ServiceInv, ServiceTypeOK
<1>3. Progress(p)'
  BY <1>1 DEF ServiceInv, ServiceTypeOK, Progress, HasCommand, FoundAccount, SawRow,
              HasEntry, At
<1>4. QED
  BY <1>2, <1>3, OwnStep DEF ServiceInv, ServiceTypeOK

(* The verdicts are results, and a verdict to append leads to the insert.   *)
LEMMA DecideKeeps ==
  ASSUME ServiceInv, TypeOK', [Next]_storeVars, NEW p \in Writers, Decide(p)
  PROVE  ServiceTypeOK' /\ \A q \in Writers : Progress(q)'
<1>1. pc[p] = "decide" /\ cmd[p] \in Commands /\ seenRow[p] \in AccountRow
  BY RunningCommand DEF Decide, At, ServiceInv, Progress, SawRow
<1>2. CASE Verdict(p) = "append" /\ Continue(p, "insert")
  BY <1>1, <1>2, ContinueKeeps DEF Decide
<1>3. CASE Verdict(p) \notin {"append", "retried"} /\ Refuse(p, Verdict(p))
  <2>1. Verdict(p) \in Requests!Results
    BY <1>3 DEF Verdict, Requests!Results
  <2>2. QED
    BY <1>1, <1>3, <2>1, RefuseKeeps DEF Decide
<1>4. CASE Verdict(p) = "retried"
  <2> USE DEF Goto, environmentVars
  <2>1. PICK e \in Matching(p) : reply' = [reply EXCEPT ![p] = e]
    BY <1>4 DEF Decide, Refuse
  <2>2. e \in Entry
    BY DEF Matching, VisibleEntries, OwnEntries, ServiceInv, ServiceTypeOK, TypeOK
  <2>3. ServiceTypeOK'
    BY <1>4, <2>1, <2>2 DEF Decide, ServiceInv, ServiceTypeOK, Requests!Results
  <2>4. Progress(p)'
    BY <1>1, <1>4 DEF Decide, ServiceInv, ServiceTypeOK, Progress, HasCommand,
                      FoundAccount, SawRow, HasEntry, At
  <2>5. QED
    BY <1>4, <2>3, <2>4, OwnStep DEF Decide, ServiceInv, ServiceTypeOK
<1>5. QED
  BY <1>2, <1>3, <1>4 DEF Decide

LEMMA AppendKeeps ==
  ASSUME ServiceInv, TypeOK', [Next]_storeVars, NEW p \in Writers,
         InsertTransaction(p) \/ AuditAdjustment(p) \/ UpdateProjection(p)
  PROVE  ServiceTypeOK' /\ \A q \in Writers : Progress(q)'
<1>1. pc[p] # "idle" /\ seenRow[p] \in AccountRow
  BY DEF InsertTransaction, AuditAdjustment, UpdateProjection, At, ServiceInv, Progress, SawRow
<1>2. UNCHANGED environmentVars
  BY DEF InsertTransaction, AuditAdjustment, UpdateProjection
<1>3. CASE Refuse(p, "dbError")
  BY <1>1, <1>2, <1>3, RefuseKeeps DEF Requests!Results
<1>4. CASE InsertTransaction(p) /\ ~Refuse(p, "dbError")
  <2>1. Candidate(p) \in Entry
    BY <1>4 DEF InsertTransaction, Fits
  <2>2. Continue(p, "audit") \/ Continue(p, "update")
    BY <1>4 DEF InsertTransaction
  <2>3. QED
    BY <1>1, <1>2, <2>1, <2>2, ContinueKeeps
<1>5. CASE (AuditAdjustment(p) \/ UpdateProjection(p)) /\ ~Refuse(p, "dbError")
  <2>1. Candidate(p) \in Entry
    BY <1>5 DEF AuditAdjustment, UpdateProjection, At, ServiceInv, Progress, HasEntry
  <2>2. Continue(p, "update") \/ Continue(p, "commit")
    BY <1>5 DEF AuditAdjustment, UpdateProjection
  <2>3. QED
    BY <1>1, <1>2, <2>1, <2>2, ContinueKeeps
<1>6. QED
  BY <1>3, <1>4, <1>5

LEMMA CommitKeeps ==
  ASSUME ServiceInv, TypeOK', [Next]_storeVars, NEW p \in Writers, CommitTransaction(p)
  PROVE  ServiceTypeOK' /\ \A q \in Writers : Progress(q)'
<1>1. /\ pc[p] = "commit" /\ cmd[p] \in Commands /\ Candidate(p) \in Entry
      /\ UNCHANGED environmentVars
  BY RunningCommand DEF CommitTransaction, At, ServiceInv, Progress, HasEntry
<1>2. CASE Refuse(p, "dbError")
  BY <1>1, <1>2, RefuseKeeps DEF Requests!Results
<1>3. CASE ~Refuse(p, "dbError")
  <2> USE DEF Goto, environmentVars
  <2>1. ServiceTypeOK'
    BY <1>1, <1>3 DEF CommitTransaction, ServiceInv, ServiceTypeOK, Requests!Results
  <2>2. Progress(p)'
    BY <1>1, <1>3 DEF CommitTransaction, ServiceInv, ServiceTypeOK, Progress, HasCommand,
                      FoundAccount, SawRow, HasEntry, At
  <2>3. QED
    BY <1>3, <2>1, <2>2, OwnStep DEF CommitTransaction, ServiceInv, ServiceTypeOK
<1>4. QED
  BY <1>2, <1>3

LEMMA LockKeeps ==
  ASSUME ServiceInv, TypeOK', [Next]_storeVars, NEW p \in Writers, Authorize(p) \/ Lock(p)
  PROVE  ServiceTypeOK' /\ \A q \in Writers : Progress(q)'
<1>1. pc[p] # "idle" /\ UNCHANGED environmentVars
  BY DEF Authorize, Lock, At
<1>2. CASE Refuse(p, "rejected")
  BY <1>1, <1>2, RefuseKeeps DEF Requests!Results
<1>3. CASE Continue(p, "readEmployee") \/ Continue(p, "lock")
  BY <1>1, <1>3, ContinueKeeps
<1>4. CASE AcquireLock(p) /\ Continue(p, "read")
  BY <1>1, <1>4, ContinueKeeps DEF AcquireLock, LockAccount
<1>5. QED
  BY <1>2, <1>3, <1>4 DEF Authorize, Lock

LEMMA LossKeeps ==
  ASSUME ServiceInv, TypeOK', [Next]_storeVars, NEW p \in Writers, Abort(p) \/ LoseAnswer(p)
  PROVE  ServiceTypeOK' /\ \A q \in Writers : Progress(q)'
<1>1. CASE Abort(p)
  BY <1>1, RefuseKeeps DEF Abort, Requests!Results
<1>2. CASE LoseAnswer(p)
  <2>1. ServiceTypeOK'
    BY <1>2 DEF LoseAnswer, ServiceInv, ServiceTypeOK, environmentVars, Requests!Results
  <2>2. Progress(p)'
    <3>1. cmd[p] \in Commands
      BY <1>2 DEF LoseAnswer, ServiceInv, Progress, HasCommand
    <3>2. UNCHANGED <<row, pc, cmd, seenRow>>
      BY <1>2 DEF LoseAnswer, storeVars
    <3>3. QED
      BY <3>1, <3>2 DEF ServiceInv, Progress, HasCommand, FoundAccount, SawRow, HasEntry, At,
                        Account, Candidate, Requests!NewEntry
  <2>3. QED
    BY <1>2, <2>1, <2>2, OwnStep DEF LoseAnswer, ServiceInv, ServiceTypeOK
<1>3. QED
  BY <1>1, <1>2

LEMMA EnvironmentKeeps ==
  ASSUME ServiceInv, TypeOK', [Next]_storeVars,
         ChangeAuthority \/ ChangeEmployee \/ ChangeCurrency \/ UNCHANGED serviceVars
  PROVE  ServiceTypeOK' /\ \A q \in Writers : Progress(q)'
<1>1. UNCHANGED <<storeVars, requestVars>>
  BY DEF ChangeAuthority, ChangeEmployee, ChangeCurrency, serviceVars
<1>2. /\ authorized' \subseteq Users /\ activeEmployees' \subseteq Accounts
      /\ defaultCurrency' \in Currencies
      /\ dismissed' \in [Writers -> BOOLEAN]
  BY DEF ChangeAuthority, ChangeEmployee, ChangeCurrency, serviceVars, environmentVars,
         ServiceInv, ServiceTypeOK
<1>3. ServiceTypeOK'
  BY <1>1, <1>2 DEF requestVars, ServiceInv, ServiceTypeOK
<1>4. ASSUME NEW q \in Writers PROVE Progress(q)'
  BY <1>1, OthersKeepProgress DEF requestVars
<1>5. QED
  BY <1>3, <1>4

-----------------------------------------------------------------------------
LEMMA ServiceInvStep == ServiceInv /\ [ServiceNext]_serviceVars => ServiceInv'
<1> SUFFICES ASSUME ServiceInv, [ServiceNext]_serviceVars PROVE ServiceInv'
  OBVIOUS
<1>1. [Next]_storeVars
  BY StoreStep
<1>2. IInv' /\ TypeOK'
  BY <1>1, InvariantStep DEF ServiceInv, IInv
<1>3. ServiceTypeOK' /\ \A q \in Writers : Progress(q)'
  BY <1>1, <1>2, SubmitKeeps, ReadKeeps, CreateKeeps, DecideKeeps, AppendKeeps, CommitKeeps,
     LockKeeps, LossKeeps, EnvironmentKeeps DEF ServiceNext, Step
<1>4. QED
  BY <1>2, <1>3 DEF ServiceInv

LEMMA ServiceInvInit == ServiceInit => ServiceInv
<1> SUFFICES ASSUME ServiceInit PROVE ServiceInv
  OBVIOUS
<1>1. TypeOK /\ IInv
  BY DEF ServiceInit, Init, IInv, TypeOK, Safety, Gapless, Chained, Projected,
     OpensWithAllocation, RefundsAreBacked, AdjustmentsAreAudited, OneCurrency, Of,
     ReferencesAreUsedOnce, WorkIsLocked, DraftIsAhead, PendingIsValid,
     PendingAuditsAreValid
<1>2. ServiceTypeOK
  BY <1>1, AttemptsAssumption DEF ServiceInit, ServiceTypeOK, Requests!Results
<1>3. \A p \in Writers : Progress(p)
  BY DEF ServiceInit, Progress, HasCommand, FoundAccount, SawRow, HasEntry, At
<1>4. QED
  BY <1>1, <1>2, <1>3 DEF ServiceInv

(* Every variable of the service keeps its type, and a request about to     *)
(* append has a command, a row it has read, and an entry that fits the      *)
(* columns: under any interleaving, failures and retries.                   *)
THEOREM ServiceInvariantHolds == ServiceSpec => []ServiceInv
BY ServiceInvInit, ServiceInvStep, PTL DEF ServiceSpec

(* The service writes the tables only as LedgerStore allows.                *)
THEOREM ServiceImplementsStore == ServiceSpec => Spec
<1>1. ServiceInit => Init
  BY DEF ServiceInit
<1>2. ServiceInv /\ [ServiceNext]_serviceVars => [Next]_storeVars
  BY StoreStep
<1>3. QED
  BY <1>1, <1>2, ServiceInvariantHolds, PTL DEF ServiceSpec, Spec

(* Hence the ledger the service keeps is gapless, chained, projected, opened*)
(* by an allocation, backed, audited and in one currency, and it implements *)
(* the abstract, append-only ledger.                                        *)
THEOREM ServiceKeepsLedger ==
  ServiceSpec => /\ [](Gapless /\ Chained /\ Projected /\ OpensWithAllocation
                       /\ RefundsAreBacked /\ AdjustmentsAreAudited /\ OneCurrency)
                 /\ AppendOnly
                 /\ ImplementsLedger
BY ServiceImplementsStore, TriggersKeepLedger, HistoryOnlyGrows, StoreImplementsLedger

-----------------------------------------------------------------------------
(* The transaction of request p.  It locks the account of its command and   *)
(* no other, from the lock or the insertion of the account to its end, and  *)
(* has written nothing but its entry.                                       *)
Locked(p) == ~At(p, "idle") /\ lock[Account(p)] = p
Late(p) == pc[p] \in {"audit", "update", "commit"}

LocksItsAccount(p) ==
  \A a \in Accounts :
    lock[a] = p => /\ a = Account(p)
                   /\ pc[p] \in {"read", "decide", "insert", "audit", "update", "commit"}

(* Only an initial allocation decides without the lock, when it finds that  *)
(* the account exists; then the decision is not to append.                  *)
NeedsLock(p) ==
  /\ pc[p] \in {"read", "insert"} \/ Late(p) => Locked(p)
  /\ At(p, "decide") /\ ~Locked(p) =>
       cmd[p].type = "INITIAL_ALLOCATION" /\ row[Account(p)] # NoRow

CreatesForAllocation(p) ==
  \/ pc[p] \in {"readEmployee", "readAccount", "create"}
  \/ Locked(p) /\ row[Account(p)] = NoRow
  => cmd[p].type = "INITIAL_ALLOCATION"

WroteItsEntry(p) == OwnEntries(p) = IF Late(p) THEN {Candidate(p)} ELSE {}

(* The row that the transaction builds on: the committed one, or the one it *)
(* has inserted.  Nobody else changes it while the transaction holds it.    *)
Basis(p) == IF row[Account(p)] = NoRow
              THEN [balance |-> 0, version |-> 0, currency |-> cmd[p].currency]
              ELSE row[Account(p)]

BuildsOnBasis(p) ==
  Locked(p) =>
    /\ pc[p] # "read" => seenRow[p] = Basis(p)
    /\ pc[p] # "commit" => draft[Account(p)] = Basis(p)
    /\ pc[p] = "commit" => /\ draft[Account(p)].version = Candidate(p).sequence
                           /\ draft[Account(p)].balance = Candidate(p).resulting

(* What it has decided is still right when it writes.                       *)
DecisionStands(p) ==
  /\ At(p, "insert") => Verdict(p) = "append"
  /\ At(p, "audit") => cmd[p].type = "MANUAL_ADJUSTMENT"

(* A request is open between its submission and its end; what it returned   *)
(* is the committed entry of its command.                                   *)
IsOpen(p) ==
  /\ result[p] = "open" <=> pc[p] \notin {"idle", "done"}
  /\ At(p, "idle") => result[p] = "none"

ReplyIsCommitted(p) ==
  reply[p] # NoEntry => /\ result[p] \in {"applied", "retried"}
                        /\ reply[p] \in entries
                        /\ SameReference(reply[p], cmd[p])

Transaction(p) ==
  /\ LocksItsAccount(p)
  /\ NeedsLock(p)
  /\ CreatesForAllocation(p)
  /\ WroteItsEntry(p)
  /\ BuildsOnBasis(p)
  /\ DecisionStands(p)
  /\ IsOpen(p)
  /\ ReplyIsCommitted(p)

TransactionsInv == \A p \in Writers : Transaction(p)

-----------------------------------------------------------------------------
(* A statement of one transaction takes no lock of another, and what lies   *)
(* under that lock stays as it is.                                          *)
LEMMA OthersLocksStay ==
  ASSUME IInv, NEW w \in Writers, NEW q \in Writers, w # q, Statement(w),
         NEW a \in Accounts
  PROVE  /\ lock'[a] = q <=> lock[a] = q
         /\ lock[a] = q => row'[a] = row[a] /\ draft'[a] = draft[a] /\ Of(a)' = Of(a)
<1> USE DEF IInv, TypeOK
<1>1. ASSUME NEW b \in Accounts, LockAccount(w, b)
      PROVE  /\ lock'[a] = q <=> lock[a] = q
             /\ lock[a] = q => row'[a] = row[a] /\ draft'[a] = draft[a] /\ Of(a)' = Of(a)
  BY <1>1, WriterAssumption DEF LockAccount, Of
<1>2. ASSUME NEW b \in Accounts, NEW r \in AccountRow,
             InsertAccount(w, b, r) \/ UpdateAccount(w, b, r)
      PROVE  /\ lock'[a] = q <=> lock[a] = q
             /\ lock[a] = q => row'[a] = row[a] /\ draft'[a] = draft[a] /\ Of(a)' = Of(a)
  BY <1>2, WriterAssumption DEF InsertAccount, UpdateAccount, CanLock, Of
<1>3. ASSUME NEW e \in Entry, InsertEntry(w, e)
      PROVE  /\ lock'[a] = q <=> lock[a] = q
             /\ lock[a] = q => row'[a] = row[a] /\ draft'[a] = draft[a] /\ Of(a)' = Of(a)
  BY <1>3, WriterAssumption DEF InsertEntry, CanLock, Of, Entry
<1>4. CASE (\E u \in Audit : InsertAudit(w, u)) \/ UNCHANGED storeVars
  BY <1>4 DEF InsertAudit, storeVars, Of
<1>5. CASE Rollback(w)
  BY <1>5, WriterAssumption DEF Rollback, Discard, Of
<1>6. CASE Commit(w)
  <2>1. lock'[a] = IF lock[a] = w THEN NoWriter ELSE lock[a]
    BY <1>6 DEF Commit, Discard
  <2>2. lock[a] = q => row'[a] = row[a] /\ draft'[a] = draft[a]
    BY <1>6 DEF Commit, Discard
  <2>3. lock[a] = q => Of(a)' = Of(a)
    BY <1>6 DEF Commit, Of, VisibleEntries, OwnEntries
  <2>4. QED
    BY <2>1, <2>2, <2>3, WriterAssumption
<1>7. QED
  BY <1>1, <1>2, <1>3, <1>4, <1>5, <1>6 DEF Statement

(* What another transaction has written stays, and is not added to.         *)
LEMMA OthersEntriesStay ==
  ASSUME IInv, NEW w \in Writers, NEW q \in Writers, w # q, Statement(w)
  PROVE  OwnEntries(q)' = OwnEntries(q)
<1> USE DEF IInv, TypeOK, OwnEntries
<1>1. \A a \in Accounts : lock'[a] = q <=> lock[a] = q
  BY OthersLocksStay
<1>2. \A e \in pending : e.account \in Accounts
  BY DEF Entry
<1>3. ASSUME NEW e \in Entry, InsertEntry(w, e)
      PROVE  OwnEntries(q)' = OwnEntries(q)
  <2>1. e.account \in Accounts /\ lock'[e.account] # q /\ pending' = pending \cup {e}
    BY <1>3 DEF InsertEntry, Entry
  <2>2. QED
    BY <1>1, <1>2, <2>1
<1>4. CASE Commit(w) \/ Rollback(w)
  <2>1. pending' = {e \in pending : lock[e.account] # w}
    BY <1>4 DEF Commit, Rollback, Discard
  <2>2. QED
    BY <1>1, <1>2, <2>1
<1>5. CASE pending' = pending
  BY <1>1, <1>2, <1>5
<1>6. QED
  BY <1>3, <1>4, <1>5 DEF Statement, LockAccount, InsertAccount, UpdateAccount, InsertAudit,
                          storeVars

(* Entries stay.                                                            *)
LEMMA EntriesStay ==
  ASSUME [Next]_storeVars
  PROVE  entries \subseteq entries'
<1>1. ASSUME NEW w \in Writers, Commit(w)
      PROVE  entries \subseteq entries'
  BY <1>1 DEF Commit, VisibleEntries
<1>2. QED
  BY <1>1, OnlyCommitsCount DEF storeVars

(* What request q has established stays while another request acts, or only *)
(* the environment.                                                         *)
LEMMA OthersKeepTransaction ==
  ASSUME ServiceInv, [Next]_storeVars, NEW q \in Writers, Transaction(q),
         (\E w \in Writers : w # q /\ Statement(w)) \/ UNCHANGED storeVars,
         pc'[q] = pc[q], cmd'[q] = cmd[q], result'[q] = result[q], reply'[q] = reply[q],
         seenRow'[q] = seenRow[q], seenActive'[q] = seenActive[q]
  PROVE  Transaction(q)'
<1> USE DEF Transaction
<1>1. /\ Account(q)' = Account(q) /\ Candidate(q)' = Candidate(q)
      /\ \A s : At(q, s)' = At(q, s)
      /\ Late(q)' = Late(q)
  BY DEF Account, Candidate, Requests!NewEntry, At, Late
<1>2. ~At(q, "idle") => Account(q) \in Accounts /\ cmd[q] \in Commands
  BY RunningCommand DEF At
<1>3. ASSUME NEW a \in Accounts
      PROVE  /\ lock'[a] = q <=> lock[a] = q
             /\ lock[a] = q => row'[a] = row[a] /\ draft'[a] = draft[a] /\ Of(a)' = Of(a)
  <2>1. CASE UNCHANGED storeVars
    BY <2>1 DEF storeVars, Of
  <2>2. CASE \E w \in Writers : w # q /\ Statement(w)
    BY <2>2, OthersLocksStay DEF ServiceInv
  <2>3. QED
    BY <2>1, <2>2
<1>4. OwnEntries(q)' = OwnEntries(q)
  <2>1. CASE UNCHANGED storeVars
    BY <2>1 DEF storeVars, OwnEntries
  <2>2. CASE \E w \in Writers : w # q /\ Statement(w)
    BY <2>2, OthersEntriesStay DEF ServiceInv
  <2>3. QED
    BY <2>1, <2>2
<1>5. Locked(q)' = Locked(q)
  BY <1>1, <1>2, <1>3 DEF Locked
<1>6. Locked(q) => /\ row'[Account(q)] = row[Account(q)]
                   /\ draft'[Account(q)] = draft[Account(q)]
                   /\ Of(Account(q))' = Of(Account(q))
                   /\ Basis(q)' = Basis(q)
  BY <1>1, <1>2, <1>3 DEF Locked, Basis
<1>7. LocksItsAccount(q)'
  BY <1>1, <1>3 DEF LocksItsAccount
<1>8. NeedsLock(q)'
  <2>1. ~At(q, "idle") /\ row[Account(q)] # NoRow => row'[Account(q)] # NoRow
    BY <1>2, RowsStay DEF ServiceInv
  <2>2. QED
    BY <1>1, <1>5, <2>1 DEF NeedsLock, At
<1>9. CreatesForAllocation(q)' /\ WroteItsEntry(q)' /\ BuildsOnBasis(q)'
  BY <1>1, <1>4, <1>5, <1>6 DEF CreatesForAllocation, WroteItsEntry, BuildsOnBasis
<1>10. DecisionStands(q)'
  <2> SUFFICES ASSUME At(q, "insert") PROVE Verdict(q)' = Verdict(q)
    BY <1>1 DEF DecisionStands
  <2>1. Locked(q)
    BY DEF NeedsLock, At
  <2>2. Matching(q)' = Matching(q)
    <3>1. Matching(q) = {e \in Of(Account(q)) \cup OwnEntries(q) : SameReference(e, cmd[q])}
      BY DEF Matching, VisibleEntries, SameReference, Of, Account
    <3>2. Matching(q)' = {e \in Of(Account(q))' \cup OwnEntries(q)' : SameReference(e, cmd'[q])}
      BY DEF Matching, VisibleEntries, SameReference, Of, Account
    <3>3. QED
      BY <1>4, <1>6, <2>1, <3>1, <3>2
  <2>3. RefundMatchesDebit(q)' <=> RefundMatchesDebit(q)
    <3> DEFINE Backs(d) == /\ d.account = Account(q)
                           /\ d.type = "BOOKING_DEBIT"
                           /\ d.reference = cmd[q].reference
                           /\ d.currency = cmd[q].currency
                           /\ cmd[q].delta <= -d.delta
    <3>1. RefundMatchesDebit(q) <=> \E d \in Of(Account(q)) \cup OwnEntries(q) : Backs(d)
      BY DEF RefundMatchesDebit, VisibleEntries, Of
    <3>2. RefundMatchesDebit(q)' <=> \E d \in Of(Account(q))' \cup OwnEntries(q)' : Backs(d)
      BY <1>1 DEF RefundMatchesDebit, VisibleEntries, Of
    <3>3. QED
      BY <1>4, <1>6, <2>1, <3>1, <3>2
  <2>4. QED
    BY <1>6, <2>1, <2>2, <2>3 DEF Verdict, Account, RepeatsValues, DirectionIsValid,
                                  BalanceIsSupported
<1>11. IsOpen(q)' /\ ReplyIsCommitted(q)'
  BY <1>1, EntriesStay DEF IsOpen, ReplyIsCommitted, At
<1>12. QED
  BY <1>7, <1>8, <1>9, <1>10, <1>11

(* So a step of p has to be followed for p alone.                           *)
LEMMA OwnTransaction ==
  ASSUME ServiceInv, TransactionsInv, NEW p \in Writers, Statement(p), Transaction(p)',
         \A q \in Writers \ {p} :
           /\ pc'[q] = pc[q] /\ cmd'[q] = cmd[q] /\ result'[q] = result[q]
           /\ reply'[q] = reply[q] /\ seenRow'[q] = seenRow[q]
           /\ seenActive'[q] = seenActive[q]
  PROVE  TransactionsInv'
<1>1. [Next]_storeVars
  BY DEF Statement, Next
<1>2. QED
  BY <1>1, OthersKeepTransaction DEF TransactionsInv

-----------------------------------------------------------------------------
(* A transaction that ends holds nothing and leaves nothing behind.         *)
LEMMA EndReleases ==
  ASSUME ServiceInv, NEW p \in Writers, EndTransaction(p) \/ Commit(p)
  PROVE  (\A a \in Accounts : lock'[a] # p) /\ OwnEntries(p)' = {}
<1> USE DEF ServiceInv, IInv, TypeOK
<1>1. \A a \in Accounts : lock'[a] # p
  BY WriterAssumption DEF EndTransaction, Holds, Rollback, Commit, Discard, storeVars
<1>2. \A e \in pending' : e.account \in Accounts
  <2>1. pending' \subseteq pending
    BY DEF EndTransaction, Rollback, Commit, Discard, storeVars
  <2>2. QED
    BY <2>1 DEF Entry
<1>3. QED
  BY <1>1, <1>2 DEF OwnEntries

(* A step after which p holds no lock and has nothing written.              *)
LEMMA NothingHeld ==
  ASSUME NEW p \in Writers,
         pc'[p] \notin {"read", "insert", "audit", "update", "commit"},
         pc'[p] # "idle" => Account(p)' \in Accounts,
         \A a \in Accounts : lock'[a] # p, OwnEntries(p)' = {},
         pc'[p] \in {"readEmployee", "readAccount", "create", "decide"} =>
           cmd'[p].type = "INITIAL_ALLOCATION",
         pc'[p] = "decide" => row'[Account(p)'] # NoRow,
         IsOpen(p)', ReplyIsCommitted(p)'
  PROVE  Transaction(p)'
<1>1. ~Locked(p)'
  BY DEF Locked, At
<1>2. QED
  BY <1>1 DEF Transaction, LocksItsAccount, NeedsLock, CreatesForAllocation, WroteItsEntry,
              Late, BuildsOnBasis, DecisionStands, At

LEMMA RefuseTransaction ==
  ASSUME ServiceInv, TransactionsInv, NEW p \in Writers, pc[p] \notin {"idle", "done"},
         NEW r, r # "open", Refuse(p, r)
  PROVE  TransactionsInv'
<1> USE DEF ServiceInv, ServiceTypeOK, Refuse, Goto
<1>1. reply[p] = NoEntry /\ cmd[p] \in Commands /\ Account(p) \in Accounts
  BY RunningCommand DEF TransactionsInv, Transaction, IsOpen, ReplyIsCommitted
<1>2. Transaction(p)'
  <2>1. IsOpen(p)' /\ ReplyIsCommitted(p)'
    BY <1>1 DEF IsOpen, ReplyIsCommitted, At
  <2>2. pc'[p] = "done" /\ Account(p)' = Account(p)
    BY DEF Account
  <2>3. (\A a \in Accounts : lock'[a] # p) /\ OwnEntries(p)' = {}
    BY EndReleases
  <2>4. QED
    BY <1>1, <2>1, <2>2, <2>3, NothingHeld DEF At
<1>3. QED
  BY <1>2, EndTransactionStep, OwnTransaction

(* A transaction that is before its lock holds nothing.                     *)
Unlocked == {"idle", "authorize", "readEmployee", "readAccount", "create", "lock", "done"}

LEMMA NothingHeldYet ==
  ASSUME TransactionsInv, NEW p \in Writers, pc[p] \in Unlocked
  PROVE  (\A a \in Accounts : lock[a] # p) /\ OwnEntries(p) = {}
BY DEF TransactionsInv, Transaction, LocksItsAccount, WroteItsEntry, Late, Unlocked

(* A step before the lock that leaves the tables alone.                     *)
LEMMA QuietTransaction ==
  ASSUME ServiceInv, TransactionsInv, NEW p \in Writers, UNCHANGED storeVars,
         pc[p] \in Unlocked, pc'[p] \in Unlocked \cup {"decide"},
         pc'[p] # "idle" => Account(p)' \in Accounts,
         pc'[p] \in {"readEmployee", "readAccount", "create", "decide"} =>
           cmd'[p].type = "INITIAL_ALLOCATION",
         pc'[p] = "decide" => row[Account(p)'] # NoRow,
         IsOpen(p)', ReplyIsCommitted(p)',
         \A q \in Writers \ {p} :
           /\ pc'[q] = pc[q] /\ cmd'[q] = cmd[q] /\ result'[q] = result[q]
           /\ reply'[q] = reply[q] /\ seenRow'[q] = seenRow[q]
           /\ seenActive'[q] = seenActive[q]
  PROVE  TransactionsInv'
<1>1. (\A a \in Accounts : lock'[a] # p) /\ OwnEntries(p)' = {}
  BY NothingHeldYet DEF storeVars, OwnEntries
<1>2. Transaction(p)'
  BY <1>1, NothingHeld DEF Unlocked, storeVars
<1>3. QED
  BY <1>2, OwnTransaction DEF Statement

LEMMA SubmitTransaction ==
  ASSUME ServiceInv, TransactionsInv, NEW p \in Writers,
         (\E c \in Commands : Submit(p, c)) \/ Resubmit(p)
  PROVE  TransactionsInv'
<1> USE DEF ServiceInv, ServiceTypeOK, Goto, FirstStep
<1>1. ASSUME NEW c \in Commands, Submit(p, c)
      PROVE  TransactionsInv'
  <2>1. reply[p] = NoEntry /\ Account(p)' = c.account /\ c.account \in Accounts
    BY <1>1, CommandsAssumption DEF Submit, At, TransactionsInv, Transaction, IsOpen,
       ReplyIsCommitted, Account, Command
  <2>2. IsOpen(p)' /\ ReplyIsCommitted(p)'
    BY <1>1, <2>1 DEF Submit, IsOpen, ReplyIsCommitted, At
  <2>3. QED
    BY <1>1, <2>1, <2>2, QuietTransaction DEF Submit, At, Unlocked
<1>2. CASE Resubmit(p)
  <2>1. pc[p] = "done"
    BY <1>2 DEF Resubmit, TransactionsInv, Transaction, IsOpen, At
  <2>2. Account(p)' = Account(p) /\ Account(p) \in Accounts
    BY <1>2, <2>1, RunningCommand DEF Resubmit, Account
  <2>3. IsOpen(p)' /\ ReplyIsCommitted(p)'
    BY <1>2 DEF Resubmit, IsOpen, ReplyIsCommitted, At
  <2>4. QED
    BY <1>2, <2>1, <2>2, <2>3, QuietTransaction DEF Resubmit, Unlocked
<1>3. QED
  BY <1>1, <1>2

LEMMA PrepareTransaction ==
  ASSUME ServiceInv, TransactionsInv, NEW p \in Writers,
         Authorize(p) \/ ReadEmployee(p) \/ ReadAccount(p) \/ ResolveConcurrent(p)
  PROVE  TransactionsInv'
<1> USE DEF ServiceInv, ServiceTypeOK, Goto, Unlocked
<1>1. /\ pc[p] \in Unlocked \ {"idle", "done"}
      /\ Account(p) \in Accounts
  BY RunningCommand DEF Authorize, ReadEmployee, ReadAccount, ResolveConcurrent, At
<1>2. CASE Refuse(p, "rejected")
  BY <1>1, <1>2, RefuseTransaction
<1>3. CASE ~Refuse(p, "rejected")
  <2>1. /\ UNCHANGED <<cmd, result, reply, storeVars>> /\ Account(p)' = Account(p)
        /\ \E there \in {"readEmployee", "lock", "readAccount", "create", "decide", "authorize"} :
             pc' = [pc EXCEPT ![p] = there]
    <3>1. CASE Authorize(p)
      BY <1>3, <3>1 DEF Authorize, Continue, Account
    <3>2. CASE ReadEmployee(p)
      BY <1>3, <3>2 DEF ReadEmployee, Account
    <3>3. CASE ReadAccount(p)
      BY <1>3, <3>3 DEF ReadAccount, Account
    <3>4. CASE ResolveConcurrent(p)
      BY <1>3, <3>4 DEF ResolveConcurrent, Account
    <3>5. QED
      BY <3>1, <3>2, <3>3, <3>4
  <2>2. pc'[p] \in {"readEmployee", "readAccount", "create", "decide"} =>
          cmd[p].type = "INITIAL_ALLOCATION"
    <3>1. CASE Authorize(p)
      <4> DEFINE there == IF cmd[p].type = "INITIAL_ALLOCATION" /\ ~resolving[p]
                            THEN "readEmployee" ELSE "lock"
      <4>1. Continue(p, there)
        BY <1>3, <3>1 DEF Authorize
      <4>2. pc'[p] = there
        BY <4>1 DEF Continue
      <4>3. QED
        BY <4>2
    <3>2. CASE pc[p] \in {"readEmployee", "readAccount", "create"}
      BY <3>2 DEF TransactionsInv, Transaction, CreatesForAllocation
    <3>3. QED
      BY <3>1, <3>2 DEF ReadEmployee, ReadAccount, ResolveConcurrent, At
  <2>3. pc'[p] = "decide" => row[Account(p)] # NoRow
    <3>1. lock[Account(p)] # p
      BY <1>1, NothingHeldYet
    <3>2. CASE ReadAccount(p)
      BY <1>3, <3>1, <3>2 DEF ReadAccount, View
    <3>3. CASE Authorize(p) \/ ReadEmployee(p) \/ ResolveConcurrent(p)
      BY <1>3, <3>3 DEF Authorize, ReadEmployee, ResolveConcurrent, Continue
    <3>4. QED
      BY <3>2, <3>3
  <2>4. IsOpen(p)' /\ ReplyIsCommitted(p)'
    BY <1>1, <2>1 DEF TransactionsInv, Transaction, IsOpen, ReplyIsCommitted, At, storeVars
  <2>5. \A q \in Writers \ {p} : seenRow'[q] = seenRow[q] /\ seenActive'[q] = seenActive[q]
    BY <1>3 DEF Authorize, ReadEmployee, ReadAccount, ResolveConcurrent, Continue
  <2>6. QED
    BY <1>1, <2>1, <2>2, <2>3, <2>4, <2>5, QuietTransaction
<1>4. QED
  BY <1>2, <1>3

LEMMA CreateTransaction ==
  ASSUME ServiceInv, TransactionsInv, NEW p \in Writers, CreateAccount(p)
  PROVE  TransactionsInv'
<1> USE DEF ServiceInv, ServiceTypeOK, CreateAccount, Goto
<1> DEFINE a == Account(p)
           r == [balance |-> 0, version |-> 0, currency |-> cmd[p].currency]
<1>1. /\ a \in Accounts /\ (\A b \in Accounts : lock[b] # p) /\ OwnEntries(p) = {}
      /\ cmd[p].type = "INITIAL_ALLOCATION"
  BY RunningCommand, NothingHeldYet DEF At, Unlocked, TransactionsInv, Transaction,
     CreatesForAllocation
<1>2. /\ lock[a] = NoWriter /\ row[a] = NoRow
      /\ lock' = [lock EXCEPT ![a] = p] /\ draft' = [draft EXCEPT ![a] = r]
      /\ UNCHANGED <<row, entries, pending>>
  BY DEF InsertAccount
<1>3. Account(p)' = a /\ pc'[p] = "decide" /\ seenRow'[p] = r /\ Basis(p)' = r
  BY <1>2 DEF Account, Basis
<1>4. Transaction(p)'
  <2>1. LocksItsAccount(p)' /\ NeedsLock(p)' /\ CreatesForAllocation(p)'
    BY <1>1, <1>2, <1>3 DEF LocksItsAccount, NeedsLock, CreatesForAllocation, Locked, Late, At,
                            IInv, TypeOK
  <2>2. WroteItsEntry(p)'
    <3>1. \A e \in pending : e.account \in Accounts /\ lock[e.account] # NoWriter
      BY DEF IInv, TypeOK, Entry, WorkIsLocked
    <3>2. OwnEntries(p)' = {}
      BY <1>1, <1>2, <3>1 DEF OwnEntries, IInv, TypeOK
    <3>3. QED
      BY <1>3, <3>2 DEF WroteItsEntry, Late
  <2>3. BuildsOnBasis(p)'
    BY <1>1, <1>2, <1>3 DEF BuildsOnBasis, Locked, IInv, TypeOK
  <2>4. DecisionStands(p)' /\ IsOpen(p)' /\ ReplyIsCommitted(p)'
    BY <1>2, <1>3 DEF DecisionStands, IsOpen, ReplyIsCommitted, TransactionsInv, Transaction, At
  <2>5. QED
    BY <2>1, <2>2, <2>3, <2>4 DEF Transaction
<1>5. Statement(p)
  BY OwnStatement DEF Step
<1>6. QED
  BY <1>4, <1>5, OwnTransaction

LEMMA LockTransaction ==
  ASSUME ServiceInv, TransactionsInv, NEW p \in Writers, Lock(p)
  PROVE  TransactionsInv'
<1> USE DEF ServiceInv, ServiceTypeOK, Goto
<1> DEFINE a == Account(p)
<1>1. /\ a \in Accounts /\ (\A b \in Accounts : lock[b] # p) /\ OwnEntries(p) = {}
      /\ pc[p] = "lock"
  BY RunningCommand, NothingHeldYet DEF Lock, At, Unlocked
<1>2. CASE Refuse(p, "rejected")
  BY <1>1, <1>2, RefuseTransaction
<1>3. CASE LockAccount(p, a) /\ Continue(p, "read")
  <2> USE DEF Continue
  <2>1. /\ lock[a] = NoWriter /\ row[a] # NoRow /\ draft[a] = row[a]
        /\ lock' = [lock EXCEPT ![a] = p] /\ UNCHANGED <<row, entries, draft, pending>>
    BY <1>1, <1>3 DEF LockAccount, IInv, WorkIsLocked
  <2>2. Account(p)' = a /\ pc'[p] = "read" /\ Basis(p)' = row[a]
    BY <1>3, <2>1 DEF Account, Basis
  <2>3. LocksItsAccount(p)' /\ NeedsLock(p)' /\ CreatesForAllocation(p)'
    BY <1>1, <2>1, <2>2 DEF LocksItsAccount, NeedsLock, CreatesForAllocation, Locked, Late, At,
                            IInv, TypeOK
  <2>4. WroteItsEntry(p)'
    <3>1. \A e \in pending : e.account \in Accounts /\ lock[e.account] # NoWriter
      BY DEF IInv, TypeOK, Entry, WorkIsLocked
    <3>2. OwnEntries(p)' = {}
      BY <1>1, <2>1, <3>1 DEF OwnEntries, IInv, TypeOK
    <3>3. QED
      BY <2>2, <3>2 DEF WroteItsEntry, Late
  <2>5. BuildsOnBasis(p)'
    BY <1>1, <2>1, <2>2 DEF BuildsOnBasis
  <2>6. DecisionStands(p)' /\ IsOpen(p)' /\ ReplyIsCommitted(p)'
    BY <1>1, <1>3, <2>1, <2>2 DEF DecisionStands, IsOpen, ReplyIsCommitted, TransactionsInv,
                                  Transaction, At
  <2>7. Transaction(p)'
    BY <2>3, <2>4, <2>5, <2>6 DEF Transaction
  <2>8. Statement(p)
    BY OwnStatement DEF Step
  <2>9. QED
    BY <1>3, <2>7, <2>8, OwnTransaction
<1>4. QED
  BY <1>2, <1>3 DEF Lock, AcquireLock

LEMMA ReadTransaction ==
  ASSUME ServiceInv, TransactionsInv, NEW p \in Writers, Read(p)
  PROVE  TransactionsInv'
<1> USE DEF ServiceInv, ServiceTypeOK, Read, Goto
<1>1. Account(p) \in Accounts /\ pc[p] = "read" /\ Transaction(p)
  BY RunningCommand DEF At, TransactionsInv
<1>2. Locked(p) /\ View(p) = Basis(p)
  BY <1>1 DEF Transaction, NeedsLock, BuildsOnBasis, Locked, View
<1>3. /\ Account(p)' = Account(p) /\ Basis(p)' = Basis(p) /\ Locked(p)' = Locked(p)
      /\ pc'[p] = "decide" /\ seenRow'[p] = Basis(p) /\ OwnEntries(p)' = OwnEntries(p)
  BY <1>1, <1>2 DEF Account, Basis, Locked, At, storeVars, OwnEntries
<1>4. Transaction(p)'
  BY <1>1, <1>2, <1>3 DEF Transaction, LocksItsAccount, NeedsLock, CreatesForAllocation,
     WroteItsEntry, Late, BuildsOnBasis, DecisionStands, IsOpen, ReplyIsCommitted, At, storeVars
<1>5. QED
  BY <1>4, OwnTransaction DEF Statement

LEMMA DecideTransaction ==
  ASSUME ServiceInv, TransactionsInv, NEW p \in Writers, Decide(p)
  PROVE  TransactionsInv'
<1> USE DEF ServiceInv, ServiceTypeOK, Goto
<1>1. Account(p) \in Accounts /\ pc[p] = "decide" /\ Transaction(p)
  BY RunningCommand DEF Decide, At, TransactionsInv
<1>2. CASE Verdict(p) \notin {"append", "retried"} /\ Refuse(p, Verdict(p))
  <2>1. Verdict(p) # "open"
    BY DEF Verdict
  <2>2. QED
    BY <1>1, <1>2, <2>1, RefuseTransaction
<1>3. CASE Verdict(p) = "append" /\ Continue(p, "insert") /\ UNCHANGED storeVars
  <2> USE DEF Continue
  <2>1. Locked(p)
    <3>1. cmd[p].type = "INITIAL_ALLOCATION" => row[Account(p)] = NoRow
      BY <1>3 DEF Verdict, Account
    <3>2. QED
      BY <1>1, <3>1 DEF Transaction, NeedsLock, At
  <2>2. /\ Account(p)' = Account(p) /\ Basis(p)' = Basis(p) /\ Locked(p)' = Locked(p)
        /\ pc'[p] = "insert" /\ OwnEntries(p)' = OwnEntries(p) /\ Verdict(p)' = Verdict(p)
    BY <1>1, <1>3 DEF Account, Basis, Locked, At, storeVars, OwnEntries, Verdict, Matching,
       RefundMatchesDebit, VisibleEntries, RepeatsValues, DirectionIsValid, BalanceIsSupported
  <2>3. Transaction(p)'
    BY <1>1, <1>3, <2>1, <2>2 DEF Transaction, LocksItsAccount, NeedsLock,
       CreatesForAllocation, WroteItsEntry, Late, BuildsOnBasis, DecisionStands, IsOpen,
       ReplyIsCommitted, At, storeVars
  <2>4. QED
    BY <1>3, <2>3, OwnTransaction DEF Statement
<1>4. CASE Verdict(p) = "retried"
  <2>1. PICK e \in Matching(p) : reply' = [reply EXCEPT ![p] = e]
    BY <1>4 DEF Decide, Refuse
  <2>2. e \in entries /\ SameReference(e, cmd[p])
    BY <1>1 DEF Matching, VisibleEntries, Transaction, WroteItsEntry, Late
  <2>3. /\ EndTransaction(p) /\ UNCHANGED cmd
        /\ result'[p] = "retried" /\ pc'[p] = "done" /\ reply'[p] = e
    BY <1>4, <2>1 DEF Decide, Refuse
  <2>4. Account(p)' = Account(p) /\ entries' = entries
    BY <2>3 DEF Account, EndTransaction, Rollback, storeVars
  <2>5. IsOpen(p)' /\ ReplyIsCommitted(p)'
    BY <2>2, <2>3, <2>4 DEF IsOpen, ReplyIsCommitted, At
  <2>6. Transaction(p)'
    BY <1>1, <2>3, <2>4, <2>5, EndReleases, NothingHeld
  <2>7. QED
    BY <1>4, <2>1, <2>3, <2>6, EndTransactionStep, OwnTransaction DEF Decide, Refuse
<1>5. QED
  BY <1>2, <1>3, <1>4 DEF Decide

LEMMA InsertTransactionKeeps ==
  ASSUME ServiceInv, TransactionsInv, NEW p \in Writers, InsertTransaction(p)
  PROVE  TransactionsInv'
<1> USE DEF ServiceInv, ServiceTypeOK, Goto
<1> DEFINE c == Candidate(p)
<1>1. Account(p) \in Accounts /\ pc[p] = "insert" /\ Transaction(p)
  BY RunningCommand DEF InsertTransaction, At, TransactionsInv
<1>2. CASE Refuse(p, "dbError")
  BY <1>1, <1>2, RefuseTransaction
<1>3. CASE /\ InsertEntry(p, c)
           /\ Continue(p, IF cmd[p].type = "MANUAL_ADJUSTMENT" THEN "audit" ELSE "update")
  <2> USE DEF Continue
  <2>1. lock[Account(p)] = p /\ OwnEntries(p) = {} /\ c.account = Account(p)
    BY <1>1, CandidateColumns DEF Transaction, NeedsLock, Locked, WroteItsEntry, Late
  <2>2. lock' = lock /\ pending' = pending \cup {c} /\ UNCHANGED <<row, entries, draft>>
    BY <1>3, <2>1 DEF InsertEntry, IInv, TypeOK
  <2>3. OwnEntries(p)' = {c}
    BY <2>1, <2>2 DEF OwnEntries
  <2>4. /\ pc'[p] \in {"audit", "update"}
        /\ pc'[p] = "audit" => cmd[p].type = "MANUAL_ADJUSTMENT"
    BY <1>3
  <2>5. /\ Account(p)' = Account(p) /\ Candidate(p)' = c /\ Basis(p)' = Basis(p)
        /\ Locked(p) /\ Locked(p)' /\ Late(p)'
    BY <1>1, <1>3, <2>1, <2>2, <2>4 DEF Account, Candidate, Requests!NewEntry, Basis, Locked,
       Late, At
  <2>6. Transaction(p)'
    BY <1>1, <1>3, <2>2, <2>3, <2>4, <2>5 DEF Transaction, LocksItsAccount, NeedsLock,
       CreatesForAllocation, WroteItsEntry, BuildsOnBasis, DecisionStands, IsOpen,
       ReplyIsCommitted, At
  <2>7. Statement(p)
    BY OwnStatement DEF Step
  <2>8. QED
    BY <1>3, <2>6, <2>7, OwnTransaction
<1>4. QED
  BY <1>2, <1>3 DEF InsertTransaction

LEMMA AuditTransaction ==
  ASSUME ServiceInv, TransactionsInv, NEW p \in Writers, AuditAdjustment(p)
  PROVE  TransactionsInv'
<1> USE DEF ServiceInv, ServiceTypeOK, Goto
<1>1. Account(p) \in Accounts /\ pc[p] = "audit" /\ Transaction(p)
  BY RunningCommand DEF AuditAdjustment, At, TransactionsInv
<1>2. CASE Refuse(p, "dbError")
  BY <1>1, <1>2, RefuseTransaction
<1>3. CASE UNCHANGED <<row, entries, lock, draft, pending>> /\ Continue(p, "update")
  <2> USE DEF Continue
  <2>1. /\ Account(p)' = Account(p) /\ Candidate(p)' = Candidate(p) /\ Basis(p)' = Basis(p)
        /\ Locked(p)' = Locked(p) /\ OwnEntries(p)' = OwnEntries(p) /\ pc'[p] = "update"
    BY <1>1, <1>3 DEF Account, Candidate, Requests!NewEntry, Basis, Locked, At, OwnEntries
  <2>2. Transaction(p)'
    BY <1>1, <1>3, <2>1 DEF Transaction, LocksItsAccount, NeedsLock, CreatesForAllocation,
       WroteItsEntry, Late, BuildsOnBasis, DecisionStands, IsOpen, ReplyIsCommitted, At
  <2>3. Statement(p)
    BY OwnStatement DEF Step
  <2>4. QED
    BY <1>3, <2>2, <2>3, OwnTransaction
<1>4. QED
  BY <1>2, <1>3 DEF AuditAdjustment, InsertAudit

LEMMA UpdateTransaction ==
  ASSUME ServiceInv, TransactionsInv, NEW p \in Writers, UpdateProjection(p)
  PROVE  TransactionsInv'
<1> USE DEF ServiceInv, ServiceTypeOK, Goto
<1> DEFINE a == Account(p)
           r == [balance |-> Candidate(p).resulting, version |-> View(p).version + 1,
                 currency |-> View(p).currency]
<1>1. a \in Accounts /\ pc[p] = "update" /\ Transaction(p)
  BY RunningCommand DEF UpdateProjection, At, TransactionsInv
<1>2. CASE Refuse(p, "dbError")
  BY <1>1, <1>2, RefuseTransaction
<1>3. CASE /\ View(p).version = seenRow[p].version
           /\ UpdateAccount(p, a, r) /\ Continue(p, "commit")
  <2> USE DEF Continue
  <2>1. Locked(p) /\ lock[a] = p
    BY <1>1 DEF Transaction, NeedsLock, Late, Locked
  <2>2. lock' = lock /\ draft' = [draft EXCEPT ![a] = r] /\ UNCHANGED <<row, entries, pending>>
    BY <1>3, <2>1 DEF UpdateAccount, IInv, TypeOK
  <2>3. /\ Account(p)' = a /\ Candidate(p)' = Candidate(p) /\ Basis(p)' = Basis(p)
        /\ Locked(p)' /\ OwnEntries(p)' = OwnEntries(p) /\ pc'[p] = "commit"
    BY <1>1, <1>3, <2>1, <2>2 DEF Account, Candidate, Requests!NewEntry, Basis, Locked, At,
       OwnEntries
  <2>4. draft'[a].version = Candidate(p).sequence /\ draft'[a].balance = Candidate(p).resulting
    BY <1>1, <1>3, <2>2, CandidateColumns DEF IInv, TypeOK
  <2>5. BuildsOnBasis(p)'
    BY <1>1, <1>3, <2>1, <2>3, <2>4 DEF Transaction, BuildsOnBasis
  <2>6. Transaction(p)'
    BY <1>1, <1>3, <2>1, <2>2, <2>3, <2>5 DEF Transaction, LocksItsAccount, NeedsLock,
       CreatesForAllocation, WroteItsEntry, Late, DecisionStands, IsOpen, ReplyIsCommitted, At
  <2>7. Statement(p)
    BY OwnStatement DEF Step
  <2>8. QED
    BY <1>3, <2>6, <2>7, OwnTransaction
<1>4. QED
  BY <1>2, <1>3 DEF UpdateProjection

LEMMA CommitTransactionKeeps ==
  ASSUME ServiceInv, TransactionsInv, NEW p \in Writers, CommitTransaction(p)
  PROVE  TransactionsInv'
<1> USE DEF ServiceInv, ServiceTypeOK, Goto
<1>1. Account(p) \in Accounts /\ pc[p] = "commit" /\ Transaction(p)
  BY RunningCommand DEF CommitTransaction, At, TransactionsInv
<1>2. CASE Refuse(p, "dbError")
  BY <1>1, <1>2, RefuseTransaction
<1>3. CASE Commit(p) /\ ~Refuse(p, "dbError")
  <2>1. /\ pc'[p] = "done" /\ result'[p] = "applied" /\ reply'[p] = Candidate(p)
        /\ cmd' = cmd /\ Account(p)' = Account(p)
    BY <1>3 DEF CommitTransaction, Account
  <2>2. Candidate(p) \in entries'
    BY <1>1, <1>3 DEF Commit, VisibleEntries, Transaction, WroteItsEntry, Late
  <2>3. SameReference(Candidate(p), cmd[p])
    BY DEF SameReference, Candidate, Requests!NewEntry
  <2>4. IsOpen(p)' /\ ReplyIsCommitted(p)'
    BY <2>1, <2>2, <2>3 DEF IsOpen, ReplyIsCommitted, At
  <2>5. Transaction(p)'
    BY <1>1, <1>3, <2>1, <2>4, EndReleases, NothingHeld
  <2>6. QED
    BY <1>3, <2>5, OwnTransaction DEF Statement, CommitTransaction
<1>4. QED
  BY <1>2, <1>3 DEF CommitTransaction

LEMMA LossTransaction ==
  ASSUME ServiceInv, TransactionsInv, NEW p \in Writers, Abort(p) \/ LoseAnswer(p)
  PROVE  TransactionsInv'
<1> USE DEF ServiceInv, ServiceTypeOK
<1>1. CASE Abort(p)
  BY <1>1, RefuseTransaction DEF Abort
<1>2. CASE LoseAnswer(p)
  <2>1. pc[p] = "done"
    BY <1>2 DEF LoseAnswer, TransactionsInv, Transaction, IsOpen, At
  <2>2. Account(p)' = Account(p) /\ Account(p) \in Accounts
    BY <1>2, <2>1, RunningCommand DEF LoseAnswer, Account
  <2>3. IsOpen(p)' /\ ReplyIsCommitted(p)'
    BY <1>2, <2>1 DEF LoseAnswer, IsOpen, ReplyIsCommitted, At
  <2>4. QED
    BY <1>2, <2>1, <2>2, <2>3, QuietTransaction DEF LoseAnswer, Unlocked
<1>3. QED
  BY <1>1, <1>2

LEMMA TransactionsStep ==
  ServiceInv /\ TransactionsInv /\ [ServiceNext]_serviceVars => TransactionsInv'
<1> SUFFICES ASSUME ServiceInv, TransactionsInv, [ServiceNext]_serviceVars
             PROVE  TransactionsInv'
  OBVIOUS
<1>1. CASE ChangeAuthority \/ ChangeEmployee \/ ChangeCurrency \/ UNCHANGED serviceVars
  <2>1. UNCHANGED <<storeVars, requestVars>>
    BY <1>1 DEF ChangeAuthority, ChangeEmployee, ChangeCurrency, serviceVars
  <2>2. QED
    BY <2>1, OthersKeepTransaction DEF TransactionsInv, requestVars
<1>2. QED
  BY <1>1, SubmitTransaction, PrepareTransaction, CreateTransaction, LockTransaction,
     ReadTransaction, DecideTransaction, InsertTransactionKeeps, AuditTransaction,
     UpdateTransaction, CommitTransactionKeeps, LossTransaction DEF ServiceNext, Step

LEMMA TransactionsInit == ServiceInit => TransactionsInv
BY WriterAssumption DEF ServiceInit, Init, TransactionsInv, Transaction, LocksItsAccount,
   NeedsLock, CreatesForAllocation, Locked, Late, At, WroteItsEntry, OwnEntries, BuildsOnBasis,
   DecisionStands, IsOpen, ReplyIsCommitted

(* Under any interleaving, failures and retries a transaction locks only    *)
(* the account of its command, has written only its own entry, and builds   *)
(* on the row as it is committed; what it decided is right until it commits.*)
THEOREM TransactionsHold == ServiceSpec => []TransactionsInv
BY TransactionsInit, TransactionsStep, ServiceInvariantHolds, PTL DEF ServiceSpec

-----------------------------------------------------------------------------
(* What a transaction has written is not committed, and its reference is    *)
(* not used by what is.                                                     *)
LEMMA CandidateIsNew ==
  ASSUME ServiceInv, TransactionsInv, NEW p \in Writers, Late(p)
  PROVE  /\ Candidate(p) \in pending \ entries
         /\ \A d \in entries : ~SameReference(d, cmd[p])
<1> USE DEF ServiceInv, IInv, TypeOK, Safety
<1> DEFINE c == Candidate(p)
<1>1. c \in pending
  BY DEF TransactionsInv, Transaction, WroteItsEntry, OwnEntries
<1>2. c \notin entries
  <2>1. c.account \in Accounts /\ c.sequence \in Int
    BY <1>1 DEF Entry
  <2>2. CASE row[c.account] = NoRow
    BY <2>1, <2>2 DEF Gapless, Of
  <2>3. CASE row[c.account] # NoRow
    <3>1. c.sequence > row[c.account].version
      BY <1>1, <2>3 DEF PendingIsValid, FollowsCommitted
    <3>2. c \in entries => c.sequence <= row[c.account].version
      BY <2>1, <2>3 DEF Gapless, Of
    <3>3. row[c.account].version \in Int
      BY <2>1, <2>3 DEF AccountRow
    <3>4. QED
      BY <2>1, <3>1, <3>2, <3>3
  <2>4. QED
    BY <2>2, <2>3
<1>3. ASSUME NEW d \in entries, SameReference(d, cmd[p])
      PROVE  FALSE
  <2>1. SameReference(d, c)
    BY <1>3 DEF SameReference, Candidate, Requests!NewEntry
  <2>2. QED
    BY <1>1, <1>2, <2>1 DEF PendingIsValid, IsUnique
<1>4. QED
  BY <1>1, <1>2, <1>3

(* A step in which no request is newly told that its command was applied,   *)
(* or which entry its command made.                                         *)
LEMMA NothingNewIsTold ==
  ASSUME AppliedOnce,
         \A q \in Writers : \/ reply'[q] = NoEntry
                            \/ /\ reply'[q] = reply[q] /\ cmd'[q] = cmd[q]
                               /\ result'[q] = "applied" => result[q] = "applied"
  PROVE  AppliedOnce'
BY DEF AppliedOnce

LEMMA AppliedOnceStep ==
  ASSUME ServiceInv, TransactionsInv, AppliedOnce, [ServiceNext]_serviceVars
  PROVE  AppliedOnce'
<1> USE DEF ServiceInv, ServiceTypeOK
<1>1. ASSUME NEW p \in Writers, CommitTransaction(p), ~Refuse(p, "dbError")
      PROVE  AppliedOnce'
  <2>1. /\ reply' = [reply EXCEPT ![p] = Candidate(p)] /\ cmd' = cmd
        /\ result' = [result EXCEPT ![p] = "applied"]
    BY <1>1 DEF CommitTransaction
  <2>2. ASSUME NEW q \in Writers, q # p, cmd[q] = cmd[p], reply[q] # NoEntry
        PROVE  FALSE
    <3>1. reply[q] \in entries /\ SameReference(reply[q], cmd[p])
      BY <2>2 DEF TransactionsInv, Transaction, ReplyIsCommitted
    <3>2. QED
      BY <1>1, <3>1, CandidateIsNew DEF CommitTransaction, Late, At
  <2>3. QED
    BY <2>1, <2>2 DEF AppliedOnce
<1>2. ASSUME NEW p \in Writers, Decide(p), Verdict(p) = "retried"
      PROVE  AppliedOnce'
  <2>1. PICK e \in Matching(p) : reply' = [reply EXCEPT ![p] = e]
    BY <1>2 DEF Decide, Refuse
  <2>2. cmd' = cmd /\ result' = [result EXCEPT ![p] = "retried"]
    BY <1>2 DEF Decide, Refuse
  <2>3. e \in entries /\ SameReference(e, cmd[p])
    BY <1>2 DEF Decide, At, Matching, VisibleEntries, TransactionsInv, Transaction,
                WroteItsEntry, Late
  <2>4. ASSUME NEW q \in Writers, cmd[q] = cmd[p], reply[q] # NoEntry
        PROVE  reply[q] = e
    <3>1. reply[q] \in entries /\ SameReference(reply[q], cmd[p])
      BY <2>4 DEF TransactionsInv, Transaction, ReplyIsCommitted
    <3>2. SameReference(reply[q], e)
      BY <2>3, <3>1 DEF SameReference
    <3>3. QED
      BY <2>3, <3>1, <3>2 DEF IInv, ReferencesAreUsedOnce
  <2>5. QED
    BY <2>1, <2>2, <2>4 DEF AppliedOnce
<1>3. ASSUME NEW p \in Writers, NEW r, r # "applied", Refuse(p, r)
      PROVE  AppliedOnce'
  BY <1>3, NothingNewIsTold DEF Refuse
<1>4. ASSUME NEW p \in Writers, NEW c \in Commands, Submit(p, c)
      PROVE  AppliedOnce'
  <2>1. reply[p] = NoEntry
    BY <1>4 DEF Submit, At, TransactionsInv, Transaction, IsOpen, ReplyIsCommitted
  <2>2. QED
    BY <1>4, <2>1, NothingNewIsTold DEF Submit
<1>5. ASSUME NEW p \in Writers, Resubmit(p) \/ LoseAnswer(p)
      PROVE  AppliedOnce'
  BY <1>5, NothingNewIsTold DEF Resubmit, LoseAnswer
<1>6. CASE UNCHANGED <<cmd, result, reply>>
  BY <1>6, NothingNewIsTold
<1>7. ASSUME NEW p \in Writers, Step(p)
      PROVE  AppliedOnce'
  <2>1. CASE Authorize(p) \/ ReadEmployee(p) \/ ReadAccount(p) \/ CreateAccount(p)
             \/ ResolveConcurrent(p) \/ Lock(p) \/ Read(p)
    BY <1>3, <1>6, <2>1 DEF Authorize, ReadEmployee, ReadAccount, CreateAccount,
       ResolveConcurrent, Lock, Read, Continue
  <2>2. CASE InsertTransaction(p) \/ AuditAdjustment(p) \/ UpdateProjection(p)
    BY <1>3, <1>6, <2>2 DEF InsertTransaction, AuditAdjustment, UpdateProjection, Continue
  <2>3. CASE Decide(p)
    <3>1. Verdict(p) # "applied"
      BY DEF Verdict
    <3>2. QED
      BY <1>2, <1>3, <1>6, <2>3, <3>1 DEF Decide, Continue
  <2>4. CASE CommitTransaction(p)
    BY <1>1, <1>3, <2>4
  <2>5. QED
    BY <1>7, <2>1, <2>2, <2>3, <2>4 DEF Step
<1>8. CASE ChangeAuthority \/ ChangeEmployee \/ ChangeCurrency \/ UNCHANGED serviceVars
  BY <1>6, <1>8 DEF ChangeAuthority, ChangeEmployee, ChangeCurrency, requestVars, serviceVars
<1>9. ASSUME NEW p \in Writers, Abort(p)
      PROVE  AppliedOnce'
  BY <1>3, <1>9 DEF Abort
<1>10. QED
  BY <1>4, <1>5, <1>7, <1>8, <1>9 DEF ServiceNext

(* A command takes effect once, however many requests carry it, however     *)
(* often they are submitted and whichever answers were lost.                *)
THEOREM CommandsApplyOnce == ServiceSpec => []AppliedOnce
<1>1. ServiceInit => AppliedOnce
  BY DEF ServiceInit, AppliedOnce
<1>2. QED
  BY <1>1, AppliedOnceStep, ServiceInvariantHolds, TransactionsHold, PTL DEF ServiceSpec

-----------------------------------------------------------------------------
(* An adjustment is audited once, between its entry and the projection.     *)
AuditedOnce(p) ==
  /\ At(p, "audit") => \A u \in pendingAudits : u.account # Account(p)
  /\ pc[p] \in {"update", "commit"} /\ cmd[p].type = "MANUAL_ADJUSTMENT" =>
       \E u \in pendingAudits : /\ u.account = Account(p)
                                /\ u.sequence = Candidate(p).sequence

AuditedInv == \A p \in Writers : AuditedOnce(p)

(* The audits of an account are written by the holder of its lock.          *)
LEMMA OthersAuditsStay ==
  ASSUME IInv, NEW w \in Writers, NEW a \in Accounts, lock[a] # w, lock[a] # NoWriter,
         Statement(w), NEW u, u.account = a
  PROVE  u \in pendingAudits' <=> u \in pendingAudits
<1>1. ASSUME NEW v \in Audit, InsertAudit(w, v)
      PROVE  u \in pendingAudits' <=> u \in pendingAudits
  <2>1. PICK e \in OwnEntries(w) : e.account = v.account
    BY <1>1 DEF InsertAudit, AuditIsAccepted, AuditGuard
  <2>2. lock[v.account] = w
    BY <2>1 DEF OwnEntries
  <2>3. pendingAudits' = pendingAudits \cup {v} /\ u # v
    BY <1>1, <2>2 DEF InsertAudit
  <2>4. QED
    BY <2>3
<1>2. CASE Commit(w) \/ Rollback(w)
  <2>1. pendingAudits' = {v \in pendingAudits : lock[v.account] # w}
    BY <1>2 DEF Commit, Rollback, Discard, OwnAudits
  <2>2. QED
    BY <2>1
<1>3. CASE pendingAudits' = pendingAudits
  BY <1>3
<1>4. QED
  BY <1>1, <1>2, <1>3 DEF Statement, LockAccount, InsertAccount, InsertEntry, UpdateAccount,
                          storeVars

LEMMA OthersKeepAudited ==
  ASSUME ServiceInv, TransactionsInv, NEW q \in Writers, AuditedOnce(q),
         (\E w \in Writers : w # q /\ Statement(w)) \/ UNCHANGED storeVars,
         pc'[q] = pc[q], cmd'[q] = cmd[q], seenRow'[q] = seenRow[q]
  PROVE  AuditedOnce(q)'
<1>1. Account(q)' = Account(q) /\ Candidate(q)' = Candidate(q)
  BY DEF Account, Candidate, Requests!NewEntry
<1>2. CASE pc[q] \in {"audit", "update", "commit"}
  <2>1. Account(q) \in Accounts /\ lock[Account(q)] = q
    BY <1>2, RunningCommand DEF TransactionsInv, Transaction, NeedsLock, Late, Locked
  <2>2. ASSUME NEW u, u.account = Account(q)
        PROVE  u \in pendingAudits' <=> u \in pendingAudits
    <3>1. CASE UNCHANGED storeVars
      BY <3>1 DEF storeVars
    <3>2. CASE \E w \in Writers : w # q /\ Statement(w)
      BY <2>1, <2>2, <3>2, WriterAssumption, OthersAuditsStay DEF ServiceInv
    <3>3. QED
      BY <3>1, <3>2
  <2>3. QED
    BY <1>1, <2>2 DEF AuditedOnce, At
<1>3. CASE pc[q] \notin {"audit", "update", "commit"}
  BY <1>3 DEF AuditedOnce, At
<1>4. QED
  BY <1>2, <1>3

LEMMA OwnAudited ==
  ASSUME ServiceInv, TransactionsInv, NEW p \in Writers, AuditedOnce(p), Step(p)
  PROVE  AuditedOnce(p)'
<1> USE DEF ServiceInv, ServiceTypeOK, Goto
<1>1. CASE pc'[p] \notin {"audit", "update", "commit"}
  BY <1>1 DEF AuditedOnce, At
<1>2. CASE pc'[p] = "audit"
  <2>1. /\ pc[p] = "insert" /\ Candidate(p)' = Candidate(p) /\ Account(p)' = Account(p)
        /\ pendingAudits' = pendingAudits
    BY <1>2 DEF Step, Authorize, ReadEmployee, ReadAccount, CreateAccount, ResolveConcurrent,
       Lock, Read, Decide, InsertTransaction, AuditAdjustment, UpdateProjection,
       CommitTransaction, Refuse, Continue, At, InsertEntry, Account, Candidate,
       Requests!NewEntry
  <2>2. lock[Account(p)] = p /\ OwnEntries(p) = {}
    BY <2>1 DEF TransactionsInv, Transaction, NeedsLock, Locked, WroteItsEntry, Late
  <2>3. ASSUME NEW u \in pendingAudits
        PROVE  u.account # Account(p)
    <3>1. PICK e \in pending : e.account = u.account
      BY DEF IInv, PendingAuditsAreValid, AuditGuard
    <3>2. QED
      BY <2>2, <3>1 DEF OwnEntries
  <2>4. QED
    BY <1>2, <2>1, <2>3 DEF AuditedOnce, At
<1>3. CASE pc'[p] \in {"update", "commit"} /\ cmd'[p].type = "MANUAL_ADJUSTMENT"
  <2>1. CASE InsertTransaction(p) \/ CommitTransaction(p) \/ Decide(p)
    BY <1>3, <2>1 DEF InsertTransaction, CommitTransaction, Decide, Refuse, Continue
  <2>2. CASE AuditAdjustment(p)
    <3> DEFINE u == [account |-> Account(p), sequence |-> Candidate(p).sequence,
                     actor |-> cmd[p].actor, before |-> seenRow[p].balance,
                     after |-> Candidate(p).resulting]
    <3>1. InsertAudit(p, u) /\ Continue(p, "update")
      BY <1>3, <2>2 DEF AuditAdjustment, Refuse
    <3>2. Candidate(p)' = Candidate(p) /\ Account(p)' = Account(p)
      BY <3>1 DEF Continue, Account, Candidate, Requests!NewEntry
    <3>3. u \in pendingAudits' /\ pc'[p] # "audit"
      BY <3>1 DEF InsertAudit, Continue
    <3>4. QED
      BY <3>2, <3>3 DEF AuditedOnce, At
  <2>3. CASE UpdateProjection(p)
    <3>1. /\ pc[p] = "update" /\ pendingAudits' = pendingAudits /\ pc'[p] = "commit"
          /\ cmd' = cmd /\ seenRow' = seenRow
      BY <1>3, <2>3 DEF UpdateProjection, UpdateAccount, Refuse, Continue, At
    <3>2. Candidate(p)' = Candidate(p) /\ Account(p)' = Account(p)
      BY <3>1 DEF Account, Candidate, Requests!NewEntry
    <3>3. QED
      BY <1>3, <3>1, <3>2 DEF AuditedOnce, At
  <2>4. CASE \/ Authorize(p) \/ ReadEmployee(p) \/ ReadAccount(p) \/ CreateAccount(p)
             \/ ResolveConcurrent(p) \/ Lock(p) \/ Read(p)
    BY <1>3, <2>4 DEF Authorize, ReadEmployee, ReadAccount, CreateAccount, ResolveConcurrent,
       Lock, Read, Refuse, Continue
  <2>5. QED
    BY <2>1, <2>2, <2>3, <2>4 DEF Step
<1>4. CASE pc'[p] \in {"update", "commit"} /\ cmd'[p].type # "MANUAL_ADJUSTMENT"
  BY <1>4 DEF AuditedOnce, At
<1>5. QED
  BY <1>1, <1>2, <1>3, <1>4

LEMMA AuditedStep ==
  ASSUME ServiceInv, TransactionsInv, AuditedInv, [ServiceNext]_serviceVars
  PROVE  AuditedInv'
<1> USE DEF ServiceInv, ServiceTypeOK
<1>1. ASSUME NEW p \in Writers, Statement(p), AuditedOnce(p)',
             \A q \in Writers \ {p} : /\ pc'[q] = pc[q] /\ cmd'[q] = cmd[q]
                                      /\ seenRow'[q] = seenRow[q]
      PROVE  AuditedInv'
  BY <1>1, OthersKeepAudited DEF AuditedInv
<1>2. ASSUME NEW p \in Writers, Step(p)
      PROVE  AuditedInv'
  <2>1. Statement(p)
    BY <1>2, OwnStatement
  <2>2. \A q \in Writers \ {p} : /\ pc'[q] = pc[q] /\ cmd'[q] = cmd[q]
                                  /\ seenRow'[q] = seenRow[q]
    BY <1>2 DEF Step, Authorize, ReadEmployee, ReadAccount, CreateAccount, ResolveConcurrent,
       Lock, Read, Decide, InsertTransaction, AuditAdjustment, UpdateProjection,
       CommitTransaction, Refuse, Continue, Goto
  <2>3. QED
    BY <1>1, <1>2, <2>1, <2>2, OwnAudited DEF AuditedInv
<1>3. ASSUME NEW p \in Writers,
             \/ \E c \in Commands : Submit(p, c)
             \/ Resubmit(p) \/ Abort(p) \/ LoseAnswer(p)
      PROVE  AuditedInv'
  <2>1. Statement(p)
    BY <1>3, OwnStatement
  <2>2. \A q \in Writers \ {p} : /\ pc'[q] = pc[q] /\ cmd'[q] = cmd[q]
                                  /\ seenRow'[q] = seenRow[q]
    BY <1>3 DEF Submit, Resubmit, Abort, LoseAnswer, Refuse, Goto
  <2>3. pc'[p] \notin {"audit", "update", "commit"}
    BY <1>3 DEF Submit, Resubmit, Abort, LoseAnswer, Refuse, Goto, FirstStep, TransactionsInv,
       Transaction, IsOpen, At
  <2>4. QED
    BY <1>1, <2>1, <2>2, <2>3 DEF AuditedOnce, At
<1>4. CASE ChangeAuthority \/ ChangeEmployee \/ ChangeCurrency \/ UNCHANGED serviceVars
  <2>1. UNCHANGED <<storeVars, requestVars>>
    BY <1>4 DEF ChangeAuthority, ChangeEmployee, ChangeCurrency, serviceVars
  <2>2. QED
    BY <2>1, OthersKeepAudited DEF AuditedInv, requestVars
<1>5. QED
  BY <1>2, <1>3, <1>4 DEF ServiceNext

LEMMA AuditedHolds == ServiceSpec => []AuditedInv
<1>1. ServiceInit => AuditedInv
  BY DEF ServiceInit, AuditedInv, AuditedOnce, At
<1>2. QED
  BY <1>1, AuditedStep, ServiceInvariantHolds, TransactionsHold, PTL DEF ServiceSpec

-----------------------------------------------------------------------------
(* The service's checks are the database's guards.  One lemma for each      *)
(* statement that the database could reject.                                *)
LEMMA BasisIsZeroOrCommitted ==
  ASSUME ServiceInv, TransactionsInv, NEW p \in Writers, pc[p] # "idle"
  PROVE  /\ Basis(p) \in AccountRow
         /\ \A e \in Of(Account(p)) : /\ row[Account(p)] # NoRow
                                      /\ e.sequence \in Int
                                      /\ e.sequence <= Basis(p).version
         /\ Basis(p).version = MaxVersion =>
              \E e \in Of(Account(p)) : e.sequence = MaxVersion
<1> USE DEF ServiceInv, IInv, TypeOK, Safety
<1> DEFINE a == Account(p)
<1>1. a \in Accounts /\ cmd[p].currency \in Currencies
  BY RunningCommand
<1>2. CASE row[a] = NoRow
  <2>1. Of(a) = {}
    BY <1>1, <1>2 DEF Gapless
  <2>2. Basis(p) = [balance |-> 0, version |-> 0, currency |-> cmd[p].currency]
    BY <1>2 DEF Basis
  <2>3. QED
    BY <1>1, <2>1, <2>2, BoundsAssumption DEF AccountRow, Balances
<1>3. CASE row[a] # NoRow
  <2>1. Basis(p) = row[a] /\ row[a] \in AccountRow
    BY <1>1, <1>3 DEF Basis
  <2>2. \A e \in Of(a) : e.sequence \in Int /\ e.sequence <= row[a].version
    BY <1>1, <1>3 DEF Gapless, Of, Entry
  <2>3. \E e \in Of(a) : e.sequence = row[a].version
    BY <1>1, <1>3 DEF Projected
  <2>4. QED
    BY <1>3, <2>1, <2>2, <2>3
<1>4. QED
  BY <1>2, <1>3

LEMMA EntryFits ==
  ASSUME ServiceInv, TransactionsInv, NEW p \in Writers, At(p, "insert"),
         Basis(p).version # MaxVersion
  PROVE  Candidate(p) \in Entry
<1> DEFINE c == cmd[p]
<1>1. /\ c \in Command /\ seenRow[p] = Basis(p) /\ Verdict(p) = "append"
      /\ Basis(p) \in AccountRow
  BY RunningCommand, BasisIsZeroOrCommitted, CommandsAssumption DEF At, TransactionsInv,
     Transaction, NeedsLock, BuildsOnBasis, DecisionStands
<1>2. seenRow[p].balance + c.delta \in Balances
  BY <1>1 DEF Verdict, BalanceIsSupported
<1>3. seenRow[p].version + 1 \in 1 .. MaxVersion
  BY <1>1, BoundsAssumption DEF AccountRow
<1>4. QED
  BY <1>1, <1>2, <1>3 DEF Command, Candidate, Requests!NewEntry, Entry, Actors

LEMMA EntryIsForeseen ==
  ASSUME ServiceInv, TransactionsInv, NEW p \in Writers, At(p, "insert"),
         Candidate(p) \in Entry
  PROVE  EntryIsAccepted(p, Candidate(p))
<1> USE DEF ServiceInv, IInv, TypeOK, Safety
<1> DEFINE a == Account(p)
           e == Candidate(p)
<1>1. /\ cmd[p] \in Command /\ a \in Accounts /\ lock[a] = p /\ OwnEntries(p) = {}
      /\ seenRow[p] = Basis(p) /\ draft[a] = Basis(p) /\ Verdict(p) = "append"
  BY RunningCommand, CommandsAssumption DEF At, TransactionsInv, Transaction, NeedsLock, Locked,
     BuildsOnBasis, DecisionStands, WroteItsEntry, Late
<1>2. /\ Basis(p) \in AccountRow
      /\ \A d \in Of(a) : /\ row[a] # NoRow /\ d.sequence \in Int
                          /\ d.sequence < e.sequence
  BY <1>1, BasisIsZeroOrCommitted, CandidateColumns DEF At, AccountRow
<1>3. VisibleEntries(p) = entries /\ Matching(p) = {d \in entries : SameReference(d, cmd[p])}
  BY <1>1 DEF VisibleEntries, Matching
<1>4. /\ e.account = a /\ e.type = cmd[p].type /\ e.delta = cmd[p].delta
      /\ e.reference = cmd[p].reference
  BY DEF Candidate, Requests!NewEntry, Account
<1>5. AppendGuard(draft[a], e)
  <2>1. seenRow[p].currency = cmd[p].currency
    BY <1>1 DEF Verdict
  <2>2. QED
    BY <1>1, <1>2, <1>4, <2>1, CandidateColumns, RowAssumption DEF AppendGuard, AccountExists,
       CurrencyMatchesAccount, SequenceIsNext, ResultingIsConsistent
<1>6. DirectionIsValid(e) /\ ManualActorIsUser(e)
  <2>1. DirectionIsValid(cmd[p])
    BY <1>1 DEF Verdict
  <2>2. QED
    BY <1>1, <1>4, <2>1, CandidateColumns, SystemAssumption DEF DirectionIsValid,
       ManualActorIsUser, Command
<1>7. RefundHasDebit(entries, e)
  <2> SUFFICES ASSUME e.type = "CANCELLATION_REFUND"
               PROVE  \E d \in entries : /\ d.account = e.account
                                         /\ d.type = "BOOKING_DEBIT"
                                         /\ d.reference = e.reference
                                         /\ d.sequence < e.sequence
                                         /\ d.currency = e.currency
                                         /\ e.delta <= -d.delta
    BY DEF RefundHasDebit
  <2>1. RefundMatchesDebit(p)
    BY <1>1, <1>4 DEF Verdict
  <2>2. QED
    BY <1>2, <1>3, <1>4, <2>1, CandidateColumns DEF RefundMatchesDebit, Of
<1>8. ReferenceIsFree(entries, e)
  <2>1. Matching(p) = {}
    BY <1>1 DEF Verdict
  <2>2. QED
    BY <1>3, <1>4, <2>1 DEF ReferenceIsFree, SameReference, Account
<1>9. SequenceIsFree(entries, e) /\ InitialAllocationIsFree(entries, e)
  <2>1. SequenceIsFree(entries, e)
    BY <1>2, <1>4 DEF SequenceIsFree, Of
  <2>2. e.type = "INITIAL_ALLOCATION" => row[a] = NoRow
    BY <1>1, <1>4 DEF Verdict, Account
  <2>3. QED
    BY <1>2, <1>4, <2>1, <2>2 DEF InitialAllocationIsFree, Of
<1>10. QED
  BY <1>3, <1>4, <1>5, <1>6, <1>7, <1>8, <1>9 DEF EntryIsAccepted

LEMMA AuditIsForeseen ==
  ASSUME ServiceInv, TransactionsInv, AuditedInv, NEW p \in Writers, At(p, "audit"),
         NEW u, u = [account |-> Account(p), sequence |-> Candidate(p).sequence,
                     actor |-> cmd[p].actor, before |-> seenRow[p].balance,
                     after |-> Candidate(p).resulting]
  PROVE  AuditIsAccepted(p, u)
<1> DEFINE e == Candidate(p)
<1>1. /\ OwnEntries(p) = {e} /\ seenRow[p] = Basis(p)
      /\ cmd[p].type = "MANUAL_ADJUSTMENT" /\ cmd[p] \in Command
      /\ Account(p) \in Accounts
  BY RunningCommand, CommandsAssumption DEF At, TransactionsInv, Transaction, NeedsLock, Locked,
     BuildsOnBasis, WroteItsEntry, Late, DecisionStands
<1>2. e.type = cmd[p].type /\ e.delta = cmd[p].delta
  BY DEF Candidate, Requests!NewEntry
<1>3. Basis(p) \in AccountRow /\ \A d \in Of(Account(p)) : d.sequence < e.sequence
  BY <1>1, BasisIsZeroOrCommitted, CandidateColumns DEF At, AccountRow
<1>4. u.before = e.resulting - e.delta
  BY <1>1, <1>2, <1>3, CandidateColumns DEF AccountRow, Balances, Command, Deltas
<1>5. AuditGuard(OwnEntries(p), u)
  BY <1>1, <1>2, <1>4, CandidateColumns DEF AuditGuard
<1>6. ASSUME NEW v \in VisibleAudits(p)
      PROVE  ~(v.account = u.account /\ v.sequence = u.sequence)
  <2>1. CASE v \in audits
    <3>1. PICK d \in Of(v.account) : d.sequence = v.sequence
      BY <2>1 DEF ServiceInv, IInv, Safety, AdjustmentsAreAudited
    <3>2. d.sequence \in Int /\ e.sequence \in Int
      BY <1>1, <1>3, <3>1, CandidateColumns DEF ServiceInv, IInv, TypeOK, Of, Entry, AccountRow
    <3>3. QED
      BY <1>3, <3>1, <3>2
  <2>2. CASE v \in OwnAudits(p)
    BY <2>2 DEF OwnAudits, AuditedInv, AuditedOnce
  <2>3. QED
    BY <2>1, <2>2 DEF VisibleAudits
<1>7. QED
  BY <1>5, <1>6 DEF AuditIsAccepted, AuditIsFree

LEMMA UpdateIsForeseen ==
  ASSUME ServiceInv, TransactionsInv, NEW p \in Writers, At(p, "update"),
         NEW r, r = [balance |-> Candidate(p).resulting, version |-> View(p).version + 1,
                     currency |-> View(p).currency]
  PROVE  View(p).version = seenRow[p].version /\ UpdateIsAccepted(p, Account(p), r)
<1> DEFINE a == Account(p)
<1>1. /\ lock[a] = p /\ OwnEntries(p) = {Candidate(p)}
      /\ seenRow[p] = Basis(p) /\ draft[a] = Basis(p)
  BY DEF At, TransactionsInv, Transaction, NeedsLock, Locked, BuildsOnBasis, WroteItsEntry, Late
<1>2. View(p) = Basis(p)
  BY <1>1 DEF View
<1>3. Basis(p) # NoRow
  BY BasisIsZeroOrCommitted, RowAssumption DEF At
<1>4. ProjectionHasEntry(VisibleEntries(p), a, draft[a], r)
  BY <1>1, <1>2, CandidateColumns DEF ProjectionHasEntry, VisibleEntries
<1>5. QED
  BY <1>1, <1>2, <1>3, <1>4 DEF UpdateIsAccepted, IdentityIsKept

LEMMA CommitIsForeseen ==
  ASSUME ServiceInv, TransactionsInv, AuditedInv, NEW p \in Writers, At(p, "commit")
  PROVE  CommitIsAccepted(p)
<1> DEFINE e == Candidate(p)
<1>1. /\ lock[Account(p)] = p /\ Locked(p) /\ OwnEntries(p) = {e} /\ seenRow[p] = Basis(p)
      /\ draft[Account(p)].version = e.sequence /\ draft[Account(p)].balance = e.resulting
      /\ \A a \in Accounts : lock[a] = p => a = Account(p)
  BY DEF At, TransactionsInv, Transaction, NeedsLock, Locked, BuildsOnBasis, WroteItsEntry, Late,
     LocksItsAccount
<1>2. e.account = Account(p) /\ e.type = cmd[p].type
  BY DEF Candidate, Requests!NewEntry, Account
<1>3. ProjectionRequired(p) /\ ManualAuditRequired(p)
  <2>1. ProjectionRequired(p)
    BY <1>1, <1>2 DEF ProjectionRequired
  <2>2. e.type = "MANUAL_ADJUSTMENT" =>
          \E u \in OwnAudits(p) : u.account = e.account /\ u.sequence = e.sequence
    BY <1>1, <1>2 DEF AuditedInv, AuditedOnce, At, OwnAudits
  <2>3. ManualAuditRequired(p)
    BY <1>1, <2>2 DEF ManualAuditRequired, VisibleAudits
  <2>4. QED
    BY <2>1, <2>3
<1>4. InitialAllocationRequired(p)
  <2> SUFFICES ASSUME row[Account(p)] = NoRow
               PROVE  e.sequence = 1 /\ e.type = "INITIAL_ALLOCATION"
    BY <1>1, <1>2 DEF InitialAllocationRequired, VisibleEntries
  <2>1. e.type = "INITIAL_ALLOCATION"
    BY <1>1, <1>2 DEF TransactionsInv, Transaction, CreatesForAllocation
  <2>2. e.sequence = 1
    BY <1>1, CandidateColumns DEF Basis
  <2>3. QED
    BY <2>1, <2>2
<1>5. QED
  BY <1>3, <1>4 DEF CommitIsAccepted

(* What GuardsAreForeseen excuses.                                          *)
Excused(p) ==
  \/ cmd[p].blank
  \/ dismissed[p]
  \/ \E e \in Of(Account(p)) : e.sequence = MaxVersion

(* Between the policy's check and the audit the actor of an adjustment has  *)
(* authority, or lost it on the way.                                        *)
AuthorityKnown ==
  \A p \in Writers : AwaitsAudit(p) => cmd[p].actor \in authorized \/ dismissed[p]

LEMMA AuthorityKnownStep ==
  ASSUME ServiceInv, AuthorityKnown, [ServiceNext]_serviceVars
  PROVE  AuthorityKnown'
<1> USE DEF ServiceInv, ServiceTypeOK, AuthorityKnown, AwaitsAudit
<1>1. ASSUME NEW p \in Writers, UNCHANGED environmentVars,
             \A q \in Writers \ {p} : pc'[q] = pc[q] /\ cmd'[q] = cmd[q],
             AwaitsAudit(p)' => /\ cmd'[p] = cmd[p]
                                /\ AwaitsAudit(p) \/ cmd[p].actor \in authorized
      PROVE  AuthorityKnown'
  BY <1>1 DEF environmentVars
<1>2. ASSUME NEW p \in Writers, Step(p)
      PROVE  AuthorityKnown'
  <2> USE DEF At, Goto, Continue, Refuse
  <2>1. UNCHANGED environmentVars /\ cmd' = cmd
    BY <1>2 DEF Step, Authorize, ReadEmployee, ReadAccount, CreateAccount, ResolveConcurrent,
       Lock, Read, Decide, InsertTransaction, AuditAdjustment, UpdateProjection,
       CommitTransaction
  <2>2. \A q \in Writers \ {p} : pc'[q] = pc[q]
    BY <1>2 DEF Step, Authorize, ReadEmployee, ReadAccount, CreateAccount, ResolveConcurrent,
       Lock, Read, Decide, InsertTransaction, AuditAdjustment, UpdateProjection,
       CommitTransaction
  <2>3. AwaitsAudit(p)' => AwaitsAudit(p) \/ cmd[p].actor \in authorized
    BY <1>2, <2>1 DEF Step, Authorize, ReadEmployee, ReadAccount, CreateAccount,
       ResolveConcurrent, Lock, Read, Decide, InsertTransaction, AuditAdjustment,
       UpdateProjection, CommitTransaction
  <2>4. QED
    BY <1>1, <2>1, <2>2, <2>3
<1>3. ASSUME NEW p \in Writers,
             (\E c \in Commands : Submit(p, c)) \/ Abort(p) \/ LoseAnswer(p)
      PROVE  AuthorityKnown'
  <2>1. UNCHANGED environmentVars
    BY <1>3 DEF Submit, Abort, LoseAnswer
  <2>2. \A q \in Writers \ {p} : pc'[q] = pc[q] /\ cmd'[q] = cmd[q]
    BY <1>3 DEF Submit, Abort, LoseAnswer, Refuse, Goto
  <2>3. ~AwaitsAudit(p)' \/ (AwaitsAudit(p) /\ cmd'[p] = cmd[p])
    BY <1>3 DEF Submit, Abort, LoseAnswer, Refuse, Goto, FirstStep, BookingTypes
  <2>4. QED
    BY <1>1, <2>1, <2>2, <2>3
<1>4. ASSUME NEW p \in Writers, Resubmit(p)
      PROVE  AuthorityKnown'
  <2>1. /\ authorized' = authorized /\ cmd' = cmd
        /\ \A q \in Writers \ {p} : pc'[q] = pc[q] /\ dismissed'[q] = dismissed[q]
    BY <1>4 DEF Resubmit, Goto
  <2>2. ~AwaitsAudit(p)'
    BY <1>4 DEF Resubmit, Goto, FirstStep, BookingTypes
  <2>3. QED
    BY <2>1, <2>2
<1>5. CASE ChangeAuthority
  BY <1>5 DEF ChangeAuthority, requestVars
<1>6. CASE ChangeEmployee \/ ChangeCurrency \/ UNCHANGED serviceVars
  BY <1>6 DEF ChangeEmployee, ChangeCurrency, serviceVars, requestVars, environmentVars
<1>7. QED
  BY <1>2, <1>3, <1>4, <1>5, <1>6 DEF ServiceNext

LEMMA AuthorityIsKnown == ServiceSpec => []AuthorityKnown
<1>1. ServiceInit => AuthorityKnown
  BY DEF ServiceInit, AuthorityKnown, AwaitsAudit
<1>2. QED
  BY <1>1, AuthorityKnownStep, ServiceInvariantHolds, PTL DEF ServiceSpec

LEMMA OnlyExcusedFail ==
  ASSUME ServiceInv, TransactionsInv, AuditedInv, AuthorityKnown, NEW p \in Writers, Step(p),
         result'[p] = "dbError"
  PROVE  /\ Excused(p)
         /\ \/ cmd[p].type = "MANUAL_ADJUSTMENT"
            \/ \E e \in Of(Account(p)) : e.sequence = MaxVersion
<1> USE DEF ServiceInv, ServiceTypeOK
<1>1. pc[p] \notin {"idle", "done"} /\ result[p] # "dbError"
  <2>1. pc[p] \notin {"idle", "done"}
    BY DEF Step, Authorize, ReadEmployee, ReadAccount, CreateAccount, ResolveConcurrent, Lock,
           Read, Decide, InsertTransaction, AuditAdjustment, UpdateProjection, CommitTransaction, At
  <2>2. QED
    BY <2>1 DEF TransactionsInv, Transaction, IsOpen
<1>2. ASSUME NEW r, r # "dbError", Refuse(p, r)
      PROVE  FALSE
  BY <1>2 DEF Refuse
<1>3. CASE Authorize(p) \/ ReadEmployee(p) \/ ReadAccount(p) \/ CreateAccount(p)
           \/ ResolveConcurrent(p) \/ Lock(p) \/ Read(p)
  BY <1>1, <1>2, <1>3 DEF Authorize, ReadEmployee, ReadAccount, CreateAccount,
     ResolveConcurrent, Lock, Read, Continue
<1>4. CASE Decide(p)
  <2>1. Verdict(p) # "dbError"
    BY DEF Verdict
  <2>2. QED
    BY <1>1, <1>2, <1>4, <2>1 DEF Decide, Continue, Refuse
<1>5. CASE InsertTransaction(p)
  <2>1. Candidate(p) \notin Entry
    BY <1>1, <1>5, EntryIsForeseen DEF InsertTransaction, Continue, Fits
  <2>2. Basis(p).version = MaxVersion
    BY <1>5, <2>1, EntryFits DEF InsertTransaction
  <2>3. QED
    BY <1>1, <2>2, BasisIsZeroOrCommitted DEF Excused
<1>6. CASE AuditAdjustment(p)
  <2>1. cmd[p].type = "MANUAL_ADJUSTMENT"
    BY <1>6 DEF AuditAdjustment, TransactionsInv, Transaction, DecisionStands
  <2>2. AwaitsAudit(p)
    BY <1>6, <2>1 DEF AwaitsAudit, AuditAdjustment, At
  <2>3. ~(ReasonIsGiven(p) /\ ActorIsAuthorized(p))
    <3> DEFINE u == [account |-> Account(p), sequence |-> Candidate(p).sequence,
                     actor |-> cmd[p].actor, before |-> seenRow[p].balance,
                     after |-> Candidate(p).resulting]
    <3>1. At(p, "audit")
      BY <1>6 DEF AuditAdjustment
    <3>2. AuditIsAccepted(p, u)
      BY <3>1, AuditIsForeseen
    <3>3. QED
      BY <1>1, <1>6, <3>2 DEF AuditAdjustment, Continue
  <2>4. QED
    <3>1. CASE ~ReasonIsGiven(p)
      <4>1. cmd[p].blank \in BOOLEAN
        BY <1>1, RunningCommand, CommandsAssumption DEF Command
      <4>2. cmd[p].blank
        BY <3>1, <4>1 DEF ReasonIsGiven
      <4>3. QED
        BY <2>1, <4>2 DEF Excused
    <3>2. CASE ~ActorIsAuthorized(p)
      <4>1. dismissed[p]
        BY <2>2, <3>2 DEF AuthorityKnown, ActorIsAuthorized
      <4>2. QED
        BY <2>1, <4>1 DEF Excused
    <3>3. QED
      BY <2>3, <3>1, <3>2
<1>7. CASE UpdateProjection(p)
  BY <1>1, <1>7, UpdateIsForeseen DEF UpdateProjection, Continue
<1>8. CASE CommitTransaction(p)
  BY <1>8, CommitIsForeseen DEF CommitTransaction, Excused
<1>9. QED
  BY <1>3, <1>4, <1>5, <1>6, <1>7, <1>8 DEF Step

LEMMA GuardsStep ==
  ASSUME ServiceInv, TransactionsInv, AuditedInv, AuthorityKnown, GuardsAreForeseen,
         [ServiceNext]_serviceVars
  PROVE  GuardsAreForeseen'
<1> USE DEF ServiceInv, ServiceTypeOK
<1>1. entries \subseteq entries'
  BY StoreStep, EntriesStay
<1>2. GuardsAreForeseen <=> \A q \in Writers : result[q] = "dbError" => Excused(q)
  BY DEF GuardsAreForeseen, Excused
<1>3. GuardsAreForeseen' <=> \A q \in Writers : result'[q] = "dbError" => Excused(q)'
  BY DEF GuardsAreForeseen, Excused
<1>4. ASSUME NEW q \in Writers, cmd'[q] = cmd[q], Excused(q), dismissed[q] => dismissed'[q]
      PROVE  Excused(q)'
  BY <1>1, <1>4 DEF Excused, Account, Of
<1>5. ASSUME NEW p \in Writers,
             \A q \in Writers \ {p} : /\ cmd'[q] = cmd[q] /\ result'[q] = result[q]
                                      /\ dismissed'[q] = dismissed[q],
             result'[p] = "dbError" => /\ cmd'[p] = cmd[p] /\ dismissed'[p] = dismissed[p]
                                       /\ Excused(p)
      PROVE  GuardsAreForeseen'
  BY <1>2, <1>3, <1>4, <1>5
<1>6. ASSUME NEW p \in Writers, Step(p)
      PROVE  GuardsAreForeseen'
  <2>1. \A q \in Writers \ {p} : result'[q] = result[q]
    BY <1>6 DEF Step, Authorize, ReadEmployee, ReadAccount, CreateAccount, ResolveConcurrent,
       Lock, Read, Decide, InsertTransaction, AuditAdjustment, UpdateProjection,
       CommitTransaction, Refuse, Continue
  <2>2. cmd' = cmd /\ dismissed' = dismissed
    BY <1>6 DEF Step, Authorize, ReadEmployee, ReadAccount, CreateAccount, ResolveConcurrent,
       Lock, Read, Decide, InsertTransaction, AuditAdjustment, UpdateProjection,
       CommitTransaction, Refuse, Continue, environmentVars
  <2>3. QED
    BY <1>5, <1>6, <2>1, <2>2, OnlyExcusedFail
<1>7. ASSUME NEW p \in Writers,
             \/ \E c \in Commands : Submit(p, c)
             \/ Resubmit(p) \/ Abort(p) \/ LoseAnswer(p)
      PROVE  GuardsAreForeseen'
  BY <1>2, <1>5, <1>7 DEF Submit, Resubmit, Abort, LoseAnswer, Refuse, environmentVars
<1>8. CASE /\ UNCHANGED <<cmd, result>>
           /\ \A q \in Writers : dismissed[q] => dismissed'[q]
  BY <1>2, <1>3, <1>4, <1>8
<1>9. QED
  BY <1>6, <1>7, <1>8 DEF ServiceNext, ChangeAuthority, ChangeEmployee, ChangeCurrency,
     requestVars, environmentVars, serviceVars

(* The service's own checks foresee every guard of the database, however    *)
(* many requests compete for an account, but for a blank reason of an       *)
(* adjustment, an actor whose authority was lost after the policy's check,  *)
(* and the largest version.                                                 *)
THEOREM ChecksForeseeGuards == ServiceSpec => []GuardsAreForeseen
<1>1. ServiceInit => GuardsAreForeseen
  BY DEF ServiceInit, GuardsAreForeseen
<1>2. QED
  BY <1>1, GuardsStep, ServiceInvariantHolds, TransactionsHold, AuditedHolds,
     AuthorityIsKnown, PTL DEF ServiceSpec

-----------------------------------------------------------------------------
(* The refinement.  The balance and version that the abstract specification *)
(* derives from the history are those the transaction builds on.            *)
LEMMA HistoryEndsInBasis ==
  ASSUME ServiceInv, TransactionsInv, NEW p \in Writers, pc[p] # "idle"
  PROVE  /\ Requests!BalanceOf(Of(Account(p))) = Basis(p).balance
         /\ Requests!VersionOf(Of(Account(p))) = Basis(p).version
         /\ Of(Account(p)) = {} <=> row[Account(p)] = NoRow
<1> USE DEF ServiceInv, IInv, Safety
<1> DEFINE a == Account(p)
           H == Of(a)
<1>1. a \in Accounts
  BY RunningCommand
<1>2. CASE row[a] = NoRow
  <2>1. H = {}
    BY <1>1, <1>2 DEF Gapless
  <2>2. Basis(p).balance = 0 /\ Basis(p).version = 0
    BY <1>2 DEF Basis
  <2>3. QED
    BY <1>2, <2>1, <2>2 DEF Requests!BalanceOf, Requests!VersionOf
<1>3. CASE row[a] # NoRow
  <2>1. PICK e \in H : e.sequence = row[a].version /\ e.resulting = row[a].balance
    BY <1>1, <1>3 DEF Projected
  <2>2. \A h \in H : h.sequence \in Int /\ h.sequence <= e.sequence
    BY <1>1, <1>3, <2>1 DEF Gapless, TypeOK, Of, Entry
  <2>3. \E l \in H : \A h \in H : h.sequence <= l.sequence
    BY <2>1, <2>2
  <2>4. Requests!Last(H) \in H /\ \A h \in H : h.sequence <= Requests!Last(H).sequence
    BY <2>3 DEF Requests!Last
  <2>5. Requests!Last(H).sequence = e.sequence
    BY <2>1, <2>2, <2>4
  <2>6. Requests!Last(H) = e
    BY <1>1, <2>1, <2>4, <2>5 DEF Gapless
  <2>7. QED
    BY <1>3, <2>1, <2>6 DEF Basis, Requests!BalanceOf, Requests!VersionOf
<1>4. QED
  BY <1>2, <1>3

Histories == [a \in Accounts |-> Of(a)]

(* The refusals are true of the history when they are given.                *)
LEMMA RefusalIsJustified ==
  ASSUME ServiceInv, TransactionsInv, AuditedInv, AuthorityKnown, NEW p \in Writers,
         \/ Decide(p) /\ Verdict(p) \notin {"append", "retried"} /\ Refuse(p, Verdict(p))
         \/ (Authorize(p) \/ ReadAccount(p) \/ Lock(p)) /\ Refuse(p, "rejected")
         \/ Step(p) /\ Refuse(p, "dbError"),
         NEW r, r = result'[p]
  PROVE  /\ r \in {"reused", "exists", "funds", "refund", "rejected", "dbError"}
         /\ Requests!Justified(r, Of(Account(p)), cmd[p])
<1> USE DEF ServiceInv, ServiceTypeOK, IInv, TypeOK, Safety
<1> DEFINE H == Of(Account(p))
           c == cmd[p]
<1>1. CASE Step(p) /\ Refuse(p, "dbError")
  <2>1. /\ r = "dbError" /\ pc[p] # "idle"
        /\ c.type = "MANUAL_ADJUSTMENT" \/ \E e \in H : e.sequence = MaxVersion
    BY <1>1, OnlyExcusedFail DEF Refuse, Step, Authorize, ReadEmployee, ReadAccount,
       CreateAccount, ResolveConcurrent, Lock, Read, Decide, InsertTransaction,
       AuditAdjustment, UpdateProjection, CommitTransaction, At
  <2>2. ASSUME NEW e \in H, e.sequence = MaxVersion
        PROVE  Requests!VersionOf(H) = MaxVersion
    BY <2>1, <2>2, HistoryEndsInBasis, BasisIsZeroOrCommitted, BoundsAssumption DEF AccountRow
  <2>3. QED
    BY <2>1, <2>2 DEF Requests!Justified
<1>2. CASE (Authorize(p) \/ ReadAccount(p) \/ Lock(p)) /\ Refuse(p, "rejected")
  <2>1. r = "rejected"
    BY <1>2 DEF Refuse
  <2>2. QED
    BY <2>1 DEF Requests!Justified
<1>3. CASE Decide(p) /\ Verdict(p) \notin {"append", "retried"} /\ Refuse(p, Verdict(p))
  <2>1. /\ r = Verdict(p) /\ pc[p] = "decide" /\ c \in Command
        /\ Account(p) \in Accounts /\ OwnEntries(p) = {}
    BY <1>3, RunningCommand, CommandsAssumption DEF Refuse, Decide, At, TransactionsInv,
       Transaction, WroteItsEntry, Late
  <2>2. Matching(p) = Requests!Using(H, c)
    BY <2>1 DEF Matching, VisibleEntries, Requests!Using, SameReference, ReferenceType,
       Requests!SameReference, Requests!ReferenceType, Of, Account
  <2>3. CASE r = "rejected"
    BY <2>3 DEF Requests!Justified
  <2>4. CASE r = "reused"
    <3>1. Matching(p) # {} /\ ~ \E e \in Matching(p) : RepeatsValues(e, c)
      BY <2>1, <2>4 DEF Verdict
    <3>2. QED
      BY <2>2, <2>4, <3>1 DEF Requests!Justified, Requests!SameValues, RepeatsValues
  <2>5. CASE r = "exists"
    <3>1. Matching(p) = {} /\ c.type = "INITIAL_ALLOCATION" /\ row[Account(p)] # NoRow
      BY <2>1, <2>5 DEF Verdict, Account
    <3>2. QED
      BY <2>1, <2>2, <2>5, <3>1, HistoryEndsInBasis DEF Requests!Justified
  <2>6. CASE r = "refund"
    <3>1. ~RefundMatchesDebit(p)
      BY <2>1, <2>6 DEF Verdict
    <3>2. \A d \in H : d \in VisibleEntries(p) /\ d.account = Account(p) /\ d.delta \in Int
      BY DEF VisibleEntries, Of, Entry, Deltas
    <3>3. c.delta \in Int
      BY <2>1 DEF Command, Deltas
    <3>4. \A d \in H : d.type = "BOOKING_DEBIT" /\ d.reference = c.reference
                         => d.currency # c.currency \/ c.delta > -d.delta
      BY <3>1, <3>2, <3>3 DEF RefundMatchesDebit
    <3>5. QED
      BY <2>6, <3>4 DEF Requests!Justified
  <2>7. CASE r = "funds"
    <3>1. /\ DirectionIsValid(c) /\ seenRow[p].balance + c.delta \notin Balances
          /\ c.type = "INITIAL_ALLOCATION" => row[Account(p)] = NoRow
      BY <2>1, <2>7 DEF Verdict, BalanceIsSupported, Account
    <3>2. Locked(p) /\ seenRow[p] = Basis(p)
      BY <2>1, <3>1 DEF TransactionsInv, Transaction, NeedsLock, BuildsOnBasis, At
    <3>3. row[Account(p)] # NoRow
      <4> SUFFICES ASSUME row[Account(p)] = NoRow PROVE FALSE
        OBVIOUS
      <4>1. c.type = "INITIAL_ALLOCATION" /\ seenRow[p].balance = 0
        BY <3>2 DEF TransactionsInv, Transaction, CreatesForAllocation, Basis
      <4>2. c.delta \in Balances
        BY <2>1, <3>1, <4>1, BoundsAssumption DEF DirectionIsValid, CreditTypes, Command, Deltas,
           Balances
      <4>3. QED
        BY <3>1, <4>1, <4>2 DEF Balances
    <3>4. H # {} /\ Requests!BalanceOf(H) + c.delta \notin Balances
      BY <2>1, <3>1, <3>2, <3>3, HistoryEndsInBasis
    <3>5. QED
      BY <2>7, <3>4 DEF Requests!Justified, Balances, Requests!Balances
  <2>8. QED
    BY <1>3, <2>1, <2>3, <2>4, <2>5, <2>6, <2>7 DEF Verdict
<1>4. QED
  BY <1>1, <1>2, <1>3

(* A request that ends without an entry leaves the history as it is.        *)
LEMMA RefuseKeepsHistory ==
  ASSUME NEW p \in Writers, EndTransaction(p)
  PROVE  entries' = entries /\ Histories' = Histories
<1>1. entries' = entries
  BY DEF EndTransaction, Rollback, storeVars
<1>2. QED
  BY <1>1 DEF Histories, Of

LEMMA RefusalRefines ==
  ASSUME ServiceInv, TransactionsInv, NEW p \in Writers, NEW r, Refuse(p, r),
         r = result'[p], pc[p] \notin {"idle", "done"},
         \/ /\ r \in {"reused", "exists", "funds", "refund", "rejected", "dbError"}
            /\ Requests!Justified(r, Of(Account(p)), cmd[p])
         \/ r = "unknown"
  PROVE  Requests!RNext
<1> USE DEF ServiceInv, ServiceTypeOK
<1>1. /\ result[p] = "open" /\ reply[p] = NoEntry /\ Account(p) \in Accounts
  BY RunningCommand DEF TransactionsInv, Transaction, IsOpen, ReplyIsCommitted
<1>2. /\ Histories' = Histories /\ UNCHANGED <<cmd, reply>>
      /\ result' = [result EXCEPT ![p] = r]
  BY RefuseKeepsHistory DEF Refuse
<1>3. CASE r = "unknown"
  <2>1. reply' = [reply EXCEPT ![p] = NoEntry]
    BY <1>1, <1>2
  <2>2. Requests!Lose(p)
    BY <1>1, <1>2, <1>3, <2>1 DEF Requests!Lose, Histories
  <2>3. QED
    BY <2>2 DEF Requests!RNext
<1>4. CASE /\ r \in {"reused", "exists", "funds", "refund", "rejected", "dbError"}
           /\ Requests!Justified(r, Of(Account(p)), cmd[p])
  <2>1. Histories[cmd[p].account] = Of(Account(p))
    BY <1>1 DEF Histories, Account
  <2>2. Requests!Refuse(p, r)
    BY <1>1, <1>2, <1>4, <2>1 DEF Requests!Refuse, Histories
  <2>3. QED
    BY <1>4, <2>2 DEF Requests!RNext
<1>5. QED
  BY <1>3, <1>4

LEMMA RetryRefines ==
  ASSUME ServiceInv, TransactionsInv, NEW p \in Writers, Decide(p), Verdict(p) = "retried"
  PROVE  Requests!RNext
<1> USE DEF ServiceInv, ServiceTypeOK
<1>1. /\ pc[p] = "decide" /\ result[p] = "open" /\ Account(p) \in Accounts
      /\ OwnEntries(p) = {}
  BY RunningCommand DEF Decide, At, TransactionsInv, Transaction, IsOpen, WroteItsEntry, Late
<1>2. PICK e \in Matching(p) : reply' = [reply EXCEPT ![p] = e]
  BY DEF Decide, Refuse
<1>3. PICK d \in Matching(p) : RepeatsValues(d, cmd[p])
  BY DEF Verdict
<1>4. d \in entries /\ e \in entries /\ SameReference(d, e) /\ e.account = Account(p)
  BY <1>1 DEF Matching, VisibleEntries, SameReference, Account
<1>5. d = e
  BY <1>4 DEF IInv, ReferencesAreUsedOnce
<1>6. e \in Requests!Using(Histories[cmd[p].account], cmd[p]) /\ Requests!SameValues(e, cmd[p])
  BY <1>1, <1>3, <1>4, <1>5 DEF Histories, Account, Of, Matching, Requests!Using,
     SameReference, ReferenceType, Requests!SameReference, Requests!ReferenceType,
     Requests!SameValues, RepeatsValues
<1>7. /\ EndTransaction(p) /\ cmd' = cmd /\ result' = [result EXCEPT ![p] = "retried"]
  BY DEF Decide, Refuse
<1>8. Requests!AnswerRetry(p)
  BY <1>1, <1>2, <1>6, <1>7, RefuseKeepsHistory DEF Requests!AnswerRetry, Histories
<1>9. QED
  BY <1>8 DEF Requests!RNext

(* The commit is the one step in which the command takes effect.            *)
LEMMA CommitRefines ==
  ASSUME ServiceInv, TransactionsInv, NEW p \in Writers, CommitTransaction(p),
         ~Refuse(p, "dbError")
  PROVE  Requests!RNext
<1> USE DEF ServiceInv, ServiceTypeOK
<1> DEFINE c == cmd[p]
           a == Account(p)
           H == Of(a)
           e == Candidate(p)
<1>1. /\ pc[p] = "commit" /\ result[p] = "open" /\ a \in Accounts
      /\ OwnEntries(p) = {e} /\ Locked(p) /\ lock[a] = p /\ seenRow[p] = Basis(p)
      /\ e \in pending
  BY RunningCommand DEF CommitTransaction, At, TransactionsInv, Transaction, IsOpen,
     WroteItsEntry, Late, NeedsLock, Locked, BuildsOnBasis, OwnEntries
<1>2. /\ Commit(p) /\ cmd' = cmd /\ result' = [result EXCEPT ![p] = "applied"]
      /\ reply' = [reply EXCEPT ![p] = e]
  BY DEF CommitTransaction
<1>3. e = Requests!NewEntry(c, Requests!BalanceOf(H), Requests!VersionOf(H))
  BY <1>1, HistoryEndsInBasis DEF Candidate
<1>4. e.account = a /\ e.type = c.type /\ e.reference = c.reference
  BY DEF Candidate, Requests!NewEntry, Account
<1>5. Requests!Using(H, c) = {}
  BY <1>1, CandidateIsNew DEF Late, Of, Requests!Using, SameReference, ReferenceType,
     Requests!SameReference, Requests!ReferenceType
<1>6. c.type = "INITIAL_ALLOCATION" <=> H = {}
  <2>1. row[a] = NoRow => c.type = "INITIAL_ALLOCATION"
    BY <1>1 DEF TransactionsInv, Transaction, CreatesForAllocation
  <2>2. row[a] # NoRow => c.type # "INITIAL_ALLOCATION"
    BY <1>1, <1>4 DEF IInv, PendingIsValid, FollowsCommitted
  <2>3. QED
    BY <1>1, <2>1, <2>2, HistoryEndsInBasis
<1>7. e \in Requests!Entry
  BY <1>1 DEF IInv, TypeOK, Entry, Requests!Entry, TransactionTypes, Requests!TransactionTypes,
     CreditTypes, Requests!CreditTypes, DebitTypes, Requests!DebitTypes, Deltas,
     Requests!Deltas, Balances, Requests!Balances, Actors, Requests!Actors
<1>8. Requests!RefundHasDebit(H, e)
  <2> SUFFICES ASSUME e.type = "CANCELLATION_REFUND"
               PROVE  \E d \in H : /\ d.account = e.account
                                   /\ d.type = "BOOKING_DEBIT"
                                   /\ d.reference = e.reference
                                   /\ d.sequence < e.sequence
                                   /\ d.currency = e.currency
                                   /\ e.delta <= -d.delta
    BY DEF Requests!RefundHasDebit
  <2>1. PICK d \in entries \cup pending : /\ d.account = e.account
                                          /\ d.type = "BOOKING_DEBIT"
                                          /\ d.reference = e.reference
                                          /\ d.sequence < e.sequence
                                          /\ d.currency = e.currency
                                          /\ e.delta <= -d.delta
    BY <1>1 DEF IInv, PendingIsValid, RefundHasDebit
  <2>2. d \in pending => d \in OwnEntries(p)
    BY <1>1, <1>4, <2>1 DEF OwnEntries
  <2>3. d \in entries
    BY <1>1, <2>1, <2>2
  <2>4. QED
    BY <1>4, <2>1, <2>3 DEF Of
<1>9. Histories' = [Histories EXCEPT ![c.account] = H \cup {e}]
  <2>1. entries' = entries \cup {e}
    BY <1>1, <1>2 DEF Commit, VisibleEntries
  <2>2. \A b \in Accounts : Of(b)' = IF b = a THEN H \cup {e} ELSE Of(b)
    BY <1>4, <2>1 DEF Of
  <2>3. QED
    BY <1>1, <2>2 DEF Histories, Account
<1>10. Histories[c.account] = H
  BY <1>1 DEF Histories, Account
<1>11. Requests!Apply(p)
  BY <1>1, <1>2, <1>3, <1>5, <1>6, <1>7, <1>8, <1>9, <1>10 DEF Requests!Apply, Histories
<1>12. QED
  BY <1>11 DEF Requests!RNext

(* Every other step leaves history, commands, results and replies alone.    *)
LEMMA StepRefines ==
  ASSUME ServiceInv, TransactionsInv, AuditedInv, AuthorityKnown, NEW p \in Writers, Step(p)
  PROVE  [Requests!RNext]_(Requests!requestVars)
<1> USE DEF ServiceInv, ServiceTypeOK
<1>1. pc[p] \notin {"idle", "done"}
  BY DEF Step, Authorize, ReadEmployee, ReadAccount, CreateAccount, ResolveConcurrent, Lock,
         Read, Decide, InsertTransaction, AuditAdjustment, UpdateProjection, CommitTransaction, At
<1>2. CASE UNCHANGED <<entries, cmd, result, reply>>
  <2>1. Histories' = Histories
    BY <1>2 DEF Histories, Of
  <2>2. QED
    BY <1>2, <2>1 DEF Requests!requestVars, Histories
<1>3. CASE Refuse(p, "dbError")
  <2>1. result'[p] = "dbError"
    BY <1>3 DEF Refuse
  <2>2. QED
    BY <1>1, <1>3, <2>1, RefusalIsJustified, RefusalRefines
<1>4. CASE Authorize(p) \/ ReadAccount(p) \/ Lock(p)
  <2>1. CASE Refuse(p, "rejected")
    <3>1. result'[p] = "rejected"
      BY <2>1 DEF Refuse
    <3>2. QED
      BY <1>1, <1>4, <2>1, <3>1, RefusalIsJustified, RefusalRefines
  <2>2. CASE ~Refuse(p, "rejected")
    BY <1>2, <1>4, <2>2 DEF Authorize, ReadAccount, Lock, AcquireLock, LockAccount, Continue,
       storeVars
  <2>3. QED
    BY <2>1, <2>2
<1>5. CASE ReadEmployee(p) \/ CreateAccount(p) \/ ResolveConcurrent(p) \/ Read(p)
  BY <1>2, <1>5 DEF ReadEmployee, CreateAccount, InsertAccount, ResolveConcurrent, Read, storeVars
<1>6. CASE Decide(p)
  <2>1. CASE Verdict(p) = "append"
    BY <1>2, <1>6, <2>1 DEF Decide, Continue, storeVars
  <2>2. CASE Verdict(p) = "retried"
    BY <1>6, <2>2, RetryRefines
  <2>3. CASE Verdict(p) \notin {"append", "retried"}
    <3>1. Refuse(p, Verdict(p)) /\ result'[p] = Verdict(p)
      BY <1>6, <2>3 DEF Decide, Refuse
    <3>2. QED
      BY <1>1, <1>6, <2>3, <3>1, RefusalIsJustified, RefusalRefines
  <2>4. QED
    BY <2>1, <2>2, <2>3
<1>7. CASE (InsertTransaction(p) \/ AuditAdjustment(p) \/ UpdateProjection(p))
           /\ ~Refuse(p, "dbError")
  BY <1>2, <1>7 DEF InsertTransaction, InsertEntry, AuditAdjustment, InsertAudit,
     UpdateProjection, UpdateAccount, Continue
<1>8. CASE CommitTransaction(p) /\ ~Refuse(p, "dbError")
  BY <1>8, CommitRefines
<1>9. QED
  BY <1>3, <1>4, <1>5, <1>6, <1>7, <1>8 DEF Step

LEMMA RequestsStep ==
  ASSUME ServiceInv, TransactionsInv, AuditedInv, AuthorityKnown, [ServiceNext]_serviceVars
  PROVE  [Requests!RNext]_(Requests!requestVars)
<1> USE DEF ServiceInv, ServiceTypeOK
<1>1. ASSUME UNCHANGED storeVars
      PROVE  Histories' = Histories
  BY <1>1 DEF Histories, Of, storeVars
<1>2. ASSUME NEW p \in Writers, NEW c \in Commands, Submit(p, c)
      PROVE  Requests!RNext
  <2>1. result[p] = "none"
    BY <1>2 DEF Submit, At, TransactionsInv, Transaction, IsOpen
  <2>2. Requests!Submit(p, c)
    BY <1>1, <1>2, <2>1 DEF Submit, Requests!Submit, Histories
  <2>3. QED
    BY <2>2 DEF Requests!RNext
<1>3. ASSUME NEW p \in Writers, Resubmit(p)
      PROVE  Requests!RNext
  <2>1. Requests!Resubmit(p)
    BY <1>1, <1>3 DEF Resubmit, Requests!Resubmit, Histories
  <2>2. QED
    BY <2>1 DEF Requests!RNext
<1>4. ASSUME NEW p \in Writers, LoseAnswer(p)
      PROVE  Requests!RNext
  <2>1. Requests!Lose(p)
    BY <1>1, <1>4 DEF LoseAnswer, Requests!Lose, Histories
  <2>2. QED
    BY <2>1 DEF Requests!RNext
<1>5. ASSUME NEW p \in Writers, Abort(p)
      PROVE  Requests!RNext
  <2>1. result'[p] = "unknown"
    BY <1>5 DEF Abort, Refuse
  <2>2. QED
    BY <1>5, <2>1, RefusalRefines DEF Abort
<1>6. CASE ChangeAuthority \/ ChangeEmployee \/ ChangeCurrency \/ UNCHANGED serviceVars
  <2>1. UNCHANGED <<storeVars, cmd, result, reply>>
    BY <1>6 DEF ChangeAuthority, ChangeEmployee, ChangeCurrency, requestVars, serviceVars
  <2>2. QED
    BY <1>1, <2>1 DEF Requests!requestVars, Histories
<1>7. QED
  BY <1>2, <1>3, <1>4, <1>5, <1>6, StepRefines DEF ServiceNext

(* The multi-statement, lock-based service does what one indivisible step   *)
(* per command would do, for any number of requests, accounts and commands. *)
THEOREM ServiceImplementsRequests == ServiceSpec => ImplementsRequests
<1>1. ServiceInit => Requests!RInit
  BY DEF ServiceInit, Init, Of, Requests!RInit
<1>2. QED
  BY <1>1, RequestsStep, ServiceInvariantHolds, TransactionsHold, AuditedHolds,
     AuthorityIsKnown, PTL DEF ServiceSpec, ImplementsRequests, Requests!RSpec

-----------------------------------------------------------------------------
(* The sum over a set of entries, as the property defines it, is a total.   *)
LEMMA SumOfDeltas ==
  ASSUME NEW S, IsFiniteSet(S), \A e \in S : e.delta \in Int
  PROVE  IsTotal(MapThenSumSet(DeltaOf, S), [e \in S |-> e.delta], S)
<1> DEFINE g == [e \in S |-> e.delta]
           Adds(f) == f = [s \in SUBSET S |->
                        IF s = {} THEN 0 ELSE (CHOOSE x \in s : TRUE).delta
                                              + f[s \ {CHOOSE x \in s : TRUE}]]
           F == CHOOSE f : Adds(f)
<1>1. PICK G : AddsUp(G, g, S)
  <2>1. g \in [S -> Int]
    OBVIOUS
  <2>2. QED
    BY <2>1, SumExists
<1>2. \A s \in SUBSET S : s # {} => (CHOOSE x \in s : TRUE) \in S
  BY PickIsElement DEF Pick
<1>3. \A f : AddsUp(f, g, S) <=> Adds(f)
  BY <1>2 DEF AddsUp, Pick
<1>4. AddsUp(F, g, S)
  <2>1. Adds(G)
    BY <1>1, <1>3, Zenon
  <2>2. Adds(F)
    <3> HIDE DEF Adds
    <3> QED
      BY <2>1, Zenon
  <2> HIDE DEF Adds, F
  <2> QED
    BY <1>3, <2>2, Zenon
<1>5. MapThenSumSet(DeltaOf, S) = F[S]
  BY DEF MapThenSumSet, MapThenFoldSet, DeltaOf
<1>6. QED
  BY <1>4, <1>5 DEF IsTotal

LEMMA SumOfNothing == MapThenSumSet(DeltaOf, {}) = 0
<1>1. ASSUME NEW S, S = {}, NEW v, v = MapThenSumSet(DeltaOf, S)
      PROVE  v = 0
  <2> DEFINE g == [e \in S |-> e.delta]
  <2>1. IsFiniteSet(S)
    BY <1>1, FS_EmptySet
  <2>2. g \in [S -> Int]
    BY <1>1
  <2>3. IsTotal(v, g, S)
    BY <1>1, <2>1, SumOfDeltas
  <2>4. QED
    <3> HIDE DEF g
    <3> QED BY <1>1, <2>1, <2>2, <2>3, TotalIsInteger
<1>2. QED
  BY <1>1

(* An account has finitely many entries: their sequence numbers differ and  *)
(* are bounded.                                                             *)
LEMMA HistoryIsFinite ==
  ASSUME ServiceInv, NEW a \in Accounts
  PROVE  IsFiniteSet(Of(a)) /\ \A e \in Of(a) : e.delta \in Int
<1> USE DEF ServiceInv, IInv, Safety, TypeOK
<1> DEFINE T == 1 .. MaxVersion
           f == [e \in Of(a) |-> e.sequence]
<1>1. \A e \in Of(a) : e \in Entry
  BY DEF Of
<1>2. f \in [Of(a) -> T]
  BY <1>1 DEF Entry
<1>3. \A d, e \in Of(a) : f[d] = f[e] => d = e
  BY DEF Gapless
<1>4. f \in Injection(Of(a), T)
  BY <1>2, <1>3 DEF Injection, IsInjective
<1>5. IsFiniteSet(T)
  BY BoundsAssumption, FS_Interval
<1>6. IsFiniteSet(Of(a))
  <2> HIDE DEF f, T
  <2> QED BY <1>4, <1>5, FS_Injection
<1>7. QED
  BY <1>1, <1>6, BoundsAssumption DEF Entry, Deltas

(* Nothing but the commit of a request changes what is committed.           *)
LEMMA OnlyRequestsCommit ==
  ASSUME [ServiceNext]_serviceVars
  PROVE  \/ UNCHANGED <<row, entries>>
         \/ \E p \in Writers : CommitTransaction(p) /\ Commit(p)
<1>1. ASSUME NEW p \in Writers, EndTransaction(p)
      PROVE  UNCHANGED <<row, entries>>
  BY <1>1 DEF EndTransaction, Rollback, storeVars
<1>2. ASSUME NEW p \in Writers, NEW r, Refuse(p, r)
      PROVE  UNCHANGED <<row, entries>>
  BY <1>1, <1>2 DEF Refuse
<1>3. ASSUME NEW p \in Writers,
             \/ Authorize(p) \/ ReadEmployee(p) \/ ReadAccount(p) \/ CreateAccount(p)
             \/ ResolveConcurrent(p) \/ Lock(p) \/ Read(p) \/ Decide(p)
      PROVE  UNCHANGED <<row, entries>>
  BY <1>1, <1>2, <1>3 DEF Authorize, ReadEmployee, ReadAccount, CreateAccount, InsertAccount,
     ResolveConcurrent, Lock, AcquireLock, LockAccount, Read, Decide, storeVars
<1>4. ASSUME NEW p \in Writers, InsertTransaction(p) \/ AuditAdjustment(p) \/ UpdateProjection(p)
      PROVE  UNCHANGED <<row, entries>>
  BY <1>2, <1>4 DEF InsertTransaction, InsertEntry, AuditAdjustment, InsertAudit,
     UpdateProjection, UpdateAccount
<1>5. ASSUME NEW p \in Writers, CommitTransaction(p)
      PROVE  UNCHANGED <<row, entries>> \/ (CommitTransaction(p) /\ Commit(p))
  BY <1>2, <1>5 DEF CommitTransaction
<1>6. ASSUME NEW p \in Writers, Step(p)
      PROVE  UNCHANGED <<row, entries>> \/ (CommitTransaction(p) /\ Commit(p))
  BY <1>3, <1>4, <1>5, <1>6 DEF Step
<1>7. ASSUME NEW p \in Writers,
             (\E c \in Commands : Submit(p, c)) \/ Resubmit(p) \/ Abort(p) \/ LoseAnswer(p)
      PROVE  UNCHANGED <<row, entries>>
  BY <1>2, <1>7 DEF Submit, Resubmit, Abort, LoseAnswer, storeVars
<1>8. CASE ChangeAuthority \/ ChangeEmployee \/ ChangeCurrency \/ UNCHANGED serviceVars
  BY <1>8 DEF ChangeAuthority, ChangeEmployee, ChangeCurrency, serviceVars, storeVars
<1>9. QED
  BY <1>6, <1>7, <1>8 DEF ServiceNext

(* A commit moves the balance by what its one entry adds to the sum.        *)
LEMMA CommitReconciles ==
  ASSUME ServiceInv, ServiceInv', TransactionsInv, Reconciled,
         NEW p \in Writers, CommitTransaction(p), Commit(p)
  PROVE  Reconciled'
<1> USE DEF ServiceInv, ServiceTypeOK
<1>0. PICK a \in Accounts : a = Account(p)
  BY RunningCommand DEF CommitTransaction, At
<1> DEFINE H == Of(a)
           e == Candidate(p)
<1>1. /\ pc[p] = "commit"
      /\ OwnEntries(p) = {e} /\ lock[a] = p /\ seenRow[p] = Basis(p)
      /\ draft[a].balance = e.resulting
      /\ \A b \in Accounts : lock[b] = p => b = a
  BY <1>0 DEF CommitTransaction, At, TransactionsInv, Transaction,
     WroteItsEntry, Late, NeedsLock, Locked, BuildsOnBasis, LocksItsAccount
<1>2. e.account = a /\ e.delta = cmd[p].delta /\ e.resulting = Basis(p).balance + e.delta
  BY <1>0, <1>1 DEF Candidate, Requests!NewEntry, Account
<1>3. /\ row'[a] = draft[a]
      /\ \A b \in Accounts \ {a} : row'[b] = row[b]
      /\ entries' = entries \cup {e}
  BY <1>1 DEF Commit, VisibleEntries
<1>4. Of(a)' = H \cup {e} /\ \A b \in Accounts \ {a} : Of(b)' = Of(b)
  <2>1. \A b \in Accounts : Of(b)' = IF b = a THEN H \cup {e} ELSE Of(b)
    BY <1>2, <1>3 DEF Of
  <2>2. QED
    BY <1>1, <2>1
<1>5. e \notin H /\ e \in Entry
  BY <1>1, CandidateIsNew DEF Late, Of, IInv, TypeOK
<1>6. IsFiniteSet(H) /\ \A d \in H \cup {e} : d.delta \in Int
  BY <1>1, <1>5, HistoryIsFinite, BoundsAssumption DEF Entry, Deltas
<1>7. Basis(p).balance = MapThenSumSet(DeltaOf, H)
  <2>1. CASE row[a] = NoRow
    <3>1. H = {} /\ Basis(p).balance = 0
      BY <1>0, <2>1 DEF Basis, IInv, Safety, Gapless
    <3>2. MapThenSumSet(DeltaOf, H) = 0
      BY <3>1, SumOfNothing
    <3>3. QED
      BY <3>1, <3>2
  <2>2. CASE row[a] # NoRow
    BY <1>0, <2>2 DEF Basis, Reconciled
  <2>3. QED
    BY <2>1, <2>2
<1>8. MapThenSumSet(DeltaOf, H \cup {e}) = MapThenSumSet(DeltaOf, H) + e.delta
  <2> DEFINE g == [d \in H |-> d.delta]
             h == [d \in H \cup {e} |-> d.delta]
             v == MapThenSumSet(DeltaOf, H)
             w == MapThenSumSet(DeltaOf, H \cup {e})
  <2>1. IsFiniteSet(H \cup {e})
    BY <1>6, FS_AddElement
  <2>2. g \in [H -> Int] /\ h \in [H \cup {e} -> Int] /\ \A d \in H : g[d] = h[d]
    BY <1>6
  <2>3. IsTotal(v, g, H) /\ IsTotal(w, h, H \cup {e})
    BY <1>6, <2>1, SumOfDeltas
  <2>4. h[e] = e.delta
    OBVIOUS
  <2>5. w = v + h[e]
    <3> HIDE DEF H, e, g, h, v, w
    <3>1. IsFiniteSet(H) /\ e \notin H
      BY <1>5, <1>6
    <3> QED BY ONLY <2>2, <2>3, <3>1, TotalOfOneMore
  <2>6. QED
    BY <2>4, <2>5
<1>9. row'[a].balance = MapThenSumSet(DeltaOf, Of(a)')
  BY <1>1, <1>2, <1>3, <1>4, <1>7, <1>8
<1>10. \A b \in Accounts \ {a} : row'[b] # NoRow =>
         row'[b].balance = MapThenSumSet(DeltaOf, Of(b)')
  BY <1>3, <1>4 DEF Reconciled
<1>11. QED
  <2>1. \A b \in Accounts : row'[b] # NoRow =>
          row'[b].balance = MapThenSumSet(DeltaOf, Of(b)')
    BY <1>9, <1>10, Zenon
  <2>2. QED
    BY <2>1, Zenon DEF Reconciled

(* Accounts that only the service writes start from nothing: the cached     *)
(* balance of an account is the sum of its entries, for any number of       *)
(* requests, accounts and entries.                                          *)
THEOREM BalancesAreSums == ServiceSpec => []Reconciled
<1>1. ServiceInit => Reconciled
  BY DEF ServiceInit, Init, Reconciled
<1>2. ASSUME ServiceInv, ServiceInv', TransactionsInv, Reconciled, [ServiceNext]_serviceVars
      PROVE  Reconciled'
  <2>1. CASE UNCHANGED <<row, entries>>
    BY <1>2, <2>1 DEF Reconciled, Of
  <2>2. CASE \E p \in Writers : CommitTransaction(p) /\ Commit(p)
    BY <1>2, <2>2, CommitReconciles
  <2>3. QED
    BY <1>2, <2>1, <2>2, OnlyRequestsCommit
<1>3. QED
  BY <1>1, <1>2, ServiceInvariantHolds, TransactionsHold, PTL DEF ServiceSpec
================================================================================
