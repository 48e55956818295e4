# Verification of the Wellora Marketplace API

TLA+ modules, TLC configurations and TLAPS proofs for the Wellora Marketplace
API, an employee-benefits marketplace (NestJS, Prisma, PostgreSQL, Redis).  The
paths below are relative to `src/` of the repository.

The program is a set of stateless HTTP servers over one PostgreSQL database.
There is no in-memory state worth the name: everything that can go wrong goes
wrong between SQL statements of concurrent requests, or between the layers that
a single request passes.  Most modules therefore have one shape: tables are
variables, a request is a little sequential program whose statements are
actions, and what PostgreSQL does at READ COMMITTED (row locks, waiting, unique
indexes, re-evaluated WHERE clauses, deferred triggers, rollback) is modelled
where the code relies on it.  The others model calculations (local time,
recurrence, commissions), the counters of the rate limit in Redis, and the way
of a request's fields through validation, service and table.

## 1. Inventory

### 1.1 Components, their state and what makes them correct

**Allowance ledger** (`modules/allowances`, the financial migrations).
State: `allowance_accounts` (cached balance, version, currency),
`allowance_transactions` (append-only entries), `audit_logs`.  Operations:
`initialAllocation`, `topUp`, `manualAdjustment`, `expire`, and for bookings
`recordBookingDebit` and `recordCancellationRefund` (called from tests only,
the booking workflow is a later phase of the program).  Triggers in the
database check every append, every account update and, when a transaction
commits, that they belong together.  Hard: two writers of one account; two
first allocations racing for a unique index; retries after a lost answer; a
refund that exceeds its debit; authority and status read before a lock wait.
Correct when: the entries of an account are a gapless chain whose last balance
is the cached one, manual adjustments are audited, refunds are backed, a
command with one reference takes effect once, and no database guard ever has
to fire for a command the service accepted.

**Sessions and credentials** (`modules/auth`).  State: `users` (password and
its change time, status), `auth_sessions`, `refresh_tokens`,
`one_time_tokens`.  Operations: login, refresh-token rotation with revocation
of the session when a token is replayed, logout, logout of all sessions,
password change, password reset, e-mail verification.  Hard: every operation
touches several rows in several statements; rotation locks a token and then
its session, revocation the session and then its tokens; a password change
races logins.  Correct when: a revoked session has no token left that could be
exchanged, a token is exchanged once, a replay revokes, and no session survives
the password it was opened with.

**Organizations** (`modules/employers`, `modules/providers`).  State:
employers and providers (status, settings), memberships (role, status),
employees (status, linked account).  Operations: create with a first
administrator, change of status and settings, add, activate, deactivate and
change members, create and (de)activate employees.  Hard: the check that an
administrator is not the last one reads rows nobody locks.  Correct when: an
organization's own administrators cannot leave it without one, and the
membership of a linked employee follows the employee's status.

**Marketplace** (`modules/categories`, `modules/activities`).  State:
categories (active), activities (draft, published, paused, archived; the
publishable fields).  Operations: create, update, publish, pause, archive;
public search.  Hard: status is read without a lock and written by id.
Correct when: archival is final and what is published is complete.

**Scheduling** (`modules/scheduling`).  State: `activity_sessions` (start, end,
status, capacity, key of its recurring occurrence), `recurring_schedules`.
Operations: create, update, cancel, complete a session; create a schedule and
generate its occurrences.  Pure parts: local time to UTC with gaps and overlaps
of daylight saving, the weekday arithmetic of recurrence.  Hard: generation
racing itself and manual sessions; sessions racing the archival of their
activity.  Correct when: a generation is idempotent, occurrences do not
conflict, and a finished session does not change.

**Rate limit** (`modules/auth/rate-limit.guard.ts`, `infrastructure/redis`).
State: two fixed-window counters in Redis per request.  Hard: the two scripts of
one request interleave with those of others and fail separately, windows end
between them, Redis may lose its data.  Correct when: bursts around the end of a
window are bounded, a client that waits as long as it is told is no longer
stopped by what stopped it, and no counter lasts for ever.

**Request inputs** (the DTOs of all modules, `bootstrap.ts`,
`common/pagination`, `common/exceptions`, the columns of all tables).  Three
layers decide about each field: the ValidationPipe with the decorators of the
DTO, the service, and the column.  Correct when they agree: what a layer lets
through the next one can take, and what is stored is within the stated bounds.

**Commission snapshot** (`modules/commissions`).  A pure function of exact
integer arithmetic.

**Access guards** (`common/auth`, `access-token.guard.ts`, `roles.guard.ts`).
They read the session and the user at the start of every request.

Not modelled, because they keep no state of their own or only format: health
checks, configuration, logging, Swagger, bootstrap, response mappers (but for
what the public one requires), the generated Prisma client, token signing and
hashing.

### 1.2 How the components interact

All components call the same PostgreSQL database; none calls another over the
network.  What one writes another reads without a lock, and that is where they
meet:

* every organization endpoint, the marketplace and the allowances read
  memberships and the organization's status (the authorization policies), once,
  at the start of the transaction;
* the allowances read the employee's status and the employer's currency, which
  `EmployeesService` and `EmployersService` change;
* publishing reads the category's activity and the provider's status;
* scheduling reads the activity's status;
* the triggers of the financial tables read memberships once more when a manual
  adjustment is audited;
* every authenticated request reads the device session and the user
  (`access-token.guard.ts`).

The modules represent a component's neighbours as environment actions that
change what it reads: `ChangeAuthority`, `ChangeEmployee`, `ChangeCurrency`
(AllowanceService), `SetOrganizationStatus` (OrganizationMembers),
`SetCategory`, `SetProvider` (ActivityCatalog), `Archive` (SessionSchedule),
`ChangeZone` (RecurringSchedules), `Operate` (EmailVerification).  `Archive` is
one-way, although the race of finding 4 below can resurrect an activity; the
property that depends on it, `ArchiveSettles`, is about the time after it.

### 1.3 Hard behaviours

`PROJECT.json` lists them one by one with the line at which each bites and the
properties that look for it.  In short: unlocked reads followed by writes by
id; statements that update many rows row by row; inserts that race for a unique
index; deferred triggers that see the whole transaction; lost answers and
retries under a client reference; deadlocks between opposite lock orders.

## 2. Plan

### 2.1 Order

The money comes first, since the database, the service and the tests all
promise most about it; then the sessions, whose revocation is the program's
other multi-row protocol; then the tables where reads are not locked.

| step | modules | status |
|---|---|---|
| 1 | LedgerEntries, AllowanceLedger (abstract), LedgerStore and its proofs (AllowanceProofs) | done |
| 2 | AllowanceRequests (abstract), AllowanceService over LedgerStore | done |
| 3 | AuthSessions, AuthSessionsProofs | done |
| 4 | OrganizationMembers, OrganizationMembersProofs | done |
| 5 | ActivityCatalog, SessionSchedule and the proofs of all their properties | done |
| 6 | AllowanceProofs: the service only uses the store as LedgerStore allows, so all store theorems hold of it | done |
| 7 | LocalTime and CommissionSnapshot (pure, CalculationProofs), RecurringSchedules | done |
| 8 | EmailVerification and its proofs (RequestProofs) | done |
| 9 | RateLimit | done |
| 10 | RequestInputs | done |
| 11 | proofs that the service foresees the guards, applies a command once and implements AllowanceRequests | done |
| 12 | Sums (what a fold over a set computes), and with it the proofs of `Reconciled` and of the invariants of RateLimit and RecurringSchedules (CalculationProofs) | done |
| 13 | proofs of the two invariants of RequestInputs (RequestProofs) | done |

### 2.2 Composition

```
LedgerEntries <- AllowanceLedger      (abstract: histories that only grow)
      ^                ^
      |                | refinement (Ledger == INSTANCE ...)
      +--------- LedgerStore           (tables, locks, triggers, any writer)
      |                ^
      |                | EXTENDS: the service's statements are the store's
      |          AllowanceService
      |                | refinement (Requests == INSTANCE ...)
      +-------- AllowanceRequests      (abstract: one indivisible step per command)
```

RecurringSchedules extends LocalTime, and RequestInputs CommissionSnapshot.
SessionSchedule and RecurringSchedules divide scheduling between them: the first
has the races and takes local times for instants, the second has the calendar
and takes one request at a time.  AuthSessions, EmailVerification,
OrganizationMembers, ActivityCatalog and RateLimit stand alone; each `MC...`
module instantiates one module for TLC.

## 3. The modules and the code

A request is a slot `p` with a program counter `pc[p]`.  A statement whose
order with other requests matters is one action; statements that touch nothing
others write are folded into the next.  `row`, `member`, `sessions`, ... are
committed rows; a draft is the row as the transaction that has locked it sees
it.  Locks are explicit variables, and a waiting statement is an action that is
not enabled.

| module | code | correspondence |
|---|---|---|
| LedgerEntries | enum and CHECK constraints of `20260829120000_add_financial_model`, `enforce_cancellation_refund` of `20260829190000_harden_financial_invariants` | the columns of a row, what one row must satisfy |
| LedgerStore | both financial migrations | an action per SQL statement kind (`LockAccount`, `InsertAccount`, `InsertEntry`, `UpdateAccount`, `InsertAudit`), an operator per trigger, index and deferred constraint, `Commit`, `Rollback`; any program that can write the tables |
| AllowanceLedger | the promise of these tables | one variable, one action |
| AllowanceService | `allowances/employer-allowances.service.ts`, `allowance-ledger.service.ts`, `allowance-balance.strategy.ts` | `Authorize`, `ReadEmployee`, `ReadAccount`, `CreateAccount`, `ResolveConcurrent`, `Lock`, `Read`, `Decide` (`appendOrReturnExisting` in the order of its checks), `InsertTransaction`, `AuditAdjustment`, `UpdateProjection`, `CommitTransaction`; `Abort`, `LoseAnswer`, `Resubmit` for failures |
| AllowanceRequests | what a caller may rely on | `Apply`, `AnswerRetry`, `Refuse`, `Lose`, each one step |
| AuthSessions | `auth/session.service.ts`, `credentials.service.ts`, `one-time-token.service.ts` | login (`Verify`, `Share`, `Open`), rotation (`FindToken`, `Consume`, `Replace`, `Touch`), revocation row by row (`StartSessions`, `RevokeSession`, `StartTokens`, `RevokeToken`), passwords and reset tokens, PostgreSQL's deadlock detection (`Break`) |
| OrganizationMembers | `employers/employer-admins.service.ts`, `employers/employees.service.ts`, `providers/provider-members.service.ts`, the policies | `Authorize`, `Read`, `Count`, `Write`, `Insert`, `WriteEmployee`, `CreateEmployeeMember`, `SetEmployeeMember`, `Commit`, `Abort`; `organization` selects the employer's or the provider's code |
| ActivityCatalog | `activities/provider-activities.service.ts`, `activity-lifecycle.policy.ts`, the marketplace migration | `Read` (unlocked, with all checks), `Write` (by id, with the table's check) |
| RecurringSchedules, LocalTime | `scheduling/timezone.service.ts`, the calendar of `recurring-schedules.service.ts` and the computed columns of `provider-sessions.service.ts` | `ResolveLocalDateTime` with Luxon's two guesses, `CreateSchedule`, `Generate`, `CreateSession`, `UpdateSession`, `ChangeZone`, `Wait` |
| CommissionSnapshot | `commissions/commission-snapshot.strategy.ts` | `Snapshot` |
| EmailVerification | `auth/one-time-token.service.ts` | `FindUser`, `Issue`; `Resolve` (unlocked) and `Verify` (from the lock of the users row on); `Operate`, `Expire` |
| RateLimit | `auth/rate-limit.guard.ts`, `infrastructure/redis/redis.service.ts` | `CountAddress`, `CountSubject` (one script each), `Admit`, `Reject`, `Fail`; `Tick`, `LoseCounters` |
| RequestInputs | the request DTOs, `bootstrap.ts`, `api-exception.filter.ts`, the `data` of each service's writes, the columns of the migrations | `Send`, `Validate`, `Serve`, `Store`, `Answer`; a DTO, the service's treatment of its fields and the table are functions from fields |
| SessionSchedule | `scheduling/provider-sessions.service.ts`, `recurring-schedules.service.ts`, `session-lifecycle.policy.ts`, the scheduling migration | `CheckCreate`/`Create`/`CommitCreate`, `LockSession`/`Change`/`Move`/`CommitChange` (a move is one statement that marks its old start, and then waits for the new one), `CheckGenerate`/`InsertOccurrence`/`CheckConflicts`/`CommitGeneration`, `Tick`, `Archive` |

Abstractions that deserve a word:

* A row is named by what a unique index makes unique about it (an account by
  its employee, an entry by account and sequence, a membership by its user), or
  by the request that inserts it.  No UUIDs.
* The largest BIGINT and INTEGER are the constants `MaxBalance` and
  `MaxVersion`; a value beyond them is a database error, as in the program.
* Texts, metadata, correlation ids and timestamps are left out unless a guard
  reads them.  `publishedAt` counts how often it was set.
* Passwords are numbers; a number stands for the hash and for
  `password_changed_at`.  Nothing expires: the code refuses what is expired as
  it refuses what is revoked.
* In SessionSchedule a local time is its instant; gaps and overlaps of daylight
  saving are in LocalTime.  A zone there is what Luxon sees of it around *one*
  change of its offset: both of Luxon's guesses look at most a day ahead and
  back, and the changes of a zone are months apart.
* A day of RecurringSchedules has four units, weeks have seven days, and a
  schedule names weekdays as the code does; the 365 days of a window are
  `MaxDays`.
* In RateLimit a count above the maximum is one more than the maximum (nothing
  tells such counts apart), and the time is known by what is left of counters.
* In RequestInputs a text is its number of characters before and after trimming
  and in lower case, a number its value; whatever has a pattern (slugs, codes,
  dates, identifiers) is well-formed or not.  One field of a request, or two
  that the code relates, deviates from a well-formed request.  The rows a
  request names exist, its caller is authorized and it comes in time: those
  refusals are the matter of the other modules.
* Names like `ConsumeBlindly`, `NoConflicts` or `RowWithStartOffset` before an
  operator are versions of it with a plausible bug.  No specification uses
  them; `PROJECT.json` ("mutants") says which property notices which.
* Variables such as `raced`, `vacated`, `age` and `admitted` record history for
  the properties; no guard reads them.

## 4. The runs

| run | instance | what it shows |
|---|---|---|
| `ledger_store` | 1 account, 2 writers, 1 user and the system, 2 references, 2 currencies, balances to 2, versions to 3 | the entries of an account are chained, its cache projected, refunds backed, adjustments audited, and AllowanceLedger is implemented, under arbitrary writers |
| `allowance_requests` | 3 requests that choose among 6 racing commands: two allocations in two currencies, a manual adjustment in one of them, a debit and two different refunds in the other | the creation race and commands that depend on each other: guards foreseen, applied once, reconciled, refinement of AllowanceRequests |
| `allowance_retry` | 2 requests, 2 attempts each; all employer commands, an adjustment with a blank reason, and a debit | retries after lost answers; which guards of the database a request can meet; every request ends |
| `auth_sessions` | 3 requests of any of the 7 operations, 4 passwords | rotation, revocation, passwords and resets against each other; every request ends |
| `email_verification` | 4 requests that ask for tokens or present any of them | one usable token, used once; only a race with an operator changes a status an operator set |
| `organization_members` | 2 slots used again and again, 2 users, both kinds of organization | employees match memberships; the last-administrator check is right when not raced |
| `employer_last_admin` | 2 slots, employer | finding 1, a violation |
| `session_schedule` | 2 requests of any of the 5 operations, templates {2,3} and {1,2,3}, lengths 1 and 2, clock to 3 | nothing lost, nothing finished changes, no circular wait without an update that moves a session, an archived activity settles |
| `recurring_schedules` | 2 zones, one with a gap and one with an overlap, 5 schedules of up to 19 days, requests before, between and after the changes | snapshots agree with what was asked for, one occurrence per date, complete generations |
| `activity_catalog` | 2 slots used again and again, 5 updates, 2 categories, at most 2 publications | published means complete and readable; unraced requests keep the lifecycle |
| `rate_limit` | 2 clients of one address, with one subject or two; at most 3 requests of an address and 2 of a subject, a window of one second in three ticks | bursts around a window's end reach 5 and 3 and no more; sufficient Retry-After, counters lapse |
| `request_inputs` | 24 operations, each field absent, null, malformed, taken, and at each of its limits | seven kinds of documented requests end in an internal error and no others; stored values are within bounds |

Why the bounds are enough.  *Two writers or requests* is what a race needs, and
where one outcome depends on two earlier ones (a debit needs an allocation, a
refund a debit; a replay needs a login, a refresh and a revocation; a token must
be issued, replaced and presented twice) there are three or four.  *One account*
in the ledger runs: no guard reads two accounts except through the locks one
transaction holds on both, which the proofs cover for any number.  *Versions to
3* (5 in the runs of the service) let an account be opened, debited and refunded
once; the last of them is the largest INTEGER, so the overflow happens.  That
second refunds need their own debit is left to the theorem `RefundsStayBacked`.  *Balances to 2 or 3* have an
insufficient and an overflowing balance next to legal ones.  *Four passwords*
are one more than three requests can set, so the bound never stops a change.
*Clock to 3* lets a session lie in the past, end and be completed while another
is created, and lets a template be extended.  *Two publications* are one more
than a correct history has.  *Three ticks a second* round up, down and to zero.
*Maxima of 3 and 2* let a burst before and one after the end of a window add up
to the bound, of a subject and, with two subjects, of their address, which one
subject alone never reaches.
*The limits of RequestInputs* (32767, then small stand-ins for the largest
integer, bigint and number of 19 digits) keep the order of the real ones.  The
calendar (the minute it is, an ordinary start, the last minute of the year 9999)
is as short, so that the longest cutoff goes back before its beginning and the
longest session after its end, as they do in the code.  `Plans` are the sessions
an update may name and the last dates of schedules a generation may name, at the
limits of their columns.
`CHECK_DEADLOCK FALSE` is set where every slot carries one request and the
system is then done.

### 4.1 Findings

1. **Two administrators deactivate each other** (`employer_last_admin`, a run
   that is violated): the count is read without a lock.
   The property speaks of the actor's own right: an administrator deactivates
   another, and the only change since is made by that other.  In the trace both
   count two, and both commits follow.  `RemovalKeepsLastAdmin` says, and the
   proof confirms for any number of administrators, that a race is the only way
   for deactivate and update.

The following are properties that hold and whose wording carries the exception:

2. **Adding the only administrator of a provider again as STAFF demotes it**,
   with no race: add makes no check (`provider-members.service.ts:93`), and
   `RemovalKeepsLastAdmin` excepts it.
3. **A session is revoked as a replay that did not happen.**  `revokeAll`
   updates the sessions and then the tokens of a user, without locking the
   user.  A login that commits between them keeps its session and loses its
   refresh token; its first refresh is taken for a replay.
   `LiveSessionsContinue` shows that it takes a login that commits while a
   logout of all sessions is between its two statements or its commit.
4. **An archived activity changes**: an update, pause or publication that read
   the activity before the archive writes it by id afterwards.
   `UnracedKeepsLifecycle` shows that it takes this race.
5. **An account that an operator suspends is activated** by a verification that
   read its status before (`one-time-token.service.ts:217`).
   `OperatorsDecide` shows that no other request changes what operators set,
   and that a deactivated account stays so.
6. **A generation misses an occurrence** when the insert skips it for a manual
   session that is moved away before the check for conflicts.
   `GenerationsLoseNothing` says that this is the only way, and the next
   generation repairs it.
7. **A session is created for an archived activity** by a request that read it
   before.  `ArchiveSettles` says that these are the only ones.
8. **Seven kinds of documented requests end in an internal error**
   (`DocumentedRequestsDoNotFail`): a session that inherits a duration of more
   than a day (`provider-sessions.service.ts:62`); a session that starts at the
   end of the year 9999 and ends after it (`:220`); an update whose cutoff,
   which nobody asks to be in the future, lies before the year 1 (`:247`); a page
   of a list beyond the largest offset (`page-query.dto.ts:12`); a city that
   grows in lower case (`provider-activities.service.ts:440`); an adjustment
   whose reason is blank (`employer-allowances.service.ts:155`); and the
   character U+0000 in a text or in the path of a URL, which no decorator looks
   for (`bootstrap.ts:33`) and PostgreSQL cannot store.
9. **Null where only absence is meant.**  `@IsOptional()` lets null pass, and
   the services test for undefined.  Undocumented nulls end in an internal
   error for the required texts, slugs, references and codes of every update,
   for `media`, `localStartsAt` and `throughDate`; a `dstOverlapPolicy` of null
   counts as given, and an ambiguous time is taken for the earlier instant.
10. **Names are validated before they are trimmed** in the employers, employees
   and providers modules, so that a name of blanks is stored empty;
   `StoredKeepsBounds` therefore holds the lower bound of a text only where the
   DTO trims.
11. **A generation and an update that moves a session can deadlock.**  The
   UPDATE (`provider-sessions.service.ts:226`) has marked its old start and
   waits for the new one, which the generation has inserted; the generation
   (`recurring-schedules.service.ts:171`) waits at the old start.  So can two
   updates that exchange starts.  PostgreSQL fails one of the statements, which
   nobody retries.  `OnlyMovesDeadlock` says that every circle has such a move
   in it; `Abort` is its victim.

## 5. Fairness

`FairServiceSpec` and AuthSessions' `FairSpec` assume weak fairness of each
request's next statement: Node's event loop and PostgreSQL execute a statement
that does not have to wait.  A statement that waits for a lock is not enabled,
and nothing more is assumed of waiting; it is enough because a slot carries
finitely many attempts, so nobody can be overtaken for ever.  AuthSessions
adds weak fairness of `Break`, PostgreSQL's deadlock detection, without which
rotation and revocation can wait for each other for ever (the mutant of
`RequestsEnd` shows that the property can fail).  RateLimit's
`FairLimitSpec` assumes of `Tick` that time does not stop; `CountersLapse` holds although
clients keep sending.  Nothing is assumed of clients, aborts, lost answers,
operators or administrators, nor of any clock elsewhere.

## 6. Proofs

Every theorem holds for any sets of accounts, requests, users, slots, zones and
references and any bounds.  The assumptions are those of the modules: a free
lock is no writer, a missing row is no row, the system is no user, the bounds
are natural numbers (positive for versions, passwords, attempts, windows and
the maxima of a rate), offsets of zones are at most a day, durations at least a
minute, and the starts that templates generate lie before the horizon.  Each
proof of an invariant follows the same line: an inductive invariant, a lemma per
action that preserves it, a lemma that says what an action leaves alone for
every other request, and the properties as its consequences.  TLC checked each
inductive invariant on the instance of the run before it was proved.

Every safety invariant and every action property that a run checks is stated by
a theorem.

### 6.1 AllowanceProofs: the tables

* `InvariantHolds`: `IInv` is an invariant (that `TypeOK` is one follows from
  the quantifiers of `Next`: the lemma `TypeCorrect`);
* `TriggersKeepLedger`: the seven safety properties of the ledger;
  `BalancesAreChained`, `CacheIsProjected`, `RefundsStayBacked` and
  `AdjustmentsStayAudited` state those that `ledger_store` checks one by one;
* `HistoryOnlyGrows`: `AppendOnly`;
* `StoreImplementsLedger`: `Spec => ImplementsLedger`.

The safety properties speak of committed rows, and a commit makes a whole
transaction's work visible at once.  They are therefore not inductive: nothing
in them says what may be waiting to be committed.  `IInv` adds that
(`WorkIsLocked`, `DraftIsAhead`, `PendingIsValid`, `PendingAuditsAreValid`):
uncommitted rows belong to the holder of the account's lock; the draft of a row
is ahead of it by as many pending entries as it is ahead in version; a pending
entry is unique, backed and, if it is the next one, continues the committed
balance; a pending audit belongs to a pending adjustment.  It does not say that
pending entries are gapless, because a transaction may insert an entry, forget
the projection, and insert again: the deferred triggers find out at the commit.
The argument has one lemma per statement for the uncommitted part, and
`CommitGrowth`, the heart of it: a commit that the deferred triggers accept
adds to each account nothing or exactly one entry, the next one.  From it
follow the properties after a commit, the action property, and the step of the
abstract ledger.

### 6.2 AllowanceProofs: the service

* `ServiceInvariantHolds`: `ServiceSpec => []ServiceInv`;
* `ServiceImplementsStore`: `ServiceSpec => Spec` of LedgerStore;
* `ServiceKeepsLedger`: hence the seven safety properties, `AppendOnly` and
  `ImplementsLedger` hold of the service;
* `TransactionsHold`: `ServiceSpec => []TransactionsInv`;
* `CommandsApplyOnce`: `ServiceSpec => []AppliedOnce`;
* `ChecksForeseeGuards`: `ServiceSpec => []GuardsAreForeseen`;
* `BalancesAreSums`: `ServiceSpec => []Reconciled`;
* `ServiceImplementsRequests`: `ServiceSpec => ImplementsRequests`.

The service's actions are written with those of LedgerStore, but LedgerStore
only allows rows that fit their columns, so the implication is not free: it
needs that what a request has read, computed and kept over several statements
still is a row and an entry when it writes it (`ServiceInv`: a running request
has a command; a request that decides has read a row; a request past its insert
has an entry that fits; an account that was found stays).  Every other request
keeps what one request has established (`OthersKeepProgress`), so the proof has
one lemma per group of statements, and `RefuseKeeps` and `ContinueKeeps` for
the two ways most of them end.

The theorems after `ServiceKeepsLedger` need to know what a transaction holds.
`TransactionsInv` says for every request under way: it locks the account of its
command and no other, from the lock to the end (only an initial allocation that
finds the account decides without it, and then never to append); all it has
written is its own entry; the row it builds on (`Basis`) is the committed one,
or the empty one it has inserted; its decision still stands when it writes; and
what it returned is a committed entry with its reference.  That other requests
cannot disturb this is again one lemma (`OthersKeepTransaction`), which rests on
the locks (`OthersLocksStay`, `OthersEntriesStay`).  Then:

* for each statement that the database could reject there is a lemma that it
  does not (`EntryFits`, `EntryIsForeseen`, `UpdateIsForeseen`,
  `CommitIsForeseen`), apart from the three cases GuardsAreForeseen
  names: the blank reason of an adjustment (`ReasonIsGiven`), an authority lost
  after the policy's check of this submission (`dismissed`), and the largest
  version;
* an entry about to be committed has a reference that no committed entry has
  (`CandidateIsNew`), so a second request with the same command can only be
  answered with the first one's entry;
* the commit maps to `Apply` of AllowanceRequests (`CommitRefines`), the answer
  to a retry to `AnswerRetry`, every refusal to a `Refuse` that is justified by
  the history at that moment (`RefusalIsJustified`), a lost answer to `Lose`, and
  all other statements to stuttering.

### 6.3 AuthSessionsProofs

* `SessionsInvariantHolds`: `IInv` is inductive;
* `RevokedMeansDead`, `TokensAreExchangedOnce`, `PasswordsEndSessions`,
  `PasswordsEndResets`, `ReplaysEndSessions`, `SessionsCanContinue`: the six
  invariants of the run.

Revocation is two statements that chase rows while other transactions add more.
That nothing escapes them rests on locks, and `IInv` says how, for the three
kinds of transactions: one that opens a session, one that rotates a token, one
that revokes.  `HoldsUser`, `HoldsSessions`, `HoldsTokens` name the only locks a
request can hold at each point; `Opens`, `Rotates`, `Revokes`, `SetsPassword`
what it has written under them; `ReachesSessions` and `ReachesTokens` are the
heart: every session it is to revoke that is live, and every usable token of a
session it has locked, is either done or among the rows it still has to lock.
This is stable because the only new sessions are those of logins, which share
the user's row that a password change holds exclusively, and the only new tokens
of an old session come from rotations, which lock the session (`Touch`) before
they commit.  The exception for `logoutAll`, which holds no lock on the user, is
why `LiveSessionsContinue` has one: `raced` names the logins that committed
meanwhile.  `CommitIsSafe` draws the six properties
from this for the commit of each kind; `Undisturbed` shows that a commit keeps
what all other requests rely on.

### 6.4 OrganizationMembersProofs

* `MembersInvariantHolds`: `IInv` is inductive;
* `EmployeesStayMatched`: `EmployeesMatchMembers` under any number of
  concurrent changes of memberships and employees;
* `RemovalsKeepAnAdmin`: `RemovalKeepsLastAdmin`.

A commit publishes drafts, so that employees and memberships agree after it
depends on what the transaction wrote (`Works`: at each point of the handler,
the drafts of the membership and of the employee that belong together) and on
nobody else having touched those rows (`Holds`: the locks of each point, and no
draft of a row without its lock).  `RemovalKeepsLastAdmin` needs `Counted`: from
the count of the other administrators to the commit there still is one, unless
the request was raced.  `StillCounted` shows that other requests only make the
request raced or leave the count alone.  `employer_last_admin` is the same
statement without that condition, which TLC refutes.

### 6.5 SessionScheduleProofs

* `ScheduleInvariantHolds`; `StartsAreUnique`: no two sessions start at the
  same time, committed or about to be;
* `CompletionsWaitForTheEnd`, `GenerationsAreWhole`, `FinishedSessionsStay`,
  `ArchivedActivitiesSettle`, `OnlyMovesCanDeadlock`: the five properties of the run.

`IInv` joins the rows that requests have inserted and not committed to the
committed ones: the pending inserts of different requests are disjoint
(`Disjoint`), a pending insert is a start of the request's own command that no
row has (`Reserves`), a generation has dealt with all occurrences it no longer
has to insert (`Progresses`), and a session that is about to be changed is
still as it was when the request decided (`Aims`, `Holds`).  The
argument about deadlock (`CirclesHaveAMove`) is about order: a request that
blocks others, waits itself and is not moving a session can only be a generation
(`WaitersBlockWithPending`), and since a generation inserts its starts ascending
it holds only starts before the one it waits for (`WaitingIsOrdered`); so the
one that waits for the latest start can wait for nobody in the circle.  An
update that moves a session holds its old start whatever the new one is, and
breaks the order.

### 6.6 ActivityCatalogProofs, RequestProofs: the tokens

* `WhatIsPublishedIsComplete`, `ThePublicReadsWhatIsThere`: they follow from
  the types and from the table's constraint at every write; no read of any
  request matters to them, which is the point of having the constraint.
  `UnracedRequestsKeepTheLifecycle` needs `Decided`: a request that has decided
  and is not raced writes over the row it read.
* `TokensSucceedEachOther`, `TokensAreUsedOnce`, `RequestsRespectOperators`:
  `IInv` says that the number of verifications is that of used tokens, and what
  a request that has looked a token up knows of it and of the account's status
  (`Presents`, `SawTheStatus`), which is all that the account lock keeps true.

### 6.7 CalculationProofs

* `CommissionIsNearest`, `SnapshotSplits`, `SharesGrow`: the rounding of the
  commission for every price and rate;
* `ResolutionIsExact`: for every zone whose offset changes once, by at most a
  day, and for every guess of the offset, resolving a local time finds the gap,
  the overlap or the instant as the definition of a wall clock has them;
* `OccurrencesAreDates`: the dates a generation enumerates, day by day with the
  remainder of the weeks, are those of the recurrence's definition.

The invariants of RecurringSchedules rest on the last two.  They are not
inductive: that a generation finds the sessions of an earlier one again, and
inserts none of them a second time, needs that those sessions lie where the
schedule wants them.  `RecurringInv` adds that (`KeepsToSchedule`: a materialized
session has the zone the schedule was created in, one of its dates and the
instant its policy selects there) and the unique index on starts.
`KeepsToSchedule` is stable because the zone is a column of the schedule: the
provider may have moved since.  `RecurringInvariant` says that `RecurringInv` is
inductive; `SnapshotsStayTrue`, `OneSessionPerDate` and `GenerationsComplete`
state the three invariants of the run.  The second needs that different dates
ask for different wall clocks, the third that counting gaps by occurrence is
counting them by date (`OccurrencesDiffer`, `GapsAreCounted`).

`LimitTypes`, `WaitingIsEnough` and `BurstsStayBounded` are about RateLimit.
`RetryAfterSuffices` speaks of clients that have been told to wait; why their
time is enough lies in what their request was told before.  `KnowsBlockers` says
it: a counter that the request found exceeded stays exceeded and keeps its end,
however many others count it meanwhile (`ExceededStays`), and the seconds the
script returned are at most half a second short of it (`SecondsRound`,
`LongestWait`).

`BurstsAreBounded` is about a history: for each age, how many of the requests
counted that long ago have been admitted.  `TwoWindows` bounds it by a function
`P`: of the requests counted less than `n` ticks ago, at most `P[n]` were
admitted or still may be (`Covers`), where `P` is no more than the running
window has counted up to the moment it began, and grows by at most the maximum
less one beyond it (`Fits`): the first request of the window before is as old
as that window and forgotten.  A script that counts a request raises `P`
(`CountedWindows`), an admission turns a pending request into an admitted one
under the same `P` (`AdmitWindows`), a tick shifts it (`TickWindows`), and
`TotalIsCovered` sums it up.

### 6.8 Sums

The community modules define a sum over a set as a fold that takes the elements
in an order chosen by `CHOOSE`.  The theorems of the library that would do the
induction take a predicate, which no prover here can instantiate.  `Induction`
replaces the predicate by a *set of numbers*: a set that has 0 and with every
number the next has all natural numbers, by the well-foundedness of `<`, a
statement without operators.  With it `SumExists` finds the function that the
recursion of the fold asks for, `SumOfRest` and `SumsAgree` show that the order
does not matter, and `TotalOfOneMore` that a sum grows by what is added: the
step that `Reconciled` takes when an entry is appended, and `BurstsAreBounded`
when a request is admitted.

### 6.9 RequestProofs: the fields

The theorems hold for every limit of the columns that is ordered like those of
the code (`BoundsAssumption`).  The argument is about one field at a time, and
has two halves that do not know each other.

* *The three layers agree.*  `Takes(f, rule, use, column)` says when a rule of a
  DTO, what the service does with the field and the column it writes fit each
  other: a rule that lets null pass needs a column or a use that takes it, the
  bounds of the rule lie within those of the column, a column that refuses
  blanks needs a rule or a use that does.  `FormatsTake`, `TextsTake`,
  `NumbersTake` and their like establish it for the decorators and columns the
  code has, the lemmas `...Agree` for each DTO with its service and table, and
  `OperationsAgree` for all 24 operations, where `PartialAgrees` and
  `OmittingAgrees` carry it to the DTOs derived by PartialType and OmitType.
* *What agrees fits.*  `FieldFits` and `FieldKeepsBounds`: of such a field,
  whatever the rule accepts and the service writes, the column takes, and it is
  within the bounds of the rule.

`InputInv` joins them along a request: what the client sent are values
(`RequestInv`), what passed the pipe is accepted (`PipeInv`), what passed the
service is neither refused nor in the wrong order (`ServiceInv`), and what the
activity has stored is within its columns (`ActivityInv`), which sessions and
schedules that inherit a column rely on.  `StoreStep` is where a request could
fail: `RowFits` shows that only the seven exceptions can.  Most are not a matter
of one field: `WindowFits` multiplies page and limit, `CityFits` has a column
computed from another, `ServedFieldFits` the inherited duration, and
`InstantFits` the start, end and cutoff of a session, which are computed from
fields of the request, the activity and the stored session or schedule
(`PlansAssumption`: what the checks of the tables leave of those).
`DocumentedRequestsSucceed`, `BoundsAreStored` and `InputTypes` follow.

### 6.10 Only model-checked

Liveness (`RequestsEnd`, `CountersLapse`), which is out of the prover's reach.
The assumption `SmallSplits` of MCRequestInputs, which compares the split of a
price with its definition on small amounts, repeats what `CommissionIsNearest`
and `SnapshotSplits` say of all.

## 7. Not modelled

* Registration of accounts, employers and providers, creation of schedule
  templates, profile and settings updates, media rows: single-row writes with
  no protocol; their inputs are checked with those of RequestInputs where the
  request is one of its operations.
* Lists, search, availability and the allowance queries: read-only.  Of the
  public catalog ActivityCatalog has the one thing that can fail, the mapper
  that requires fields of what it reads.
* Access tokens and their signature, password hashing, e-mail delivery,
  configuration, health, logging, bootstrap: no state shared between requests.
* Expiry of sessions and refresh tokens as time passes (a token that has
  expired behaves as one that was never issued), and suspension of an account
  in the modules other than EmailVerification.
