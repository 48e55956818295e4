---------------------------- MODULE LedgerEntries ----------------------------
(***************************************************************************)
(* The vocabulary of the allowance ledger: the rows of the tables          *)
(* allowance_accounts, allowance_transactions and audit_logs, and the      *)
(* CHECK constraints a single row must pass.                               *)
(*                                                                         *)
(* An account is identified with its employee (a unique index allows one   *)
(* account per employee), and a transaction row with the pair (account,    *)
(* sequence) instead of a UUID.  An audit row carries only the columns the *)
(* guards read.  Metadata, correlation ids and timestamps are left out.    *)
(***************************************************************************)
EXTENDS Integers

CONSTANTS
  Accounts,    \* accounts, one per employee
  Users,       \* users who may act on the ledger
  System,      \* the actor of a row with actor_type SYSTEM (no user id)
  References,  \* reference ids: grants, bookings, adjustments, policies
  Currencies,  \* ISO 4217 codes
  MaxBalance,  \* stands for 2^63 - 1, the largest BIGINT
  MaxVersion   \* stands for 2^31 - 1, the largest INTEGER

ASSUME BoundsAssumption == MaxBalance \in Nat /\ MaxVersion \in Nat \ {0}
ASSUME SystemAssumption == System \notin Users

CreditTypes == {"INITIAL_ALLOCATION", "TOP_UP", "CANCELLATION_REFUND"}
DebitTypes == {"BOOKING_DEBIT", "EXPIRATION"}
TransactionTypes == CreditTypes \cup DebitTypes \cup {"MANUAL_ADJUSTMENT"}

(* allowance_transactions_reference_type_check: the type of a row fixes the *)
(* type of the reference it carries, so rows keep only the reference id.    *)
ReferenceType(type) ==
  CASE type \in {"INITIAL_ALLOCATION", "TOP_UP"} -> "ALLOWANCE_GRANT"
    [] type \in {"BOOKING_DEBIT", "CANCELLATION_REFUND"} -> "BOOKING"
    [] type = "MANUAL_ADJUSTMENT" -> "MANUAL_ADJUSTMENT"
    [] OTHER -> "EXPIRATION_POLICY"

Actors == Users \cup {System}
Balances == 0 .. MaxBalance
Deltas == -MaxBalance .. MaxBalance

AccountRow == [balance : Balances, version : 0 .. MaxVersion, currency : Currencies]

Entry == [account : Accounts, sequence : 1 .. MaxVersion, type : TransactionTypes,
          delta : Deltas, resulting : Balances, currency : Currencies,
          reference : References, actor : Actors]

Audit == [account : Accounts, sequence : 1 .. MaxVersion, actor : Actors,
          before : Balances, after : Balances]

(* allowance_transactions_delta_direction_check *)
DirectionIsValid(e) ==
  /\ e.type \in CreditTypes => e.delta > 0
  /\ e.type \in DebitTypes => e.delta < 0
  /\ e.type = "MANUAL_ADJUSTMENT" => e.delta # 0

(* allowance_transactions_manual_actor_check *)
ManualActorIsUser(e) == e.type = "MANUAL_ADJUSTMENT" => e.actor # System

(* A refund trigger that forgets to compare the amounts.                    *)
RefundHasSomeDebit(S, e) ==
  e.type = "CANCELLATION_REFUND" =>
    \E d \in S : /\ d.account = e.account
                 /\ d.type = "BOOKING_DEBIT"
                 /\ d.reference = e.reference

(* What enforce_cancellation_refund demands of a refund e, given the rows S *)
(* that the inserting transaction sees.                                     *)
RefundHasDebit(S, e) ==
  e.type = "CANCELLATION_REFUND" =>
    \E d \in S : /\ d.account = e.account
                 /\ d.type = "BOOKING_DEBIT"
                 /\ d.reference = e.reference
                 /\ d.sequence < e.sequence
                 /\ d.currency = e.currency
                 /\ e.delta <= -d.delta

(* References that nobody remembers.                                        *)
NoSameReference(d, e) == FALSE

(* The unique indexes on references: within an account a booking has at     *)
(* most one debit and one refund, and any other reference is used once.     *)
SameReference(d, e) ==
  /\ d.account = e.account
  /\ d.reference = e.reference
  /\ ReferenceType(d.type) = ReferenceType(e.type)
  /\ ReferenceType(e.type) = "BOOKING" => d.type = e.type
=============================================================================
