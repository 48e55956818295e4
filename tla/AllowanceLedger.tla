--------------------------- MODULE AllowanceLedger ---------------------------
(***************************************************************************)
(* What the ledger promises, with no transactions, locks or triggers in    *)
(* sight: each account is a history that only grows, one entry at a time.  *)
(* A history opens with its initial allocation; every later entry continues*)
(* the balance of the one before it, uses a reference that is new to the   *)
(* account, and, when it is a refund, gives back no more than the booking  *)
(* took.  LedgerStore is shown to implement this specification.            *)
(***************************************************************************)
EXTENDS LedgerEntries

VARIABLE ledger  \* ledger[a]: the committed entries of account a

LedgerTypeOK == ledger \in [Accounts -> SUBSET Entry]

Opens(H, e) == H = {} /\ e.sequence = 1 /\ e.type = "INITIAL_ALLOCATION"

Continues(H, e) ==
  \E l \in H : /\ \A h \in H : h.sequence <= l.sequence
               /\ e.sequence = l.sequence + 1
               /\ e.resulting = l.resulting + e.delta
               /\ e.currency = l.currency
               /\ e.type # "INITIAL_ALLOCATION"

ValidEntry(H, e) ==
  /\ Opens(H, e) \/ Continues(H, e)
  /\ DirectionIsValid(e)
  /\ ManualActorIsUser(e)
  /\ RefundHasDebit(H, e)
  /\ \A h \in H : ~SameReference(h, e)

(* One commit may touch several accounts, each by at most one entry.        *)
Grow == \A a \in Accounts :
          \/ ledger'[a] = ledger[a]
          \/ \E e \in Entry : /\ e.account = a
                              /\ ValidEntry(ledger[a], e)
                              /\ ledger'[a] = ledger[a] \cup {e}

LedgerInit == ledger = [a \in Accounts |-> {}]
LedgerNext == ledger' \in [Accounts -> SUBSET Entry] /\ Grow
LedgerSpec == LedgerInit /\ [][LedgerNext]_ledger
=============================================================================
