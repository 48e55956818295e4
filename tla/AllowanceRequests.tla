-------------------------- MODULE AllowanceRequests --------------------------
(***************************************************************************)
(* What the allowance commands promise their callers, as if each command   *)
(* were executed in one indivisible step: it is applied once, or answered  *)
(* with the entry that the same command produced before, or refused for a  *)
(* reason that is true of the ledger at that moment.  A caller that lost   *)
(* its answer may submit the command again.  AllowanceService is shown to  *)
(* implement this.                                                         *)
(***************************************************************************)
EXTENDS LedgerEntries

CONSTANTS
  Requests,   \* request slots; each carries one command, perhaps repeatedly
  Commands,   \* the commands that may be submitted
  NoCommand,  \* the command of an unused slot
  NoEntry     \* the reply of a request that returned no entry

VARIABLES
  ledger,  \* ledger[a]: the committed entries of account a
  cmd,     \* cmd[p]: the command of request p
  result,  \* result[p]: how the last submission of p ended, or "open"
  reply    \* reply[p]: the entry returned to p

requestVars == <<ledger, cmd, result, reply>>

Results == {"none", "open", "applied", "retried", "reused", "exists", "funds",
            "refund", "rejected", "dbError", "unknown"}

Last(H) == CHOOSE l \in H : \A h \in H : h.sequence <= l.sequence
BalanceOf(H) == IF H = {} THEN 0 ELSE Last(H).resulting
VersionOf(H) == IF H = {} THEN 0 ELSE Last(H).sequence

(* The entry of H that used the reference of command c, if there is one.    *)
Using(H, c) == {e \in H : SameReference(e, c)}

SameValues(e, c) ==
  /\ ~c.blank
  /\ e.type = c.type
  /\ e.delta = c.delta
  /\ e.currency = c.currency
  /\ e.actor = c.actor

NewEntry(c, balance, version) ==
  [account |-> c.account, sequence |-> version + 1, type |-> c.type,
   delta |-> c.delta, resulting |-> balance + c.delta, currency |-> c.currency,
   reference |-> c.reference, actor |-> c.actor]

RInit ==
  /\ ledger = [a \in Accounts |-> {}]
  /\ cmd = [p \in Requests |-> NoCommand]
  /\ result = [p \in Requests |-> "none"]
  /\ reply = [p \in Requests |-> NoEntry]

Submit(p, c) ==
  /\ result[p] = "none"
  /\ cmd' = [cmd EXCEPT ![p] = c]
  /\ result' = [result EXCEPT ![p] = "open"]
  /\ UNCHANGED <<ledger, reply>>

Resubmit(p) ==
  /\ result[p] = "unknown"
  /\ result' = [result EXCEPT ![p] = "open"]
  /\ reply' = [reply EXCEPT ![p] = NoEntry]
  /\ UNCHANGED <<ledger, cmd>>

Apply(p) ==
  LET c == cmd[p]
      H == ledger[c.account]
      e == NewEntry(c, BalanceOf(H), VersionOf(H))
  IN  /\ result[p] = "open"
      /\ Using(H, c) = {}
      /\ c.type = "INITIAL_ALLOCATION" <=> H = {}
      /\ e \in Entry
      /\ RefundHasDebit(H, e)
      /\ ledger' = [ledger EXCEPT ![c.account] = H \cup {e}]
      /\ result' = [result EXCEPT ![p] = "applied"]
      /\ reply' = [reply EXCEPT ![p] = e]
      /\ UNCHANGED cmd

AnswerRetry(p) ==
  /\ result[p] = "open"
  /\ \E e \in Using(ledger[cmd[p].account], cmd[p]) :
       /\ SameValues(e, cmd[p])
       /\ reply' = [reply EXCEPT ![p] = e]
  /\ result' = [result EXCEPT ![p] = "retried"]
  /\ UNCHANGED <<ledger, cmd>>

(* The refusals that say something about the ledger.                        *)
Justified(r, H, c) ==
  CASE r = "reused" -> \E e \in Using(H, c) : ~SameValues(e, c)
    [] r = "exists" -> c.type = "INITIAL_ALLOCATION" /\ H # {} /\ Using(H, c) = {}
    [] r = "funds" -> H # {} /\ BalanceOf(H) + c.delta \notin Balances
    [] r = "refund" -> \A d \in H : d.type = "BOOKING_DEBIT" /\ d.reference = c.reference
                                      => d.currency # c.currency \/ c.delta > -d.delta
    [] r = "dbError" -> c.type = "MANUAL_ADJUSTMENT" \/ VersionOf(H) = MaxVersion
    [] OTHER -> TRUE

Refuse(p, r) ==
  /\ result[p] = "open"
  /\ Justified(r, ledger[cmd[p].account], cmd[p])
  /\ result' = [result EXCEPT ![p] = r]
  /\ UNCHANGED <<ledger, cmd, reply>>

(* The connection or the server is lost before or after the answer.         *)
Lose(p) ==
  /\ result[p] \in {"open", "applied", "retried"}
  /\ result' = [result EXCEPT ![p] = "unknown"]
  /\ reply' = [reply EXCEPT ![p] = NoEntry]
  /\ UNCHANGED <<ledger, cmd>>

RNext ==
  \E p \in Requests :
    \/ \E c \in Commands : Submit(p, c)
    \/ Resubmit(p)
    \/ Apply(p)
    \/ AnswerRetry(p)
    \/ \E r \in {"reused", "exists", "funds", "refund", "rejected", "dbError"} : Refuse(p, r)
    \/ Lose(p)

RSpec == RInit /\ [][RNext]_requestVars
=============================================================================
