--------------------------- MODULE EmailVerification ---------------------------
(***************************************************************************)
(* The e-mail verification of OneTimeTokenService, for one account: its    *)
(* status, its verification tokens, and the requests that ask for a token  *)
(* or present one.                                                         *)
(*                                                                         *)
(* A request reads the account, or a token with its account, without a     *)
(* lock.  Its transaction begins with the users row FOR UPDATE, and so does*)
(* every other that writes verification tokens or the status: a transaction*)
(* is one action, taken when it has the lock.  Operators change the status *)
(* in the database; the program has no request for it.                     *)
(***************************************************************************)
EXTENDS Naturals, FiniteSets

CONSTANTS
  Requests,  \* each slot carries one request
  First,     \* the request of the past that issued the first token
  None       \* no request, and no token

(* A request issues at most one token; its name stands for the selector.    *)
Tokens == Requests \cup {First}

ASSUME NamesAssumption == First \notin Requests /\ None \notin Tokens

Statuses == {"PENDING_VERIFICATION", "ACTIVE", "SUSPENDED", "DEACTIVATED"}

VARIABLES
  status,    \* of the account
  verified,  \* how often emailVerifiedAt was set
  tokens,    \* tokens[t]: "none", "active", "used" or "revoked"
  expired,   \* the tokens whose time is over
  pc,        \* pc[p]: what request p does next
  token,     \* token[p]: the token it presents, or None
  seen,      \* seen[p]: the status it read
  raced      \* raced[p]: an operator changed the status since

account == <<status, verified>>
vars == <<account, tokens, expired, pc, token, seen, raced>>

(* Types; nothing is issued for a request that has not asked for it.        *)
TypeOK ==
  /\ status \in Statuses
  /\ verified \in Nat
  /\ tokens \in [Tokens -> {"none", "active", "used", "revoked"}]
  /\ expired \in SUBSET Tokens
  /\ pc \in [Requests -> {"idle", "find", "issue", "resolve", "verify", "done"}]
  /\ token \in [Requests -> Tokens \cup {None}]
  /\ seen \in [Requests -> Statuses]
  /\ raced \in [Requests -> BOOLEAN]
  /\ \A p \in Requests : pc[p] \in {"idle", "find", "issue"} => tokens[p] = "none"

Init ==
  /\ status = "PENDING_VERIFICATION"
  /\ verified = 0
  /\ tokens = [t \in Tokens |-> IF t = First THEN "active" ELSE "none"]
  /\ expired = {}
  /\ pc = [p \in Requests |-> "idle"]
  /\ token = [p \in Requests |-> None]
  /\ seen = [p \in Requests |-> status]
  /\ raced = [p \in Requests |-> FALSE]

-----------------------------------------------------------------------------
At(p, here) == pc[p] = here
Goto(p, there) == pc' = [pc EXCEPT ![p] = there]

End(p) ==
  /\ Goto(p, "done")
  /\ UNCHANGED <<expired, token, seen, raced>>

Refuse(p) == End(p) /\ UNCHANGED <<account, tokens>>

AskForToken(p) ==
  /\ At(p, "idle")
  /\ Goto(p, "find")
  /\ UNCHANGED <<account, tokens, expired, token, seen, raced>>

(* A token is presented once or more, by whoever has the mail.              *)
Present(p, t) ==
  /\ At(p, "idle") /\ tokens[t] # "none"
  /\ token' = [token EXCEPT ![p] = t]
  /\ Goto(p, "resolve")
  /\ UNCHANGED <<account, tokens, expired, seen, raced>>

(* requestEmailVerification answers the same whatever it finds.             *)
FindUser(p) ==
  /\ At(p, "find")
  /\ IF status = "PENDING_VERIFICATION" /\ verified = 0
       THEN Goto(p, "issue") /\ UNCHANGED <<account, tokens, expired, token, seen, raced>>
       ELSE Refuse(p)

(* issueForUser revokes the tokens that could be used, and makes a new one. *)
IssueBeside(p) ==
  /\ At(p, "issue")
  /\ tokens' = [tokens EXCEPT ![p] = "active"]
  /\ End(p)
  /\ UNCHANGED account

Issue(p) ==
  /\ At(p, "issue")
  /\ tokens' = [t \in Tokens |-> IF t = p THEN "active"
                                 ELSE IF tokens[t] = "active" THEN "revoked" ELSE tokens[t]]
  /\ End(p)
  /\ UNCHANGED account

(* resolve, and the status it brings along.  verifyEmail takes the time     *)
(* here, and compares the expiry with that time after it has the lock.      *)
Resolve(p) ==
  /\ At(p, "resolve")
  /\ IF tokens[token[p]] = "active" /\ token[p] \notin expired /\ status # "DEACTIVATED"
       THEN /\ seen' = [seen EXCEPT ![p] = status]
            /\ raced' = [raced EXCEPT ![p] = FALSE]
            /\ Goto(p, "verify")
            /\ UNCHANGED <<account, tokens, expired, token>>
       ELSE Refuse(p)

AlwaysConsumes(p) == TRUE  \* does not look at the number of updated rows
Consumes(p) == tokens[token[p]] = "active"

ActivatesAnyone(p) == TRUE  \* activates every account
Activates(p) == seen[p] = "PENDING_VERIFICATION"

(* verifyEmail, from the lock of the account on                             *)
Verify(p) ==
  /\ At(p, "verify")
  /\ IF status = "DEACTIVATED" \/ ~Consumes(p)
       THEN Refuse(p)
       ELSE /\ tokens' = [tokens EXCEPT ![token[p]] = "used"]
            /\ verified' = verified + 1
            /\ status' = IF Activates(p) THEN "ACTIVE" ELSE status
            /\ End(p)

Abort(p) == ~At(p, "idle") /\ ~At(p, "done") /\ Refuse(p)

-----------------------------------------------------------------------------
Operate(s) ==
  /\ s # status
  /\ status' = s
  /\ raced' = [p \in Requests |-> TRUE]
  /\ UNCHANGED <<verified, tokens, expired, pc, token, seen>>

Expire(t) ==
  /\ tokens[t] # "none"
  /\ expired' = expired \cup {t}
  /\ UNCHANGED <<account, tokens, pc, token, seen, raced>>

Next ==
  \/ \E p \in Requests :
       \/ AskForToken(p) \/ FindUser(p) \/ Issue(p)
       \/ (\E t \in Tokens : Present(p, t)) \/ Resolve(p) \/ Verify(p)
       \/ Abort(p)
  \/ \E s \in Statuses \ {"PENDING_VERIFICATION"} : Operate(s)
  \/ \E t \in Tokens : Expire(t)

Spec == Init /\ [][Next]_vars

-----------------------------------------------------------------------------
(***************************************************************************)
(* Properties                                                              *)
(***************************************************************************)

(* However many requests ask for a token, and whoever presents one          *)
(* meanwhile, at most one token of the account can be used.                 *)
OneLiveToken == \A t, u \in Tokens : tokens[t] = "active" /\ tokens[u] = "active" => t = u

(* A token verifies the account once, also when it is presented by several  *)
(* requests at the same time: there is a used token for each time that      *)
(* emailVerifiedAt was set.                                                 *)
UsedOnce == verified = Cardinality({t \in Tokens : tokens[t] = "used"})

(* Of all statuses a request changes none but that of an account that       *)
(* awaits verification, or did when the token was resolved and an operator  *)
(* has come between; what was deactivated stays so even then.               *)
OperatorsDecide ==
  [][\A p \in Requests :
       At(p, "verify") /\ pc'[p] = "done" /\ status' # status =>
         /\ status' = "ACTIVE"
         /\ status # "DEACTIVATED"
         /\ status = "PENDING_VERIFICATION" \/ raced[p]]_vars
=============================================================================
