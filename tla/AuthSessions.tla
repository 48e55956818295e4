----------------------------- MODULE AuthSessions -----------------------------
(***************************************************************************)
(* SessionService, CredentialsService and the password resets of           *)
(* OneTimeTokenService, for one account: its password, its device sessions,*)
(* their refresh tokens and its password-reset tokens.                     *)
(*                                                                         *)
(* A request is a slot of Requests.  Its SQL statements are actions.  A    *)
(* statement that updates many rows takes its candidates from what is      *)
(* committed when it starts, then locks them one by one, in any order,     *)
(* waiting for their holders and testing each row again once it has it.    *)
(* What a transaction has written is the draft of the rows it has locked;  *)
(* drafts of unlocked rows equal the rows.                                 *)
(*                                                                         *)
(* Passwords are numbered; a number stands for the hash and for            *)
(* password_changed_at.  The account stays ACTIVE and nothing expires: an  *)
(* expired token or session is refused like a revoked one.  Rows of        *)
(* sessions and tokens are never deleted.                                  *)
(***************************************************************************)
EXTENDS Naturals, FiniteSets

CONSTANTS
  Requests,    \* each slot carries one request
  First,       \* the request of the past that opened the first session
  None,        \* no request, and no row
  Operations,  \* which operations are requested
  MaxPassword  \* how many passwords the account has in all

(* A request inserts at most one session, one refresh token and one reset   *)
(* token; its name stands for their UUIDs.                                  *)
Rows == Requests \cup {First}

AllOperations == {"login", "rotate", "logout", "logoutAll", "changePassword",
                  "issueReset", "resetPassword"}

ASSUME OperationsAssumption == Operations \subseteq AllOperations
ASSUME NamesAssumption == First \notin Requests /\ None \notin Rows
ASSUME PasswordAssumption == MaxPassword \in Nat \ {0}

VARIABLES
  password, sessions, tokens, resets,  \* what is committed
  passwordDraft, sessionDraft, tokenDraft, resetDraft,  \* what lock holders see
  sharing,      \* requests that hold the users row FOR SHARE
  userLock,     \* the request that holds it FOR UPDATE, or None
  sessionLock,  \* sessionLock[s]: the request that holds the row, or None
  tokenLock,
  op,           \* op[p]: the operation of request p, or "none"
  subject,      \* subject[p]: the session, token or reset token it is about
  pc,           \* pc[p]: the statement it executes next
  seen,         \* seen[p]: the password it read before its transaction
  targets,      \* targets[p]: the rows its statement has yet to lock
  reply,        \* reply[p]: its answer
  raced         \* history: sessions opened while a logoutAll was revoking

tables == <<password, sessions, tokens, resets, raced>>  \* a commit changes
drafts == <<passwordDraft, sessionDraft, tokenDraft, resetDraft>>
locks == <<sharing, userLock, sessionLock, tokenLock>>
vars == <<tables, drafts, locks, op, subject, pc, seen, targets, reply>>

Reasons == {"LOGOUT", "PASSWORD", "REFRESH_TOKEN_REUSE"}  \* revocation reasons

SessionRow == [state : {"none", "live"} \cup Reasons, password : 1 .. MaxPassword]
TokenRow == [session : Rows \cup {None}, consumed : BOOLEAN,
             revoked : BOOLEAN, parent : Rows \cup {None}]
ResetRow == [state : {"none", "active", "used", "revoked"}, password : 1 .. MaxPassword]

NewSession(n) == [state |-> "live", password |-> n]
NewToken(s, t) == [session |-> s, consumed |-> FALSE, revoked |-> FALSE, parent |-> t]
UnusedSession == [state |-> "none", password |-> 1]
UnusedReset == [state |-> "none", password |-> 1]

(* Types, and the rows that nobody has locked have no uncommitted change.   *)
TypeOK ==
  /\ password \in 1 .. MaxPassword /\ passwordDraft \in 1 .. MaxPassword
  /\ sessions \in [Rows -> SessionRow] /\ sessionDraft \in [Rows -> SessionRow]
  /\ tokens \in [Rows -> TokenRow] /\ tokenDraft \in [Rows -> TokenRow]
  /\ resets \in [Requests -> ResetRow] /\ resetDraft \in [Requests -> ResetRow]
  /\ sharing \subseteq Requests
  /\ userLock \in Requests \cup {None}
  /\ sessionLock \in [Rows -> Requests \cup {None}]
  /\ tokenLock \in [Rows -> Requests \cup {None}]
  /\ op \in [Requests -> AllOperations \cup {"none"}]
  /\ subject \in [Requests -> Rows \cup {None}]
  /\ pc \in [Requests -> {"idle", "verify", "share", "open", "find", "consume", "replace",
                          "touch", "lockUser", "revoke", "sessions", "tokens", "commit",
                          "done"}]
  /\ seen \in [Requests -> 1 .. MaxPassword]
  /\ targets \in [Requests -> SUBSET Rows]
  /\ reply \in [Requests -> {"none", "ok", "invalid", "reused", "failed"}]
  /\ raced \subseteq Requests
  /\ userLock = None => passwordDraft = password /\ resetDraft = resets
  /\ \A s \in Rows : sessionLock[s] = None => sessionDraft[s] = sessions[s]
  /\ \A t \in Rows : tokenLock[t] = None => tokenDraft[t] = tokens[t]

Init ==
  /\ password = 1 /\ passwordDraft = 1
  /\ sessions = [s \in Rows |-> IF s = First THEN NewSession(1) ELSE UnusedSession]
  /\ tokens = [t \in Rows |-> NewToken(IF t = First THEN First ELSE None, None)]
  /\ resets = [r \in Requests |-> UnusedReset]
  /\ sessionDraft = sessions /\ tokenDraft = tokens /\ resetDraft = resets
  /\ sharing = {} /\ userLock = None
  /\ sessionLock = [s \in Rows |-> None]
  /\ tokenLock = [t \in Rows |-> None]
  /\ op = [p \in Requests |-> "none"]
  /\ subject = [p \in Requests |-> None]
  /\ pc = [p \in Requests |-> "idle"]
  /\ seen = [p \in Requests |-> 1]
  /\ targets = [p \in Requests |-> {}]
  /\ reply = [p \in Requests |-> "none"]
  /\ raced = {}

-----------------------------------------------------------------------------
IsLive(r) == r.state = "live"
IsRevoked(r) == r.state \in Reasons
Usable(r) == r.session # None /\ ~r.consumed /\ ~r.revoked

(* What request p sees of a row.                                            *)
SessionSeen(p, s) == IF sessionLock[s] = p THEN sessionDraft[s] ELSE sessions[s]
TokenSeen(p, t) == IF tokenLock[t] = p THEN tokenDraft[t] ELSE tokens[t]

At(p, here) == pc[p] = here
Goto(p, there) == pc' = [pc EXCEPT ![p] = there]
Answer(p, r) == reply' = [reply EXCEPT ![p] = r]

KeepLocks(p) == UNCHANGED locks

ReleaseLocks(p) ==
  /\ sharing' = sharing \ {p}
  /\ userLock' = IF userLock = p THEN None ELSE userLock
  /\ sessionLock' = [s \in Rows |-> IF sessionLock[s] = p THEN None
                                                              ELSE sessionLock[s]]
  /\ tokenLock' = [t \in Rows |-> IF tokenLock[t] = p THEN None ELSE tokenLock[t]]

(* The transaction of p is rolled back and the request ends.                *)
RollBack(p, r) ==
  /\ ReleaseLocks(p)
  /\ passwordDraft' = IF userLock = p THEN password ELSE passwordDraft
  /\ resetDraft' = IF userLock = p THEN resets ELSE resetDraft
  /\ sessionDraft' = [s \in Rows |-> IF sessionLock[s] = p THEN sessions[s]
                                                               ELSE sessionDraft[s]]
  /\ tokenDraft' = [t \in Rows |-> IF tokenLock[t] = p THEN tokens[t] ELSE tokenDraft[t]]
  /\ targets' = [targets EXCEPT ![p] = {}]
  /\ Answer(p, r)
  /\ Goto(p, "done")
  /\ UNCHANGED <<tables, op, subject, seen>>

(* A logout of all sessions has chosen those it revokes and is not over.    *)
RevokesAll(q) == op[q] = "logoutAll" /\ pc[q] \in {"sessions", "tokens", "commit"}

CommitAnswer(p) ==
  IF op[p] = "rotate" /\ tokenLock[p] # p THEN "reused" ELSE "ok"

Commit(p) ==
  /\ At(p, "commit")
  /\ ReleaseLocks(p)
  /\ password' = IF userLock = p THEN passwordDraft ELSE password
  /\ resets' = IF userLock = p THEN resetDraft ELSE resets
  /\ sessions' = [s \in Rows |-> SessionSeen(p, s)]
  /\ tokens' = [t \in Rows |-> TokenSeen(p, t)]
  /\ raced' = IF op[p] = "login" /\ \E q \in Requests : RevokesAll(q) THEN raced \cup {p}
                                                                      ELSE raced
  /\ Answer(p, CommitAnswer(p))
  /\ Goto(p, "done")
  /\ UNCHANGED <<drafts, op, subject, seen, targets>>

-----------------------------------------------------------------------------
(* A request arrives.  The guard of logout, logoutAll and changePassword    *)
(* wants a session that is not revoked now.                                 *)
Authenticated == \E s \in Rows : IsLive(sessions[s])

Subjects(o) ==
  CASE o = "rotate" -> {t \in Rows : tokens[t].session # None}
    [] o = "logout" -> {s \in Rows : sessions[s].state # "none"}
    [] o = "resetPassword" -> {r \in Requests : resets[r].state # "none"}
    [] OTHER -> {None}

FirstStep(o) ==
  CASE o \in {"login", "changePassword"} -> "verify"
    [] o \in {"rotate", "resetPassword"} -> "find"
    [] o = "issueReset" -> "lockUser"
    [] OTHER -> "revoke"

Submit(p, o) ==
  /\ At(p, "idle")
  /\ o \in {"logout", "logoutAll", "changePassword"} => Authenticated
  /\ op' = [op EXCEPT ![p] = o]
  /\ \E x \in Subjects(o) : subject' = [subject EXCEPT ![p] = x]
  /\ Goto(p, FirstStep(o))
  /\ UNCHANGED <<tables, drafts, locks, seen, targets, reply>>

(* login and changePassword read the user and verify the password; requests *)
(* with a wrong password change nothing and are left out.                   *)
Verify(p) ==
  /\ At(p, "verify")
  /\ seen' = [seen EXCEPT ![p] = password]
  /\ Goto(p, IF op[p] = "login" THEN "share" ELSE "lockUser")
  /\ UNCHANGED <<tables, drafts, locks, op, subject, targets, reply>>

(* The comparison of password_changed_at under the lock.                    *)
ForgetVerified(p) == TRUE
StillVerified(p) == password = seen[p]

(* SessionService.create                                                    *)
Share(p) ==
  /\ At(p, "share")
  /\ userLock = None
  /\ IF StillVerified(p)
       THEN /\ sharing' = sharing \cup {p}
            /\ Goto(p, "open")
            /\ UNCHANGED <<tables, drafts, userLock, sessionLock, tokenLock, op, subject,
                           seen, targets, reply>>
       ELSE RollBack(p, "invalid")

Open(p) ==
  /\ At(p, "open")
  /\ sessionLock' = [sessionLock EXCEPT ![p] = p]
  /\ tokenLock' = [tokenLock EXCEPT ![p] = p]
  /\ sessionDraft' = [sessionDraft EXCEPT ![p] = NewSession(seen[p])]
  /\ tokenDraft' = [tokenDraft EXCEPT ![p] = NewToken(p, None)]
  /\ Goto(p, "commit")
  /\ UNCHANGED <<tables, passwordDraft, resetDraft, sharing, userLock, op, subject, seen,
                 targets, reply>>

-----------------------------------------------------------------------------
(* rotate                                                                   *)
FamilyOf(p) == tokens[subject[p]].session

FindToken(p) ==
  /\ At(p, "find") /\ op[p] = "rotate"
  /\ IF IsRevoked(sessions[FamilyOf(p)])
       THEN RollBack(p, "invalid")
       ELSE /\ Goto(p, IF Usable(tokens[subject[p]]) THEN "consume" ELSE "revoke")
            /\ UNCHANGED <<tables, drafts, locks, op, subject, seen, targets, reply>>

(* An update by id that does not test the row again.                        *)
ConsumeBlindly(p) ==
  LET t == subject[p]
  IN  /\ At(p, "consume")
      /\ tokenLock[t] = None
      /\ tokenLock' = [tokenLock EXCEPT ![t] = p]
      /\ tokenDraft' = [tokenDraft EXCEPT ![t].consumed = TRUE]
      /\ Goto(p, "replace")
      /\ UNCHANGED <<tables, passwordDraft, sessionDraft, resetDraft, sharing, userLock,
                     sessionLock, op, subject, seen, targets, reply>>

(* The conditional update.  No row matches: the token was consumed or       *)
(* revoked meanwhile; if the statement waited for it, the row stays locked. *)
Consume(p) ==
  LET t == subject[p]
  IN  /\ At(p, "consume")
      /\ \/ /\ Usable(tokens[t])
            /\ tokenLock[t] = None
            /\ tokenLock' = [tokenLock EXCEPT ![t] = p]
            /\ tokenDraft' = [tokenDraft EXCEPT ![t].consumed = TRUE]
            /\ Goto(p, "replace")
         \/ /\ ~Usable(tokens[t])
            /\ \/ UNCHANGED tokenLock
               \/ /\ tokenLock[t] = None
                  /\ tokenLock' = [tokenLock EXCEPT ![t] = p]
            /\ Goto(p, "revoke")
            /\ UNCHANGED tokenDraft
      /\ UNCHANGED <<tables, passwordDraft, sessionDraft, resetDraft, sharing, userLock,
                     sessionLock, op, subject, seen, targets, reply>>

(* The insert of the replacement and the link to it.                        *)
Replace(p) ==
  /\ At(p, "replace")
  /\ tokenLock' = [tokenLock EXCEPT ![p] = p]
  /\ tokenDraft' = [tokenDraft EXCEPT ![p] = NewToken(FamilyOf(p), subject[p])]
  /\ Goto(p, "touch")
  /\ UNCHANGED <<tables, passwordDraft, sessionDraft, resetDraft, sharing, userLock,
                 sessionLock, op, subject, seen, targets, reply>>

(* lastSeenAt: the values do not matter, the lock on the session does.      *)
Touch(p) ==
  LET s == FamilyOf(p)
  IN  /\ At(p, "touch")
      /\ sessionLock[s] = None
      /\ sessionLock' = [sessionLock EXCEPT ![s] = p]
      /\ Goto(p, "commit")
      /\ UNCHANGED <<tables, drafts, sharing, userLock, tokenLock, op, subject, seen,
                     targets, reply>>

-----------------------------------------------------------------------------
(* changePassword, resetPassword and issueForUser take the user FOR UPDATE. *)
FindReset(p) ==
  /\ At(p, "find") /\ op[p] = "resetPassword"
  /\ IF resets[subject[p]].state = "active"
       THEN /\ Goto(p, "lockUser")
            /\ UNCHANGED <<tables, drafts, locks, op, subject, seen, targets, reply>>
       ELSE RollBack(p, "invalid")

KeepResets(R) == R  \* leaves the reset tokens of the old password active

RevokeResets(R) == [r \in Requests |-> IF R[r].state = "active"
                                       THEN [R[r] EXCEPT !.state = "revoked"] ELSE R[r]]

LockUser(p) == userLock' = p /\ userLock = None /\ sharing = {}

(* The password is set, and every session, token and reset token of the     *)
(* account is to be revoked.                                                *)
SetPassword(p, R) ==
  /\ passwordDraft' = password + 1
  /\ resetDraft' = RevokeResets(R)
  /\ Goto(p, "revoke")
  /\ UNCHANGED <<tables, sessionDraft, tokenDraft, sharing, sessionLock, tokenLock, op,
                 subject, seen, targets, reply>>

(* Passwords are numbered up to MaxPassword; later changes are cut off.     *)
ChangePassword(p) ==
  /\ At(p, "lockUser") /\ op[p] = "changePassword"
  /\ userLock = None /\ sharing = {}
  /\ password < MaxPassword
  /\ IF StillVerified(p) THEN LockUser(p) /\ SetPassword(p, resets)
                         ELSE RollBack(p, "invalid")

ResetPassword(p) ==
  /\ At(p, "lockUser") /\ op[p] = "resetPassword"
  /\ userLock = None /\ sharing = {}
  /\ password < MaxPassword
  /\ IF resets[subject[p]].state = "active"
       THEN LockUser(p) /\ SetPassword(p, [resets EXCEPT ![subject[p]].state = "used"])
       ELSE RollBack(p, "invalid")

IssueReset(p) ==
  /\ At(p, "lockUser") /\ op[p] = "issueReset"
  /\ LockUser(p)
  /\ resetDraft' = [RevokeResets(resets) EXCEPT
                      ![p] = [state |-> "active", password |-> password]]
  /\ Goto(p, "commit")
  /\ UNCHANGED <<tables, passwordDraft, sessionDraft, tokenDraft, sharing, sessionLock,
                 tokenLock, op, subject, seen, targets, reply>>

-----------------------------------------------------------------------------
(* The two statements that revoke: the sessions, then their tokens.         *)
Scope(p) ==
  CASE op[p] = "rotate" -> {FamilyOf(p)}
    [] op[p] = "logout" -> {subject[p]}
    [] OTHER -> Rows

Reason(p) ==
  CASE op[p] = "rotate" -> "REFRESH_TOKEN_REUSE"
    [] op[p] \in {"logout", "logoutAll"} -> "LOGOUT"
    [] OTHER -> "PASSWORD"

NoSessions(p) == {}  \* revokes the tokens only

SessionsToRevoke(p) == {s \in Scope(p) : IsLive(SessionSeen(p, s))}
TokensOfAccount(p) == {t \in Rows : tokens[t].session # None /\ ~tokens[t].revoked}

TokensToRevoke(p) ==
  {t \in Rows : TokenSeen(p, t).session \in Scope(p) /\ ~TokenSeen(p, t).revoked}

Aim(p, here, there, rows) ==
  /\ At(p, here)
  /\ targets[p] = {}
  /\ targets' = [targets EXCEPT ![p] = rows]
  /\ Goto(p, there)
  /\ UNCHANGED <<tables, drafts, locks, op, subject, seen, reply>>

StartSessions(p) == Aim(p, "revoke", "sessions", SessionsToRevoke(p))
StartTokens(p) == Aim(p, "sessions", "tokens", TokensToRevoke(p))
EndRevocation(p) == Aim(p, "tokens", "commit", {})

RevokeSession(p) ==
  /\ At(p, "sessions")
  /\ \E s \in targets[p] :
       /\ sessionLock[s] \in {p, None}
       /\ sessionLock' = [sessionLock EXCEPT ![s] = p]
       /\ sessionDraft' = [sessionDraft EXCEPT
                             ![s].state = IF @ = "live" THEN Reason(p) ELSE @]
       /\ targets' = [targets EXCEPT ![p] = @ \ {s}]
  /\ UNCHANGED <<tables, passwordDraft, tokenDraft, resetDraft, sharing, userLock,
                 tokenLock, op, subject, pc, seen, reply>>

RevokeToken(p) ==
  /\ At(p, "tokens")
  /\ \E t \in targets[p] :
       /\ tokenLock[t] \in {p, None}
       /\ tokenLock' = [tokenLock EXCEPT ![t] = p]
       /\ tokenDraft' = [tokenDraft EXCEPT ![t].revoked = TRUE]
       /\ targets' = [targets EXCEPT ![p] = @ \ {t}]
  /\ UNCHANGED <<tables, passwordDraft, sessionDraft, resetDraft, sharing, userLock,
                 sessionLock, op, subject, pc, seen, reply>>

-----------------------------------------------------------------------------
(* Deadlocks and lost connections.  PostgreSQL ends one transaction of a    *)
(* set in which each waits for another of the set.                          *)
InTransaction(p) ==
  \/ pc[p] \in {"open", "replace", "touch", "sessions", "tokens", "commit"}
  \/ p \in sharing \/ userLock = p

Awaits(p) ==
  LET wanted == IF At(p, "touch") THEN {sessionLock[FamilyOf(p)]}
                ELSE IF At(p, "sessions") THEN {sessionLock[s] : s \in targets[p]}
                ELSE IF At(p, "tokens") THEN {tokenLock[t] : t \in targets[p]}
                ELSE {}
  IN  wanted \ {p, None}

Deadlocked(S) == S # {} /\ \A p \in S : Awaits(p) \cap S # {}

Break == \E p \in Requests : \E S \in SUBSET Requests :
           p \in S /\ Deadlocked(S) /\ RollBack(p, "failed")

Abort(p) == InTransaction(p) /\ RollBack(p, "failed")

Step(p) ==
  \/ Verify(p) \/ Share(p) \/ Open(p)
  \/ FindToken(p) \/ Consume(p) \/ Replace(p) \/ Touch(p)
  \/ FindReset(p) \/ ChangePassword(p) \/ ResetPassword(p) \/ IssueReset(p)
  \/ StartSessions(p) \/ RevokeSession(p) \/ StartTokens(p) \/ RevokeToken(p)
  \/ EndRevocation(p) \/ Commit(p)

Next ==
  \/ \E p \in Requests : (\E o \in Operations : Submit(p, o)) \/ Step(p) \/ Abort(p)
  \/ Break

Spec == Init /\ [][Next]_vars

(* The server executes the next statement of a request that waits for no    *)
(* lock, and PostgreSQL resolves deadlocks.                                 *)
FairSpec == Spec /\ (\A p \in Requests : WF_vars(Step(p))) /\ WF_vars(Break)

-----------------------------------------------------------------------------
(***************************************************************************)
(* Properties                                                              *)
(***************************************************************************)

(* A revoked session has no refresh token left that could be exchanged,     *)
(* although rotations add tokens while the revocation is under way.         *)
RevokedSessionsAreDead ==
  \A t \in Rows : Usable(tokens[t]) => IsLive(sessions[tokens[t].session])

(* A refresh token is exchanged at most once: of the tokens of one session  *)
(* at most one can still be exchanged.                                      *)
OneUsableToken ==
  \A s, t \in Rows :
    Usable(tokens[s]) /\ Usable(tokens[t]) /\ tokens[s].session = tokens[t].session
      => s = t

(* "Password change is treated as a security boundary" (README.md:146): no  *)
(* session outlives the password it was opened with, even when the login    *)
(* verified the old password before the change.                             *)
SessionsFollowPassword ==
  \A s \in Rows : IsLive(sessions[s]) => sessions[s].password = password

(* The same for outstanding reset tokens, of which there is at most one.    *)
ResetsFollowPassword ==
  \A r, q \in Requests :
    resets[r].state = "active" =>
      /\ resets[r].password = password
      /\ resets[q].state = "active" => q = r

(* Replay-family revocation: a request that is refused because its token    *)
(* was used before leaves the session of that token revoked.                *)
ReplaysRevoke ==
  \A p \in Requests : reply[p] = "reused" => IsRevoked(sessions[FamilyOf(p)])

(* A live session can be continued: it has a token that can be exchanged,   *)
(* unless its login committed while a logout of all sessions was revoking.  *)
LiveSessionsContinue ==
  \A s \in Rows :
    IsLive(sessions[s]) /\ s \notin raced =>
      \E t \in Rows : Usable(tokens[t]) /\ tokens[t].session = s

(* Every request ends, whatever it waits for.                               *)
RequestsEnd == \A p \in Requests : pc[p] # "idle" ~> pc[p] = "done"
=============================================================================
