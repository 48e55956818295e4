--------------------------- MODULE AuthSessionsProofs ---------------------------
(***************************************************************************)
(* The safety properties of AuthSessions, for any number of requests of any *)
(* operations.                                                              *)
(***************************************************************************)
EXTENDS AuthSessions, TLAPS

(* Where each operation can be, and what it is about.                       *)
Paths(p) ==
  /\ At(p, "idle") => op[p] = "none"
  /\ At(p, "verify") => op[p] \in {"login", "changePassword"}
  /\ pc[p] \in {"share", "open"} => op[p] = "login"
  /\ At(p, "find") => op[p] \in {"rotate", "resetPassword"}
  /\ pc[p] \in {"consume", "replace", "touch"} => op[p] = "rotate"
  /\ At(p, "lockUser") => op[p] \in {"changePassword", "resetPassword", "issueReset"}
  /\ pc[p] \in {"revoke", "sessions", "tokens"} =>
       op[p] \in {"rotate", "logout", "logoutAll", "changePassword", "resetPassword"}
  /\ At(p, "commit") => op[p] # "none"
  /\ reply[p] = "reused" => op[p] = "rotate" /\ At(p, "done")

About(p) ==
  /\ op[p] = "rotate" => subject[p] \in Rows /\ tokens[subject[p]].session # None
  /\ op[p] = "logout" => subject[p] \in Rows /\ sessions[subject[p]].state # "none"
  /\ op[p] = "resetPassword" => subject[p] \in Requests

(* The rows that p inserts are nobody's before it commits.                  *)
Fresh(p) == ~At(p, "done") => sessions[p].state = "none" /\ tokens[p].session = None

(* The three kinds of transactions that write sessions and tokens.          *)
Opening(p) == op[p] = "login" /\ At(p, "commit")
Rotating(p) ==
  op[p] = "rotate" /\ (pc[p] \in {"replace", "touch"} \/ (At(p, "commit") /\ tokenLock[p] = p))
Revoking(p) ==
  \/ pc[p] \in {"revoke", "sessions", "tokens"}
  \/ At(p, "commit") /\ op[p] \notin {"login", "issueReset"} /\ ~Rotating(p)

Setting(p) ==
  op[p] \in {"changePassword", "resetPassword"}
    /\ pc[p] \in {"revoke", "sessions", "tokens", "commit"}

(* Which locks a request holds.                                             *)
HoldsUser(p) ==
  /\ p \in sharing <=> op[p] = "login" /\ pc[p] \in {"open", "commit"}
  /\ userLock = p <=> Setting(p) \/ (op[p] = "issueReset" /\ At(p, "commit"))

HoldsSessions(p) ==
  \A s \in Rows : sessionLock[s] = p =>
    \/ Opening(p) /\ s = p
    \/ Rotating(p) /\ At(p, "commit") /\ s = FamilyOf(p)
    \/ Revoking(p) /\ ~At(p, "revoke") /\ s \in Scope(p) /\ sessions[s].state # "none"

HoldsTokens(p) ==
  \A t \in Rows : tokenLock[t] = p =>
    \/ Opening(p) /\ t = p
    \/ Rotating(p) /\ (t = subject[p] \/ (t = p /\ ~At(p, "replace")))
    \/ Revoking(p) /\ t # p /\ tokens[t].session # None

(* What it has written.                                                     *)
Opens(p) ==
  /\ p \in sharing => seen[p] = password
  /\ Opening(p) =>
       /\ sessionLock[p] = p /\ sessionDraft[p] = NewSession(seen[p])
       /\ tokenLock[p] = p /\ tokenDraft[p] = NewToken(p, None)

Rotates(p) ==
  Rotating(p) =>
    /\ Usable(tokens[subject[p]])
    /\ tokenLock[subject[p]] = p /\ tokenDraft[subject[p]].consumed
    /\ tokenDraft[subject[p]].session = tokens[subject[p]].session
    /\ ~At(p, "replace") =>
         tokenLock[p] = p /\ tokenDraft[p] = NewToken(FamilyOf(p), subject[p])
    /\ At(p, "commit") =>
         sessionLock[FamilyOf(p)] = p /\ sessionDraft[FamilyOf(p)] = sessions[FamilyOf(p)]

Revokes(p) ==
  Revoking(p) =>
    /\ \A s \in Rows : sessionLock[s] = p => sessionDraft[s].state \in Reasons
    /\ \A t \in Rows : tokenLock[t] = p =>
         /\ tokenDraft[t].session = tokens[t].session
         /\ tokenDraft[t].consumed = tokens[t].consumed
         /\ tokens[t].revoked => tokenDraft[t].revoked
         /\ tokenDraft[t].revoked => tokens[t].revoked \/ tokens[t].session \in Scope(p)

SetsPassword(p) ==
  userLock = p =>
    /\ \A r, q \in Requests :
         resetDraft[r].state = "active" =>
           resetDraft[r].password = passwordDraft /\ (resetDraft[q].state = "active" => q = r)
    /\ op[p] = "issueReset" => passwordDraft = password

(* What it has yet to lock, and that nothing escapes it: a session it is to *)
(* revoke that is live, and a token of a session it has locked.             *)
Targets(p) ==
  /\ pc[p] \notin {"sessions", "tokens"} => targets[p] = {}
  /\ At(p, "sessions") =>
       \A s \in targets[p] : s \in Scope(p) /\ sessions[s].state # "none"
  /\ At(p, "tokens") =>
       \A t \in targets[p] : tokens[t].session # None /\ tokens[t].session \in Scope(p)

ReachesSessions(p) ==
  Revoking(p) /\ ~At(p, "revoke") =>
    \A s \in Scope(p) : IsLive(sessions[s]) /\ (op[p] = "logoutAll" => s \notin raced) =>
      sessionLock[s] = p \/ (At(p, "sessions") /\ s \in targets[p])

ReachesTokens(p) ==
  Revoking(p) /\ pc[p] \in {"tokens", "commit"} =>
    \A t \in Rows : Usable(tokens[t]) /\ sessionLock[tokens[t].session] = p =>
      (tokenLock[t] = p /\ tokenDraft[t].revoked) \/ (At(p, "tokens") /\ t \in targets[p])

Part(p) ==
  /\ Paths(p) /\ About(p) /\ Fresh(p)
  /\ HoldsUser(p) /\ HoldsSessions(p) /\ HoldsTokens(p)
  /\ Opens(p) /\ Rotates(p) /\ Revokes(p) /\ SetsPassword(p)
  /\ Targets(p) /\ ReachesSessions(p) /\ ReachesTokens(p)

(* A token belongs to a session; the users row is shared or exclusive.      *)
Foreign == \A t \in Rows : tokens[t].session # None =>
             sessions[tokens[t].session].state # "none"
Exclusive == userLock # None => sharing = {}

Safe ==
  /\ Foreign /\ RevokedSessionsAreDead /\ OneUsableToken /\ SessionsFollowPassword
  /\ ResetsFollowPassword /\ LiveSessionsContinue /\ ReplaysRevoke

IInv == TypeOK /\ Exclusive /\ Safe /\ \A p \in Requests : Part(p)

-----------------------------------------------------------------------------
USE NamesAssumption DEF Rows

LEMMA InitHolds == Init => IInv
<1> SUFFICES ASSUME Init PROVE IInv
  OBVIOUS
<1>1. TypeOK
  BY PasswordAssumption DEF Init, TypeOK, SessionRow, TokenRow, ResetRow, NewSession, NewToken,
     UnusedSession, UnusedReset, AllOperations
<1>2. Exclusive
  BY DEF Init, Exclusive
<1>3. Safe
  <2>1. /\ tokens[First] = NewToken(First, None)
        /\ \A t \in Requests : tokens[t] = NewToken(None, None)
    BY DEF Init
  <2>2. /\ \A t \in Rows : Usable(tokens[t]) => t = First
        /\ Usable(tokens[First]) /\ tokens[First].session = First
        /\ \A t \in Rows : tokens[t].session # None => t = First
    BY <2>1 DEF NewToken, Usable
  <2>3. /\ \A s \in Rows : IsLive(sessions[s]) => s = First
        /\ sessions[First] = NewSession(1) /\ password = 1
    BY DEF Init, NewSession, UnusedSession, IsLive
  <2>4. sessions[First].state = "live" /\ sessions[First].password = 1
    BY <2>3 DEF NewSession
  <2>5. \A r \in Requests : resets[r].state # "active"
    BY DEF Init, UnusedReset
  <2>6. \A p \in Requests : reply[p] # "reused"
    BY DEF Init
  <2> QED
    BY <2>2, <2>3, <2>4, <2>5, <2>6 DEF Safe, Foreign, RevokedSessionsAreDead, OneUsableToken,
       SessionsFollowPassword, ResetsFollowPassword, LiveSessionsContinue, ReplaysRevoke, IsLive
<1>4. ASSUME NEW p \in Requests PROVE Part(p)
  <2>1. /\ pc[p] = "idle" /\ op[p] = "none" /\ reply[p] = "none" /\ targets[p] = {}
        /\ p \notin sharing /\ userLock # p
        /\ \A r \in Rows : sessionLock[r] # p /\ tokenLock[r] # p
        /\ sessions[p].state = "none" /\ tokens[p].session = None
    BY DEF Init, UnusedSession, NewToken
  <2> QED
    BY <2>1 DEF Part, Paths, About, Fresh, HoldsUser, HoldsSessions, HoldsTokens, Opens, Rotates,
       Revokes, SetsPassword, Targets, ReachesSessions, ReachesTokens, Opening, Rotating,
       Revoking, Setting, At
<1> QED
  BY <1>1, <1>2, <1>3, <1>4 DEF IInv

-----------------------------------------------------------------------------
(* What a step of another request leaves alone of q, and how the tables may *)
(* change without disturbing it: rows it has locked stay, rows stay what    *)
(* they are, and sessions and tokens that begin to be of use escape it only *)
(* where nothing was promised.                                              *)
Leaves(q) ==
  /\ pc'[q] = pc[q] /\ op'[q] = op[q] /\ subject'[q] = subject[q] /\ seen'[q] = seen[q]
  /\ targets'[q] = targets[q] /\ reply'[q] = reply[q]
  /\ q \in sharing' <=> q \in sharing
  /\ userLock' = q <=> userLock = q
  /\ userLock = q => passwordDraft' = passwordDraft /\ resetDraft' = resetDraft
  /\ \A r \in Rows :
       /\ sessionLock'[r] = q <=> sessionLock[r] = q
       /\ sessionLock[r] = q => sessionDraft'[r] = sessionDraft[r]
       /\ tokenLock'[r] = q <=> tokenLock[r] = q
       /\ tokenLock[r] = q => tokenDraft'[r] = tokenDraft[r]

Grows(q) ==
  /\ raced \subseteq raced'
  /\ q \in sharing => password' = password
  /\ userLock = q => password' = password
  /\ sessions[q].state = "none" => sessions'[q].state = "none"
  /\ tokens[q].session = None => tokens'[q].session = None
  /\ \A s \in Rows :
       /\ sessionLock[s] = q => sessions'[s] = sessions[s]
       /\ sessions[s].state # "none" => sessions'[s].state # "none"
       /\ IsLive(sessions'[s]) =>
            \/ IsLive(sessions[s])
            \/ /\ sessions[s].state = "none" /\ userLock # q
               /\ RevokesAll(q) => s \in raced'
  /\ \A t \in Rows :
       /\ tokenLock[t] = q => tokens'[t] = tokens[t]
       /\ tokens[t].session # None => tokens'[t].session = tokens[t].session
       /\ Usable(tokens'[t]) =>
            /\ tokens'[t].session \in Rows
            /\ Usable(tokens[t]) \/ sessionLock[tokens'[t].session] # q

LEMMA Reaches ==
  ASSUME IInv, NEW q \in Requests
  PROVE  /\ Scope(q) \subseteq Rows
         /\ op[q] = "rotate" => subject[q] \in Rows /\ FamilyOf(q) \in Rows
BY DEF IInv, Part, About, TypeOK, TokenRow, Scope, FamilyOf

LEMMA Undisturbed ==
  ASSUME IInv, NEW q \in Requests, Leaves(q), Grows(q)
  PROVE  Part(q)'
<1> USE DEF Leaves, Grows, At
<1>1. Part(q) /\ TypeOK /\ Foreign
  BY DEF IInv, Safe
<1>2. Paths(q)' /\ About(q)' /\ Fresh(q)' /\ HoldsUser(q)'
  BY <1>1 DEF Part, Paths, About, Fresh, HoldsUser, Setting
<1>3. /\ op[q] = "rotate" => FamilyOf(q)' = FamilyOf(q) /\ subject[q] \in Rows
                               /\ FamilyOf(q) \in Rows
      /\ op[q] # "none" => Scope(q)' = Scope(q) /\ Scope(q) \subseteq Rows
  BY <1>1, Reaches DEF Part, About, FamilyOf, Scope
<1>4. /\ Opening(q)' <=> Opening(q)
      /\ Rotating(q)' <=> Rotating(q)
      /\ Revoking(q)' <=> Revoking(q)
  BY DEF Opening, Rotating, Revoking
<1>5. Revoking(q) => op[q] # "none"
  BY <1>1 DEF Part, Paths, Revoking
<1>6. HoldsSessions(q)' /\ HoldsTokens(q)'
  <2>1. HoldsSessions(q)'
    BY <1>1, <1>3, <1>4, <1>5 DEF Part, HoldsSessions, Rotating
  <2>2. HoldsTokens(q)'
    BY <1>1, <1>4 DEF Part, HoldsTokens
  <2> QED
    BY <2>1, <2>2
<1>7. Opens(q)' /\ SetsPassword(q)'
  BY <1>1, <1>4 DEF Part, Opens, SetsPassword
<1>8. Rotates(q)'
  BY <1>1, <1>3, <1>4 DEF Part, Rotates, Rotating
<1>9. Revokes(q)'
  BY <1>1, <1>3, <1>4, <1>5 DEF Part, Revokes
<1>10. Targets(q)'
  BY <1>1, <1>3, <1>5 DEF Part, Targets, Revoking, TypeOK
<1>11. ReachesSessions(q)'
  <2> SUFFICES ASSUME Revoking(q), ~At(q, "revoke"), NEW s \in Scope(q), IsLive(sessions'[s]),
                      op[q] = "logoutAll" => s \notin raced'
               PROVE  sessionLock[s] = q \/ (At(q, "sessions") /\ s \in targets[q])
    BY <1>3, <1>4, <1>5 DEF ReachesSessions
  <2>1. s \in Rows
    BY <1>3, <1>5
  <2>2. CASE IsLive(sessions[s])
    BY <1>1, <2>2 DEF Part, ReachesSessions
  <2>3. CASE /\ sessions[s].state = "none" /\ userLock # q
             /\ RevokesAll(q) => s \in raced'
    <3>1. op[q] \in {"rotate", "logout"}
      BY <1>1, <2>3
         DEF Part, HoldsUser, Setting, Revoking, Paths, TypeOK, AllOperations, RevokesAll
    <3> QED
      BY <1>1, <2>3, <3>1 DEF Part, About, Scope, FamilyOf, Foreign
  <2> QED
    BY <2>1, <2>2, <2>3
<1>12. ReachesTokens(q)'
  <2> SUFFICES ASSUME Revoking(q), pc[q] \in {"tokens", "commit"}, NEW t \in Rows,
                      Usable(tokens'[t]), sessionLock'[tokens'[t].session] = q
               PROVE  (tokenLock[t] = q /\ tokenDraft[t].revoked)
                        \/ (At(q, "tokens") /\ t \in targets[q])
    BY <1>4 DEF ReachesTokens
  <2>1. Usable(tokens[t]) /\ tokens'[t].session = tokens[t].session
    BY DEF Usable
  <2>2. tokens[t].session \in Rows
    BY <1>1, <2>1 DEF TypeOK, TokenRow, Usable
  <2> QED
    BY <1>1, <2>1, <2>2 DEF Part, ReachesTokens
<1> QED
  BY <1>2, <1>6, <1>7, <1>8, <1>9, <1>10, <1>11, <1>12 DEF Part

(* A step that changes no committed row.                                    *)
LEMMA Stands ==
  ASSUME IInv, UNCHANGED tables, NEW q \in Requests
  PROVE  Grows(q)
<1>1. \A t \in Rows : Usable(tokens[t]) => tokens[t].session \in Rows
  BY DEF IInv, TypeOK, TokenRow, Usable
<1> QED
  BY <1>1 DEF Grows, tables

LEMMA SafeStands ==
  ASSUME IInv, UNCHANGED tables, NEW p \in Requests, reply'[p] # "reused",
         \A q \in Requests \ {p} : Leaves(q)
  PROVE  Safe'
<1>1. /\ password' = password /\ sessions' = sessions /\ tokens' = tokens /\ resets' = resets
      /\ raced' = raced
  BY DEF tables
<1>2. Safe
  BY DEF IInv
<1>3. /\ Foreign' /\ RevokedSessionsAreDead' /\ OneUsableToken' /\ SessionsFollowPassword'
      /\ ResetsFollowPassword'
  BY <1>1, <1>2 DEF Safe, Foreign, RevokedSessionsAreDead, OneUsableToken,
     SessionsFollowPassword, ResetsFollowPassword, Usable, IsLive
<1>5. LiveSessionsContinue'
  BY <1>1, <1>2 DEF Safe, LiveSessionsContinue, Usable, IsLive
<1>6. ReplaysRevoke'
  BY <1>1, <1>2 DEF Safe, ReplaysRevoke, FamilyOf, IsRevoked, Leaves
<1> QED
  BY <1>3, <1>5, <1>6 DEF Safe

LEMMA Quietly ==
  ASSUME IInv, UNCHANGED tables, NEW p \in Requests, reply'[p] # "reused",
         \A q \in Requests \ {p} : Leaves(q),
         TypeOK', Exclusive', Part(p)'
  PROVE  IInv'
<1>1. \A q \in Requests : Part(q)'
  BY Stands, Undisturbed
<1> QED
  BY <1>1, SafeStands DEF IInv

(* Nobody else locks the row of a request before it is committed.           *)
LEMMA Nobody ==
  ASSUME IInv, NEW p \in Requests
  PROVE  /\ sessions[p].state = "none" => \A q \in Requests \ {p} : sessionLock[p] # q
         /\ tokens[p].session = None => \A q \in Requests \ {p} : tokenLock[p] # q
<1>1. Foreign /\ \A q \in Requests : Part(q)
  BY DEF IInv, Safe
<1>2. ASSUME NEW q \in Requests, q # p, sessions[p].state = "none" PROVE sessionLock[p] # q
  BY <1>1, <1>2 DEF Part, HoldsSessions, Rotating, FamilyOf, About, Foreign
<1>3. ASSUME NEW q \in Requests, q # p, tokens[p].session = None PROVE tokenLock[p] # q
  BY <1>1, <1>3 DEF Part, HoldsTokens, Rotating, About
<1> QED
  BY <1>2, <1>3

(* Fields that are set keep a row a row.                                    *)
LEMMA TokenUpdates ==
  ASSUME NEW r \in TokenRow
  PROVE  /\ [r EXCEPT !.consumed = TRUE] \in TokenRow
         /\ [r EXCEPT !.consumed = TRUE].consumed
         /\ [r EXCEPT !.consumed = TRUE].session = r.session
         /\ [r EXCEPT !.revoked = TRUE] \in TokenRow
         /\ [r EXCEPT !.revoked = TRUE].revoked
         /\ [r EXCEPT !.revoked = TRUE].session = r.session
         /\ [r EXCEPT !.revoked = TRUE].consumed = r.consumed
BY DEF TokenRow

LEMMA SessionUpdates ==
  ASSUME NEW r \in SessionRow, NEW x \in {"none", "live"} \cup Reasons
  PROVE  /\ [r EXCEPT !.state = x] \in SessionRow
         /\ [r EXCEPT !.state = x].state = x
BY DEF SessionRow

-----------------------------------------------------------------------------
(* Steps before the commit, one lemma for each kind.                        *)
LEMMA RollBackKeeps ==
  ASSUME IInv, NEW p \in Requests, NEW r \in {"invalid", "failed"}, RollBack(p, r)
  PROVE  IInv'
<1> USE DEF RollBack, ReleaseLocks, Answer, Goto, At
<1>1. TypeOK /\ Exclusive /\ Part(p)
  BY DEF IInv
<1>2. UNCHANGED tables /\ op' = op /\ subject' = subject /\ seen' = seen
  OBVIOUS
<1>3. \A q \in Requests \ {p} : Leaves(q)
  BY <1>1 DEF TypeOK, Leaves
<1>4. TypeOK'
  <2>1. /\ password' \in 1 .. MaxPassword /\ sessions' \in [Rows -> SessionRow]
        /\ tokens' \in [Rows -> TokenRow] /\ resets' \in [Requests -> ResetRow]
        /\ passwordDraft' \in 1 .. MaxPassword /\ resetDraft' \in [Requests -> ResetRow]
        /\ sessionDraft' \in [Rows -> SessionRow] /\ tokenDraft' \in [Rows -> TokenRow]
    BY <1>1, <1>2 DEF TypeOK, tables
  <2>2. /\ sharing' \subseteq Requests /\ userLock' \in Requests \cup {None}
        /\ sessionLock' \in [Rows -> Requests \cup {None}]
        /\ tokenLock' \in [Rows -> Requests \cup {None}]
    BY <1>1 DEF TypeOK
  <2>3. /\ op' \in [Requests -> AllOperations \cup {"none"}]
        /\ subject' \in [Requests -> Rows \cup {None}]
        /\ pc' \in [Requests -> {"idle", "verify", "share", "open", "find", "consume", "replace",
                          "touch", "lockUser", "revoke", "sessions", "tokens", "commit",
                          "done"}]
        /\ seen' \in [Requests -> 1 .. MaxPassword]
        /\ targets' \in [Requests -> SUBSET Rows]
        /\ reply' \in [Requests -> {"none", "ok", "invalid", "reused", "failed"}]
    BY <1>1, <1>2 DEF TypeOK
  <2>4. /\ userLock' = None => passwordDraft' = password' /\ resetDraft' = resets'
        /\ \A s \in Rows : sessionLock'[s] = None => sessionDraft'[s] = sessions'[s]
        /\ \A t \in Rows : tokenLock'[t] = None => tokenDraft'[t] = tokens'[t]
    BY <1>1, <1>2 DEF TypeOK, tables
  <2>5. raced' \subseteq Requests
    BY <1>1, <1>2 DEF TypeOK, tables
  <2> QED
    BY <2>1, <2>2, <2>3, <2>4, <2>5 DEF TypeOK
<1>5. Exclusive'
  BY <1>1 DEF Exclusive
<1>6. /\ pc'[p] = "done" /\ reply'[p] = r /\ targets'[p] = {} /\ p \notin sharing'
      /\ userLock' # p /\ \A x \in Rows : sessionLock'[x] # p /\ tokenLock'[x] # p
  BY <1>1 DEF TypeOK
<1>7. Part(p)'
  BY <1>1, <1>2, <1>6 DEF Part, Paths, About, Fresh, HoldsUser, HoldsSessions, HoldsTokens, Opens,
     Rotates, Revokes, SetsPassword, Targets, ReachesSessions, ReachesTokens, Opening, Rotating,
     Revoking, Setting, tables
<1> QED
  BY <1>2, <1>3, <1>4, <1>5, <1>6, <1>7, Quietly

LEMMA SubmitKeeps ==
  ASSUME IInv, NEW p \in Requests, NEW o \in Operations, Submit(p, o)
  PROVE  IInv'
<1> USE DEF Submit, Goto, At
<1>1. TypeOK /\ Exclusive /\ Part(p)
  BY DEF IInv
<1>2. UNCHANGED tables /\ UNCHANGED <<passwordDraft, sessionDraft, tokenDraft, resetDraft>>
      /\ UNCHANGED <<sharing, userLock, sessionLock, tokenLock>> /\ UNCHANGED <<seen, targets, reply>>
  BY DEF drafts, locks
<1>3. pc[p] = "idle" /\ pc'[p] = FirstStep(o) /\ op'[p] = o /\ subject'[p] \in Subjects(o)
      /\ o \in AllOperations
  BY <1>1, OperationsAssumption DEF TypeOK
<1>4. /\ pc'[p] \in {"verify", "find", "lockUser", "revoke"}
      /\ pc'[p] = "verify" => o \in {"login", "changePassword"}
      /\ pc'[p] = "find" => o \in {"rotate", "resetPassword"}
      /\ pc'[p] = "lockUser" => o = "issueReset"
      /\ pc'[p] = "revoke" => o \in {"logout", "logoutAll"}
  BY <1>3 DEF FirstStep, AllOperations
<1>5. /\ o = "rotate" => subject'[p] \in Rows /\ tokens[subject'[p]].session # None
      /\ o = "logout" => subject'[p] \in Rows /\ sessions[subject'[p]].state # "none"
      /\ o = "resetPassword" => subject'[p] \in Requests
      /\ subject'[p] \in Rows \cup {None}
  <2>1. CASE o = "rotate"
    BY <1>3, <2>1 DEF Subjects
  <2>2. CASE o = "logout"
    BY <1>3, <2>2 DEF Subjects
  <2>3. CASE o = "resetPassword"
    BY <1>3, <2>3 DEF Subjects
  <2>4. CASE o \notin {"rotate", "logout", "resetPassword"}
    BY <1>3, <2>4 DEF Subjects
  <2> QED
    BY <2>1, <2>2, <2>3, <2>4
<1>6. \A q \in Requests \ {p} : Leaves(q)
  <2>1. \A q \in Requests \ {p} : subject'[q] = subject[q] /\ op'[q] = op[q] /\ pc'[q] = pc[q]
    BY <1>1 DEF TypeOK
  <2> QED
    BY <1>2, <2>1 DEF Leaves
<1>7. TypeOK'
  <2>1. op' \in [Requests -> AllOperations \cup {"none"}]
    BY <1>1, <1>3 DEF TypeOK
  <2>2. subject' \in [Requests -> Rows \cup {None}]
    <3>1. PICK x \in Subjects(o) : subject' = [subject EXCEPT ![p] = x]
      OBVIOUS
    <3>2. x \in Rows \cup {None}
      BY <1>1, <1>5, <3>1 DEF TypeOK
    <3> QED
      BY <1>1, <3>1, <3>2 DEF TypeOK
  <2>3. pc' \in [Requests -> {"idle", "verify", "share", "open", "find", "consume", "replace",
                          "touch", "lockUser", "revoke", "sessions", "tokens", "commit",
                          "done"}]
    BY <1>1, <1>3, <1>4 DEF TypeOK
  <2> QED
    BY <1>1, <1>2, <2>1, <2>2, <2>3 DEF TypeOK, tables
<1>8. Exclusive' /\ reply'[p] # "reused"
  <2>1. reply[p] # "reused"
    BY <1>1, <1>3 DEF Part, Paths
  <2> QED
    BY <1>1, <1>2, <2>1 DEF Exclusive
<1>9. /\ p \notin sharing' /\ userLock' # p /\ targets'[p] = {}
      /\ \A x \in Rows : sessionLock'[x] # p /\ tokenLock'[x] # p
  BY <1>1, <1>2, <1>3 DEF Part, HoldsUser, HoldsSessions, HoldsTokens, Opening, Rotating, Revoking,
     Setting, Targets
<1>10. Part(p)'
  BY <1>1, <1>2, <1>3, <1>4, <1>5, <1>8, <1>9 DEF Part, Paths, About, Fresh, HoldsUser,
     HoldsSessions, HoldsTokens, Opens, Rotates, Revokes, SetsPassword, Targets, ReachesSessions,
     ReachesTokens, Opening, Rotating, Revoking, Setting, tables
<1> QED
  BY <1>2, <1>6, <1>7, <1>8, <1>10, Quietly

LEMMA VerifyKeeps ==
  ASSUME IInv, NEW p \in Requests, Verify(p)
  PROVE  IInv'
<1> USE DEF Verify, Goto, At
<1>1. TypeOK /\ Exclusive /\ Part(p)
  BY DEF IInv
<1>2. /\ UNCHANGED tables /\ UNCHANGED <<passwordDraft, sessionDraft, tokenDraft, resetDraft>>
      /\ UNCHANGED <<sharing, userLock, sessionLock, tokenLock>>
      /\ UNCHANGED <<op, subject, targets, reply>>
  BY DEF drafts, locks
<1>3. /\ pc[p] = "verify" /\ op[p] \in {"login", "changePassword"}
      /\ pc'[p] = IF op[p] = "login" THEN "share" ELSE "lockUser"
  BY <1>1 DEF TypeOK, Part, Paths
<1>4. \A q \in Requests \ {p} : Leaves(q)
  BY <1>1, <1>2 DEF Leaves, TypeOK
<1>5. TypeOK'
  <2>1. seen' \in [Requests -> 1 .. MaxPassword]
    BY <1>1 DEF TypeOK
  <2>2. pc' \in [Requests -> {"idle", "verify", "share", "open", "find", "consume", "replace",
                          "touch", "lockUser", "revoke", "sessions", "tokens", "commit",
                          "done"}]
    BY <1>1 DEF TypeOK
  <2> QED
    BY <1>1, <1>2, <2>1, <2>2 DEF TypeOK, tables
<1>6. Exclusive' /\ reply'[p] # "reused"
  BY <1>1, <1>2, <1>3 DEF Exclusive, Part, Paths
<1>7. /\ p \notin sharing' /\ userLock' # p /\ targets'[p] = {}
      /\ \A x \in Rows : sessionLock'[x] # p /\ tokenLock'[x] # p
  BY <1>1, <1>2, <1>3 DEF Part, HoldsUser, HoldsSessions, HoldsTokens, Opening, Rotating, Revoking,
     Setting, Targets
<1>8. Part(p)'
  BY <1>1, <1>2, <1>3, <1>6, <1>7 DEF Part, Paths, About, Fresh, HoldsUser,
     HoldsSessions, HoldsTokens, Opens, Rotates, Revokes, SetsPassword, Targets, ReachesSessions,
     ReachesTokens, Opening, Rotating, Revoking, Setting, tables
<1> QED
  BY <1>2, <1>4, <1>5, <1>6, <1>8, Quietly

LEMMA ShareKeeps ==
  ASSUME IInv, NEW p \in Requests, Share(p)
  PROVE  IInv'
<1> USE DEF Goto, At
<1>1. CASE StillVerified(p)
  <2>1. TypeOK /\ Exclusive /\ Part(p)
    BY DEF IInv
  <2>2. /\ UNCHANGED tables /\ UNCHANGED <<passwordDraft, sessionDraft, tokenDraft, resetDraft>>
        /\ UNCHANGED <<userLock, sessionLock, tokenLock>>
        /\ UNCHANGED <<op, subject, seen, targets, reply>>
        /\ sharing' = sharing \cup {p} /\ pc' = [pc EXCEPT ![p] = "open"]
        /\ userLock = None /\ seen[p] = password
    BY <1>1 DEF Share, drafts, StillVerified
  <2>3. pc[p] = "share" /\ op[p] = "login" /\ pc'[p] = "open"
    BY <2>1, <2>2 DEF Share, TypeOK, Part, Paths
  <2>4. \A q \in Requests \ {p} : Leaves(q)
    BY <2>1, <2>2 DEF Leaves, TypeOK
  <2>5. TypeOK'
    BY <2>1, <2>2 DEF TypeOK, tables
  <2>6. Exclusive' /\ reply'[p] # "reused"
    BY <2>1, <2>2, <2>3 DEF Exclusive, Part, Paths
  <2>7. /\ userLock' # p /\ targets'[p] = {}
        /\ \A x \in Rows : sessionLock'[x] # p /\ tokenLock'[x] # p
    BY <2>1, <2>2, <2>3 DEF Part, HoldsUser, HoldsSessions, HoldsTokens, Opening, Rotating,
       Revoking, Setting, Targets
  <2>8. Part(p)'
    BY <2>1, <2>2, <2>3, <2>6, <2>7 DEF Part, Paths, About, Fresh, HoldsUser,
       HoldsSessions, HoldsTokens, Opens, Rotates, Revokes, SetsPassword, Targets,
       ReachesSessions, ReachesTokens, Opening, Rotating, Revoking, Setting, tables
  <2> QED
    BY <2>2, <2>4, <2>5, <2>6, <2>8, Quietly
<1>2. CASE ~StillVerified(p)
  BY <1>2, RollBackKeeps DEF Share
<1> QED
  BY <1>1, <1>2

LEMMA OpenKeeps ==
  ASSUME IInv, NEW p \in Requests, Open(p)
  PROVE  IInv'
<1> USE DEF Open, Goto, At
<1>1. TypeOK /\ Exclusive /\ Part(p)
  BY DEF IInv
<1>2. /\ UNCHANGED tables /\ UNCHANGED <<passwordDraft, resetDraft, sharing, userLock>>
      /\ UNCHANGED <<op, subject, seen, targets, reply>>
  OBVIOUS
<1>3. pc[p] = "open" /\ op[p] = "login" /\ pc'[p] = "commit"
  BY <1>1 DEF TypeOK, Part, Paths
<1>4. sessions[p].state = "none" /\ tokens[p].session = None
  BY <1>1, <1>3 DEF Part, Fresh
<1>5. \A q \in Requests \ {p} : sessionLock[p] # q /\ tokenLock[p] # q
  BY <1>4, Nobody
<1>6. \A q \in Requests \ {p} : Leaves(q)
  BY <1>1, <1>2, <1>5 DEF Leaves, TypeOK
<1>7. TypeOK'
  <2>1. NewSession(seen[p]) \in SessionRow /\ NewToken(p, None) \in TokenRow
    BY <1>1 DEF TypeOK, NewSession, NewToken, SessionRow, TokenRow
  <2>2. sessionDraft' \in [Rows -> SessionRow] /\ tokenDraft' \in [Rows -> TokenRow]
    BY <1>1, <2>1 DEF TypeOK
  <2> QED
    BY <1>1, <1>2, <2>2 DEF TypeOK, tables
<1>8. Exclusive' /\ reply'[p] # "reused"
  BY <1>1, <1>2, <1>3 DEF Exclusive, Part, Paths
<1>9. /\ p \in sharing' /\ seen'[p] = password' /\ userLock' # p /\ targets'[p] = {}
      /\ \A x \in Rows \ {p} : sessionLock'[x] # p /\ tokenLock'[x] # p
      /\ sessionLock'[p] = p /\ tokenLock'[p] = p
      /\ sessionDraft'[p] = NewSession(seen'[p]) /\ tokenDraft'[p] = NewToken(p, None)
  BY <1>1, <1>2, <1>3 DEF Part, HoldsUser, HoldsSessions, HoldsTokens, Opening, Rotating, Revoking,
     Setting, Targets, Opens, TypeOK, tables
<1>10. Part(p)'
  BY <1>1, <1>2, <1>3, <1>8, <1>9 DEF Part, Paths, About, Fresh, HoldsUser,
     HoldsSessions, HoldsTokens, Opens, Rotates, Revokes, SetsPassword, Targets,
     ReachesSessions, ReachesTokens, Opening, Rotating, Revoking, Setting, tables
<1> QED
  BY <1>2, <1>6, <1>7, <1>8, <1>10, Quietly

(* A step that only moves the program counter of p.                         *)
Moves(p) ==
  /\ UNCHANGED <<tables, drafts, locks, op, subject, seen, targets, reply>>
  /\ \/ Goto(p, "lockUser")
     \/ op[p] = "rotate" /\ (Goto(p, "consume") \/ Goto(p, "revoke"))

LEMMA MoveKeeps ==
  ASSUME IInv, NEW p \in Requests, At(p, "find"), Moves(p), Paths(p)'
  PROVE  IInv'
<1> USE DEF Moves, Goto, At
<1>1. TypeOK /\ Exclusive /\ Part(p)
  BY DEF IInv
<1>2. /\ UNCHANGED tables /\ UNCHANGED <<passwordDraft, sessionDraft, tokenDraft, resetDraft>>
      /\ UNCHANGED <<sharing, userLock, sessionLock, tokenLock>>
      /\ UNCHANGED <<op, subject, seen, targets, reply>>
  BY DEF drafts, locks
<1>3. pc'[p] \in {"consume", "revoke", "lockUser"} /\ (pc'[p] = "revoke" => op[p] = "rotate")
  BY <1>1 DEF TypeOK
<1>4. \A q \in Requests \ {p} : Leaves(q)
  BY <1>1, <1>2 DEF Leaves, TypeOK
<1>5. TypeOK'
  <2>1. pc' \in [Requests -> {"idle", "verify", "share", "open", "find", "consume", "replace",
                          "touch", "lockUser", "revoke", "sessions", "tokens", "commit",
                          "done"}]
    BY <1>1 DEF TypeOK
  <2> QED
    BY <1>1, <1>2, <2>1 DEF TypeOK, tables
<1>6. Exclusive' /\ reply'[p] # "reused"
  BY <1>1, <1>2 DEF Exclusive, Part, Paths
<1>7. /\ p \notin sharing' /\ userLock' # p /\ targets'[p] = {}
      /\ \A x \in Rows : sessionLock'[x] # p /\ tokenLock'[x] # p
  BY <1>1, <1>2 DEF Part, HoldsUser, HoldsSessions, HoldsTokens, Opening, Rotating, Revoking,
     Setting, Targets
<1>8. ~Setting(p)'
  BY <1>1, <1>2, <1>3 DEF Setting, Part, Paths
<1>9. Part(p)'
  BY <1>1, <1>2, <1>3, <1>7, <1>8 DEF Part, About, Fresh, HoldsUser,
     HoldsSessions, HoldsTokens, Opens, Rotates, Revokes, SetsPassword, Targets,
     ReachesSessions, ReachesTokens, Opening, Rotating, Revoking, tables
<1> QED
  BY <1>2, <1>4, <1>5, <1>6, <1>9, Quietly

LEMMA FindKeeps ==
  ASSUME IInv, NEW p \in Requests, FindToken(p) \/ FindReset(p)
  PROVE  IInv'
<1>1. CASE RollBack(p, "invalid")
  BY <1>1, RollBackKeeps
<1>2. CASE ~RollBack(p, "invalid")
  <2>1. Moves(p) /\ At(p, "find")
    BY <1>2 DEF FindToken, FindReset, Moves, At
  <2>2. Paths(p)'
    BY <1>2 DEF IInv, Part, Paths, FindToken, FindReset, Goto, At, TypeOK
  <2> QED
    BY <2>1, <2>2, MoveKeeps
<1> QED
  BY <1>1, <1>2

LEMMA ConsumeKeeps ==
  ASSUME IInv, NEW p \in Requests, Consume(p)
  PROVE  IInv'
<1> USE DEF Goto, At
<1> DEFINE t == subject[p]
<1>1. TypeOK /\ Exclusive /\ Part(p)
  BY DEF IInv
<1>2. /\ UNCHANGED tables /\ UNCHANGED <<passwordDraft, sessionDraft, resetDraft>>
      /\ UNCHANGED <<sharing, userLock, sessionLock>>
      /\ UNCHANGED <<op, subject, seen, targets, reply>>
  BY DEF Consume
<1>3. /\ pc[p] = "consume" /\ op[p] = "rotate" /\ t \in Rows /\ tokens[t].session # None
      /\ t # p /\ tokens[t] \in TokenRow
  BY <1>1 DEF Consume, TypeOK, Part, Paths, About, Fresh
<1>4. \/ /\ Usable(tokens[t]) /\ tokenLock[t] = None
         /\ tokenLock' = [tokenLock EXCEPT ![t] = p]
         /\ tokenDraft' = [tokenDraft EXCEPT ![t].consumed = TRUE]
         /\ pc' = [pc EXCEPT ![p] = "replace"]
      \/ /\ tokenLock' = tokenLock \/ (tokenLock[t] = None /\ tokenLock' = [tokenLock EXCEPT ![t] = p])
         /\ tokenDraft' = tokenDraft
         /\ pc' = [pc EXCEPT ![p] = "revoke"]
  BY DEF Consume
<1>5. pc'[p] \in {"replace", "revoke"}
  BY <1>1, <1>4 DEF TypeOK
<1>6. \A q \in Requests \ {p} : Leaves(q)
  BY <1>1, <1>2, <1>3, <1>4 DEF Leaves, TypeOK
<1>7. TypeOK'
  <2>1. pc' \in [Requests -> {"idle", "verify", "share", "open", "find", "consume", "replace",
                          "touch", "lockUser", "revoke", "sessions", "tokens", "commit",
                          "done"}]
    BY <1>1, <1>4 DEF TypeOK
  <2>2. tokenLock' \in [Rows -> Requests \cup {None}]
    BY <1>1, <1>4 DEF TypeOK
  <2>3. tokenDraft' \in [Rows -> TokenRow]
    <3>1. tokenDraft \in [Rows -> TokenRow] /\ tokenDraft[t] \in TokenRow
      BY <1>1, <1>3 DEF TypeOK
    <3>2. [tokenDraft[t] EXCEPT !.consumed = TRUE] \in TokenRow
      BY <3>1, TokenUpdates
    <3>3. CASE tokenDraft' = [tokenDraft EXCEPT ![t] = [tokenDraft[t] EXCEPT !.consumed = TRUE]]
      BY <1>3, <3>1, <3>2, <3>3
    <3>4. CASE tokenDraft' = tokenDraft
      BY <3>1, <3>4
    <3> QED
      BY <1>4, <3>3, <3>4
  <2>4. \A r \in Rows : tokenLock'[r] = None => tokenDraft'[r] = tokens'[r]
    BY <1>1, <1>2, <1>3, <1>4 DEF TypeOK, tables
  <2> QED
    BY <1>1, <1>2, <2>1, <2>2, <2>3, <2>4 DEF TypeOK, tables
<1>8. Exclusive' /\ reply'[p] # "reused"
  BY <1>1, <1>2, <1>3 DEF Exclusive, Part, Paths
<1>9. /\ p \notin sharing' /\ userLock' # p /\ targets'[p] = {}
      /\ \A x \in Rows : sessionLock'[x] # p /\ tokenLock[x] # p
      /\ \A x \in Rows : tokenLock'[x] = p => x = t
  BY <1>1, <1>2, <1>3, <1>4 DEF Part, HoldsUser, HoldsSessions, HoldsTokens, Opening, Rotating,
     Revoking, Setting, Targets, TypeOK
<1>10. CASE pc'[p] = "replace"
  <2>1. /\ tokenLock'[t] = p /\ Usable(tokens[t])
        /\ tokenDraft'[t].consumed /\ tokenDraft'[t].session = tokens[t].session
    <3>1. /\ tokenLock[t] = None /\ tokenLock' = [tokenLock EXCEPT ![t] = p] /\ Usable(tokens[t])
          /\ tokenDraft' = [tokenDraft EXCEPT ![t] = [tokenDraft[t] EXCEPT !.consumed = TRUE]]
      BY <1>1, <1>4, <1>10 DEF TypeOK
    <3>2. tokenDraft[t] = tokens[t]
      BY <1>1, <1>3, <3>1 DEF TypeOK
    <3> QED
      BY <1>1, <1>3, <3>1, <3>2, TokenUpdates DEF TypeOK
  <2>2. Part(p)'
    BY <1>1, <1>2, <1>3, <1>8, <1>9, <1>10, <2>1 DEF Part, Paths, About, Fresh, HoldsUser,
       HoldsSessions, HoldsTokens, Opens, Rotates, Revokes, SetsPassword, Targets,
       ReachesSessions, ReachesTokens, Opening, Rotating, Revoking, Setting, tables
  <2> QED
    BY <1>2, <1>3, <1>6, <1>7, <1>8, <2>2, Quietly
<1>11. CASE pc'[p] = "revoke"
  <2>1. tokenLock'[t] = p => tokenDraft'[t] = tokens[t]
    BY <1>1, <1>3, <1>4, <1>9, <1>11 DEF TypeOK
  <2>2. Revokes(p)' /\ HoldsTokens(p)'
    BY <1>2, <1>3, <1>9, <1>11, <2>1 DEF Revokes, HoldsTokens, Revoking, tables
  <2>3. Part(p)'
    BY <1>1, <1>2, <1>3, <1>8, <1>9, <1>11, <2>2 DEF Part, Paths, About, Fresh, HoldsUser,
       HoldsSessions, Opens, Rotates, SetsPassword, Targets,
       ReachesSessions, ReachesTokens, Opening, Rotating, Revoking, Setting, tables
  <2> QED
    BY <1>2, <1>3, <1>6, <1>7, <1>8, <2>3, Quietly
<1> QED
  BY <1>5, <1>10, <1>11

LEMMA ReplaceKeeps ==
  ASSUME IInv, NEW p \in Requests, Replace(p)
  PROVE  IInv'
<1> USE DEF Replace, Goto, At
<1> DEFINE t == subject[p]
<1>1. TypeOK /\ Exclusive /\ Part(p)
  BY DEF IInv
<1>2. /\ UNCHANGED tables /\ UNCHANGED <<passwordDraft, sessionDraft, resetDraft>>
      /\ UNCHANGED <<sharing, userLock, sessionLock>>
      /\ UNCHANGED <<op, subject, seen, targets, reply>>
  OBVIOUS
<1>3. /\ pc[p] = "replace" /\ pc'[p] = "touch" /\ op[p] = "rotate" /\ t \in Rows
      /\ tokens[t].session # None /\ FamilyOf(p) \in Rows
      /\ sessions[p].state = "none" /\ tokens[p].session = None /\ t # p
  BY <1>1, Reaches DEF TypeOK, Part, Paths, About, Fresh
<1>4. \A q \in Requests \ {p} : tokenLock[p] # q
  BY <1>3, Nobody
<1>5. \A q \in Requests \ {p} : Leaves(q)
  BY <1>1, <1>2, <1>4 DEF Leaves, TypeOK
<1>6. TypeOK'
  <2>1. NewToken(FamilyOf(p), t) \in TokenRow
    BY <1>3 DEF NewToken, TokenRow
  <2>2. tokenDraft' \in [Rows -> TokenRow]
    BY <1>1, <2>1 DEF TypeOK
  <2> QED
    BY <1>1, <1>2, <2>2 DEF TypeOK, tables
<1>7. Exclusive' /\ reply'[p] # "reused"
  BY <1>1, <1>2, <1>3 DEF Exclusive, Part, Paths
<1>8. /\ p \notin sharing' /\ userLock' # p /\ targets'[p] = {}
      /\ \A x \in Rows : sessionLock'[x] # p
      /\ \A x \in Rows : tokenLock'[x] = p => x \in {t, p}
      /\ tokenLock'[p] = p /\ tokenDraft'[p] = NewToken(FamilyOf(p), t)
      /\ tokenLock'[t] = p /\ Usable(tokens[t])
      /\ tokenDraft'[t].consumed /\ tokenDraft'[t].session = tokens[t].session
  BY <1>1, <1>2, <1>3 DEF Part, HoldsUser, HoldsSessions, HoldsTokens, Opening, Rotating, Revoking,
     Setting, Targets, Rotates, TypeOK
<1>9. Part(p)'
  BY <1>1, <1>2, <1>3, <1>7, <1>8 DEF Part, Paths, About, Fresh, HoldsUser,
     HoldsSessions, HoldsTokens, Opens, Rotates, Revokes, SetsPassword, Targets,
     ReachesSessions, ReachesTokens, Opening, Rotating, Revoking, Setting, tables, FamilyOf
<1> QED
  BY <1>2, <1>3, <1>5, <1>6, <1>7, <1>9, Quietly

LEMMA TouchKeeps ==
  ASSUME IInv, NEW p \in Requests, Touch(p)
  PROVE  IInv'
<1> USE DEF Goto, At
<1> DEFINE t == subject[p]
           s == FamilyOf(p)
<1>1. TypeOK /\ Exclusive /\ Part(p) /\ Foreign
  BY DEF IInv, Safe
<1>2. /\ UNCHANGED tables
      /\ UNCHANGED <<passwordDraft, sessionDraft, tokenDraft, resetDraft>>
      /\ UNCHANGED <<sharing, userLock, tokenLock>>
      /\ UNCHANGED <<op, subject, seen, targets, reply>>
      /\ sessionLock[s] = None /\ sessionLock' = [sessionLock EXCEPT ![s] = p]
      /\ pc' = [pc EXCEPT ![p] = "commit"]
  BY DEF Touch, drafts
<1>3. /\ pc[p] = "touch" /\ pc'[p] = "commit" /\ op[p] = "rotate" /\ t \in Rows
      /\ tokens[t].session # None /\ s \in Rows
      /\ sessions[p].state = "none" /\ tokens[p].session = None /\ t # p
  BY <1>1, <1>2, Reaches DEF Touch, TypeOK, Part, Paths, About, Fresh
<1>4. \A q \in Requests \ {p} : Leaves(q)
  BY <1>1, <1>2, <1>3 DEF Leaves, TypeOK
<1>5. TypeOK'
  BY <1>1, <1>2, <1>3 DEF TypeOK, tables
<1>6. Exclusive' /\ reply'[p] # "reused"
  BY <1>1, <1>2, <1>3 DEF Exclusive, Part, Paths
<1>7. /\ p \notin sharing' /\ userLock' # p /\ targets'[p] = {}
      /\ \A x \in Rows : sessionLock'[x] = p => x = s
      /\ sessionLock'[s] = p /\ sessionDraft[s] = sessions[s]
      /\ \A x \in Rows : tokenLock'[x] = p => x \in {t, p}
      /\ tokenLock'[p] = p /\ tokenDraft'[p] = NewToken(FamilyOf(p), t)
      /\ tokenLock'[t] = p /\ Usable(tokens[t])
      /\ tokenDraft'[t].consumed /\ tokenDraft'[t].session = tokens[t].session
  BY <1>1, <1>2, <1>3 DEF Part, HoldsUser, HoldsSessions, HoldsTokens, Opening, Rotating, Revoking,
     Setting, Targets, Rotates, TypeOK
<1>8. s' = s /\ t' = t
  BY <1>2 DEF FamilyOf, tables
<1>9. Part(p)'
  BY <1>1, <1>2, <1>3, <1>6, <1>7, <1>8 DEF Part, Paths, About, Fresh, HoldsUser,
     HoldsSessions, HoldsTokens, Opens, Rotates, Revokes, SetsPassword, Targets,
     ReachesSessions, ReachesTokens, Opening, Rotating, Revoking, Setting, tables
<1> QED
  BY <1>2, <1>3, <1>4, <1>5, <1>6, <1>9, Quietly

-----------------------------------------------------------------------------
(* The statements under the exclusive lock of the user.                     *)
LEMMA Revocations ==
  ASSUME NEW R \in [Requests -> ResetRow]
  PROVE  /\ RevokeResets(R) \in [Requests -> ResetRow]
         /\ \A r \in Requests : RevokeResets(R)[r].state # "active"
<1>1. \A r \in Requests : R[r] \in ResetRow
  OBVIOUS
<1>2. \A r \in Requests : /\ [R[r] EXCEPT !.state = "revoked"] \in ResetRow
                          /\ [R[r] EXCEPT !.state = "revoked"].state = "revoked"
  BY <1>1 DEF ResetRow
<1> QED
  BY <1>1, <1>2 DEF RevokeResets

(* The lock on the user, taken with new drafts.                             *)
Takes(p, there) ==
  /\ LockUser(p) /\ Goto(p, there)
  /\ UNCHANGED <<tables, sessionDraft, tokenDraft, sharing, sessionLock, tokenLock, op,
                 subject, seen, targets, reply>>
  /\ passwordDraft' \in 1 .. MaxPassword /\ resetDraft' \in [Requests -> ResetRow]

LEMMA TakeKeeps ==
  ASSUME IInv, NEW p \in Requests, At(p, "lockUser"),
         \/ op[p] = "issueReset" /\ Takes(p, "commit")
         \/ op[p] \in {"changePassword", "resetPassword"} /\ Takes(p, "revoke"),
         SetsPassword(p)'
  PROVE  IInv'
<1> USE DEF Takes, LockUser, Goto, At
<1>1. TypeOK /\ Exclusive /\ Part(p)
  BY DEF IInv
<1>2. /\ UNCHANGED tables /\ UNCHANGED <<sessionDraft, tokenDraft>>
      /\ UNCHANGED <<sharing, sessionLock, tokenLock>>
      /\ UNCHANGED <<op, subject, seen, targets, reply>>
      /\ userLock = None /\ userLock' = p /\ sharing = {}
  OBVIOUS
<1>3. /\ op[p] = "issueReset" => pc'[p] = "commit"
      /\ op[p] \in {"changePassword", "resetPassword"} => pc'[p] = "revoke"
      /\ op[p] \in {"changePassword", "resetPassword", "issueReset"}
  BY <1>1 DEF TypeOK
<1>4. \A q \in Requests \ {p} : Leaves(q)
  BY <1>1, <1>2 DEF Leaves, TypeOK
<1>5. TypeOK'
  <2>1. pc' \in [Requests -> {"idle", "verify", "share", "open", "find", "consume", "replace",
                          "touch", "lockUser", "revoke", "sessions", "tokens", "commit",
                          "done"}]
    BY <1>1 DEF TypeOK
  <2> QED
    BY <1>1, <1>2, <2>1 DEF TypeOK, tables
<1>6. Exclusive' /\ reply'[p] # "reused"
  BY <1>1, <1>2 DEF Exclusive, Part, Paths
<1>7. /\ p \notin sharing' /\ targets'[p] = {}
      /\ \A x \in Rows : sessionLock'[x] # p /\ tokenLock'[x] # p
  BY <1>1, <1>2 DEF Part, HoldsSessions, HoldsTokens, Opening, Rotating, Revoking, Targets
<1>8. Part(p)'
  BY <1>1, <1>2, <1>3, <1>6, <1>7 DEF Part, Paths, About, Fresh, HoldsUser,
     HoldsSessions, HoldsTokens, Opens, Rotates, Revokes, Targets,
     ReachesSessions, ReachesTokens, Opening, Rotating, Revoking, Setting, tables
<1> QED
  BY <1>2, <1>4, <1>5, <1>6, <1>8, Quietly

LEMMA SetPasswordKeeps ==
  ASSUME IInv, NEW p \in Requests, ChangePassword(p) \/ ResetPassword(p)
  PROVE  IInv'
<1>1. CASE RollBack(p, "invalid")
  BY <1>1, RollBackKeeps
<1>2. CASE ~RollBack(p, "invalid")
  <2>1. PICK R : /\ LockUser(p) /\ SetPassword(p, R) /\ password < MaxPassword
                 /\ R = resets \/ (subject[p] \in Requests
                                     /\ R = [resets EXCEPT ![subject[p]].state = "used"])
    BY <1>2 DEF ChangePassword, ResetPassword, IInv, Part, About
  <2>2. TypeOK
    BY DEF IInv
  <2>3. R \in [Requests -> ResetRow]
    <3>1. CASE R = resets
      BY <2>2, <3>1 DEF TypeOK
    <3>2. CASE subject[p] \in Requests /\ R = [resets EXCEPT ![subject[p]].state = "used"]
      <4>1. resets \in [Requests -> ResetRow] /\ resets[subject[p]] \in ResetRow
        BY <2>2, <3>2 DEF TypeOK
      <4>2. [resets[subject[p]] EXCEPT !.state = "used"] \in ResetRow
        BY <4>1 DEF ResetRow
      <4> QED
        BY <3>2, <4>1, <4>2
    <3> QED
      BY <2>1, <3>1, <3>2
  <2>4. password + 1 \in 1 .. MaxPassword
    BY <2>1, <2>2, PasswordAssumption DEF TypeOK
  <2>5. Takes(p, "revoke")
    BY <2>1, <2>3, <2>4, Revocations DEF Takes, SetPassword
  <2>6. SetsPassword(p)'
    <3>1. op'[p] # "issueReset" /\ \A r \in Requests : resetDraft'[r].state # "active"
      BY <2>1, <2>3, Revocations, <1>2 DEF SetPassword, ChangePassword, ResetPassword
    <3> QED
      BY <3>1 DEF SetsPassword
  <2> QED
    BY <2>5, <2>6, TakeKeeps DEF ChangePassword, ResetPassword
<1> QED
  BY <1>1, <1>2

LEMMA IssueResetKeeps ==
  ASSUME IInv, NEW p \in Requests, IssueReset(p)
  PROVE  IInv'
<1>1. TypeOK
  BY DEF IInv
<1>2. [state |-> "active", password |-> password] \in ResetRow
  BY <1>1 DEF TypeOK, ResetRow
<1>3. RevokeResets(resets) \in [Requests -> ResetRow]
      /\ \A r \in Requests : RevokeResets(resets)[r].state # "active"
  BY <1>1, Revocations DEF TypeOK
<1>4. passwordDraft' = password /\ passwordDraft \in 1 .. MaxPassword /\ password' = password
  BY <1>1 DEF IssueReset, LockUser, TypeOK, tables
<1>5. Takes(p, "commit")
  BY <1>1, <1>2, <1>3, <1>4 DEF IssueReset, Takes, TypeOK
<1>6. SetsPassword(p)'
  <2>1. \A r \in Requests : resetDraft'[r].state = "active" =>
                              r = p /\ resetDraft'[r].password = password
    BY <1>2, <1>3 DEF IssueReset
  <2> QED
    BY <1>4, <2>1 DEF SetsPassword
<1> QED
  BY <1>5, <1>6, TakeKeeps DEF IssueReset

-----------------------------------------------------------------------------
(* The two revoking statements.                                             *)
LEMMA AimKeeps ==
  ASSUME IInv, NEW p \in Requests, NEW here, NEW there, NEW rows,
         Aim(p, here, there, rows), rows \subseteq Rows,
         <<here, there>> \in {<<"revoke", "sessions">>, <<"sessions", "tokens">>,
                              <<"tokens", "commit">>},
         Targets(p)' /\ ReachesSessions(p)' /\ ReachesTokens(p)'
  PROVE  IInv'
<1> USE DEF Aim, Goto, At
<1>1. TypeOK /\ Exclusive /\ Part(p)
  BY DEF IInv
<1>2. /\ UNCHANGED tables /\ UNCHANGED <<passwordDraft, sessionDraft, tokenDraft, resetDraft>>
      /\ UNCHANGED <<sharing, userLock, sessionLock, tokenLock>>
      /\ UNCHANGED <<op, subject, seen, reply>>
  BY DEF drafts, locks
<1>3. /\ pc[p] \in {"revoke", "sessions", "tokens"} /\ pc'[p] \in {"sessions", "tokens", "commit"}
      /\ pc[p] = "tokens" <=> pc'[p] = "commit"
      /\ op[p] \in {"rotate", "logout", "logoutAll", "changePassword", "resetPassword"}
  BY <1>1 DEF TypeOK, Part, Paths
<1>4. \A q \in Requests \ {p} : Leaves(q)
  BY <1>1, <1>2 DEF Leaves, TypeOK
<1>5. TypeOK'
  <2>1. pc' \in [Requests -> {"idle", "verify", "share", "open", "find", "consume", "replace",
                          "touch", "lockUser", "revoke", "sessions", "tokens", "commit",
                          "done"}]
    BY <1>1 DEF TypeOK
  <2>2. targets' \in [Requests -> SUBSET Rows]
    BY <1>1 DEF TypeOK
  <2> QED
    BY <1>1, <1>2, <2>1, <2>2 DEF TypeOK, tables
<1>6. Exclusive' /\ reply'[p] # "reused"
  BY <1>1, <1>2, <1>3 DEF Exclusive, Part, Paths
<1>7. /\ Scope(p)' = Scope(p)
      /\ Revoking(p) /\ ~Rotating(p) /\ ~Opening(p)
      /\ tokenLock[p] # p
  BY <1>1, <1>2, <1>3 DEF Scope, FamilyOf, tables, Revoking, Rotating, Opening, Part, HoldsTokens
<1>8. Revoking(p)' /\ ~Rotating(p)' /\ ~Opening(p)'
  BY <1>2, <1>3, <1>7 DEF Revoking, Rotating, Opening
<1>9. HoldsUser(p)' /\ HoldsSessions(p)' /\ HoldsTokens(p)'
  BY <1>1, <1>2, <1>3, <1>7, <1>8 DEF Part, HoldsUser, HoldsSessions, HoldsTokens, Setting, tables
<1>10. Opens(p)' /\ Rotates(p)' /\ Revokes(p)' /\ SetsPassword(p)'
  BY <1>1, <1>2, <1>3, <1>7, <1>8 DEF Part, Opens, Rotates, Revokes, SetsPassword, HoldsUser, tables
<1>11. Paths(p)' /\ About(p)' /\ Fresh(p)'
  BY <1>1, <1>2, <1>3, <1>6 DEF Part, Paths, About, Fresh, tables
<1> QED
  BY <1>2, <1>4, <1>5, <1>6, <1>9, <1>10, <1>11, Quietly DEF Part

LEMMA StartSessionsKeeps ==
  ASSUME IInv, NEW p \in Requests, StartSessions(p)
  PROVE  IInv'
<1> USE DEF StartSessions, Aim, Goto, At
<1>1. TypeOK /\ Part(p)
  BY DEF IInv
<1>2. /\ sessions' = sessions /\ tokens' = tokens /\ op' = op /\ subject' = subject
      /\ raced' = raced
      /\ pc[p] = "revoke" /\ pc'[p] = "sessions" /\ targets'[p] = SessionsToRevoke(p)
  BY <1>1 DEF TypeOK, tables
<1>3. Scope(p)' = Scope(p) /\ Scope(p) \subseteq Rows
  BY <1>1, <1>2, Reaches DEF Scope, FamilyOf
<1>4. \A s \in Rows : SessionSeen(p, s) = sessions[s]
  BY <1>1, <1>2 DEF Part, HoldsSessions, SessionSeen, Opening, Rotating
<1>5. Targets(p)' /\ ReachesSessions(p)' /\ ReachesTokens(p)'
  <2>1. Targets(p)'
    BY <1>2, <1>3, <1>4 DEF Targets, SessionsToRevoke, IsLive
  <2>2. ReachesSessions(p)'
    BY <1>2, <1>3, <1>4 DEF ReachesSessions, SessionsToRevoke, IsLive
  <2>3. ReachesTokens(p)'
    BY <1>2 DEF ReachesTokens
  <2> QED
    BY <2>1, <2>2, <2>3
<1>6. SessionsToRevoke(p) \subseteq Rows
  BY <1>3 DEF SessionsToRevoke
<1> QED
  BY <1>5, <1>6, AimKeeps

LEMMA StartTokensKeeps ==
  ASSUME IInv, NEW p \in Requests, StartTokens(p)
  PROVE  IInv'
<1> USE DEF StartTokens, Aim, Goto, At
<1>1. TypeOK /\ Part(p)
  BY DEF IInv
<1>2. /\ sessions' = sessions /\ tokens' = tokens /\ op' = op /\ subject' = subject
      /\ raced' = raced
      /\ sessionLock' = sessionLock /\ tokenLock' = tokenLock /\ tokenDraft' = tokenDraft
      /\ pc[p] = "sessions" /\ pc'[p] = "tokens" /\ targets[p] = {}
      /\ targets'[p] = TokensToRevoke(p)
  BY <1>1 DEF TypeOK, tables, locks, drafts
<1>3. Scope(p)' = Scope(p) /\ Scope(p) \subseteq Rows /\ Revoking(p) /\ Revoking(p)'
  BY <1>1, <1>2, Reaches DEF Scope, FamilyOf, Revoking
<1>4. \A t \in Rows : /\ TokenSeen(p, t).session = tokens[t].session
                      /\ tokens[t].revoked => TokenSeen(p, t).revoked
                      /\ TokenSeen(p, t).revoked =>
                           tokens[t].revoked \/ (tokenLock[t] = p /\ tokenDraft[t].revoked)
  BY <1>1, <1>3 DEF Part, Revokes, TokenSeen
<1>5. Targets(p)' /\ ReachesSessions(p)' /\ ReachesTokens(p)'
  <2>1. Targets(p)'
    BY <1>2, <1>3, <1>4 DEF Targets, TokensToRevoke
  <2>2. ReachesSessions(p)'
    BY <1>1, <1>2, <1>3 DEF Part, ReachesSessions
  <2>3. \A t \in Rows : Usable(tokens[t]) /\ sessionLock[tokens[t].session] = p =>
                          tokens[t].session \in Scope(p)
    BY <1>1, <1>2 DEF Part, HoldsSessions, TypeOK, TokenRow, Usable, Opening, Rotating
  <2>4. ReachesTokens(p)'
    BY <1>2, <1>3, <1>4, <2>3 DEF ReachesTokens, TokensToRevoke, Usable
  <2> QED
    BY <2>1, <2>2, <2>4
<1>6. TokensToRevoke(p) \subseteq Rows
  BY DEF TokensToRevoke
<1> QED
  BY <1>5, <1>6, AimKeeps

LEMMA EndRevocationKeeps ==
  ASSUME IInv, NEW p \in Requests, EndRevocation(p)
  PROVE  IInv'
<1> USE DEF EndRevocation, Aim, Goto, At
<1>1. TypeOK /\ Part(p)
  BY DEF IInv
<1>2. /\ sessions' = sessions /\ tokens' = tokens /\ op' = op /\ subject' = subject
      /\ raced' = raced
      /\ sessionLock' = sessionLock /\ tokenLock' = tokenLock /\ tokenDraft' = tokenDraft
      /\ pc[p] = "tokens" /\ pc'[p] = "commit" /\ targets[p] = {} /\ targets'[p] = {}
  BY <1>1 DEF TypeOK, tables, locks, drafts
<1>3. Scope(p)' = Scope(p) /\ Scope(p) \subseteq Rows /\ Revoking(p)
  BY <1>1, <1>2, Reaches DEF Scope, FamilyOf, Revoking
<1>4. Targets(p)' /\ ReachesSessions(p)' /\ ReachesTokens(p)'
  BY <1>1, <1>2, <1>3 DEF Part, Targets, ReachesSessions, ReachesTokens
<1> QED
  BY <1>4, AimKeeps

LEMMA RevokeSessionKeeps ==
  ASSUME IInv, NEW p \in Requests, RevokeSession(p)
  PROVE  IInv'
<1> USE DEF At
<1>1. TypeOK /\ Exclusive /\ Part(p)
  BY DEF IInv
<1>2. PICK s \in targets[p] :
        /\ sessionLock[s] \in {p, None}
        /\ sessionLock' = [sessionLock EXCEPT ![s] = p]
        /\ sessionDraft' = [sessionDraft EXCEPT ![s].state = IF @ = "live" THEN Reason(p) ELSE @]
        /\ targets' = [targets EXCEPT ![p] = @ \ {s}]
  BY DEF RevokeSession
<1>3. /\ UNCHANGED tables /\ UNCHANGED <<passwordDraft, tokenDraft, resetDraft>>
      /\ UNCHANGED <<sharing, userLock, tokenLock>>
      /\ UNCHANGED <<op, subject, pc, seen, reply>>
      /\ pc[p] = "sessions"
  BY DEF RevokeSession
<1>4. /\ s \in Rows /\ s \in Scope(p) /\ sessions[s].state # "none"
      /\ targets'[p] = targets[p] \ {s}
  BY <1>1, <1>2, <1>3 DEF Part, Targets, TypeOK
<1>5. Revoking(p) /\ Revoking(p)' /\ ~Rotating(p)' /\ ~Opening(p)' /\ Scope(p)' = Scope(p)
      /\ ~Rotating(p) /\ ~Opening(p)
  BY <1>3 DEF Revoking, Rotating, Opening, Scope, FamilyOf, tables
<1>6. /\ sessionDraft[s] \in SessionRow
      /\ sessionDraft[s].state \in {"live"} \cup Reasons
  <2>1. sessionDraft[s] \in SessionRow /\ sessions[s] \in SessionRow
    BY <1>1, <1>4 DEF TypeOK
  <2>2. sessionDraft[s].state # "none"
    BY <1>1, <1>2, <1>4, <1>5 DEF TypeOK, Part, Revokes, Reasons
  <2> QED
    BY <2>1, <2>2 DEF SessionRow
<1>7. PICK x \in Reasons : sessionDraft' = [sessionDraft EXCEPT ![s] = [sessionDraft[s] EXCEPT !.state = x]]
  <2>1. Reason(p) \in Reasons
    BY DEF Reason, Reasons
  <2>2. CASE sessionDraft[s].state = "live"
    BY <1>2, <2>1, <2>2
  <2>3. CASE sessionDraft[s].state # "live"
    BY <1>2, <1>6, <2>3
  <2> QED
    BY <2>2, <2>3
<1>8. sessionDraft' \in [Rows -> SessionRow] /\ sessionDraft'[s].state \in Reasons
  BY <1>1, <1>4, <1>6, <1>7, SessionUpdates DEF TypeOK
<1>9. \A q \in Requests \ {p} : Leaves(q)
  BY <1>1, <1>2, <1>3, <1>4, <1>7 DEF Leaves, TypeOK
<1>10. TypeOK'
  <2>1. targets' \in [Requests -> SUBSET Rows]
    BY <1>1, <1>2 DEF TypeOK
  <2>2. \A r \in Rows : sessionLock'[r] = None => sessionDraft'[r] = sessions'[r]
    BY <1>1, <1>2, <1>3, <1>4, <1>7 DEF TypeOK, tables
  <2> QED
    BY <1>1, <1>2, <1>3, <1>8, <2>1, <2>2 DEF TypeOK, tables
<1>11. Exclusive' /\ reply'[p] # "reused"
  BY <1>1, <1>3 DEF Exclusive, Part, Paths
<1>12. \A r \in Rows : sessionLock'[r] = p => (r = s \/ sessionLock[r] = p) /\ sessionDraft'[r].state \in Reasons
  BY <1>1, <1>2, <1>4, <1>5, <1>7, <1>8 DEF TypeOK, Part, Revokes
<1>13. HoldsSessions(p)' /\ Revokes(p)'
  BY <1>1, <1>3, <1>4, <1>5, <1>12 DEF Part, HoldsSessions, Revokes, tables
<1>14. Targets(p)' /\ ReachesSessions(p)' /\ ReachesTokens(p)'
  <2>1. sessionLock'[s] = p /\ \A r \in Rows : sessionLock[r] = p => sessionLock'[r] = p
    BY <1>1, <1>2, <1>4 DEF TypeOK
  <2>2. Scope(p) \subseteq Rows
    BY Reaches
  <2> QED
    BY <1>1, <1>3, <1>4, <1>5, <2>1, <2>2 DEF Part, Targets, ReachesSessions, ReachesTokens, tables
<1>15. Part(p)'
  BY <1>1, <1>3, <1>5, <1>13, <1>14 DEF Part, Paths, About, Fresh, HoldsUser,
     HoldsTokens, Opens, Rotates, SetsPassword, Setting, tables
<1> QED
  BY <1>3, <1>9, <1>10, <1>11, <1>15, Quietly

LEMMA RevokeTokenKeeps ==
  ASSUME IInv, NEW p \in Requests, RevokeToken(p)
  PROVE  IInv'
<1> USE DEF At
<1>1. TypeOK /\ Exclusive /\ Part(p)
  BY DEF IInv
<1>2. PICK t \in targets[p] :
        /\ tokenLock[t] \in {p, None}
        /\ tokenLock' = [tokenLock EXCEPT ![t] = p]
        /\ tokenDraft' = [tokenDraft EXCEPT ![t].revoked = TRUE]
        /\ targets' = [targets EXCEPT ![p] = @ \ {t}]
  BY DEF RevokeToken
<1>3. /\ UNCHANGED tables /\ UNCHANGED <<passwordDraft, sessionDraft, resetDraft>>
      /\ UNCHANGED <<sharing, userLock, sessionLock>>
      /\ UNCHANGED <<op, subject, pc, seen, reply>>
      /\ pc[p] = "tokens"
  BY DEF RevokeToken
<1>4. /\ t \in Rows /\ tokens[t].session # None /\ tokens[t].session \in Scope(p) /\ t # p
      /\ targets'[p] = targets[p] \ {t}
  BY <1>1, <1>2, <1>3 DEF Part, Targets, TypeOK, Fresh
<1>5. Revoking(p) /\ Revoking(p)' /\ ~Rotating(p)' /\ ~Opening(p)' /\ Scope(p)' = Scope(p)
      /\ ~Rotating(p) /\ ~Opening(p)
  BY <1>3 DEF Revoking, Rotating, Opening, Scope, FamilyOf, tables
<1>6. /\ tokenDraft' = [tokenDraft EXCEPT ![t] = [tokenDraft[t] EXCEPT !.revoked = TRUE]]
      /\ tokenDraft[t] \in TokenRow
      /\ tokenDraft[t].session = tokens[t].session /\ tokenDraft[t].consumed = tokens[t].consumed
  BY <1>1, <1>2, <1>4, <1>5 DEF TypeOK, Part, Revokes
<1>7. /\ tokenDraft' \in [Rows -> TokenRow] /\ tokenDraft'[t].revoked
      /\ tokenDraft'[t].session = tokens[t].session /\ tokenDraft'[t].consumed = tokens[t].consumed
  BY <1>1, <1>4, <1>6, TokenUpdates DEF TypeOK
<1>8. \A q \in Requests \ {p} : Leaves(q)
  BY <1>1, <1>2, <1>3, <1>4, <1>6 DEF Leaves, TypeOK
<1>9. TypeOK'
  <2>1. targets' \in [Requests -> SUBSET Rows]
    BY <1>1, <1>2 DEF TypeOK
  <2>2. \A r \in Rows : tokenLock'[r] = None => tokenDraft'[r] = tokens'[r]
    BY <1>1, <1>2, <1>3, <1>4, <1>6 DEF TypeOK, tables
  <2> QED
    BY <1>1, <1>2, <1>3, <1>7, <2>1, <2>2 DEF TypeOK, tables
<1>10. Exclusive' /\ reply'[p] # "reused"
  BY <1>1, <1>3 DEF Exclusive, Part, Paths
<1>11. \A r \in Rows \ {t} : tokenLock'[r] = tokenLock[r] /\ tokenDraft'[r] = tokenDraft[r]
  BY <1>1, <1>2, <1>4, <1>6 DEF TypeOK
<1>12. HoldsTokens(p)' /\ Revokes(p)'
  BY <1>1, <1>3, <1>4, <1>5, <1>7, <1>11 DEF Part, HoldsTokens, Revokes, tables
<1>13. Targets(p)' /\ ReachesSessions(p)' /\ ReachesTokens(p)'
  <2>1. tokenLock'[t] = p
    BY <1>1, <1>2, <1>4 DEF TypeOK
  <2> QED
    BY <1>1, <1>3, <1>4, <1>5, <1>7, <1>11, <2>1 DEF Part, Targets, ReachesSessions, ReachesTokens,
       tables
<1>14. Part(p)'
  BY <1>1, <1>3, <1>5, <1>12, <1>13 DEF Part, Paths, About, Fresh, HoldsUser,
     HoldsSessions, Opens, Rotates, SetsPassword, Setting, tables
<1> QED
  BY <1>3, <1>8, <1>9, <1>10, <1>14, Quietly

-----------------------------------------------------------------------------
(* The commit: what it makes visible.                                       *)
LEMMA CommitTables ==
  ASSUME IInv, NEW p \in Requests, Commit(p)
  PROVE  /\ \A s \in Rows : sessions'[s] = IF sessionLock[s] = p THEN sessionDraft[s] ELSE sessions[s]
         /\ \A t \in Rows : tokens'[t] = IF tokenLock[t] = p THEN tokenDraft[t] ELSE tokens[t]
         /\ UNCHANGED <<passwordDraft, sessionDraft, tokenDraft, resetDraft>>
         /\ UNCHANGED <<op, subject, seen, targets>>
         /\ pc[p] = "commit" /\ pc'[p] = "done" /\ pc' = [pc EXCEPT ![p] = "done"]
         /\ reply'[p] = CommitAnswer(p) /\ reply' = [reply EXCEPT ![p] = CommitAnswer(p)]
BY DEF Commit, SessionSeen, TokenSeen, drafts, Goto, Answer, At, IInv, TypeOK

(* Which of the kinds it is.                                                *)
LEMMA CommitKinds ==
  ASSUME IInv, NEW p \in Requests, At(p, "commit")
  PROVE  /\ Opening(p) \/ Rotating(p) \/ Revoking(p) \/ op[p] = "issueReset"
         /\ Opening(p) => op[p] = "login" /\ ~Rotating(p) /\ ~Revoking(p) /\ p \in sharing
         /\ Rotating(p) => op[p] = "rotate" /\ ~Revoking(p) /\ userLock # p
         /\ Revoking(p) => op[p] \notin {"login", "issueReset"}
         /\ sessions[p].state = "none" /\ tokens[p].session = None
BY DEF IInv, Part, Paths, Opening, Rotating, Revoking, HoldsUser, Setting, Fresh, At

LEMMA SessionsAfter ==
  ASSUME IInv, NEW p \in Requests, Commit(p), NEW s \in Rows
  PROVE  /\ sessions'[s] \in SessionRow
         /\ sessions[s].state # "none" => sessions'[s].state # "none"
         /\ IsLive(sessions'[s]) =>
              \/ sessions'[s] = sessions[s]
              \/ Opening(p) /\ s = p /\ sessions[s].state = "none" /\ sessions'[s] = NewSession(seen[p])
         /\ Revoking(p) /\ sessionLock[s] = p => sessions'[s].state \in Reasons
<1>1. TypeOK /\ Part(p) /\ At(p, "commit")
  BY DEF IInv, Commit
<1>2. sessions'[s] = IF sessionLock[s] = p THEN sessionDraft[s] ELSE sessions[s]
  BY CommitTables
<1>3. sessions'[s] \in SessionRow
  BY <1>1, <1>2 DEF TypeOK
<1>4. CASE sessionLock[s] # p
  BY <1>2, <1>3, <1>4
<1>5. CASE sessionLock[s] = p
  <2>1. CASE Opening(p) /\ s = p
    <3>1. sessionDraft[s] = NewSession(seen[p]) /\ ~Revoking(p) /\ sessions[s].state = "none"
      BY <1>1, <2>1, CommitKinds DEF Part, Opens
    <3> QED
      BY <1>2, <1>3, <1>5, <2>1, <3>1 DEF NewSession
  <2>2. CASE Rotating(p) /\ s = FamilyOf(p)
    <3>1. sessionDraft[s] = sessions[s] /\ ~Revoking(p)
      BY <1>1, <2>2, CommitKinds DEF Part, Rotates, At
    <3> QED
      BY <1>2, <1>3, <1>5, <3>1
  <2>3. CASE Revoking(p)
    <3>1. sessionDraft[s].state \in Reasons
      BY <1>1, <1>5, <2>3 DEF Part, Revokes
    <3> QED
      BY <1>2, <1>3, <1>5, <3>1 DEF Reasons, IsLive
  <2> QED
    BY <1>1, <1>5, <2>1, <2>2, <2>3 DEF Part, HoldsSessions
<1> QED
  BY <1>4, <1>5

LEMMA TokensAfter ==
  ASSUME IInv, NEW p \in Requests, Commit(p), NEW t \in Rows
  PROVE  /\ tokens'[t] \in TokenRow
         /\ t # p => /\ tokens'[t].session = tokens[t].session
                     /\ Usable(tokens'[t]) => Usable(tokens[t])
                     /\ Rotating(p) /\ t = subject[p] => ~Usable(tokens'[t])
                     /\ tokens'[t] = tokens[t] \/ (Rotating(p) /\ t = subject[p])
                          \/ (Revoking(p) /\ tokenLock[t] = p)
         /\ t = p => \/ Opening(p) /\ tokens'[t] = NewToken(p, None)
                     \/ Rotating(p) /\ tokens'[t] = NewToken(FamilyOf(p), subject[p])
                     \/ tokens'[t].session = None /\ ~Opening(p) /\ ~Rotating(p)
         /\ Revoking(p) /\ tokenLock[t] = p =>
              /\ tokens'[t] = tokenDraft[t] /\ tokens'[t].consumed = tokens[t].consumed
              /\ tokens'[t].revoked => tokens[t].revoked \/ tokens[t].session \in Scope(p)
<1>1. TypeOK /\ Part(p) /\ At(p, "commit")
  BY DEF IInv, Commit
<1>2. tokens'[t] = IF tokenLock[t] = p THEN tokenDraft[t] ELSE tokens[t]
  BY CommitTables
<1>3. tokens'[t] \in TokenRow
  BY <1>1, <1>2 DEF TypeOK
<1>4. tokens[p].session = None
  BY <1>1, CommitKinds
<1>5. CASE tokenLock[t] # p
  <2>1. Rotating(p) => t # subject[p] /\ t # p
    BY <1>1, <1>5 DEF Part, Rotates, Rotating, At
  <2>2. Opening(p) => t # p
    BY <1>1, <1>5 DEF Part, Opens
  <2> QED
    BY <1>2, <1>3, <1>4, <1>5, <2>1, <2>2
<1>6. CASE tokenLock[t] = p
  <2>1. CASE Opening(p) /\ t = p
    BY <1>1, <1>2, <1>3, <1>6, <2>1, CommitKinds DEF Part, Opens
  <2>2. CASE Rotating(p) /\ t = subject[p]
    <3>1. /\ tokenDraft[t].consumed /\ tokenDraft[t].session = tokens[t].session
          /\ Usable(tokens[t]) /\ ~Revoking(p) /\ t # p
      BY <1>1, <2>2, CommitKinds DEF Part, Rotates, Usable
    <3> QED
      BY <1>2, <1>3, <1>6, <2>2, <3>1 DEF Usable
  <2>3. CASE Rotating(p) /\ t = p
    <3>1. tokenDraft[t] = NewToken(FamilyOf(p), subject[p]) /\ ~Revoking(p)
      BY <1>1, <2>3, CommitKinds DEF Part, Rotates, At
    <3> QED
      BY <1>2, <1>3, <1>6, <2>3, <3>1
  <2>4. CASE Revoking(p) /\ t # p
    <3>1. /\ tokenDraft[t].session = tokens[t].session
          /\ tokenDraft[t].consumed = tokens[t].consumed
          /\ tokens[t].revoked => tokenDraft[t].revoked
          /\ tokenDraft[t].revoked => tokens[t].revoked \/ tokens[t].session \in Scope(p)
          /\ ~Rotating(p)
      BY <1>1, <1>6, <2>4, CommitKinds DEF Part, Revokes
    <3> QED
      BY <1>2, <1>3, <1>6, <2>4, <3>1 DEF Usable
  <2> QED
    BY <1>1, <1>6, <2>1, <2>2, <2>3, <2>4 DEF Part, HoldsTokens
<1> QED
  BY <1>5, <1>6

(* Nobody else is disturbed.                                                *)
LEMMA CommitGrows ==
  ASSUME IInv, NEW p \in Requests, Commit(p), NEW q \in Requests, q # p
  PROVE  Grows(q) /\ Leaves(q)
<1>1. TypeOK /\ Exclusive /\ Part(p) /\ Part(q) /\ At(p, "commit")
  BY DEF IInv, Commit
<1>2. Leaves(q)
  <2>1. /\ pc'[q] = pc[q] /\ reply'[q] = reply[q]
        /\ UNCHANGED <<passwordDraft, sessionDraft, tokenDraft, resetDraft>>
        /\ UNCHANGED <<op, subject, seen, targets>>
    BY <1>1, CommitTables DEF TypeOK
  <2>2. /\ q \in sharing' <=> q \in sharing
        /\ userLock' = q <=> userLock = q
        /\ \A r \in Rows : /\ sessionLock'[r] = q <=> sessionLock[r] = q
                           /\ tokenLock'[r] = q <=> tokenLock[r] = q
    BY <1>1 DEF Commit, ReleaseLocks, TypeOK
  <2> QED
    BY <2>1, <2>2 DEF Leaves
<1>3. /\ q \in sharing => password' = password
      /\ userLock = q => password' = password
  BY <1>1 DEF Commit, Exclusive
<1>4. /\ sessions[q].state = "none" => sessions'[q].state = "none"
      /\ tokens[q].session = None => tokens'[q].session = None
  BY <1>1, CommitTables, Nobody
<1>5. ASSUME NEW s \in Rows
      PROVE  /\ sessionLock[s] = q => sessions'[s] = sessions[s]
             /\ sessions[s].state # "none" => sessions'[s].state # "none"
             /\ IsLive(sessions'[s]) =>
                  \/ IsLive(sessions[s])
                  \/ /\ sessions[s].state = "none" /\ userLock # q
                     /\ RevokesAll(q) => s \in raced'
  <2>1. sessionLock[s] = q => sessions'[s] = sessions[s]
    BY CommitTables
  <2>2. Opening(p) => userLock # q
    BY <1>1, CommitKinds DEF Exclusive
  <2>3. Opening(p) /\ RevokesAll(q) => p \in raced'
    BY DEF Commit, Opening
  <2> QED
    BY <2>1, <2>2, <2>3, SessionsAfter
<1>6. ASSUME NEW t \in Rows
      PROVE  /\ tokenLock[t] = q => tokens'[t] = tokens[t]
             /\ tokens[t].session # None => tokens'[t].session = tokens[t].session
             /\ Usable(tokens'[t]) =>
                  /\ tokens'[t].session \in Rows
                  /\ Usable(tokens[t]) \/ sessionLock[tokens'[t].session] # q
  <2>1. tokenLock[t] = q => tokens'[t] = tokens[t]
    BY CommitTables
  <2>2. tokens[t].session # None => tokens'[t].session = tokens[t].session
    BY <1>1, TokensAfter, CommitKinds
  <2>3. Usable(tokens'[t]) => tokens'[t].session \in Rows
    BY TokensAfter DEF Usable, TokenRow
  <2>4. CASE t # p
    BY <2>1, <2>2, <2>3, <2>4, TokensAfter
  <2>5. CASE t = p
    <3>1. CASE Opening(p) /\ tokens'[t] = NewToken(p, None)
      BY <1>1, <2>1, <2>2, <2>3, <3>1 DEF Part, Opens, NewToken
    <3>2. CASE Rotating(p) /\ tokens'[t] = NewToken(FamilyOf(p), subject[p])
      BY <1>1, <2>1, <2>2, <2>3, <3>2 DEF Part, Rotates, NewToken, At
    <3>3. CASE tokens'[t].session = None
      BY <2>1, <2>2, <2>3, <3>3 DEF Usable
    <3> QED
      BY <2>5, <3>1, <3>2, <3>3, TokensAfter
  <2> QED
    BY <2>4, <2>5
<1>7. raced \subseteq raced'
  BY DEF Commit
<1> QED
  BY <1>2, <1>3, <1>4, <1>5, <1>6, <1>7 DEF Grows

LEMMA CommitTypes ==
  ASSUME IInv, NEW p \in Requests, Commit(p)
  PROVE  TypeOK' /\ Exclusive' /\ Part(p)'
<1>1. TypeOK /\ Exclusive /\ Part(p) /\ At(p, "commit")
  BY DEF IInv, Commit
<1>2. /\ UNCHANGED <<passwordDraft, sessionDraft, tokenDraft, resetDraft>>
      /\ UNCHANGED <<op, subject, seen, targets>>
      /\ pc'[p] = "done" /\ pc' = [pc EXCEPT ![p] = "done"]
      /\ reply'[p] = CommitAnswer(p) /\ reply' = [reply EXCEPT ![p] = CommitAnswer(p)]
  BY CommitTables
<1>3. /\ sharing' = sharing \ {p}
      /\ userLock' = IF userLock = p THEN None ELSE userLock
      /\ sessionLock' = [s \in Rows |-> IF sessionLock[s] = p THEN None ELSE sessionLock[s]]
      /\ tokenLock' = [t \in Rows |-> IF tokenLock[t] = p THEN None ELSE tokenLock[t]]
  BY DEF Commit, ReleaseLocks
<1>4. TypeOK'
  <2>1. /\ password' \in 1 .. MaxPassword /\ resets' \in [Requests -> ResetRow]
        /\ raced' \subseteq Requests
    BY <1>1 DEF Commit, TypeOK
  <2>2. sessions' \in [Rows -> SessionRow] /\ tokens' \in [Rows -> TokenRow]
    BY SessionsAfter, TokensAfter DEF Commit
  <2>3. /\ sharing' \subseteq Requests /\ userLock' \in Requests \cup {None}
        /\ sessionLock' \in [Rows -> Requests \cup {None}]
        /\ tokenLock' \in [Rows -> Requests \cup {None}]
    BY <1>1, <1>3 DEF TypeOK
  <2>4. /\ pc' \in [Requests -> {"idle", "verify", "share", "open", "find", "consume", "replace",
                          "touch", "lockUser", "revoke", "sessions", "tokens", "commit",
                          "done"}]
        /\ reply' \in [Requests -> {"none", "ok", "invalid", "reused", "failed"}]
    BY <1>1, <1>2 DEF TypeOK, CommitAnswer
  <2>5. userLock' = None => passwordDraft' = password' /\ resetDraft' = resets'
    BY <1>1, <1>2, <1>3 DEF Commit, TypeOK
  <2>6. /\ \A s \in Rows : sessionLock'[s] = None => sessionDraft'[s] = sessions'[s]
        /\ \A t \in Rows : tokenLock'[t] = None => tokenDraft'[t] = tokens'[t]
    <3>1. /\ \A s \in Rows : sessionLock[s] = None => sessionDraft[s] = sessions[s]
          /\ \A t \in Rows : tokenLock[t] = None => tokenDraft[t] = tokens[t]
      BY <1>1 DEF TypeOK
    <3>2. /\ \A s \in Rows : sessions'[s] = IF sessionLock[s] = p THEN sessionDraft[s] ELSE sessions[s]
          /\ \A t \in Rows : tokens'[t] = IF tokenLock[t] = p THEN tokenDraft[t] ELSE tokens[t]
          /\ sessionDraft' = sessionDraft /\ tokenDraft' = tokenDraft
      BY CommitTables
    <3>3. /\ \A s \in Rows : sessionLock'[s] = None => sessionLock[s] \in {p, None}
          /\ \A t \in Rows : tokenLock'[t] = None => tokenLock[t] \in {p, None}
      BY <1>3
    <3> QED
      BY <3>1, <3>2, <3>3
  <2> QED
    BY <1>1, <1>2, <2>1, <2>2, <2>3, <2>4, <2>5, <2>6 DEF TypeOK
<1>5. Exclusive'
  BY <1>1, <1>3 DEF Exclusive
<1>6. /\ p \notin sharing' /\ userLock' # p /\ targets'[p] = {}
      /\ \A x \in Rows : sessionLock'[x] # p /\ tokenLock'[x] # p
  BY <1>1, <1>2, <1>3 DEF TypeOK, Part, Targets, At
<1>7. Paths(p)'
  BY <1>2 DEF Paths, CommitAnswer, At
<1>8. About(p)'
  <2>1. op[p] = "rotate" => subject[p] \in Rows /\ tokens'[subject[p]].session # None
    BY <1>1, TokensAfter, CommitKinds DEF Part, About
  <2>2. op[p] = "logout" => subject[p] \in Rows /\ sessions'[subject[p]].state # "none"
    BY <1>1, SessionsAfter DEF Part, About
  <2> QED
    BY <1>1, <1>2, <2>1, <2>2 DEF Part, About
<1>9. Part(p)'
  BY <1>2, <1>6, <1>7, <1>8 DEF Part, Fresh, HoldsUser, HoldsSessions, HoldsTokens,
     Opens, Rotates, Revokes, SetsPassword, Targets, ReachesSessions, ReachesTokens, Opening,
     Rotating, Revoking, Setting, At
<1> QED
  BY <1>4, <1>5, <1>9

-----------------------------------------------------------------------------
(* The properties after a commit.                                           *)
LEMMA CommitIsSafe ==
  ASSUME IInv, NEW p \in Requests, Commit(p)
  PROVE  Safe'
<1>1. /\ TypeOK /\ Exclusive /\ Part(p) /\ At(p, "commit")
      /\ Foreign /\ RevokedSessionsAreDead /\ OneUsableToken /\ SessionsFollowPassword
      /\ ResetsFollowPassword /\ LiveSessionsContinue /\ ReplaysRevoke
  BY DEF IInv, Safe, Commit
<1>2. \A t \in Rows : Usable(tokens[t]) => tokens[t].session \in Rows
  BY <1>1 DEF TypeOK, TokenRow, Usable
<1>3. \A t \in Rows : tokens[t].session # p
  BY <1>1, CommitKinds DEF Foreign
<1>4. op' = op /\ subject' = subject
  BY CommitTables
<1>5. Opening(p) => /\ sessions'[p] = NewSession(seen[p]) /\ tokens'[p] = NewToken(p, None)
                    /\ seen[p] = password
  BY <1>1, CommitTables, CommitKinds DEF Part, Opens
<1>6. Rotating(p) =>
        /\ FamilyOf(p) \in Rows /\ tokens[subject[p]].session = FamilyOf(p)
        /\ subject[p] \in Rows /\ subject[p] # p /\ Usable(tokens[subject[p]])
        /\ sessions'[FamilyOf(p)] = sessions[FamilyOf(p)] /\ IsLive(sessions[FamilyOf(p)])
        /\ FamilyOf(p) # p
        /\ tokens'[p] = NewToken(FamilyOf(p), subject[p])
  <2> SUFFICES ASSUME Rotating(p)
               PROVE  /\ FamilyOf(p) \in Rows /\ tokens[subject[p]].session = FamilyOf(p)
                      /\ subject[p] \in Rows /\ subject[p] # p /\ Usable(tokens[subject[p]])
                      /\ sessions'[FamilyOf(p)] = sessions[FamilyOf(p)]
                      /\ IsLive(sessions[FamilyOf(p)]) /\ FamilyOf(p) # p
                      /\ tokens'[p] = NewToken(FamilyOf(p), subject[p])
    OBVIOUS
  <2>1. /\ FamilyOf(p) \in Rows /\ subject[p] \in Rows /\ Usable(tokens[subject[p]])
        /\ tokens[subject[p]].session = FamilyOf(p) /\ tokens[p].session = None
        /\ sessionLock[FamilyOf(p)] = p /\ sessionDraft[FamilyOf(p)] = sessions[FamilyOf(p)]
        /\ tokenLock[p] = p /\ tokenDraft[p] = NewToken(FamilyOf(p), subject[p])
    BY <1>1, Reaches, CommitKinds DEF Part, Rotates, FamilyOf, At
  <2>2. IsLive(sessions[FamilyOf(p)])
    BY <1>1, <2>1 DEF RevokedSessionsAreDead
  <2> QED
    BY <1>3, <2>1, <2>2, CommitTables DEF Usable
<1>7. Foreign'
  <2> SUFFICES ASSUME NEW t \in Rows, tokens'[t].session # None
               PROVE  sessions'[tokens'[t].session].state # "none"
    BY DEF Foreign
  <2>1. CASE t # p
    <3>1. tokens'[t].session = tokens[t].session /\ tokens[t].session \in Rows
      BY <1>1, <2>1, TokensAfter DEF TypeOK, TokenRow
    <3> QED
      BY <1>1, <3>1, SessionsAfter DEF Foreign
  <2>2. CASE t = p
    BY <1>5, <1>6, <2>2, TokensAfter DEF NewSession, NewToken, IsLive
  <2> QED
    BY <2>1, <2>2
<1>8. RevokedSessionsAreDead'
  <2> SUFFICES ASSUME NEW t \in Rows, Usable(tokens'[t])
               PROVE  IsLive(sessions'[tokens'[t].session])
    BY DEF RevokedSessionsAreDead
  <2>1. CASE t # p
    <3> DEFINE s == tokens[t].session
    <3>1. /\ tokens'[t].session = s /\ Usable(tokens[t]) /\ s \in Rows
          /\ IsLive(sessions[s])
      BY <1>1, <1>2, <2>1, TokensAfter DEF RevokedSessionsAreDead
    <3>2. sessions'[s] = sessions[s]
      <4>1. CASE sessionLock[s] # p
        BY <3>1, <4>1, CommitTables
      <4>2. CASE sessionLock[s] = p
        <5>1. ~Revoking(p)
          <6> SUFFICES ASSUME Revoking(p) PROVE FALSE
            OBVIOUS
          <6>1. tokenLock[t] = p /\ tokenDraft[t].revoked
            BY <1>1, <3>1, <4>2 DEF Part, ReachesTokens, At
          <6> QED
            BY <6>1, CommitTables DEF Usable
        <5>2. ~(Opening(p) /\ s = p)
          BY <1>3
        <5>3. Rotating(p) /\ s = FamilyOf(p)
          BY <1>1, <3>1, <4>2, <5>1, <5>2 DEF Part, HoldsSessions
        <5> QED
          BY <1>6, <5>3
      <4> QED
        BY <4>1, <4>2
    <3> QED
      BY <3>1, <3>2
  <2>2. CASE t = p
    BY <1>5, <1>6, <2>2, TokensAfter DEF NewSession, NewToken, IsLive, Usable
  <2> QED
    BY <2>1, <2>2
<1>9. OneUsableToken'
  <2>1. ASSUME NEW t \in Rows \ {p}, Usable(tokens'[t]), Usable(tokens'[p]),
               tokens'[t].session = tokens'[p].session
        PROVE  FALSE
    <3>1. tokens'[t].session = tokens[t].session /\ Usable(tokens[t])
          /\ (Rotating(p) => t # subject[p])
      BY <2>1, TokensAfter
    <3>2. CASE Opening(p)
      <4>1. tokens'[p].session = p
        BY <1>5, <3>2 DEF NewToken
      <4> QED
        BY <1>3, <2>1, <3>1, <4>1
    <3>3. CASE Rotating(p)
      <4>1. tokens'[p].session = FamilyOf(p)
        BY <1>6, <3>3 DEF NewToken
      <4>2. /\ subject[p] \in Rows /\ Usable(tokens[subject[p]])
            /\ tokens[subject[p]].session = tokens[t].session
        BY <1>6, <2>1, <3>1, <3>3, <4>1
      <4> QED
        BY <1>1, <3>1, <3>3, <4>2 DEF OneUsableToken
    <3> QED
      BY <2>1, <3>2, <3>3, TokensAfter DEF Usable
  <2>2. ASSUME NEW s \in Rows \ {p}, NEW t \in Rows \ {p}, Usable(tokens'[s]), Usable(tokens'[t]),
               tokens'[s].session = tokens'[t].session
        PROVE  s = t
    BY <1>1, <2>2, TokensAfter DEF OneUsableToken
  <2> QED
    BY <2>1, <2>2 DEF OneUsableToken
<1>10. SessionsFollowPassword'
  <2> SUFFICES ASSUME NEW s \in Rows, IsLive(sessions'[s])
               PROVE  sessions'[s].password = password'
    BY DEF SessionsFollowPassword
  <2>1. CASE Opening(p) /\ s = p
    <3>1. password' = password
      BY <1>1, <2>1, CommitKinds DEF Commit, Exclusive
    <3> QED
      BY <1>5, <2>1, <3>1 DEF NewSession
  <2>2. CASE sessions'[s] = sessions[s]
    <3>1. ~Setting(p)
      <4> SUFFICES ASSUME Setting(p) PROVE FALSE
        OBVIOUS
      <4>1. Revoking(p) /\ s \in Scope(p) /\ op[p] # "logoutAll"
        BY <1>1 DEF Setting, Revoking, Rotating, Scope, At
      <4>2. sessionLock[s] = p
        BY <1>1, <2>2, <4>1 DEF Part, ReachesSessions, At
      <4> QED
        BY <4>1, <4>2, SessionsAfter DEF IsLive, Reasons
    <3>2. password' = password
      BY <1>1, <3>1 DEF Commit, Part, HoldsUser, SetsPassword
    <3> QED
      BY <1>1, <2>2, <3>2 DEF SessionsFollowPassword
  <2> QED
    BY <2>1, <2>2, SessionsAfter
<1>11. ResetsFollowPassword'
  <2>1. CASE userLock = p
    BY <1>1, <2>1 DEF Commit, Part, SetsPassword, ResetsFollowPassword
  <2>2. CASE userLock # p
    BY <1>1, <2>2 DEF Commit, ResetsFollowPassword
  <2> QED
    BY <2>1, <2>2
<1>12. LiveSessionsContinue'
  <2> SUFFICES ASSUME NEW s \in Rows, IsLive(sessions'[s]), s \notin raced'
               PROVE  \E t \in Rows : Usable(tokens'[t]) /\ tokens'[t].session = s
    BY DEF LiveSessionsContinue, Usable, IsLive
  <2>4. s \notin raced
    BY DEF Commit
  <2>1. CASE Opening(p) /\ s = p
    BY <1>5, <2>1 DEF NewToken, Usable
  <2>2. CASE Rotating(p) /\ s = FamilyOf(p)
    BY <1>6, <2>2 DEF NewToken, Usable
  <2>3. CASE sessions'[s] = sessions[s] /\ ~(Rotating(p) /\ s = FamilyOf(p))
    <3>1. PICK t \in Rows : Usable(tokens[t]) /\ tokens[t].session = s
      BY <1>1, <2>3, <2>4 DEF LiveSessionsContinue
    <3>2. t # p /\ ~(Rotating(p) /\ t = subject[p])
      BY <1>1, <1>6, <2>3, <3>1, CommitKinds DEF Usable
    <3>3. CASE tokens'[t] = tokens[t]
      BY <3>1, <3>3
    <3>4. CASE Revoking(p) /\ tokenLock[t] = p
      <4>1. s \notin Scope(p)
        <5> SUFFICES ASSUME s \in Scope(p) PROVE FALSE
          OBVIOUS
        <5>1. sessionLock[s] = p
          BY <1>1, <2>3, <2>4, <3>4 DEF Part, ReachesSessions, At
        <5> QED
          BY <3>4, <5>1, SessionsAfter DEF IsLive, Reasons
      <4>2. tokens'[t].session = s /\ ~tokens'[t].consumed /\ ~tokens'[t].revoked
        BY <3>1, <3>2, <3>4, <4>1, TokensAfter DEF Usable
      <4> QED
        BY <4>2 DEF Usable
    <3> QED
      BY <3>2, <3>3, <3>4, TokensAfter
  <2> QED
    BY <2>1, <2>2, <2>3, SessionsAfter
<1>13. ReplaysRevoke'
  <2> SUFFICES ASSUME NEW q \in Requests, reply'[q] = "reused"
               PROVE  IsRevoked(sessions'[FamilyOf(q)']) 
    BY DEF ReplaysRevoke
  <2>1. op[q] = "rotate" /\ (q # p => IsRevoked(sessions[FamilyOf(q)]))
    BY <1>1, CommitTables DEF IInv, Part, Paths, ReplaysRevoke, CommitAnswer, TypeOK
  <2>2. FamilyOf(q)' = FamilyOf(q) /\ FamilyOf(q) \in Rows /\ sessions[FamilyOf(q)].state # "none"
    <3>1. subject[q] \in Rows /\ tokens[subject[q]].session # None
      BY <2>1 DEF IInv, Part, About
    <3>2. tokens'[subject[q]].session = tokens[subject[q]].session
      BY <3>1, TokensAfter, CommitKinds, <1>1
    <3> QED
      BY <1>1, <1>4, <2>1, <3>1, <3>2, Reaches DEF FamilyOf, Foreign
  <2>3. ~IsLive(sessions'[FamilyOf(q)])
    <3> SUFFICES ASSUME IsLive(sessions'[FamilyOf(q)]) PROVE FALSE
      OBVIOUS
    <3>1. IsLive(sessions[FamilyOf(q)])
      BY <2>2, SessionsAfter
    <3>2. q = p
      BY <2>1, <3>1 DEF IsLive, IsRevoked, Reasons
    <3>3. Revoking(p) /\ FamilyOf(p) \in Scope(p)
      BY <1>1, <2>1, <3>2, CommitTables DEF CommitAnswer, Revoking, Rotating, Scope, TypeOK
    <3>4. sessionLock[FamilyOf(p)] = p
      BY <1>1, <2>1, <3>1, <3>2, <3>3 DEF Part, ReachesSessions, At
    <3> QED
      BY <2>2, <3>2, <3>3, <3>4, SessionsAfter DEF IsLive, Reasons
  <2> QED
    BY <2>2, <2>3, SessionsAfter DEF IsLive, IsRevoked, SessionRow
<1> QED
  BY <1>7, <1>8, <1>9, <1>10, <1>11, <1>12, <1>13 DEF Safe

LEMMA CommitKeeps ==
  ASSUME IInv, NEW p \in Requests, Commit(p)
  PROVE  IInv'
<1>1. \A q \in Requests : Part(q)'
  BY CommitGrows, Undisturbed, CommitTypes
<1> QED
  BY <1>1, CommitTypes, CommitIsSafe DEF IInv

-----------------------------------------------------------------------------
LEMMA InvariantStep == IInv /\ [Next]_vars => IInv'
<1> SUFFICES ASSUME IInv, [Next]_vars PROVE IInv'
  OBVIOUS
<1>1. ASSUME NEW p \in Requests, NEW o \in Operations, Submit(p, o) PROVE IInv'
  BY <1>1, SubmitKeeps
<1>2. ASSUME NEW p \in Requests, Step(p) PROVE IInv'
  BY <1>2, VerifyKeeps, ShareKeeps, OpenKeeps, FindKeeps, ConsumeKeeps, ReplaceKeeps, TouchKeeps,
     SetPasswordKeeps, IssueResetKeeps, StartSessionsKeeps, RevokeSessionKeeps, StartTokensKeeps,
     RevokeTokenKeeps, EndRevocationKeeps, CommitKeeps DEF Step
<1>3. ASSUME NEW p \in Requests, RollBack(p, "failed") PROVE IInv'
  BY <1>3, RollBackKeeps
<1>4. CASE UNCHANGED vars
  <2>1. ASSUME NEW q \in Requests PROVE Leaves(q)
    BY <1>4 DEF Leaves, vars, locks, drafts
  <2>2. TypeOK' /\ Exclusive'
    BY <1>4 DEF IInv, TypeOK, Exclusive, vars, tables, drafts, locks
  <2>3. \A q \in Requests : Part(q)'
    BY <1>4, <2>1, Stands, Undisturbed DEF vars
  <2>4. Safe'
    BY <1>4 DEF IInv, Safe, Foreign, RevokedSessionsAreDead, OneUsableToken, SessionsFollowPassword,
       ResetsFollowPassword, LiveSessionsContinue, ReplaysRevoke, Usable, IsLive, IsRevoked,
       FamilyOf, vars, tables
  <2> QED
    BY <2>2, <2>3, <2>4 DEF IInv
<1> QED
  BY <1>1, <1>2, <1>3, <1>4 DEF Next, Abort, Break

(* What holds of requests under way: the invariant of the protocol.         *)
THEOREM SessionsInvariantHolds == Spec => []IInv
<1>1. Init => IInv
  BY InitHolds
<1>2. IInv /\ [Next]_vars => IInv'
  BY InvariantStep
<1> QED
  BY <1>1, <1>2, PTL DEF Spec

(* No token of a revoked session can be exchanged (SessionService.rotate    *)
(* against the three revocations).                                          *)
THEOREM RevokedMeansDead == Spec => []RevokedSessionsAreDead
<1>1. IInv => RevokedSessionsAreDead
  BY DEF IInv, Safe
<1> QED
  BY <1>1, SessionsInvariantHolds, PTL

(* A session has at most one token that can be exchanged, however many      *)
(* requests present the same one.                                           *)
THEOREM TokensAreExchangedOnce == Spec => []OneUsableToken
<1>1. IInv => OneUsableToken
  BY DEF IInv, Safe
<1> QED
  BY <1>1, SessionsInvariantHolds, PTL

(* No session outlives the password it was opened with                      *)
(* (CredentialsService.changePassword and the reset against login).         *)
THEOREM PasswordsEndSessions == Spec => []SessionsFollowPassword
<1>1. IInv => SessionsFollowPassword
  BY DEF IInv, Safe
<1> QED
  BY <1>1, SessionsInvariantHolds, PTL

(* Nor does a reset token, of which at most one is active.                  *)
THEOREM PasswordsEndResets == Spec => []ResetsFollowPassword
<1>1. IInv => ResetsFollowPassword
  BY DEF IInv, Safe
<1> QED
  BY <1>1, SessionsInvariantHolds, PTL

(* Who is told that his token was used before has had its session revoked.  *)
THEOREM ReplaysEndSessions == Spec => []ReplaysRevoke
<1>1. IInv => ReplaysRevoke
  BY DEF IInv, Safe
<1> QED
  BY <1>1, SessionsInvariantHolds, PTL

(* A live session has a token to go on with, unless its login committed     *)
(* while a logout of all sessions was revoking.                             *)
THEOREM SessionsCanContinue == Spec => []LiveSessionsContinue
<1>1. IInv => LiveSessionsContinue
  BY DEF IInv, Safe
<1> QED
  BY <1>1, SessionsInvariantHolds, PTL
=============================================================================
