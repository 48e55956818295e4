------------------------------- MODULE RateLimit -------------------------------
(***************************************************************************)
(* RateLimitGuard over RedisService, for the routes of one namespace.  A   *)
(* request is counted under its client address and under its subject, in   *)
(* two scripts that Redis runs one after the other; scripts of other       *)
(* requests, also of other servers, come between them.  Counters lapse a   *)
(* window after their first request.                                       *)
(*                                                                         *)
(* Time passes in ticks, TicksPerSecond of them a second, and is known only*)
(* by what is left of each counter.  A count above the maximum is one more *)
(* than the maximum: nothing tells such counts apart.                      *)
(***************************************************************************)
EXTENDS Integers, Functions

CONSTANTS
  Addresses, Subjects,  \* fingerprints of client addresses and of subjects
  IpMax, Max,           \* AUTH_RATE_LIMIT_IP_MAX, AUTH_RATE_LIMIT_MAX
  WindowSeconds,        \* AUTH_RATE_LIMIT_WINDOW_SECONDS
  TicksPerSecond,
  Requests,             \* request slots, used again and again
  Senders,              \* who may send in the slots: the keys of each slot
  Watched               \* the keys that are watched

ASSUME KeysAssumption == Addresses \cap Subjects = {} /\ Watched \subseteq Addresses \cup Subjects
ASSUME MaximaAssumption == IpMax \in Nat \ {0} /\ Max \in Nat \ {0}
ASSUME SendersAssumption == Senders \subseteq [Requests -> [ip : Addresses, subject : Subjects]]
ASSUME TimeAssumption == WindowSeconds \in Nat \ {0} /\ TicksPerSecond \in Nat \ {0}

Keys == Addresses \cup Subjects
Window == WindowSeconds * TicksPerSecond
Limit(k) == IF k \in Addresses THEN IpMax ELSE Max

VARIABLES
  count,     \* count[k]: what Redis has counted under key k
  ttl,       \* ttl[k]: ticks until the key expires
  pc,        \* pc[p]: "idle", "ip", "subject", "answer", or "told" to wait
  keys,      \* keys[p]: the address and the subject that p is sent from
  result,    \* result[p][k]: the count for key k exceeds the maximum, and the
             \*   seconds it then has left
  wait,      \* wait[p]: ticks left of the Retry-After that p was told
  blockers,  \* blockers[p]: the keys that stopped p and have not lapsed since
  watched,   \* the key whose admitted requests are recorded
  age,       \* age[p]: ticks since p was counted under the key watched
  admitted   \* admitted[a]: requests admitted that it counted a ticks ago

requestVars == <<pc, keys, result, wait, blockers, watched, age>>
limitVars == <<count, ttl, requestVars, admitted>>

NoResult == [exceeded |-> FALSE, seconds |-> 0]
NoResults == [k \in Keys |-> NoResult]
NoneAdmitted == [a \in 0 .. Window - 1 |-> 0]
Less(n) == IF n = 0 THEN 0 ELSE n - 1
Minimum(S) == CHOOSE n \in S : \A m \in S : n <= m
Maximum(S) == CHOOSE n \in S : \A m \in S : m <= n
Ages == 0 .. Window - 1  \* what was counted longer ago is forgotten

TypeOK ==
  /\ count \in [Keys -> Nat] /\ \A k \in Keys : count[k] <= Limit(k) + 1
  /\ ttl \in [Keys -> 0 .. Window]
  /\ pc \in [Requests -> {"idle", "ip", "subject", "answer", "told"}]
  /\ keys \in Senders
  /\ result \in [Requests -> [Keys -> [exceeded : BOOLEAN, seconds : Nat]]]
  /\ wait \in [Requests -> Nat]
  /\ blockers \in [Requests -> SUBSET Keys]
  /\ watched \in Watched
  /\ age \in [Requests -> 0 .. Window]
  /\ admitted \in [Ages -> Nat]

LimitInit ==
  /\ count = [k \in Keys |-> 0] /\ ttl = [k \in Keys |-> 0]
  /\ pc = [p \in Requests |-> "idle"]
  /\ keys \in Senders
  /\ result = [p \in Requests |-> NoResults]
  /\ wait = [p \in Requests |-> 0]
  /\ blockers = [p \in Requests |-> {}]
  /\ watched \in Watched
  /\ age = [p \in Requests |-> Window]
  /\ admitted = NoneAdmitted

-----------------------------------------------------------------------------
(* Redis: a missing key counts from 1 and expires a window later.           *)
Counted(k) == IF count[k] <= Limit(k) THEN count[k] + 1 ELSE count[k]

AlwaysExpire(k) == Window  \* renews the window with every request
ExpiresIn(k) == IF count[k] = 0 THEN Window ELSE ttl[k]

(* TTL rounds to the nearest second.                                        *)
Seconds(ticks) == (2 * ticks + TicksPerSecond) \div (2 * TicksPerSecond)

(* The script of consumeFixedWindow, atomic in Redis.                       *)
ConsumeFixedWindow(k) ==
  /\ count' = [count EXCEPT ![k] = Counted(k)]
  /\ ttl' = [ttl EXCEPT ![k] = ExpiresIn(k)]

Exceeds(k) == Counted(k) > Limit(k)

Consume(p, k) ==
  /\ ConsumeFixedWindow(k)
  /\ result' = [result EXCEPT ![p][k] =
                  IF Exceeds(k) THEN [exceeded |-> TRUE, seconds |-> Seconds(ExpiresIn(k))]
                                ELSE NoResult]
  /\ blockers' = [blockers EXCEPT ![p] = IF Exceeds(k) THEN @ \cup {k} ELSE @]
  /\ age' = IF k = watched THEN [age EXCEPT ![p] = 0] ELSE age

-----------------------------------------------------------------------------
Goto(p, there) == pc' = [pc EXCEPT ![p] = there]
Forget(p) ==
  /\ result' = [result EXCEPT ![p] = NoResults]
  /\ age' = [age EXCEPT ![p] = Window]
Unblock(p) == blockers' = [blockers EXCEPT ![p] = {}]

(* A client sends a request, whether or not it was told to wait.            *)
Submit(p) ==
  /\ pc[p] \in {"idle", "told"}
  /\ Goto(p, "ip")
  /\ wait' = [wait EXCEPT ![p] = 0]
  /\ Unblock(p)
  /\ UNCHANGED <<count, ttl, keys, result, age, admitted, watched>>

CountAddress(p) ==
  /\ pc[p] = "ip"
  /\ Consume(p, keys[p].ip)
  /\ Goto(p, "subject")
  /\ UNCHANGED <<keys, wait, watched, admitted>>

CountSubject(p) ==
  /\ pc[p] = "subject"
  /\ Consume(p, keys[p].subject)
  /\ Goto(p, "answer")
  /\ UNCHANGED <<keys, wait, watched, admitted>>

(* RATE_LIMIT_UNAVAILABLE: one of the two scripts failed or its answer was  *)
(* lost; the other may have run all the same.                               *)
Fail(p) ==
  /\ pc[p] \in {"ip", "subject", "answer"}
  /\ Goto(p, "idle")
  /\ Forget(p)
  /\ \/ pc[p] = "ip" /\ ConsumeFixedWindow(keys[p].subject)
     \/ UNCHANGED <<count, ttl>>
  /\ Unblock(p)
  /\ UNCHANGED <<keys, wait, watched, admitted>>

ExceededSubject(p) == {k \in {keys[p].subject} : result[p][k].exceeded}
Exceeded(p) == {k \in {keys[p].ip, keys[p].subject} : result[p][k].exceeded}

Admit(p) ==
  /\ pc[p] = "answer" /\ Exceeded(p) = {}
  /\ Goto(p, "idle")
  /\ Forget(p)
  /\ admitted' = IF watched \in {keys[p].ip, keys[p].subject} /\ age[p] \in Ages
                   THEN [admitted EXCEPT ![age[p]] = @ + 1] ELSE admitted
  /\ Unblock(p)
  /\ UNCHANGED <<count, ttl, keys, wait, watched>>

(* AUTH_RATE_LIMIT_EXCEEDED: Retry-After is the longest of the times that   *)
(* the exceeded counters have left.                                         *)
RetryAfterShortest(p) == Minimum({result[p][k].seconds : k \in Exceeded(p)})
RetryAfter(p) == Maximum({result[p][k].seconds : k \in Exceeded(p)})

Reject(p) ==
  /\ pc[p] = "answer" /\ Exceeded(p) # {}
  /\ Goto(p, "told")
  /\ Forget(p)
  /\ wait' = [wait EXCEPT ![p] = TicksPerSecond * RetryAfter(p)]
  /\ UNCHANGED <<count, ttl, keys, blockers, admitted, watched>>

-----------------------------------------------------------------------------
(* Time passes for every key, and for the clients that wait.                *)
Tick ==
  /\ ttl' = [k \in Keys |-> Less(ttl[k])]
  /\ count' = [k \in Keys |-> IF ttl[k] <= 1 THEN 0 ELSE count[k]]
  /\ wait' = [p \in Requests |-> Less(wait[p])]
  /\ blockers' = [p \in Requests |-> {k \in blockers[p] : ttl[k] > 1}]
  /\ age' = [p \in Requests |-> IF age[p] = Window THEN Window ELSE age[p] + 1]
  /\ admitted' = [a \in Ages |-> IF a = 0 THEN 0 ELSE admitted[a - 1]]
  /\ UNCHANGED <<pc, keys, result, watched>>

(* Redis fails and comes back empty; what it had counted is no longer       *)
(* limited.  While it is away, requests fail, and the next one connects.    *)
LoseCounters ==
  /\ count' = [k \in Keys |-> 0] /\ ttl' = [k \in Keys |-> 0]
  /\ blockers' = [p \in Requests |-> {}]
  /\ age' = [p \in Requests |-> Window]
  /\ admitted' = NoneAdmitted
  /\ UNCHANGED <<pc, keys, result, wait, watched>>

LimitNext ==
  \/ \E p \in Requests : \/ Submit(p) \/ CountAddress(p) \/ CountSubject(p)
                         \/ Fail(p) \/ Admit(p) \/ Reject(p)
  \/ Tick
  \/ LoseCounters

LimitSpec == LimitInit /\ [][LimitNext]_limitVars

(* Time does not stop.                                                      *)
FairLimitSpec == LimitSpec /\ WF_limitVars(Tick)

-----------------------------------------------------------------------------
(***************************************************************************)
(* Properties                                                              *)
(***************************************************************************)

(* Two windows meet: a burst at the end of one and another at the start of  *)
(* the next are together less than twice the maximum.  No more requests that*)
(* were counted within a window's length are admitted, whatever comes       *)
(* between the scripts and whichever of them fail, unless Redis loses its   *)
(* data.                                                                    *)
BurstsAreBounded ==
  FoldFunction(LAMBDA m, n : m + n, 0, admitted) <= 2 * Limit(watched) - 1

(* "Try again later" (rate-limit.guard.ts:88): a client that waits as long  *)
(* as Retry-After says, and at most half a second longer since TTL rounds,  *)
(* is no longer held by the counters that stopped it, however many requests *)
(* came meanwhile.                                                          *)
RetryAfterSuffices ==
  \A p \in Requests : pc[p] = "told" =>
    \A k \in blockers[p] : 2 * (ttl[k] - wait[p]) <= TicksPerSecond

(* A counter, whichever is watched, lapses again and again, also while      *)
(* requests that exceed it keep coming: nobody is locked out for good.      *)
CountersLapse == []<>(count[watched] = 0)
=============================================================================
