------------------------------- MODULE LocalTime -------------------------------
(***************************************************************************)
(* TimezoneService: from a wall-clock time to an instant.  Times count     *)
(* units of which Day make a day; a wall-clock time is the instant at which*)
(* a clock at offset 0 shows it.                                           *)
(*                                                                         *)
(* A zone is what Luxon sees of it around one change of its offset.  The   *)
(* two operators of Luxon that the service calls are modelled as it        *)
(* computes them, since both guess: one from the offset in force now, the  *)
(* other from the offsets a day before and a day after.                    *)
(***************************************************************************)
EXTENDS Integers, FiniteSets

CONSTANT Day

ASSUME DayAssumption == Day \in Nat \ {0}

(* The offset changes from before to after at instant at.                   *)
Zone == [at : Int, before : Int, after : Int]

Offset(z, t) == IF t < z.at THEN z.before ELSE z.after

(* What a clock of the zone shows at an instant (toFormat).                 *)
WallClock(z, t) == t + Offset(z, t)

(* DateTime.fromFormat reads a wall-clock time with the offset in force now,*)
(* then corrects it at most twice; between two offsets it takes the larger. *)
FromWallClock(z, local, now) ==
  LET guess == Offset(z, now)
      second == Offset(z, local - guess)
      third == Offset(z, local - second)
  IN  IF second = guess \/ third = second
        THEN local - second
        ELSE local - (IF second < third THEN second ELSE third)

(* getPossibleOffsets                                                       *)
PossibleInstants(z, local, resolved) ==
  LET earlier == Offset(z, local - Offset(z, local - Day))
      later == Offset(z, local - Offset(z, local + Day))
  IN  IF earlier = later THEN {resolved} ELSE {local - earlier, local - later}

Earliest(S) == CHOOSE t \in S : \A u \in S : t <= u
Latest(S) == CHOOSE t \in S : \A u \in S : u <= t

OverlapPolicies == {"EARLIER", "LATER"}
NoPolicy == "NONE"

SelectGuessed(instants, policy, resolved) == resolved  \* ignores the policy
SelectOverlap(instants, policy, resolved) ==
  IF policy = "LATER" THEN Latest(instants) ELSE Earliest(instants)

Resolved(kind, instant, offset) == [kind |-> kind, instant |-> instant, offset |-> offset]

(* resolveLocalDateTime: a wall-clock time that does not read back as itself*)
(* does not exist, and one that exists twice needs a policy.                *)
ResolveLocalDateTime(z, local, policy, now) ==
  LET resolved == FromWallClock(z, local, now)
      instants == PossibleInstants(z, local, resolved)
      selected == SelectOverlap(instants, policy, resolved)
  IN  IF WallClock(z, resolved) # local THEN Resolved("gap", 0, 0)
      ELSE IF Cardinality(instants) > 1 /\ policy = NoPolicy THEN Resolved("ambiguous", 0, 0)
      ELSE Resolved("instant", selected, Offset(z, selected))

(* formatLocalDateTimeAtOffset                                              *)
WallClockAtOffset(t, offset) == t + offset

(* The instants at which a clock of the zone shows a wall-clock time: the   *)
(* definition that the guesses above have to meet.                          *)
InstantsOf(z, local) == {t \in {local - z.before, local - z.after} : WallClock(z, t) = local}

(* The reference for a resolution: a gap if no instant shows the time, an   *)
(* ambiguity if two do and no policy is given, else the instant it selects. *)
IsExact(r, z, instants, policy) ==
  /\ r.kind = "gap" <=> instants = {}
  /\ r.kind = "ambiguous" <=> Cardinality(instants) > 1 /\ policy = NoPolicy
  /\ r.kind = "instant" =>
       /\ r.instant \in instants
       /\ r.offset = Offset(z, r.instant)
       /\ \A t \in instants : IF policy = "LATER" THEN t <= r.instant ELSE r.instant <= t
=============================================================================
