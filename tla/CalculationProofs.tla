--------------------------- MODULE CalculationProofs ---------------------------
(***************************************************************************)
(* Theorems about what the system calculates, for every input: the split   *)
(* of a price, the instant of a wall-clock time, the occurrences of a      *)
(* recurring schedule, and the counters that limit a rate.  The two        *)
(* machines whose state is little more than such a calculation and the     *)
(* clock, RecurringSchedules and RateLimit, have their proofs here too.    *)
(***************************************************************************)
EXTENDS CommissionSnapshot, RecurringSchedules, RateLimit, Sums

\* Truncating division by the basis points.
LEMMA Division ==
    ASSUME NEW n \in Nat
    PROVE  /\ n \div 10000 \in Nat
           /\ 10000 * (n \div 10000) <= n
           /\ n < 10000 * (n \div 10000) + 10000
OBVIOUS

\* A rate never takes more than the whole.
LEMMA Product ==
    ASSUME NEW gross \in Nat, NEW rate \in 0..10000
    PROVE  gross * rate \in Nat /\ gross * rate <= gross * 10000
OBVIOUS

\* For every amount and rate, the commission is the nearest whole number of
\* minor units, and halves are rounded up.
THEOREM CommissionIsNearest ==
    ASSUME NEW gross, NEW rate, IsSnapshotted(gross, rate)
    PROVE  /\ CommissionAmount(gross, rate) \in Nat
           /\ IsNearest(CommissionAmount(gross, rate), gross, rate)
<1>1. gross \in Nat /\ rate \in 0..10000
  BY MaxBigintAssumption DEF IsSnapshotted, BasisPoints
<1>2. gross * rate \in Nat
  BY <1>1, Product
<1> DEFINE n == gross * rate + 5000
<1>3. n \in Nat
  BY <1>2
<1>4. /\ n \div 10000 \in Nat
      /\ 10000 * (n \div 10000) <= n
      /\ n < 10000 * (n \div 10000) + 10000
  BY <1>3, Division
<1> QED
  BY <1>2, <1>4 DEF CommissionAmount, IsNearest, BasisPoints

\* Nothing is lost or made up: the two shares are amounts, and their sum is
\* the price.
THEOREM SnapshotSplits ==
    ASSUME NEW gross, NEW rate, IsSnapshotted(gross, rate)
    PROVE  LET s == Snapshot(gross, rate)
           IN  /\ s.commission \in 0..gross
               /\ s.providerNet \in 0..gross
               /\ s.commission + s.providerNet = gross
<1>1. gross \in Nat /\ rate \in 0..10000
  BY MaxBigintAssumption DEF IsSnapshotted, BasisPoints
<1>2. gross * rate \in Nat /\ gross * rate <= gross * 10000
  BY <1>1, Product
<1> DEFINE c == CommissionAmount(gross, rate)
<1>3. c \in Nat /\ IsNearest(c, gross, rate)
  BY CommissionIsNearest
<1>4. 10000 * c <= gross * rate + 5000
  BY <1>2, <1>3 DEF IsNearest, BasisPoints
<1>5. c <= gross
  <2> DEFINE p == gross * rate
  <2>1. p \in Nat /\ p <= gross * 10000 /\ 10000 * c <= p + 5000
    BY <1>2, <1>4
  <2> HIDE DEF p, c
  <2> QED
    BY <1>1, <1>3, <2>1
<1> QED
  BY <1>1, <1>3, <1>5 DEF Snapshot

\* A larger price never earns a smaller commission, nor the provider less.
THEOREM SharesGrow ==
    ASSUME NEW gross, NEW larger, NEW rate,
           IsSnapshotted(gross, rate), IsSnapshotted(larger, rate), gross <= larger
    PROVE  /\ Snapshot(gross, rate).commission <= Snapshot(larger, rate).commission
           /\ Snapshot(gross, rate).providerNet <= Snapshot(larger, rate).providerNet
<1>1. gross \in Nat /\ larger \in Nat /\ rate \in 0..10000
  BY MaxBigintAssumption DEF IsSnapshotted, BasisPoints
<1> DEFINE c == CommissionAmount(gross, rate)
           d == CommissionAmount(larger, rate)
           more == larger - gross
<1>2. more \in Nat /\ larger = gross + more
  BY <1>1
<1> HIDE DEF more
<1>3. more * rate \in Nat /\ more * rate <= more * 10000
  BY <1>1, <1>2, Product
<1>4. gross * rate \in Nat /\ larger * rate = gross * rate + more * rate
  BY <1>1, <1>2, Product
<1>5. /\ c \in Nat /\ IsNearest(c, gross, rate)
      /\ d \in Nat /\ IsNearest(d, larger, rate)
  BY CommissionIsNearest
<1>6. /\ 10000 * c - gross * rate <= 5000 /\ gross * rate - 10000 * c < 5000
      /\ 10000 * d - larger * rate <= 5000 /\ larger * rate - 10000 * d < 5000
  BY <1>5 DEF IsNearest, BasisPoints
<1>7. c <= d
  <2> DEFINE p == gross * rate
             q == more * rate
  <2>1. p \in Nat /\ q \in Nat /\ larger * rate = p + q
    BY <1>3, <1>4
  <2>2. 10000 * c - p <= 5000 /\ (p + q) - 10000 * d < 5000
    BY <1>6, <2>1
  <2> HIDE DEF p, q, c, d
  <2> QED
    BY <1>5, <2>1, <2>2
<1>8. gross - c <= larger - d
  <2> DEFINE p == gross * rate
             q == more * rate
  <2>1. p \in Nat /\ q \in Nat /\ q <= more * 10000 /\ larger * rate = p + q
    BY <1>3, <1>4
  <2>2. p - 10000 * c < 5000 /\ 10000 * d - (p + q) <= 5000
    BY <1>6, <2>1
  <2> HIDE DEF p, q, c, d
  <2> QED
    BY <1>1, <1>2, <1>5, <2>1, <2>2
<1> QED
  BY <1>7, <1>8 DEF Snapshot

-----------------------------------------------------------------------------
\* A wall-clock time around one change of the offset

\* Whatever the offset is now, the guess of Luxon is one of the two candidates,
\* and it reads back as itself exactly if some instant does.
LEMMA GuessReadsBack ==
    ASSUME NEW z \in Zone, NEW local \in Int, NEW moment \in Int
    PROVE  LET guess == FromWallClock(z, local, moment)
           IN  /\ guess \in {local - z.before, local - z.after}
               /\ WallClock(z, guess) = local <=> InstantsOf(z, local) # {}
<1>1. z.at \in Int /\ z.before \in Int /\ z.after \in Int
  BY DEF Zone
<1>2. FromWallClock(z, local, moment) \in {local - z.before, local - z.after}
  BY <1>1 DEF FromWallClock, Offset
<1>3. ASSUME InstantsOf(z, local) # {}
      PROVE  WallClock(z, FromWallClock(z, local, moment)) = local
  BY <1>1, <1>3 DEF FromWallClock, Offset, InstantsOf, WallClock
<1>4. ASSUME WallClock(z, FromWallClock(z, local, moment)) = local
      PROVE  InstantsOf(z, local) # {}
  BY <1>2, <1>4 DEF InstantsOf
<1> QED
  BY <1>2, <1>3, <1>4

\* The offsets a day before and a day after are those before and after the
\* change, if the change is near enough to matter: offsets are less than a day.
LEMMA PossibleInstantsAreInstants ==
    ASSUME NEW z \in Zone, NEW local \in Int, NEW moment \in Int,
           z.before \in -Day..Day, z.after \in -Day..Day, InstantsOf(z, local) # {}
    PROVE  PossibleInstants(z, local, FromWallClock(z, local, moment)) = InstantsOf(z, local)
<1>1. z.at \in Int /\ z.before \in Int /\ z.after \in Int /\ Day \in Nat
  BY DayAssumption DEF Zone
<1> DEFINE guess == FromWallClock(z, local, moment)
           earlier == Offset(z, local - Offset(z, local - Day))
           later == Offset(z, local - Offset(z, local + Day))
<1>2. guess \in InstantsOf(z, local)
  BY GuessReadsBack DEF InstantsOf
<1>3. earlier \in {z.before, z.after} /\ later \in {z.before, z.after}
  BY <1>1 DEF Offset
<1>4. CASE earlier = later
  <2>1. \A t \in InstantsOf(z, local) : t = local - earlier
    BY <1>1, <1>3, <1>4 DEF InstantsOf, WallClock, Offset
  <2>2. InstantsOf(z, local) = {guess}
    BY <1>2, <2>1
  <2> QED
    BY <1>4, <2>2 DEF PossibleInstants
<1>5. CASE earlier # later
  <2>1. {local - earlier, local - later} = {local - z.before, local - z.after}
    BY <1>1, <1>3, <1>5
  <2>2. \/ WallClock(z, local - z.before) = local
        \/ WallClock(z, local - z.after) = local
    BY DEF InstantsOf
  <2>3. WallClock(z, local - z.before) = local /\ WallClock(z, local - z.after) = local
    BY <1>1, <1>5, <2>2 DEF WallClock, Offset
  <2>4. InstantsOf(z, local) = {local - z.before, local - z.after}
    BY <2>3 DEF InstantsOf
  <2> QED
    BY <1>5, <2>1, <2>4 DEF PossibleInstants
<1> QED
  BY <1>4, <1>5

\* Resolution is exact, wherever the change of the offset is, however large it
\* is below a day, and whatever the offset was when the request came: a time is
\* refused as nonexistent exactly if no instant shows it, as ambiguous exactly
\* if two do and no policy was given, and otherwise it is the earliest or the
\* latest of the instants that show it, with the offset in force there.
THEOREM ResolutionIsExact ==
    ASSUME NEW z \in Zone, NEW local \in Int, NEW moment \in Int,
           NEW policy \in OverlapPolicies \cup {NoPolicy},
           z.before \in -Day..Day, z.after \in -Day..Day
    PROVE  IsExact(ResolveLocalDateTime(z, local, policy, moment), z,
                   InstantsOf(z, local), policy)
<1> DEFINE guess == FromWallClock(z, local, moment)
           possible == PossibleInstants(z, local, guess)
           instants == InstantsOf(z, local)
           selected == SelectOverlap(possible, policy, guess)
           r == ResolveLocalDateTime(z, local, policy, moment)
<1>1. z.at \in Int /\ z.before \in Int /\ z.after \in Int
  BY DEF Zone
<1>2. WallClock(z, guess) = local <=> instants # {}
  BY GuessReadsBack
<1>3. CASE instants = {}
  <2>1. r = Resolved("gap", 0, 0)
    BY <1>2, <1>3 DEF ResolveLocalDateTime
  <2>2. ~(Cardinality(instants) > 1)
    BY <1>3, FS_EmptySet
  <2> HIDE DEF r, instants
  <2>3. IsExact(r, z, instants, policy)
    BY <1>3, <2>1, <2>2 DEF Resolved, IsExact
  <2> QED
    BY <2>3 DEF r, instants
<1>4. CASE instants # {}
  <2>1. possible = instants
    BY <1>4, PossibleInstantsAreInstants
  <2>2. r = IF Cardinality(instants) > 1 /\ policy = NoPolicy
            THEN Resolved("ambiguous", 0, 0)
            ELSE Resolved("instant", selected, Offset(z, selected))
    BY <1>2, <1>4, <2>1 DEF ResolveLocalDateTime
  <2>3. selected = IF policy = "LATER" THEN Latest(instants) ELSE Earliest(instants)
    BY <2>1 DEF SelectOverlap
  <2>4. /\ \E t \in instants : \A u \in instants : t <= u
        /\ \E t \in instants : \A u \in instants : u <= t
    BY <1>1, <1>4 DEF InstantsOf
  <2>5. /\ Earliest(instants) \in instants
        /\ \A u \in instants : Earliest(instants) <= u
    BY <2>4 DEF Earliest
  <2>6. /\ Latest(instants) \in instants
        /\ \A u \in instants : u <= Latest(instants)
    BY <2>4 DEF Latest
  <2> HIDE DEF r, instants, selected
  <2>7. ASSUME Cardinality(instants) > 1 /\ policy = NoPolicy
        PROVE  IsExact(r, z, instants, policy)
    BY <1>4, <2>2, <2>7 DEF Resolved, IsExact
  <2>8. ASSUME ~(Cardinality(instants) > 1 /\ policy = NoPolicy)
        PROVE  IsExact(r, z, instants, policy)
    BY <1>4, <2>2, <2>3, <2>5, <2>6, <2>8 DEF Resolved, IsExact
  <2>9. IsExact(r, z, instants, policy)
    BY <2>7, <2>8
  <2> QED
    BY <2>9 DEF r, instants
<1> QED
  BY <1>3, <1>4

-----------------------------------------------------------------------------
\* Whole blocks of i are counted by division: the remainder tells them apart.
LEMMA Multiples ==
    ASSUME NEW n \in Nat, NEW i \in Nat \ {0}
    PROVE  n % i = 0 <=> \E k \in Nat : n = i * k
<1>1. PICK q \in Int : q = n \div i
  OBVIOUS
<1>2. n % i = n - i * q /\ n % i \in 0 .. i - 1
  BY <1>1
<1>3. ASSUME NEW k \in Nat, n = i * k PROVE n % i = 0
  <2>1. n % i = i * (k - q)
    BY <1>2, <1>3
  <2>2. CASE k - q >= 1
    <3>1. i * (k - q) >= i
      BY <2>2
    <3> QED BY <1>2, <2>1, <3>1
  <2>3. CASE k - q <= -1
    <3>1. i * (k - q) <= -i
      BY <2>3
    <3> QED BY <1>2, <2>1, <3>1
  <2>4. CASE k - q = 0
    BY <2>1, <2>4
  <2> QED BY <2>2, <2>3, <2>4
<1>4. ASSUME n % i = 0 PROVE \E k \in Nat : n = i * k
  <2>1. n = i * q
    BY <1>2, <1>4
  <2>2. q >= 0
    BY <2>1
  <2> QED BY <2>1, <2>2
<1> QED BY <1>3, <1>4

LEMMA Weeks ==
    ASSUME NEW n \in Nat
    PROVE  /\ n \div 7 \in Nat
           /\ \A m \in Nat : 7 * m <= n /\ n <= 7 * m + 6 <=> m = n \div 7
OBVIOUS

\* The dates that the generation enumerates are those of the definition, in
\* every interval-th block of seven days.
THEOREM OccurrencesAreDates ==
    ASSUME NEW input \in Inputs, NEW through \in input.first .. input.last
    PROVE  OccurrenceDates(input, through) = {d \in Dates(input) : d <= through}
<1>1. /\ input.first \in Nat /\ input.last \in Nat
      /\ input.interval \in Nat \ {0}
  BY InputsAssumption DEF Input
<1> DEFINE EveryInterval(d) == ((d - input.first) \div 7) % input.interval = 0
           InBlock(d) == \E k \in 0 .. input.last - input.first :
                           d \in (input.first + 7 * input.interval * k)
                                 .. (input.first + 7 * input.interval * k + 6)
<1> SUFFICES ASSUME NEW d \in input.first .. input.last
             PROVE  EveryInterval(d) <=> InBlock(d)
  <2>1. OccurrenceDates(input, through) =
          {d \in input.first .. through : EveryInterval(d) /\ (d % 7) + 1 \in input.weekdays}
    BY DEF OccurrenceDates, IsOccurrenceDate, Weekday
  <2>2. Dates(input) =
          {d \in input.first .. input.last : (d % 7) + 1 \in input.weekdays /\ InBlock(d)}
    BY DEF Dates
  <2> HIDE DEF EveryInterval, InBlock
  <2> QED BY <1>1, <2>1, <2>2
<1> DEFINE n == d - input.first
           i == input.interval
           w == n \div 7
<1>2. n \in Nat /\ n <= input.last - input.first
  BY <1>1
<1>3. w \in Nat /\ \A m \in Nat : 7 * m <= n /\ n <= 7 * m + 6 <=> m = w
  BY <1>2, Weeks
<1>4. w <= n
  BY <1>2, <1>3
<1>5. w % i = 0 <=> \E k \in Nat : w = i * k
  BY <1>1, <1>3, Multiples
<1>6. ASSUME NEW k \in Nat
      PROVE  /\ i * k \in Nat
             /\ k <= i * k
             /\ w = i * k <=> d \in (input.first + 7 * i * k) .. (input.first + 7 * i * k + 6)
  <2>1. i * k \in Nat /\ k <= i * k
    BY <1>1
  <2>2. PICK m \in Nat : m = i * k
    BY <2>1
  <2>3. w = m <=> 7 * m <= n /\ n <= 7 * m + 6
    BY <1>3
  <2>4. 7 * m = 7 * i * k
    BY <1>1, <2>2
  <2> HIDE DEF w, i
  <2> QED BY <1>1, <2>1, <2>2, <2>3, <2>4
<1>7. \A k \in Nat : w = i * k => k \in 0 .. input.last - input.first
  <2> SUFFICES ASSUME NEW k \in Nat, w = i * k PROVE k <= input.last - input.first
    BY <1>1
  <2>1. k <= w
    BY <1>6
  <2> HIDE DEF w, n
  <2> QED BY <1>1, <1>2, <1>3, <1>4, <2>1
<1> HIDE DEF w, i
<1> QED BY <1>5, <1>6, <1>7 DEF w, i

-----------------------------------------------------------------------------
\* Recurring schedules

ScheduleRow == [input : Inputs, zone : Zones]
SessionRow == [asked : Int, start : Int, end : Int, zone : Zones, offset : Int,
               endOffset : Int, cutoff : Nat, cutoffAt : Int, recurring : BOOLEAN]

RecurringTypeOK ==
    /\ now \in Nat
    /\ zone \in Zones
    /\ schedule \in ScheduleRow \cup {None}
    /\ sessions \subseteq SessionRow

\* The unique index on the start of a session.
StartsAreUnique == \A s, r \in sessions : s.start = r.start => s = r

\* A materialized session keeps to its schedule: the zone it was created in, one
\* of its dates, and the instant that its policy selects on that date.
KeepsToSchedule(s) ==
    /\ schedule # None
    /\ s.zone = schedule.zone
    /\ \E d \in Dates(schedule.input) :
         /\ s.asked = LocalStart(schedule.input, d)
         /\ s.start \in Wanted(schedule.input, schedule.zone, d)

RecurringInv ==
    /\ RecurringTypeOK
    /\ StartsAreUnique
    /\ SnapshotsAgree
    /\ \A s \in Materialized : KeepsToSchedule(s)

LEMMA ZonesAreZones ==
    ASSUME NEW z \in Zones
    PROVE  /\ z \in Zone /\ z.at \in Int /\ z.before \in Int /\ z.after \in Int
           /\ z.before \in -Day..Day /\ z.after \in -Day..Day
           /\ \A t : Offset(z, t) \in Int
BY ZonesAssumption DEF Zone, Offset

LEMMA InputColumns ==
    ASSUME NEW input \in Inputs
    PROVE  /\ input.startTime \in 0 .. Day - 1 /\ input.duration \in 1 .. Day
           /\ input.cutoff \in Nat /\ input.policy \in OverlapPolicies
           /\ input.first \in Nat /\ input.last \in Nat
           /\ input.interval \in Nat \ {0}
BY InputsAssumption DEF Input

\* What a resolution to an instant gives a session.
LEMMA ResolvedSnapshot ==
    ASSUME NEW z \in Zones, NEW local \in Int, NEW at \in Nat,
           NEW policy \in OverlapPolicies \cup {NoPolicy},
           NEW r, r = ResolveLocalDateTime(z, local, policy, at), r.kind = "instant"
    PROVE  /\ r.instant \in Int /\ r.offset \in Int
           /\ r.instant \in InstantsOf(z, local)
           /\ WallClockAtOffset(r.instant, r.offset) = local
<1>1. IsExact(r, z, InstantsOf(z, local), policy)
  BY ZonesAreZones, ResolutionIsExact
<1>2. /\ r.instant \in InstantsOf(z, local)
      /\ r.offset = Offset(z, r.instant)
  BY <1>1 DEF IsExact
<1>3. InstantsOf(z, local) \subseteq Int
  BY ZonesAreZones DEF InstantsOf
<1> QED
  BY <1>2, <1>3, ZonesAreZones DEF InstantsOf, WallClock, WallClockAtOffset

\* For a date of the schedule, whenever the request arrives: the occurrence is a
\* gap exactly if no instant is wanted, and otherwise starts at the one wanted.
LEMMA OccurrenceIsWanted ==
    ASSUME RecurringTypeOK, schedule # None, NEW d \in Nat
    PROVE  LET input == schedule.input
               r == Occurrence(d).resolved
           IN  /\ r.kind \in {"gap", "instant"}
               /\ r.kind = "gap" <=> Wanted(input, schedule.zone, d) = {}
               /\ r.kind = "instant" => Wanted(input, schedule.zone, d) = {r.instant}
<1> DEFINE input == schedule.input
           z == schedule.zone
           local == LocalStart(input, d)
           instants == InstantsOf(z, local)
           r == ResolveLocalDateTime(z, local, input.policy, now)
<1>1. input \in Inputs /\ z \in Zones /\ now \in Nat
  BY DEF RecurringTypeOK, ScheduleRow
<1>2. local \in Int
  BY <1>1, InputColumns, DayAssumption DEF LocalStart
<1>3. input.policy \in OverlapPolicies /\ input.policy # NoPolicy
  BY <1>1, InputColumns DEF OverlapPolicies, NoPolicy
<1>4. IsExact(r, z, instants, input.policy)
  BY <1>1, <1>2, <1>3, ZonesAreZones, ResolutionIsExact
<1>5. r.kind \in {"gap", "ambiguous", "instant"}
  BY DEF ResolveLocalDateTime, Resolved
<1>6. r.kind # "ambiguous" /\ (r.kind = "gap" <=> instants = {})
  BY <1>3, <1>4 DEF IsExact
<1>7. instants \subseteq Int
  BY <1>1, <1>2, ZonesAreZones DEF InstantsOf
<1>8. ASSUME r.kind = "instant" PROVE Wanted(input, z, d) = {r.instant}
  <2>1. /\ r.instant \in instants
        /\ \A t \in instants : IF input.policy = "LATER" THEN t <= r.instant ELSE r.instant <= t
    BY <1>4, <1>8 DEF IsExact
  <2>2. Wanted(input, z, d) = IF input.policy = "LATER"
                                THEN {t \in instants : \A u \in instants : u <= t}
                                ELSE {t \in instants : \A u \in instants : t <= u}
    BY DEF Wanted
  <2> HIDE DEF r, instants
  <2>3. PICK i \in instants : i = r.instant
    BY <2>1
  <2>4. CASE input.policy = "LATER"
    <3>1. \A t \in instants : t <= i
      BY <2>1, <2>3, <2>4
    <3>2. \A t \in instants : (\A u \in instants : u <= t) <=> t = i
      BY <1>7, <3>1
    <3> QED
      BY <2>2, <2>3, <2>4, <3>2
  <2>5. CASE input.policy # "LATER"
    <3>1. \A t \in instants : i <= t
      BY <2>1, <2>3, <2>5
    <3>2. \A t \in instants : (\A u \in instants : t <= u) <=> t = i
      BY <1>7, <3>1
    <3> QED
      BY <2>2, <2>3, <2>5, <3>2
  <2> QED
    BY <2>4, <2>5
<1>9. instants = {} => Wanted(input, z, d) = {}
  BY DEF Wanted
<1>10. Occurrence(d).resolved = r
  BY DEF Occurrence
<1> HIDE DEF r, instants, z, input
<1>11. /\ r.kind \in {"gap", "instant"}
       /\ r.kind = "gap" <=> Wanted(input, z, d) = {}
       /\ r.kind = "instant" => Wanted(input, z, d) = {r.instant}
  BY <1>5, <1>6, <1>8, <1>9
<1> QED
  BY <1>10, <1>11 DEF input, z

\* A session that begins where its time resolves to is shown at the time that
\* was asked for.
IsSnapshot(s) ==
    /\ WallClockAtOffset(s.start, s.offset) = s.asked
    /\ WallClockAtOffset(s.end, s.endOffset) = WallClock(s.zone, s.end)
    /\ s.start \in InstantsOf(s.zone, s.asked)
    /\ s.cutoffAt = s.start - s.cutoff

LEMMA NewRow ==
    ASSUME NEW z \in Zones, NEW local \in Int, NEW at \in Nat,
           NEW policy \in OverlapPolicies \cup {NoPolicy},
           ResolveLocalDateTime(z, local, policy, at).kind = "instant",
           NEW duration \in Int, NEW cutoff \in Nat, NEW recurring \in BOOLEAN
    PROVE  LET r == ResolveLocalDateTime(z, local, policy, at)
               s == Row(z, local, r, duration, cutoff, recurring)
           IN  /\ s \in SessionRow /\ IsSnapshot(s)
               /\ s.start = r.instant /\ s.asked = local /\ s.zone = z
               /\ s.recurring = recurring
<1> DEFINE r == ResolveLocalDateTime(z, local, policy, at)
           s == Row(z, local, r, duration, cutoff, recurring)
<1>1. /\ r.instant \in Int /\ r.offset \in Int
      /\ r.instant \in InstantsOf(z, local)
      /\ WallClockAtOffset(r.instant, r.offset) = local
  BY ResolvedSnapshot
<1> HIDE DEF r
<1>2. s = [asked |-> local, start |-> r.instant, end |-> r.instant + duration,
           zone |-> z, offset |-> r.offset,
           endOffset |-> Offset(z, r.instant + duration),
           cutoff |-> cutoff, cutoffAt |-> r.instant - cutoff, recurring |-> recurring]
  BY DEF Row
<1>3. Offset(z, r.instant + duration) \in Int
  BY ZonesAreZones
<1>4. s \in SessionRow
  BY <1>1, <1>2, <1>3 DEF SessionRow
<1>5. WallClockAtOffset(s.end, s.endOffset) = WallClock(s.zone, s.end)
  BY <1>1, <1>2 DEF WallClockAtOffset, WallClock
<1>6. IsSnapshot(s)
  BY <1>1, <1>2, <1>5 DEF IsSnapshot
<1> QED
  BY <1>1, <1>2, <1>4, <1>6 DEF r

LEMMA CreateSessionKeeps ==
    ASSUME RecurringInv, NEW local \in WallClocks, NEW duration \in Durations,
           NEW cutoff \in Cutoffs, NEW policy \in OverlapPolicies \cup {NoPolicy},
           CreateSession(local, duration, cutoff, policy)
    PROVE  RecurringInv'
<1> USE DEF RecurringInv, RecurringTypeOK
<1> DEFINE r == ResolveLocalDateTime(zone, local, policy, now)
<1>0. PICK no \in BOOLEAN : no = FALSE
  OBVIOUS
<1> DEFINE s == Row(zone, local, r, duration, cutoff, no)
<1>1. /\ r.kind = "instant" /\ r.instant \notin Starts
      /\ sessions' = sessions \cup {s} /\ UNCHANGED <<now, zone, schedule>>
  BY <1>0 DEF CreateSession, Row
<1>2. local \in Int /\ duration \in Int /\ cutoff \in Nat
  BY WallClocksAssumption, DurationsAssumption
<1>3. s \in SessionRow /\ IsSnapshot(s) /\ s.start = r.instant /\ ~s.recurring
  BY <1>0, <1>1, <1>2, NewRow
<1> HIDE DEF r, s
<1>4. RecurringTypeOK'
  BY <1>1, <1>3
<1>5. StartsAreUnique'
  BY <1>1, <1>3 DEF StartsAreUnique, Starts
<1>6. SnapshotsAgree'
  BY <1>1, <1>3 DEF SnapshotsAgree, IsSnapshot
<1>7. \A t \in Materialized' : KeepsToSchedule(t)'
  <2>1. Materialized' = Materialized
    BY <1>1, <1>3 DEF Materialized
  <2> QED BY <1>1, <2>1 DEF KeepsToSchedule
<1> QED
  BY <1>4, <1>5, <1>6, <1>7

LEMMA UpdateSessionKeeps ==
    ASSUME RecurringInv, NEW s \in sessions, NEW local \in WallClocks \cup {None},
           NEW duration \in Durations \cup {None}, NEW cutoff \in Cutoffs \cup {None},
           NEW policy \in OverlapPolicies \cup {NoPolicy},
           UpdateSession(s, local, duration, cutoff, policy)
    PROVE  RecurringInv'
<1> DEFINE r == ResolveLocalDateTime(zone, local, policy, now)
<1>0. PICK m : m = Moved(s, local, duration, cutoff, r)
  OBVIOUS
<1>1. /\ local # None => r.kind = "instant"
      /\ s.recurring => local = None /\ duration = None
      /\ m.start \notin Starts \ {s.start}
      /\ sessions' = (sessions \ {s}) \cup {m} /\ UNCHANGED <<now, zone, schedule>>
  BY <1>0 DEF UpdateSession
<1>2. /\ local # None => local \in Int
      /\ duration # None => duration \in Int
      /\ cutoff # None => cutoff \in Nat
  BY WallClocksAssumption, DurationsAssumption
<1>3. s \in SessionRow /\ IsSnapshot(s) /\ now \in Nat /\ zone \in Zones
  BY DEF RecurringInv, RecurringTypeOK, SnapshotsAgree, IsSnapshot
<1>4. local # None => /\ r.instant \in Int /\ r.offset \in Int
                      /\ r.instant \in InstantsOf(zone, local)
                      /\ WallClockAtOffset(r.instant, r.offset) = local
  BY <1>1, <1>2, <1>3, ResolvedSnapshot
<1> HIDE DEF r
<1> DEFINE start == IF local = None THEN s.start ELSE r.instant
           z == IF local = None THEN s.zone ELSE zone
           end == start + Kept(duration, s.end - s.start)
           changes == local # None \/ duration # None
<1>5. /\ start \in Int /\ z \in Zones /\ end \in Int
      /\ Offset(z, end) \in Int /\ Kept(cutoff, s.cutoff) \in Nat
      /\ Kept(local, s.asked) \in Int
  <2>1. start \in Int /\ z \in Zones
    BY <1>3, <1>4 DEF SessionRow
  <2>2. end \in Int
    BY <1>2, <1>3, <2>1 DEF SessionRow, Kept
  <2> QED
    BY <1>2, <1>3, <2>1, <2>2, ZonesAreZones DEF SessionRow, Kept
<1>6. /\ m.asked = Kept(local, s.asked) /\ m.start = start /\ m.zone = z
      /\ m.end = IF changes THEN end ELSE s.end
      /\ m.offset = IF local = None THEN s.offset ELSE r.offset
      /\ m.endOffset = IF changes THEN Offset(z, end) ELSE s.endOffset
      /\ m.cutoff = Kept(cutoff, s.cutoff)
      /\ m.cutoffAt = IF local = None /\ cutoff = None
                         THEN s.cutoffAt ELSE start - Kept(cutoff, s.cutoff)
      /\ m.recurring = s.recurring
      /\ m = [s EXCEPT !.asked = m.asked, !.start = m.start, !.zone = m.zone, !.end = m.end,
                       !.offset = m.offset, !.endOffset = m.endOffset,
                       !.cutoff = m.cutoff, !.cutoffAt = m.cutoffAt]
  <2> DEFINE asked == Kept(local, s.asked)
             stop == IF changes THEN end ELSE s.end
             offset == IF local = None THEN s.offset ELSE r.offset
             endOffset == IF changes THEN Offset(z, end) ELSE s.endOffset
             closes == Kept(cutoff, s.cutoff)
             closesAt == IF local = None /\ cutoff = None
                           THEN s.cutoffAt ELSE start - closes
  <2>1. m = [s EXCEPT !.asked = asked, !.start = start, !.zone = z, !.offset = offset,
                      !.end = stop, !.endOffset = endOffset, !.cutoff = closes,
                      !.cutoffAt = closesAt]
    BY <1>0, <1>3 DEF Moved, SessionRow
  <2> HIDE DEF start, z, asked, stop, offset, endOffset, closes, closesAt
  <2>2. /\ m.asked = asked /\ m.start = start /\ m.zone = z /\ m.end = stop
        /\ m.offset = offset /\ m.endOffset = endOffset /\ m.cutoff = closes
        /\ m.cutoffAt = closesAt /\ m.recurring = s.recurring
    BY <1>3, <2>1 DEF SessionRow
  <2> QED
    BY <2>1, <2>2 DEF start, z, asked, stop, offset, endOffset, closes, closesAt
<1>7. m \in SessionRow
  <2>1. /\ m.asked \in Int /\ m.start \in Int /\ m.end \in Int /\ m.zone \in Zones
        /\ m.offset \in Int /\ m.endOffset \in Int /\ m.cutoff \in Nat /\ m.cutoffAt \in Int
    BY <1>3, <1>4, <1>5, <1>6 DEF SessionRow
  <2> QED
    BY <1>3, <1>6, <2>1 DEF SessionRow
<1>8. IsSnapshot(m)
  <2>1. WallClockAtOffset(m.start, m.offset) = m.asked
    BY <1>3, <1>4, <1>6 DEF IsSnapshot, Kept
  <2>2. WallClockAtOffset(m.end, m.endOffset) = WallClock(m.zone, m.end)
    BY <1>3, <1>6 DEF IsSnapshot, WallClockAtOffset, WallClock
  <2>3. m.start \in InstantsOf(m.zone, m.asked)
    BY <1>3, <1>4, <1>6 DEF IsSnapshot, Kept
  <2>4. m.cutoffAt = m.start - m.cutoff
    BY <1>3, <1>6 DEF IsSnapshot, Kept
  <2> QED
    BY <2>1, <2>2, <2>3, <2>4 DEF IsSnapshot
<1>9. RecurringTypeOK'
  BY <1>1, <1>7 DEF RecurringInv, RecurringTypeOK
<1>10. StartsAreUnique'
  BY <1>1 DEF RecurringInv, StartsAreUnique, Starts
<1>11. SnapshotsAgree'
  BY <1>1, <1>8 DEF RecurringInv, SnapshotsAgree, IsSnapshot
<1>12. \A t \in Materialized' : KeepsToSchedule(t)'
  <2>1. ASSUME NEW t \in sessions, t.recurring PROVE KeepsToSchedule(t)'
    BY <1>1, <2>1 DEF RecurringInv, Materialized, KeepsToSchedule
  <2>2. ASSUME m.recurring PROVE KeepsToSchedule(m)'
    <3>1. s.recurring /\ m.asked = s.asked /\ m.start = s.start /\ m.zone = s.zone
      BY <1>1, <1>6, <2>2 DEF Kept
    <3>2. KeepsToSchedule(s)
      BY <3>1 DEF RecurringInv, Materialized
    <3> QED
      BY <1>1, <3>1, <3>2 DEF KeepsToSchedule
  <2> QED
    BY <1>1, <2>1, <2>2 DEF Materialized
<1> QED
  BY <1>9, <1>10, <1>11, <1>12 DEF RecurringInv

LEMMA CreateScheduleKeeps ==
    ASSUME RecurringInv, NEW input \in Inputs, CreateSchedule(input)
    PROVE  RecurringInv'
<1>1. Materialized = {}
  BY DEF RecurringInv, KeepsToSchedule, CreateSchedule
<1>2. schedule' \in ScheduleRow /\ UNCHANGED <<now, zone, sessions>>
  BY DEF RecurringInv, RecurringTypeOK, CreateSchedule, ScheduleRow
<1> QED
  BY <1>1, <1>2 DEF RecurringInv, RecurringTypeOK, StartsAreUnique, SnapshotsAgree, Materialized

\* The rows that a generation makes of the dates up to its limit.
FoundRows(through) ==
    {Occurrence(d).row : d \in {e \in OccurrenceDates(schedule.input, through) :
                                  /\ Occurrence(e).resolved.kind # "gap"
                                  /\ IsInFuture(Occurrence(e).resolved, schedule.input.cutoff)}}

LEMMA GeneratedRows ==
    ASSUME RecurringInv, schedule # None,
           NEW through \in schedule.input.first .. schedule.input.last, Generate(through)
    PROVE  sessions' = sessions \cup {r \in FoundRows(through) : r.start \notin Starts}
BY DEF Generate, FoundRows

\* Each begins at the instant that its schedule wants on its date.
LEMMA GeneratedRow ==
    ASSUME RecurringInv, schedule # None, NEW d \in Dates(schedule.input),
           Occurrence(d).resolved.kind # "gap"
    PROVE  LET s == Occurrence(d).row
           IN  /\ s \in SessionRow /\ IsSnapshot(s) /\ s.recurring
               /\ s.zone = schedule.zone
               /\ s.asked = LocalStart(schedule.input, d)
               /\ s.start = Occurrence(d).resolved.instant
               /\ Wanted(schedule.input, schedule.zone, d) = {s.start}
<1> DEFINE input == schedule.input
           z == schedule.zone
           r == ResolveLocalDateTime(z, LocalStart(input, d), input.policy, now)
<1>0. PICK yes \in BOOLEAN : yes = TRUE
  OBVIOUS
<1> DEFINE s == Row(z, LocalStart(input, d), r, input.duration, input.cutoff, yes)
<1>1. Occurrence(d).row = s /\ Occurrence(d).resolved = r
  BY <1>0 DEF Occurrence
<1>2. /\ input \in Inputs /\ z \in Zones /\ now \in Nat /\ RecurringTypeOK
  BY DEF RecurringInv, RecurringTypeOK, ScheduleRow
<1>3. /\ d \in Nat /\ LocalStart(input, d) \in Int
      /\ input.duration \in Int /\ input.cutoff \in Nat
      /\ input.policy \in OverlapPolicies \cup {NoPolicy}
  BY <1>2, InputColumns, DayAssumption DEF Dates, LocalStart
<1>4. r.kind = "instant" /\ Wanted(input, z, d) = {r.instant}
  BY <1>1, <1>2, <1>3, OccurrenceIsWanted
<1>5. /\ s \in SessionRow /\ IsSnapshot(s)
      /\ s.start = r.instant /\ s.asked = LocalStart(input, d) /\ s.zone = z
      /\ s.recurring = yes
  <2> HIDE DEF input, z
  <2> QED
    BY <1>2, <1>3, <1>4, NewRow
<1> HIDE DEF r, s
<1> QED
  BY <1>0, <1>1, <1>4, <1>5

LEMMA GenerateKeeps ==
    ASSUME RecurringInv, schedule # None,
           NEW through \in schedule.input.first .. schedule.input.last, Generate(through)
    PROVE  RecurringInv'
<1> DEFINE new == {r \in FoundRows(through) : r.start \notin Starts}
<1>1. sessions' = sessions \cup new /\ UNCHANGED <<now, zone, schedule>>
  BY GeneratedRows DEF Generate
<1>2. schedule.input \in Inputs
  BY DEF RecurringInv, RecurringTypeOK, ScheduleRow
<1>3. ASSUME NEW s \in FoundRows(through)
      PROVE  /\ s \in SessionRow /\ IsSnapshot(s) /\ KeepsToSchedule(s)
  <2>1. PICK d \in OccurrenceDates(schedule.input, through) :
          Occurrence(d).resolved.kind # "gap" /\ s = Occurrence(d).row
    BY DEF FoundRows
  <2>2. d \in Dates(schedule.input)
    BY <1>2, <2>1, OccurrencesAreDates
  <2> QED
    BY <2>1, <2>2, GeneratedRow DEF KeepsToSchedule
<1>4. \A s, r \in FoundRows(through) : s.start = r.start => s = r
  <2> SUFFICES ASSUME NEW s \in FoundRows(through), NEW r \in FoundRows(through),
                      s.start = r.start
               PROVE  s = r
    OBVIOUS
  <2>1. PICK d \in OccurrenceDates(schedule.input, through) :
          Occurrence(d).resolved.kind # "gap" /\ s = Occurrence(d).row
    BY DEF FoundRows
  <2>2. PICK e \in OccurrenceDates(schedule.input, through) :
          Occurrence(e).resolved.kind # "gap" /\ r = Occurrence(e).row
    BY DEF FoundRows
  <2>3. /\ d \in Dates(schedule.input) /\ e \in Dates(schedule.input)
    BY <1>2, OccurrencesAreDates
  <2>4. /\ s.zone = schedule.zone /\ s.asked = LocalStart(schedule.input, d)
        /\ r.zone = schedule.zone /\ r.asked = LocalStart(schedule.input, e)
        /\ s \in SessionRow /\ r \in SessionRow /\ IsSnapshot(s) /\ IsSnapshot(r)
    BY <2>1, <2>2, <2>3, GeneratedRow
  <2>5. s.asked = r.asked
    BY <2>4 DEF IsSnapshot, InstantsOf
  <2>6. d \in Int /\ e \in Int /\ schedule.input.startTime \in Int
    BY <1>2, <2>3, InputColumns DEF Dates
  <2>7. d = e
    <3>1. Day * d = Day * e
      BY <2>4, <2>5, <2>6, DayAssumption DEF LocalStart
    <3> QED
      BY <2>6, <3>1, DayAssumption
  <2> QED
    BY <2>1, <2>2, <2>7
<1> HIDE DEF new
<1>5. \A s \in new : s \in FoundRows(through) /\ s.start \notin Starts
  BY DEF new
<1>6. RecurringTypeOK'
  BY <1>1, <1>3, <1>5 DEF RecurringInv, RecurringTypeOK
<1>7. StartsAreUnique'
  BY <1>1, <1>4, <1>5 DEF RecurringInv, StartsAreUnique, Starts
<1>8. SnapshotsAgree'
  BY <1>1, <1>3, <1>5 DEF RecurringInv, SnapshotsAgree, IsSnapshot
<1>9. \A t \in Materialized' : KeepsToSchedule(t)'
  <2>1. \A t : KeepsToSchedule(t) => KeepsToSchedule(t)'
    BY <1>1 DEF KeepsToSchedule
  <2> QED
    BY <1>1, <1>3, <1>5, <2>1 DEF RecurringInv, Materialized
<1> QED
  BY <1>6, <1>7, <1>8, <1>9 DEF RecurringInv

LEMMA RecurringStep == RecurringInv /\ [Next]_vars => RecurringInv'
<1> SUFFICES ASSUME RecurringInv, [Next]_vars PROVE RecurringInv'
  OBVIOUS
<1>1. CASE UNCHANGED <<zone, schedule, sessions>> /\ now' \in Nat
  BY <1>1 DEF RecurringInv, RecurringTypeOK, StartsAreUnique, SnapshotsAgree, Materialized,
     KeepsToSchedule
<1>2. CASE Wait
  BY <1>1, <1>2, MomentsAssumption DEF Wait
<1>3. ASSUME NEW z \in Zones, ChangeZone(z) PROVE RecurringInv'
  BY <1>3 DEF ChangeZone, RecurringInv, RecurringTypeOK, StartsAreUnique, SnapshotsAgree,
     Materialized, KeepsToSchedule
<1>4. CASE UNCHANGED vars
  BY <1>1, <1>4 DEF vars, RecurringInv, RecurringTypeOK
<1> QED
  BY <1>2, <1>3, <1>4, CreateSessionKeeps, UpdateSessionKeeps, CreateScheduleKeeps,
     GenerateKeeps DEF Next

\* Whatever moment a request arrives at and wherever the provider has moved, the
\* sessions are those the schedule, its zone and its policy determine.
THEOREM RecurringInvariant == Spec => []RecurringInv
<1>1. Init => RecurringInv
  BY MomentsAssumption DEF Init, RecurringInv, RecurringTypeOK, StartsAreUnique,
     SnapshotsAgree, Materialized
<1> QED
  BY <1>1, RecurringStep, PTL DEF Spec

\* After any changes of a session's start, duration and cutoff, and of the
\* provider's zone, its columns show the wall clock that was asked for.
THEOREM SnapshotsStayTrue == Spec => []SnapshotsAgree
BY RecurringInvariant, PTL DEF RecurringInv

LEMMA OncePerDate == RecurringInv => OneOccurrencePerDate
<1> SUFFICES ASSUME RecurringInv PROVE OneOccurrencePerDate
  OBVIOUS
<1>1. ASSUME NEW s \in Materialized, NEW r \in Materialized, s.asked = r.asked
      PROVE  s = r
  <2>1. KeepsToSchedule(s) /\ KeepsToSchedule(r)
    BY DEF RecurringInv
  <2>2. /\ schedule.input \in Inputs /\ schedule.zone \in Zones
    BY <2>1 DEF RecurringInv, RecurringTypeOK, KeepsToSchedule, ScheduleRow
  <2>3. PICK d \in Dates(schedule.input) :
          /\ s.asked = LocalStart(schedule.input, d)
          /\ s.start \in Wanted(schedule.input, schedule.zone, d)
    BY <2>1 DEF KeepsToSchedule
  <2>4. PICK e \in Dates(schedule.input) :
          /\ r.asked = LocalStart(schedule.input, e)
          /\ r.start \in Wanted(schedule.input, schedule.zone, e)
    BY <2>1 DEF KeepsToSchedule
  <2>5. /\ s.start \in Int /\ r.start \in Int
    BY DEF RecurringInv, RecurringTypeOK, Materialized, SessionRow
  <2> DEFINE instants == InstantsOf(schedule.zone, s.asked)
  <2>6. /\ s.start \in instants /\ r.start \in instants
        /\ \/ \A t \in instants : t <= s.start /\ t <= r.start
           \/ \A t \in instants : s.start <= t /\ r.start <= t
    BY <1>1, <2>3, <2>4 DEF Wanted
  <2>7. s.start = r.start
    <3> HIDE DEF instants
    <3> QED
      BY <2>5, <2>6
  <2> QED
    BY <2>7 DEF RecurringInv, StartsAreUnique, Materialized
<1> QED
  BY <1>1 DEF OneOccurrencePerDate, RecurringInv, KeepsToSchedule

\* Generations in different seasons, with different limits and after moves of
\* the provider never put two sessions on one date of a schedule.
THEOREM OneSessionPerDate == Spec => []OneOccurrencePerDate
BY RecurringInvariant, OncePerDate, PTL

\* Distinct dates have distinct occurrences, also where none of them exists.
LEMMA OccurrencesDiffer ==
    ASSUME RecurringTypeOK, schedule # None, NEW d \in Nat, NEW e \in Nat,
           Occurrence(d) = Occurrence(e)
    PROVE  d = e
<1>1. schedule.input.startTime \in Int
  BY InputColumns DEF RecurringTypeOK, ScheduleRow
<1>2. /\ Occurrence(d).row.asked = LocalStart(schedule.input, d)
      /\ Occurrence(e).row.asked = LocalStart(schedule.input, e)
  BY DEF Occurrence, Row
<1>3. LocalStart(schedule.input, d) = LocalStart(schedule.input, e)
  BY <1>2
<1>4. Day * d = Day * e
  BY <1>1, <1>3, DayAssumption DEF LocalStart
<1> QED
  BY <1>4, DayAssumption

\* The gaps that a generation counts are as many as the dates without an instant.
LEMMA GapsAreCounted ==
    ASSUME RecurringTypeOK, schedule # None,
           NEW through \in schedule.input.first .. schedule.input.last
    PROVE  LET upTo == {d \in Dates(schedule.input) : d <= through}
               found == {Occurrence(d) : d \in OccurrenceDates(schedule.input, through)}
           IN  Cardinality({o \in found : o.resolved.kind = "gap"})
               = Cardinality({d \in upTo : Wanted(schedule.input, schedule.zone, d) = {}})
<1> DEFINE upTo == {d \in Dates(schedule.input) : d <= through}
           found == {Occurrence(d) : d \in OccurrenceDates(schedule.input, through)}
           gaps == {o \in found : o.resolved.kind = "gap"}
           none == {d \in upTo : Wanted(schedule.input, schedule.zone, d) = {}}
           f == [d \in none |-> Occurrence(d)]
<1>1. /\ schedule.input \in Inputs /\ schedule.input.first \in Nat
      /\ schedule.input.last \in Nat
  BY InputColumns DEF RecurringTypeOK, ScheduleRow
<1>2. upTo = OccurrenceDates(schedule.input, through)
  BY <1>1, OccurrencesAreDates
<1>3. upTo \subseteq Nat
  BY <1>1 DEF Dates
<1>4. \A d \in upTo : Occurrence(d).resolved.kind = "gap" <=> d \in none
  BY <1>3, OccurrenceIsWanted
<1>5. gaps = {Occurrence(d) : d \in none}
  <2> HIDE DEF none
  <2>1. none \subseteq upTo
    BY DEF none
  <2> QED
    BY <1>2, <1>4, <2>1
<1>6. f \in Surjection(none, gaps)
  <2> HIDE DEF none, gaps
  <2> QED
    BY <1>5 DEF Surjection
<1>7. f \in Injection(none, gaps)
  <2>1. \A d, e \in none : f[d] = f[e] => d = e
    BY <1>3, OccurrencesDiffer
  <2> HIDE DEF none, gaps
  <2>2. f \in [none -> gaps]
    BY <1>5
  <2> QED
    BY <2>1, <2>2 DEF Injection, IsInjective
<1>8. IsFiniteSet(none)
  <2>1. none \in SUBSET (schedule.input.first .. schedule.input.last)
    BY DEF Dates
  <2>2. schedule.input.first \in Int /\ schedule.input.last \in Int
    BY <1>1
  <2>3. IsFiniteSet(schedule.input.first .. schedule.input.last)
    BY <2>2, FS_Interval, Zenon
  <2> HIDE DEF none
  <2> QED
    BY <2>1, <2>3, FS_Subset
<1> HIDE DEF none, gaps, f
<1>9. Cardinality(gaps) = Cardinality(none)
  <2>1. ExistsBijection(none, gaps)
    BY <1>6, <1>7 DEF ExistsBijection, Bijection
  <2> QED
    BY <1>8, <2>1, FS_Bijection
<1> QED
  BY <1>9 DEF gaps, none

LEMMA GenerateCompletes ==
    ASSUME RecurringInv, schedule # None,
           NEW through \in schedule.input.first .. schedule.input.last, Generate(through)
    PROVE  GenerationsAreComplete'
<1> DEFINE input == schedule.input
           upTo == {d \in Dates(input) : d <= through}
           found == {Occurrence(d) : d \in OccurrenceDates(input, through)}
           gaps == {o \in found : o.resolved.kind = "gap"}
<1>1. /\ answer' = [through |-> through, skipped |-> Cardinality(gaps)]
      /\ sessions' = sessions \cup {r \in FoundRows(through) : r.start \notin Starts}
      /\ UNCHANGED <<now, zone, schedule>>
  BY GeneratedRows DEF Generate
<1>2. Cardinality(gaps) = Cardinality({d \in upTo : Wanted(input, schedule.zone, d) = {}})
  BY GapsAreCounted DEF RecurringInv
<1>3. ASSUME NEW d \in upTo, NEW t \in Wanted(input, schedule.zone, d), t - input.cutoff > now
      PROVE  t \in {s.start : s \in sessions'}
  <2>1. /\ input \in Inputs /\ d \in Nat /\ RecurringTypeOK /\ now \in Nat
        /\ input.cutoff \in Nat
    BY InputColumns DEF RecurringInv, RecurringTypeOK, ScheduleRow, Dates
  <2>2. d \in OccurrenceDates(input, through)
    BY <2>1, OccurrencesAreDates
  <2>3. Occurrence(d).resolved.kind = "instant"
    BY <1>3, <2>1, OccurrenceIsWanted
  <2>4. Wanted(input, schedule.zone, d) = {Occurrence(d).row.start}
        /\ Occurrence(d).row.start = Occurrence(d).resolved.instant
        /\ Occurrence(d).row \in SessionRow
    BY <2>3, GeneratedRow
  <2>5. t = Occurrence(d).row.start /\ t \in Int
    BY <1>3, <2>4 DEF SessionRow
  <2>6. IsInFuture(Occurrence(d).resolved, input.cutoff)
    BY <1>3, <2>1, <2>4, <2>5 DEF IsInFuture
  <2>7. Occurrence(d).row \in FoundRows(through)
    BY <2>2, <2>3, <2>6 DEF FoundRows
  <2> QED
    BY <1>1, <2>5, <2>7 DEF Starts
<1>4. /\ schedule' = schedule /\ now' = now /\ Starts' = {s.start : s \in sessions'}
      /\ answer'.through = through /\ answer'.skipped = Cardinality(gaps)
  BY <1>1 DEF Starts
<1> HIDE DEF gaps
<1> QED
  BY <1>2, <1>3, <1>4 DEF GenerationsAreComplete

\* A generation leaves no date up to its limit without a session, but those
\* already past, and reports exactly the dates on which the clock skips the time.
THEOREM GenerationsComplete == Spec => []GenerationsAreComplete
<1>1. Init => GenerationsAreComplete
  BY DEF Init, GenerationsAreComplete
<1>2. RecurringInv /\ GenerationsAreComplete /\ [Next]_vars => GenerationsAreComplete'
  <2> SUFFICES ASSUME RecurringInv, GenerationsAreComplete, [Next]_vars
               PROVE  GenerationsAreComplete'
    OBVIOUS
  <2>1. CASE answer' = None
    BY <2>1 DEF GenerationsAreComplete
  <2>2. CASE UNCHANGED vars
    BY <2>2 DEF vars, GenerationsAreComplete, Starts
  <2> QED
    BY <2>1, <2>2, GenerateCompletes
       DEF Next, CreateSession, UpdateSession, CreateSchedule, Wait, ChangeZone
<1> QED
  BY <1>1, <1>2, RecurringInvariant, PTL DEF Spec

-----------------------------------------------------------------------------
\* TTL rounds to the nearest second: what is lost is at most half of one.
LEMMA SecondsRound ==
  ASSUME NEW ticks \in Nat
  PROVE  /\ Seconds(ticks) \in Nat
         /\ 2 * (ticks - TicksPerSecond * Seconds(ticks)) <= TicksPerSecond
<1> DEFINE t == TicksPerSecond
           n == 2 * ticks + t
<1>1. t \in Nat /\ t > 0 /\ n \in Nat /\ 2 * t \in Nat /\ 2 * t > 0
  BY TimeAssumption
<1>2. PICK q \in Int : q = n \div (2 * t)
  BY <1>1
<1>3. n % (2 * t) = n - (2 * t) * q /\ n % (2 * t) < 2 * t /\ n % (2 * t) >= 0
  BY <1>1, <1>2
<1>4. Seconds(ticks) = q
  BY <1>2 DEF Seconds
<1>5. PICK m \in Int : m = t * q
  BY <1>1
<1>6. (2 * t) * q = 2 * m
  BY <1>1, <1>5
<1>7. n - 2 * m < 2 * t /\ n - 2 * m >= 0
  BY <1>3, <1>6
<1>8. q >= 0
  <2>1. CASE q <= -1
    <3>1. t * q <= -t
      BY <1>1, <2>1
    <3> QED BY <1>1, <1>5, <1>7, <3>1
  <2> QED BY <2>1
<1>9. 2 * (ticks - m) <= t
  BY <1>1, <1>7
<1> HIDE DEF t, n
<1> QED
  BY <1>4, <1>5, <1>8, <1>9 DEF t

LEMMA WindowIsPositive == Window \in Nat /\ Window >= 1
BY TimeAssumption DEF Window

LEMMA LimitIsPositive ==
  ASSUME NEW k \in Keys
  PROVE  Limit(k) \in Nat /\ Limit(k) >= 1
BY MaximaAssumption DEF Limit

LEMMA KeysOfRequest ==
  ASSUME TypeOK, NEW p \in Requests
  PROVE  /\ keys[p].ip \in Keys /\ keys[p].subject \in Keys
         /\ keys[p].ip # keys[p].subject
BY KeysAssumption, SendersAssumption DEF TypeOK, Keys

LEMMA WatchedIsKey == TypeOK => watched \in Keys
BY KeysAssumption DEF TypeOK, Keys

LEMMA CountedIsBounded ==
  ASSUME TypeOK, NEW k \in Keys
  PROVE  /\ Counted(k) \in Nat /\ Counted(k) <= Limit(k) + 1 /\ Counted(k) >= 1
         /\ ExpiresIn(k) \in 0 .. Window /\ ExpiresIn(k) \in Nat
BY LimitIsPositive, WindowIsPositive DEF TypeOK, Counted, ExpiresIn

LEMMA ConsumeTypes ==
  ASSUME TypeOK, NEW p \in Requests, NEW k \in Keys, Consume(p, k)
  PROVE  /\ count' \in [Keys -> Nat] /\ \A j \in Keys : count'[j] <= Limit(j) + 1
         /\ ttl' \in [Keys -> 0 .. Window]
         /\ result' \in [Requests -> [Keys -> [exceeded : BOOLEAN, seconds : Nat]]]
         /\ blockers' \in [Requests -> SUBSET Keys]
         /\ age' \in [Requests -> 0 .. Window]
<1> USE DEF TypeOK, Consume, ConsumeFixedWindow
<1>1. /\ Counted(k) \in Nat /\ Counted(k) <= Limit(k) + 1
      /\ ExpiresIn(k) \in 0 .. Window /\ ExpiresIn(k) \in Nat
      /\ Seconds(ExpiresIn(k)) \in Nat
  BY CountedIsBounded, SecondsRound
<1>2. /\ count' \in [Keys -> Nat] /\ \A j \in Keys : count'[j] <= Limit(j) + 1
      /\ ttl' \in [Keys -> 0 .. Window]
  BY <1>1
<1>3. result' \in [Requests -> [Keys -> [exceeded : BOOLEAN, seconds : Nat]]]
  BY <1>1 DEF NoResult
<1>4. blockers' \in [Requests -> SUBSET Keys]
  OBVIOUS
<1>5. age' \in [Requests -> 0 .. Window]
  BY WindowIsPositive
<1> QED
  BY <1>2, <1>3, <1>4, <1>5

\* Of at most two times, one is the longest.
LEMMA LongestWait ==
  ASSUME TypeOK, NEW p \in Requests, Exceeded(p) # {}
  PROVE  /\ RetryAfter(p) \in Nat
         /\ \A k \in Exceeded(p) : result[p][k].seconds <= RetryAfter(p)
<1> DEFINE S == {result[p][k].seconds : k \in Exceeded(p)}
<1>1. Exceeded(p) \subseteq {keys[p].ip, keys[p].subject}
  BY DEF Exceeded
<1>2. keys[p].ip \in Keys /\ keys[p].subject \in Keys
  BY KeysOfRequest
<1>3. \A k \in Keys : result[p][k].seconds \in Nat
  BY DEF TypeOK
<1>4. S \subseteq Nat
  BY <1>1, <1>2, <1>3
<1>5. \E n \in S : \A m \in S : m <= n
  <2> DEFINE x == result[p][keys[p].ip].seconds
             y == result[p][keys[p].subject].seconds
  <2>1. x \in Nat /\ y \in Nat
    BY <1>2, <1>3
  <2>2. S = {x} \/ S = {y} \/ S = {x, y}
    BY <1>1
  <2> HIDE DEF S, x, y
  <2>3. CASE x <= y
    BY <2>1, <2>2, <2>3
  <2>4. CASE y <= x
    BY <2>1, <2>2, <2>4
  <2> QED BY <2>1, <2>3, <2>4
<1>6. RetryAfter(p) \in S /\ \A m \in S : m <= RetryAfter(p)
  BY <1>5 DEF RetryAfter, Maximum
<1> QED BY <1>4, <1>6

-----------------------------------------------------------------------------
LEMMA LimitTypeInit == LimitInit => TypeOK
BY WindowIsPositive, LimitIsPositive
   DEF LimitInit, TypeOK, NoResults, NoResult, NoneAdmitted, Ages

LEMMA RequestTypes ==
  ASSUME TypeOK, NEW p \in Requests,
         Submit(p) \/ CountAddress(p) \/ CountSubject(p) \/ Fail(p) \/ Admit(p) \/ Reject(p)
  PROVE  TypeOK'
<1> USE DEF Goto, Forget, Unblock
<1>1. NoResults \in [Keys -> [exceeded : BOOLEAN, seconds : Nat]]
  BY DEF NoResults, NoResult
<1>2. Window \in 0 .. Window
  BY WindowIsPositive
<1>3. CASE Submit(p)
  BY <1>3 DEF Submit, TypeOK
<1>4. CASE CountAddress(p)
  <2>1. keys[p].ip \in Keys /\ Consume(p, keys[p].ip)
    BY <1>4, KeysOfRequest DEF CountAddress
  <2>2. /\ count' \in [Keys -> Nat] /\ \A j \in Keys : count'[j] <= Limit(j) + 1
        /\ ttl' \in [Keys -> 0 .. Window]
        /\ result' \in [Requests -> [Keys -> [exceeded : BOOLEAN, seconds : Nat]]]
        /\ blockers' \in [Requests -> SUBSET Keys]
        /\ age' \in [Requests -> 0 .. Window]
    BY <2>1, ConsumeTypes
  <2> QED BY <1>4, <2>2 DEF CountAddress, TypeOK
<1>5. CASE CountSubject(p)
  <2>1. keys[p].subject \in Keys /\ Consume(p, keys[p].subject)
    BY <1>5, KeysOfRequest DEF CountSubject
  <2>2. /\ count' \in [Keys -> Nat] /\ \A j \in Keys : count'[j] <= Limit(j) + 1
        /\ ttl' \in [Keys -> 0 .. Window]
        /\ result' \in [Requests -> [Keys -> [exceeded : BOOLEAN, seconds : Nat]]]
        /\ blockers' \in [Requests -> SUBSET Keys]
        /\ age' \in [Requests -> 0 .. Window]
    BY <2>1, ConsumeTypes
  <2> QED BY <1>5, <2>2 DEF CountSubject, TypeOK
<1>6. CASE Fail(p)
  <2>1. PICK k \in Keys : ConsumeFixedWindow(k) \/ UNCHANGED <<count, ttl>>
    BY <1>6, KeysOfRequest DEF Fail
  <2>2. /\ Counted(k) \in Nat /\ Counted(k) <= Limit(k) + 1
        /\ ExpiresIn(k) \in 0 .. Window
    BY CountedIsBounded
  <2>3. /\ count' \in [Keys -> Nat] /\ \A j \in Keys : count'[j] <= Limit(j) + 1
        /\ ttl' \in [Keys -> 0 .. Window]
    BY <2>1, <2>2 DEF ConsumeFixedWindow, TypeOK
  <2> QED BY <1>1, <1>2, <1>6, <2>3 DEF Fail, TypeOK
<1>7. CASE Admit(p)
  <2>1. admitted' \in [Ages -> Nat]
    BY <1>7 DEF Admit, TypeOK
  <2> QED BY <1>1, <1>2, <1>7, <2>1 DEF Admit, TypeOK
<1>8. CASE Reject(p)
  <2>1. RetryAfter(p) \in Nat
    BY <1>8, LongestWait DEF Reject
  <2>2. PICK n \in Nat : n = RetryAfter(p)
    BY <2>1
  <2>3. TicksPerSecond * RetryAfter(p) \in Nat
    BY <2>2, TimeAssumption
  <2> QED BY <1>1, <1>2, <1>8, <2>3 DEF Reject, TypeOK
<1> QED BY <1>3, <1>4, <1>5, <1>6, <1>7, <1>8

LEMMA LimitTypeStep == TypeOK /\ [LimitNext]_limitVars => TypeOK'
<1> SUFFICES ASSUME TypeOK, [LimitNext]_limitVars PROVE TypeOK'
  OBVIOUS
<1>1. CASE Tick
  <2>1. ttl' \in [Keys -> 0 .. Window] /\ wait' \in [Requests -> Nat]
    <3>1. \A k \in Keys : Less(ttl[k]) \in 0 .. Window
      <4>1. \A n \in 0 .. Window : Less(n) \in 0 .. Window
        BY WindowIsPositive DEF Less
      <4> QED BY <4>1 DEF TypeOK
    <3>2. \A p \in Requests : Less(wait[p]) \in Nat
      <4>1. \A n \in Nat : Less(n) \in Nat
        BY DEF Less
      <4> QED BY <4>1 DEF TypeOK
    <3> QED BY <1>1, <3>1, <3>2 DEF Tick
  <2>2. count' \in [Keys -> Nat] /\ \A k \in Keys : count'[k] <= Limit(k) + 1
    BY <1>1, LimitIsPositive DEF Tick, TypeOK
  <2>3. age' \in [Requests -> 0 .. Window]
    <3>1. \A n \in 0 .. Window : (IF n = Window THEN Window ELSE n + 1) \in 0 .. Window
      BY WindowIsPositive
    <3>2. \A p \in Requests : (IF age[p] = Window THEN Window ELSE age[p] + 1) \in 0 .. Window
      BY <3>1 DEF TypeOK
    <3> QED BY <1>1, <3>2 DEF Tick
  <2>4. admitted' \in [Ages -> Nat]
    <3>1. \A a \in Ages : a # 0 => a - 1 \in Ages
      BY WindowIsPositive DEF Ages
    <3> QED BY <1>1, <3>1 DEF Tick, TypeOK
  <2>5. blockers' \in [Requests -> SUBSET Keys]
    BY <1>1 DEF Tick, TypeOK
  <2> QED BY <1>1, <2>1, <2>2, <2>3, <2>4, <2>5 DEF Tick, TypeOK
<1>3. CASE LoseCounters
  BY <1>3, WindowIsPositive, LimitIsPositive DEF LoseCounters, TypeOK, NoneAdmitted, Ages
<1>4. CASE UNCHANGED limitVars
  BY <1>4 DEF limitVars, requestVars, TypeOK
<1> QED BY <1>1, <1>3, <1>4, RequestTypes DEF LimitNext

-----------------------------------------------------------------------------
\* What stopped request p: the keys that it was counted under beyond their
\* limit.  They still are beyond it, and what p knows of the time they have
\* left is at most half a second short.
KnowsBlockers(p) ==
  /\ pc[p] \in {"idle", "ip"} => blockers[p] = {}
  /\ pc[p] = "subject" => blockers[p] \subseteq {keys[p].ip}
  /\ pc[p] = "answer" => blockers[p] \subseteq {keys[p].ip, keys[p].subject}
  /\ \A k \in blockers[p] : count[k] > Limit(k)
  /\ pc[p] \in {"subject", "answer"} =>
       \A k \in blockers[p] :
         /\ result[p][k].exceeded
         /\ 2 * (ttl[k] - TicksPerSecond * result[p][k].seconds) <= TicksPerSecond
  /\ pc[p] = "told" =>
       \A k \in blockers[p] : 2 * (ttl[k] - wait[p]) <= TicksPerSecond

\* A script leaves a counter beyond its limit as it is.
LEMMA ExceededStays ==
  ASSUME TypeOK, NEW k \in Keys, ConsumeFixedWindow(k), NEW j \in Keys, count[j] > Limit(j)
  PROVE  count'[j] = count[j] /\ ttl'[j] = ttl[j]
BY LimitIsPositive DEF TypeOK, ConsumeFixedWindow, Counted, ExpiresIn

\* A script run for one request leaves what the others know as it is.
LEMMA OthersKnow ==
  ASSUME TypeOK, NEW k \in Keys, ConsumeFixedWindow(k) \/ UNCHANGED <<count, ttl>>,
         NEW q \in Requests, KnowsBlockers(q),
         pc'[q] = pc[q], keys'[q] = keys[q], result'[q] = result[q],
         wait'[q] = wait[q], blockers'[q] = blockers[q]
  PROVE  KnowsBlockers(q)'
<1>1. \A j \in blockers[q] : j \in Keys /\ count[j] > Limit(j)
  BY DEF KnowsBlockers, TypeOK
<1>2. \A j \in blockers[q] : count'[j] = count[j] /\ ttl'[j] = ttl[j]
  BY <1>1, ExceededStays
<1> QED BY <1>2 DEF KnowsBlockers

\* What the script tells p of the key it counts p under.
LEMMA ConsumeTells ==
  ASSUME TypeOK, NEW p \in Requests, NEW k \in Keys, Consume(p, k), KnowsBlockers(p)
  PROVE  /\ blockers'[p] \subseteq blockers[p] \cup {k}
         /\ \A j \in blockers'[p] : count'[j] > Limit(j)
         /\ k \in blockers'[p] \ blockers[p] =>
              /\ result'[p][k].exceeded
              /\ 2 * (ttl'[k] - TicksPerSecond * result'[p][k].seconds) <= TicksPerSecond
         /\ \A j \in blockers[p] : count'[j] = count[j] /\ ttl'[j] = ttl[j]
         /\ \A j \in Keys : j # k => result'[p][j] = result[p][j]
<1>1. /\ Counted(k) \in Nat /\ ExpiresIn(k) \in Nat /\ Seconds(ExpiresIn(k)) \in Nat
      /\ 2 * (ExpiresIn(k) - TicksPerSecond * Seconds(ExpiresIn(k))) <= TicksPerSecond
  BY CountedIsBounded, SecondsRound
<1>2. \A j \in blockers[p] : j \in Keys /\ count[j] > Limit(j)
  BY DEF KnowsBlockers, TypeOK
<1>3. \A j \in blockers[p] : count'[j] = count[j] /\ ttl'[j] = ttl[j]
  BY <1>2, ExceededStays DEF Consume
<1>4. /\ count'[k] = Counted(k) /\ ttl'[k] = ExpiresIn(k)
      /\ Counted(k) > Limit(k) =>
           result'[p][k].exceeded /\ result'[p][k].seconds = Seconds(ExpiresIn(k))
      /\ \A j \in Keys : j # k => result'[p][j] = result[p][j]
      /\ blockers'[p] = IF Counted(k) > Limit(k) THEN blockers[p] \cup {k} ELSE blockers[p]
  BY DEF Consume, ConsumeFixedWindow, Exceeds, TypeOK
<1>5. k \in blockers'[p] \ blockers[p] => Counted(k) > Limit(k)
  BY <1>4
<1>6. \A j \in blockers'[p] : count'[j] > Limit(j)
  BY <1>2, <1>3, <1>4
<1>7. k \in blockers'[p] \ blockers[p] =>
        2 * (ttl'[k] - TicksPerSecond * result'[p][k].seconds) <= TicksPerSecond
  BY <1>1, <1>4, <1>5, Zenon
<1> QED BY <1>3, <1>4, <1>5, <1>6, <1>7

LEMMA RequestKnows ==
  ASSUME TypeOK, NEW p \in Requests,
         Submit(p) \/ CountAddress(p) \/ CountSubject(p) \/ Fail(p) \/ Admit(p) \/ Reject(p),
         \A q \in Requests : KnowsBlockers(q)
  PROVE  \A q \in Requests : KnowsBlockers(q)'
<1> USE DEF Goto, Forget, Unblock
<1>1. ASSUME NEW q \in Requests, q # p PROVE KnowsBlockers(q)'
  <2>1. PICK k \in Keys : ConsumeFixedWindow(k) \/ UNCHANGED <<count, ttl>>
    BY KeysOfRequest DEF Submit, CountAddress, CountSubject, Fail, Admit, Reject, Consume
  <2>2. /\ pc'[q] = pc[q] /\ keys'[q] = keys[q] /\ result'[q] = result[q]
        /\ wait'[q] = wait[q] /\ blockers'[q] = blockers[q]
    BY <1>1 DEF Submit, CountAddress, CountSubject, Fail, Admit, Reject, Consume, TypeOK
  <2> QED BY <2>1, <2>2, OthersKnow
<1>2. KnowsBlockers(p)'
  <2>1. CASE Submit(p) \/ Fail(p) \/ Admit(p)
    <3>1. pc'[p] \in {"idle", "ip"} /\ blockers'[p] = {}
      BY <2>1 DEF Submit, Fail, Admit, TypeOK
    <3> QED BY <3>1 DEF KnowsBlockers
  <2>2. CASE CountAddress(p)
    <3> DEFINE i == keys[p].ip
    <3>1. i \in Keys /\ Consume(p, i) /\ blockers[p] = {} /\ pc'[p] = "subject" /\ keys' = keys
      BY <2>2, KeysOfRequest DEF CountAddress, KnowsBlockers, TypeOK
    <3> HIDE DEF i
    <3>2. /\ blockers'[p] \subseteq {i}
          /\ \A j \in blockers'[p] : count'[j] > Limit(j)
          /\ i \in blockers'[p] =>
               /\ result'[p][i].exceeded
               /\ 2 * (ttl'[i] - TicksPerSecond * result'[p][i].seconds) <= TicksPerSecond
      BY <3>1, ConsumeTells
    <3> QED BY <3>1, <3>2 DEF KnowsBlockers, i
  <2>3. CASE CountSubject(p)
    <3> DEFINE i == keys[p].ip
               s == keys[p].subject
    <3>1. /\ i \in Keys /\ s \in Keys /\ i # s /\ Consume(p, s) /\ blockers[p] \subseteq {i}
          /\ pc[p] = "subject" /\ pc'[p] = "answer" /\ keys' = keys
      BY <2>3, KeysOfRequest DEF CountSubject, KnowsBlockers, TypeOK
    <3> HIDE DEF i, s
    <3>2. /\ blockers'[p] \subseteq blockers[p] \cup {s}
          /\ \A j \in blockers'[p] : count'[j] > Limit(j)
          /\ s \in blockers'[p] \ blockers[p] =>
               /\ result'[p][s].exceeded
               /\ 2 * (ttl'[s] - TicksPerSecond * result'[p][s].seconds) <= TicksPerSecond
          /\ \A j \in blockers[p] : count'[j] = count[j] /\ ttl'[j] = ttl[j]
          /\ \A j \in Keys : j # s => result'[p][j] = result[p][j]
      BY <3>1, ConsumeTells
    <3>3. \A j \in blockers[p] :
            /\ result'[p][j].exceeded
            /\ 2 * (ttl'[j] - TicksPerSecond * result'[p][j].seconds) <= TicksPerSecond
      BY <3>1, <3>2 DEF KnowsBlockers
    <3>4. \A j \in blockers'[p] :
            /\ result'[p][j].exceeded
            /\ 2 * (ttl'[j] - TicksPerSecond * result'[p][j].seconds) <= TicksPerSecond
      BY <3>2, <3>3
    <3>5. blockers'[p] \subseteq {i, s}
      BY <3>1, <3>2
    <3> QED BY <3>1, <3>2, <3>4, <3>5 DEF KnowsBlockers, i, s
  <2>4. CASE Reject(p)
    <3>1. /\ pc[p] = "answer" /\ pc'[p] = "told" /\ Exceeded(p) # {}
          /\ wait'[p] = TicksPerSecond * RetryAfter(p)
          /\ count' = count /\ ttl' = ttl /\ blockers' = blockers
      BY <2>4 DEF Reject, TypeOK
    <3>2. \A k \in blockers[p] :
            /\ k \in Keys /\ k \in Exceeded(p) /\ count[k] > Limit(k)
            /\ 2 * (ttl[k] - TicksPerSecond * result[p][k].seconds) <= TicksPerSecond
      BY <3>1 DEF KnowsBlockers, Exceeded, TypeOK
    <3>3. ASSUME NEW k \in blockers[p] PROVE 2 * (ttl'[k] - wait'[p]) <= TicksPerSecond
      <4>1. PICK m \in Nat : m = RetryAfter(p)
        BY <3>1, LongestWait
      <4>2. PICK n \in Nat : n = result[p][k].seconds
        BY <3>2 DEF TypeOK
      <4>3. n <= m
        BY <3>1, <3>2, <4>1, <4>2, LongestWait
      <4>4. TicksPerSecond * n <= TicksPerSecond * m
            /\ TicksPerSecond * n \in Nat /\ TicksPerSecond * m \in Nat
        <5> HIDE DEF TypeOK
        <5> QED BY <4>3, TimeAssumption
      <4>5. PICK x \in Nat : x = TicksPerSecond * n
        BY <4>4
      <4>6. PICK y \in Nat : y = TicksPerSecond * m
        BY <4>4
      <4>7. 2 * (ttl[k] - x) <= TicksPerSecond /\ ttl[k] \in Nat
        BY <3>2, <4>2, <4>5 DEF TypeOK
      <4>8. 2 * (ttl[k] - y) <= TicksPerSecond
        BY <4>4, <4>5, <4>6, <4>7, TimeAssumption
      <4> QED BY <3>1, <4>1, <4>6, <4>8
    <3>4. \A k \in blockers'[p] : count'[k] > Limit(k)
      BY <3>1, <3>2
    <3> QED BY <3>1, <3>3, <3>4 DEF KnowsBlockers
  <2> QED BY <2>1, <2>2, <2>3, <2>4
<1> QED BY <1>1, <1>2

LEMMA TickKnows ==
  ASSUME TypeOK, Tick, NEW q \in Requests, KnowsBlockers(q)
  PROVE  KnowsBlockers(q)'
<1>1. /\ blockers'[q] = {k \in blockers[q] : ttl[k] > 1}
      /\ pc' = pc /\ keys' = keys /\ result' = result
  BY DEF Tick, TypeOK
<1>2. \A k \in blockers'[q] :
        /\ k \in Keys /\ k \in blockers[q] /\ ttl[k] \in Nat /\ ttl[k] > 1
        /\ count'[k] = count[k] /\ ttl'[k] = ttl[k] - 1
  BY <1>1 DEF Tick, TypeOK, Less
<1>3. wait[q] \in Nat /\ wait'[q] = IF wait[q] = 0 THEN 0 ELSE wait[q] - 1
  BY DEF Tick, TypeOK, Less
<1>4. ASSUME pc[q] \in {"subject", "answer"}, NEW k \in blockers'[q]
      PROVE  2 * (ttl'[k] - TicksPerSecond * result[q][k].seconds) <= TicksPerSecond
  <2>1. PICK n \in Nat : n = result[q][k].seconds
    BY <1>2 DEF TypeOK
  <2>2. PICK m \in Nat : m = TicksPerSecond * n
    BY TimeAssumption
  <2>3. 2 * (ttl[k] - m) <= TicksPerSecond
    BY <1>2, <1>4, <2>1, <2>2 DEF KnowsBlockers
  <2>4. 2 * (ttl'[k] - m) <= TicksPerSecond
    BY <1>2, <2>3, TimeAssumption
  <2> QED BY <2>1, <2>2, <2>4
<1>5. ASSUME pc[q] = "told", NEW k \in blockers'[q]
      PROVE  2 * (ttl'[k] - wait'[q]) <= TicksPerSecond
  <2>1. 2 * (ttl[k] - wait[q]) <= TicksPerSecond
    BY <1>2, <1>5 DEF KnowsBlockers
  <2> QED BY <1>2, <1>3, <2>1, TimeAssumption
<1>6. \A k \in blockers'[q] : count'[k] > Limit(k)
  BY <1>2 DEF KnowsBlockers
<1> QED BY <1>1, <1>2, <1>4, <1>5, <1>6 DEF KnowsBlockers

LEMMA KnowsStep ==
  ASSUME TypeOK, [LimitNext]_limitVars, \A q \in Requests : KnowsBlockers(q)
  PROVE  \A q \in Requests : KnowsBlockers(q)'
<1>1. CASE UNCHANGED limitVars
  BY <1>1 DEF limitVars, requestVars, KnowsBlockers
<1>2. CASE LoseCounters
  BY <1>2 DEF LoseCounters, KnowsBlockers
<1> QED BY <1>1, <1>2, TickKnows, RequestKnows DEF LimitNext

\* Counts and times stay within their bounds: a count is at most one more than
\* the maximum, and no counter outlives its window.
THEOREM LimitTypes == LimitSpec => []TypeOK
BY LimitTypeInit, LimitTypeStep, PTL DEF LimitSpec

\* Whoever waits as long as Retry-After says is no longer held.
THEOREM WaitingIsEnough == LimitSpec => []RetryAfterSuffices
<1> DEFINE Knows == \A q \in Requests : KnowsBlockers(q)
<1>1. LimitInit => Knows
  BY DEF LimitInit, KnowsBlockers
<1>2. TypeOK /\ Knows /\ [LimitNext]_limitVars => Knows'
  BY KnowsStep
<1>3. Knows => RetryAfterSuffices
  BY DEF KnowsBlockers, RetryAfterSuffices
<1> HIDE DEF Knows
<1> QED BY <1>1, <1>2, <1>3, LimitTypes, PTL DEF LimitSpec

-----------------------------------------------------------------------------
\* The requests counted under k a ticks ago, within the limit, that may
\* still be admitted.
Pending(k, a) == {p \in Requests : age[p] = a /\ ~ result[p][k].exceeded}

\* P[n] bounds the requests counted less than n ticks ago that were admitted
\* or may still be.
Covers(P, k) ==
  /\ P[0] = 0
  /\ \A a \in Ages : IsFiniteSet(Pending(k, a))
                     /\ admitted[a] + Cardinality(Pending(k, a)) <= P[a + 1] - P[a]

\* Those of the running window are no more than it has counted, and its
\* first request came when it began; of those of the window before, the
\* first is forgotten.
Used(k) == IF count[k] <= Limit(k) THEN count[k] ELSE Limit(k)

Fits(P, k) ==
  IF count[k] = 0
    THEN P[1] = 0 /\ P[Window] <= Limit(k) - 1
    ELSE /\ ttl[k] \in 1 .. Window
         /\ P[Window - ttl[k]] <= Used(k) - 1
         /\ P[Window - ttl[k] + 1] <= Used(k)
         /\ P[Window] - P[Window - ttl[k] + 1] <= Limit(k) - 1

TwoWindows(k) == \E P \in [0 .. Window -> Nat] : Covers(P, k) /\ Fits(P, k)

\* A request that has yet to be counted under a key is not counted there.
CountedBefore(p) ==
  /\ pc[p] \in {"idle", "told", "ip"} => age[p] = Window
  /\ pc[p] = "subject" /\ watched # keys[p].ip => age[p] = Window

BurstInv == /\ \A p \in Requests : CountedBefore(p)
            /\ TwoWindows(watched)

LEMMA AgesAreWithin ==
  /\ 0 \in Ages /\ Window \notin Ages
  /\ \A a \in Ages : a \in 0 .. Window /\ a + 1 \in 0 .. Window /\ a \in Nat
BY WindowIsPositive DEF Ages

LEMMA FewerPending ==
  ASSUME NEW S, IsFiniteSet(S), NEW T, T \subseteq S
  PROVE  IsFiniteSet(T) /\ Cardinality(T) \in Nat /\ Cardinality(T) <= Cardinality(S)
BY FS_Subset, FS_CardinalityType

\* Whatever is counted but not admitted leaves a bound a bound.
LEMMA CountingFits ==
  ASSUME TypeOK, NEW j \in Keys, NEW k \in Keys,
         ConsumeFixedWindow(j) \/ UNCHANGED <<count, ttl>>,
         NEW P \in [0 .. Window -> Nat], P[0] = 0, Fits(P, k)
  PROVE  Fits(P, k)'
<1>1. Limit(k) \in Nat /\ Limit(k) >= 1 /\ Window \in Nat /\ Window >= 1
  BY LimitIsPositive, WindowIsPositive
<1>2. CASE count'[k] = count[k] /\ ttl'[k] = ttl[k]
  BY <1>2 DEF Fits, Used
<1>3. CASE j = k /\ ConsumeFixedWindow(k)
  <2>1. count[k] \in Nat /\ count'[k] = Counted(k) /\ ttl'[k] = ExpiresIn(k)
    BY <1>3 DEF TypeOK, ConsumeFixedWindow
  <2>2. CASE count[k] = 0
    <3>1. count'[k] = 1 /\ ttl'[k] = Window
      BY <1>1, <2>1, <2>2 DEF Counted, ExpiresIn
    <3>2. P[1] = 0 /\ P[Window] <= Limit(k) - 1
      BY <2>2 DEF Fits
    <3>3. Used(k)' = 1
      BY <1>1, <3>1 DEF Used
    <3>4. Window - ttl'[k] = 0 /\ Window - ttl'[k] + 1 = 1 /\ ttl'[k] \in 1 .. Window
      BY <1>1, <3>1
    <3>5. /\ P[Window - ttl'[k]] <= Used(k)' - 1
          /\ P[Window - ttl'[k] + 1] <= Used(k)'
          /\ P[Window] - P[Window - ttl'[k] + 1] <= Limit(k) - 1
      <4>1. P[Window - ttl'[k]] = P[0] /\ P[Window - ttl'[k] + 1] = P[1]
        BY <3>4, Zenon
      <4>2. P[Window] \in Nat
        BY <1>1
      <4> QED BY <1>1, <3>2, <3>3, <4>1, <4>2
    <3> QED BY <3>1, <3>4, <3>5 DEF Fits
  <2>3. CASE count[k] # 0
    <3>1. count'[k] # 0 /\ ttl'[k] = ttl[k]
      BY <2>1, <2>3 DEF Counted, ExpiresIn
    <3>2. Used(k) \in Nat /\ Used(k)' \in Nat /\ Used(k) <= Used(k)'
      BY <1>1, <2>1 DEF Used, Counted
    <3>3. /\ ttl[k] \in 1 .. Window
          /\ P[Window - ttl[k]] <= Used(k) - 1
          /\ P[Window - ttl[k] + 1] <= Used(k)
          /\ P[Window] - P[Window - ttl[k] + 1] <= Limit(k) - 1
      BY <2>3 DEF Fits
    <3>4. PICK e \in 0 .. Window - 1 : e = Window - ttl[k]
      BY <1>1, <3>3
    <3>5. P[e] \in Nat /\ P[e + 1] \in Nat
      BY <1>1, <3>4
    <3>6. P[e] <= Used(k) - 1 /\ P[e + 1] <= Used(k)
      BY <3>3, <3>4
    <3>7. P[e] <= Used(k)' - 1 /\ P[e + 1] <= Used(k)'
      BY <3>2, <3>5, <3>6
    <3>8. /\ P[Window - ttl[k]] <= Used(k)' - 1
          /\ P[Window - ttl[k] + 1] <= Used(k)'
      BY <3>4, <3>7
    <3> QED BY <3>1, <3>3, <3>8 DEF Fits
  <2> QED BY <2>2, <2>3
<1> QED
  BY <1>2, <1>3 DEF ConsumeFixedWindow, TypeOK

LEMMA Unpending ==
  ASSUME TypeOK, TypeOK', NEW k \in Keys, NEW P \in [0 .. Window -> Nat], Covers(P, k),
         admitted' = admitted,
         \A a \in Ages : Pending(k, a)' \subseteq Pending(k, a)
  PROVE  Covers(P, k)'
<1>1. ASSUME NEW a \in Ages
      PROVE  /\ IsFiniteSet(Pending(k, a))'
             /\ admitted'[a] + Cardinality(Pending(k, a)') <= P[a + 1] - P[a]
  <2>1. /\ IsFiniteSet(Pending(k, a))
        /\ admitted[a] + Cardinality(Pending(k, a)) <= P[a + 1] - P[a]
    BY DEF Covers
  <2>2. PICK S : S = Pending(k, a)
    OBVIOUS
  <2>3. PICK T : T = Pending(k, a)'
    OBVIOUS
  <2>4. IsFiniteSet(T) /\ Cardinality(T) \in Nat /\ Cardinality(T) <= Cardinality(S)
        /\ Cardinality(S) \in Nat
    BY <2>1, <2>2, <2>3, FewerPending, FS_CardinalityType
  <2>5. admitted[a] \in Nat /\ P[a + 1] \in Nat /\ P[a] \in Nat
    BY AgesAreWithin DEF TypeOK
  <2> QED BY <2>1, <2>2, <2>3, <2>4, <2>5
<1> QED BY <1>1 DEF Covers

\* A step that admits nobody and counts nobody anew.
LEMMA QuietWindows ==
  ASSUME TypeOK, TypeOK', NEW j \in Keys,
         ConsumeFixedWindow(j) \/ UNCHANGED <<count, ttl>>,
         NEW k \in Keys, TwoWindows(k), admitted' = admitted,
         \A p \in Requests : \/ age'[p] = Window
                             \/ age'[p] = age[p] /\ result'[p][k] = result[p][k]
                             \/ result'[p][k].exceeded
  PROVE  TwoWindows(k)'
<1>1. PICK P \in [0 .. Window -> Nat] : Covers(P, k) /\ Fits(P, k)
  BY DEF TwoWindows
<1>2. \A a \in Ages : Pending(k, a)' \subseteq Pending(k, a)
  BY AgesAreWithin DEF Pending
<1>3. Covers(P, k)'
  BY <1>1, <1>2, Unpending
<1>4. Fits(P, k)'
  BY <1>1, CountingFits DEF Covers
<1> QED BY <1>3, <1>4 DEF TwoWindows

\* A request that is counted within the limit.
LEMMA CountedWindows ==
  ASSUME TypeOK, TypeOK', NEW p \in Requests, NEW k \in Keys, k = watched, Consume(p, k),
         Counted(k) <= Limit(k), age[p] = Window, admitted' = admitted, TwoWindows(k)
  PROVE  TwoWindows(k)'
<1>1. PICK P \in [0 .. Window -> Nat] : Covers(P, k) /\ Fits(P, k)
  BY DEF TwoWindows
<1> DEFINE Q == [n \in 0 .. Window |-> IF n = 0 THEN 0 ELSE P[n] + 1]
<1>2. Limit(k) \in Nat /\ Limit(k) >= 1 /\ Window \in Nat /\ Window >= 1
  BY LimitIsPositive, WindowIsPositive
<1>3. Q \in [0 .. Window -> Nat]
  OBVIOUS
<1>4. /\ \A q \in Requests : q # p => age'[q] = age[q] /\ result'[q][k] = result[q][k]
      /\ age'[p] = 0 /\ ~ result'[p][k].exceeded
  <2>1. ~ Exceeds(k)
    BY <1>2, CountedIsBounded DEF Exceeds
  <2>2. result'[p][k] = NoResult
    BY <2>1 DEF Consume, TypeOK
  <2> QED BY <2>2 DEF Consume, NoResult, TypeOK
<1>5. /\ \A a \in Ages : a # 0 => Pending(k, a)' = Pending(k, a)
      /\ Pending(k, 0)' = Pending(k, 0) \cup {p} /\ p \notin Pending(k, 0)
  <2>1. ~ result'[p][k].exceeded
    BY <1>4
  <2>2. \A a \in Ages : a # Window
    BY AgesAreWithin
  <2> QED BY <1>2, <1>4, <2>1, <2>2, AgesAreWithin DEF Pending
<1>6. ASSUME NEW a \in Ages
      PROVE  /\ IsFiniteSet(Pending(k, a))'
             /\ admitted'[a] + Cardinality(Pending(k, a)') <= Q[a + 1] - Q[a]
  <2>1. /\ IsFiniteSet(Pending(k, a))
        /\ admitted[a] + Cardinality(Pending(k, a)) <= P[a + 1] - P[a]
        /\ P[0] = 0
    BY <1>1 DEF Covers
  <2>2. /\ admitted[a] \in Nat /\ P[a + 1] \in Nat /\ P[a] \in Nat
        /\ a \in 0 .. Window /\ a + 1 \in 0 .. Window /\ a + 1 # 0
    BY AgesAreWithin DEF TypeOK
  <2>3. PICK S : S = Pending(k, a)
    OBVIOUS
  <2>4. PICK T : T = Pending(k, a)'
    OBVIOUS
  <2>5. CASE a = 0
    <3>1. T = S \cup {p} /\ p \notin S
      BY <1>5, <2>3, <2>4, <2>5
    <3>2. IsFiniteSet(T) /\ Cardinality(T) = Cardinality(S) + 1 /\ Cardinality(S) \in Nat
      BY <2>1, <2>3, <3>1, FS_AddElement, FS_CardinalityType
    <3>3. Q[a + 1] = P[a + 1] + 1 /\ Q[a] = 0
      BY <2>2, <2>5
    <3> QED BY <2>1, <2>2, <2>3, <2>4, <2>5, <3>2, <3>3
  <2>6. CASE a # 0
    <3>1. T = S
      BY <1>5, <2>3, <2>4, <2>6
    <3>2. Cardinality(S) \in Nat
      BY <2>1, <2>3, FS_CardinalityType
    <3>3. Q[a + 1] = P[a + 1] + 1 /\ Q[a] = P[a] + 1
      BY <2>2, <2>6
    <3> QED BY <2>1, <2>2, <2>3, <2>4, <3>1, <3>2, <3>3
  <2> QED BY <2>5, <2>6
<1>7. Covers(Q, k)'
  <2>1. Q[0] = 0
    BY <1>2
  <2> HIDE DEF Q
  <2> QED BY <1>6, <2>1 DEF Covers
<1>8. Fits(Q, k)'
  <2>1. /\ count[k] \in Nat /\ count[k] <= Limit(k) - 1 /\ P[0] = 0
        /\ count'[k] = count[k] + 1 /\ ttl'[k] = ExpiresIn(k)
    BY <1>1, <1>2 DEF TypeOK, Consume, ConsumeFixedWindow, Counted, Covers
  <2>2. Used(k)' = count[k] + 1 /\ Used(k) = count[k]
    BY <1>2, <2>1 DEF Used
  <2>3. P[Window] \in Nat /\ Q[Window] = P[Window] + 1 /\ P[1] \in Nat /\ Q[1] = P[1] + 1
        /\ Q[0] = 0
    BY <1>2
  <2>4. CASE count[k] = 0
    <3>1. ttl'[k] = Window /\ P[1] = 0 /\ P[Window] <= Limit(k) - 1
      BY <1>1, <2>1, <2>4 DEF ExpiresIn, Fits
    <3>2. Window - ttl'[k] = 0 /\ Window - ttl'[k] + 1 = 1 /\ ttl'[k] \in 1 .. Window
      BY <1>2, <3>1
    <3>3. Q[Window - ttl'[k]] = 0 /\ Q[Window - ttl'[k] + 1] = 1
      <4> HIDE DEF Q
      <4> QED BY <2>3, <3>1, <3>2
    <3> HIDE DEF Q
    <3>4. /\ Q[Window - ttl'[k]] <= Used(k)' - 1
          /\ Q[Window - ttl'[k] + 1] <= Used(k)'
          /\ Q[Window] - Q[Window - ttl'[k] + 1] <= Limit(k) - 1
      BY <1>2, <2>2, <2>3, <2>4, <3>1, <3>3
    <3>5. count'[k] # 0
      BY <2>1
    <3> QED BY <3>2, <3>4, <3>5 DEF Fits
  <2>5. CASE count[k] # 0
    <3>1. /\ ttl'[k] = ttl[k] /\ ttl[k] \in 1 .. Window
          /\ P[Window - ttl[k]] <= count[k] - 1
          /\ P[Window - ttl[k] + 1] <= count[k]
          /\ P[Window] - P[Window - ttl[k] + 1] <= Limit(k) - 1
      BY <1>1, <2>1, <2>2, <2>5 DEF ExpiresIn, Fits
    <3>2. PICK e \in 0 .. Window - 1 : e = Window - ttl[k]
      BY <1>2, <3>1
    <3>3. /\ P[e] \in Nat /\ P[e + 1] \in Nat /\ Q[e + 1] = P[e + 1] + 1
          /\ Q[e] <= P[e] + 1
      <4>1. e \in 0 .. Window /\ e + 1 \in 0 .. Window /\ e + 1 # 0
        BY <1>2, <3>2
      <4>2. P[e] \in Nat /\ P[e + 1] \in Nat
        BY <4>1
      <4>3. Q[e + 1] = P[e + 1] + 1 /\ Q[e] = IF e = 0 THEN 0 ELSE P[e] + 1
        BY <4>1
      <4> HIDE DEF Q
      <4> QED BY <4>2, <4>3
    <3>4. P[e] <= count[k] - 1 /\ P[e + 1] <= count[k] /\ P[Window] - P[e + 1] <= Limit(k) - 1
      BY <3>1, <3>2
    <3>5. Q[e] \in Nat
      BY <1>3, <3>2, <1>2
    <3> HIDE DEF Q
    <3>6. Q[e] <= Used(k)' - 1 /\ Q[e + 1] <= Used(k)' /\ Q[Window] - Q[e + 1] <= Limit(k) - 1
      <4>1. PICK m \in Nat : m = P[e]
        BY <3>3
      <4>2. PICK n \in Nat : n = P[e + 1]
        BY <3>3
      <4>3. PICK w \in Nat : w = P[Window]
        BY <2>3
      <4>4. Q[e] <= m + 1 /\ Q[e + 1] = n + 1 /\ Q[Window] = w + 1
        BY <2>3, <3>3, <4>1, <4>2, <4>3
      <4>5. m <= count[k] - 1 /\ n <= count[k] /\ w - n <= Limit(k) - 1
        BY <3>4, <4>1, <4>2, <4>3
      <4>6. PICK c \in Nat : c = count[k]
        BY <2>1
      <4>7. PICK q \in Nat : q = Q[e]
        BY <3>5
      <4>8. q <= c + 1 - 1 /\ n + 1 <= c + 1 /\ (w + 1) - (n + 1) <= Limit(k) - 1
        <5>1. q = 0 \/ q <= m + 1
          BY <4>4, <4>7
        <5>2. m <= c - 1 /\ n <= c /\ w - n <= Limit(k) - 1
          BY <4>5, <4>6
        <5> QED BY <1>2, <5>1, <5>2
      <4> QED BY <2>2, <4>4, <4>6, <4>7, <4>8
    <3>7. count'[k] # 0 /\ Window - ttl'[k] = e
      BY <2>1, <3>1, <3>2
    <3> QED BY <3>1, <3>6, <3>7 DEF Fits
  <2> QED BY <2>4, <2>5
<1> HIDE DEF Q
<1> QED BY <1>3, <1>7, <1>8 DEF TwoWindows

\* A request that is counted, by what it is counted as.
LEMMA ConsumeWindows ==
  ASSUME TypeOK, TypeOK', NEW p \in Requests, NEW j \in Keys, Consume(p, j),
         j = watched => age[p] = Window, admitted' = admitted,
         NEW k \in Keys, k = watched, TwoWindows(k)
  PROVE  TwoWindows(k)'
<1>1. CASE k = j /\ Counted(j) <= Limit(j)
  BY <1>1, CountedWindows
<1>2. CASE k # j \/ ~ (Counted(j) <= Limit(j))
  <2>1. ConsumeFixedWindow(j) /\ admitted' = admitted
    BY DEF Consume
  <2>2. ASSUME NEW q \in Requests
        PROVE  \/ age'[q] = age[q] /\ result'[q][k] = result[q][k]
               \/ result'[q][k].exceeded
    <3>1. CASE k # j \/ q # p
      BY <3>1 DEF Consume, TypeOK
    <3>2. CASE k = j /\ q = p
      <4>1. Counted(j) > Limit(j)
        BY <1>2, <3>2, CountedIsBounded, LimitIsPositive
      <4>2. result'[p][j].exceeded
        BY <4>1 DEF Consume, Exceeds, TypeOK
      <4> QED BY <3>2, <4>2
    <3> QED BY <3>1, <3>2
  <2> QED BY <2>1, <2>2, QuietWindows
<1> QED BY <1>1, <1>2

\* A request that is admitted and was counted under the key was pending there.
LEMMA AdmitWindows ==
  ASSUME TypeOK, TypeOK', NEW p \in Requests, Admit(p), NEW k \in Keys, k = watched,
         TwoWindows(k)
  PROVE  TwoWindows(k)'
<1>1. PICK P \in [0 .. Window -> Nat] : Covers(P, k) /\ Fits(P, k)
  BY DEF TwoWindows
<1> DEFINE isCounted == k \in {keys[p].ip, keys[p].subject} /\ age[p] \in Ages
<1>2. /\ age'[p] = Window /\ count' = count /\ ttl' = ttl
      /\ \A q \in Requests : q # p => age'[q] = age[q] /\ result'[q][k] = result[q][k]
      /\ admitted' = IF isCounted THEN [admitted EXCEPT ![age[p]] = @ + 1]
                        ELSE admitted
  BY DEF Admit, Forget, TypeOK
<1>3. CASE ~ isCounted
  <2>1. \A q \in Requests : \/ age'[q] = Window
                            \/ age'[q] = age[q] /\ result'[q][k] = result[q][k]
    BY <1>2
  <2>2. admitted' = admitted
    BY <1>2, <1>3
  <2> QED BY <1>2, <2>1, <2>2, QuietWindows
<1>4. CASE isCounted
  <2>0. PICK b \in Ages : b = age[p]
    BY <1>4
  <2>1. /\ b \in Ages /\ p \in Pending(k, b) /\ ~ result[p][k].exceeded
    BY <1>4, <2>0 DEF Admit, Exceeded, Pending
  <2>2. /\ \A a \in Ages : a # b => Pending(k, a)' = Pending(k, a)
        /\ Pending(k, b)' = Pending(k, b) \ {p}
    <3>1. \A a \in Ages : a # Window
      BY AgesAreWithin
    <3>2. \A a \in Ages : p \notin Pending(k, a)'
      BY <1>2, <3>1 DEF Pending
    <3>3. \A a \in Ages, q \in Requests : q # p => (q \in Pending(k, a)' <=> q \in Pending(k, a))
      BY <1>2 DEF Pending
    <3>4. \A a \in Ages : a # b => p \notin Pending(k, a)
      BY <2>0 DEF Pending
    <3>5. \A a \in Ages : Pending(k, a) \subseteq Requests /\ Pending(k, a)' \subseteq Requests
      BY DEF Pending
    <3>6. ASSUME NEW a \in Ages PROVE Pending(k, a)' = Pending(k, a) \ {p}
      BY <3>2, <3>3, <3>5
    <3>7. ASSUME NEW a \in Ages, a # b PROVE Pending(k, a)' = Pending(k, a)
      BY <3>4, <3>6, <3>7
    <3> QED BY <2>1, <3>6, <3>7
  <2>3. /\ admitted'[b] = admitted[b] + 1
        /\ \A a \in Ages : a # b => admitted'[a] = admitted[a]
    BY <1>2, <1>4, <2>0 DEF TypeOK
  <2>4. ASSUME NEW a \in Ages
        PROVE  /\ IsFiniteSet(Pending(k, a))'
               /\ admitted'[a] + Cardinality(Pending(k, a)') <= P[a + 1] - P[a]
    <3>1. /\ IsFiniteSet(Pending(k, a))
          /\ admitted[a] + Cardinality(Pending(k, a)) <= P[a + 1] - P[a]
      BY <1>1 DEF Covers
    <3>2. CASE a # b
      BY <2>2, <2>3, <3>1, <3>2
    <3>3. CASE a = b
      <4>1. PICK S : S = Pending(k, a)
        OBVIOUS
      <4>2. PICK T : T = Pending(k, a)'
        OBVIOUS
      <4>3. T = S \ {p} /\ p \in S
        BY <2>1, <2>2, <3>3, <4>1, <4>2
      <4>4. IsFiniteSet(T) /\ Cardinality(T) = Cardinality(S) - 1 /\ Cardinality(S) \in Nat
        BY <3>1, <4>1, <4>3, FS_RemoveElement, FS_CardinalityType
      <4>5. admitted[a] \in Nat /\ P[a + 1] \in Nat /\ P[a] \in Nat
        BY AgesAreWithin DEF TypeOK
      <4>6. admitted'[a] = admitted[a] + 1
        BY <2>3, <3>3
      <4> QED BY <3>1, <4>1, <4>2, <4>4, <4>5, <4>6
    <3> QED BY <3>2, <3>3
  <2>5. Covers(P, k)'
    BY <1>1, <2>4 DEF Covers
  <2>6. Fits(P, k)'
    BY <1>1, <1>2 DEF Fits, Used
  <2> QED BY <2>5, <2>6 DEF TwoWindows
<1> QED BY <1>3, <1>4

\* Time passes: everything is a tick older, and windows end.
LEMMA TickWindows ==
  ASSUME TypeOK, TypeOK', Tick, NEW k \in Keys, TwoWindows(k)
  PROVE  TwoWindows(k)'
<1>1. PICK P \in [0 .. Window -> Nat] : Covers(P, k) /\ Fits(P, k)
  BY DEF TwoWindows
<1>2. Limit(k) \in Nat /\ Limit(k) >= 1 /\ Window \in Nat /\ Window >= 1
  BY LimitIsPositive, WindowIsPositive
<1> DEFINE Q == [n \in 0 .. Window |-> IF n = 0 THEN 0 ELSE P[n - 1]]
<1>3. \A n \in 0 .. Window : n # 0 => n - 1 \in 0 .. Window
  BY <1>2
<1>4. Q \in [0 .. Window -> Nat]
  BY <1>3
<1>5. Q[0] = 0 /\ \A n \in 0 .. Window : n # 0 => Q[n] = P[n - 1]
  BY <1>2
<1> HIDE DEF Q
<1>6. P[0] = 0
  BY <1>1 DEF Covers
<1>7. ASSUME NEW a \in Ages
      PROVE  /\ IsFiniteSet(Pending(k, a))'
             /\ admitted'[a] + Cardinality(Pending(k, a)') <= Q[a + 1] - Q[a]
  <2>1. /\ a \in 0 .. Window /\ a + 1 \in 0 .. Window /\ a + 1 # 0 /\ a \in Nat
        /\ Q[a + 1] = P[a]
    BY <1>5, AgesAreWithin
  <2>2. \A q \in Requests :
          /\ age'[q] = IF age[q] = Window THEN Window ELSE age[q] + 1
          /\ age[q] \in 0 .. Window /\ result'[q][k] = result[q][k]
    BY DEF Tick, TypeOK
  <2>3. CASE a = 0
    <3>1. \A q \in Requests : age'[q] # 0
      BY <1>2, <2>2
    <3>2. Pending(k, a)' = {}
      BY <2>3, <3>1 DEF Pending
    <3>3. admitted'[a] = 0
      BY <2>3 DEF Tick
    <3>4. IsFiniteSet({}) /\ Cardinality({}) = 0
      BY FS_EmptySet
    <3>5. Q[a + 1] = 0 /\ Q[a] = 0
      BY <1>5, <1>6, <2>1, <2>3
    <3> QED BY <3>2, <3>3, <3>4, <3>5
  <2>4. CASE a # 0
    <3>1. PICK b \in Ages : b = a - 1
      BY <1>2, <2>4 DEF Ages
    <3>2. /\ IsFiniteSet(Pending(k, b))
          /\ admitted[b] + Cardinality(Pending(k, b)) <= P[b + 1] - P[b]
      BY <1>1 DEF Covers
    <3>3. \A q \in Requests : age'[q] = a <=> age[q] = b
      <4>1. \A n \in 0 .. Window : (IF n = Window THEN Window ELSE n + 1) = a <=> n = b
        BY <1>2, <2>4, <3>1 DEF Ages
      <4> QED BY <2>2, <4>1
    <3>4. Pending(k, a)' = Pending(k, b)
      BY <2>2, <3>3 DEF Pending
    <3>5. admitted'[a] = admitted[b]
      BY <2>4, <3>1 DEF Tick
    <3>6. Q[a + 1] = P[b + 1] /\ Q[a] = P[b]
      <4>1. b + 1 = a
        BY <2>1, <3>1
      <4> QED BY <1>5, <2>1, <2>4, <3>1, <4>1
    <3> QED BY <3>2, <3>4, <3>5, <3>6
  <2> QED BY <2>3, <2>4
<1>8. Covers(Q, k)'
  BY <1>5, <1>7 DEF Covers
<1>9. Fits(Q, k)'
  <2>1. /\ count[k] \in Nat /\ ttl[k] \in 0 .. Window
        /\ ttl'[k] = IF ttl[k] = 0 THEN 0 ELSE ttl[k] - 1
        /\ count'[k] = IF ttl[k] <= 1 THEN 0 ELSE count[k]
    BY DEF Tick, TypeOK, Less
  <2>2. PICK v \in 0 .. Window : v = Window - 1
    BY <1>2
  <2>3. Q[1] = 0 /\ Q[Window] = P[v]
    <3>1. 1 \in 0 .. Window /\ Window \in 0 .. Window /\ 1 # 0 /\ Window # 0 /\ 1 - 1 = 0
      BY <1>2
    <3> QED BY <1>5, <1>6, <2>2, <3>1
  <2>4. P[v] \in Nat /\ P[Window] \in Nat /\ P[v] <= P[Window]
    <3>1. v \in Ages /\ v + 1 = Window /\ Window \in 0 .. Window
      BY <1>2, <2>2 DEF Ages
    <3>2. /\ IsFiniteSet(Pending(k, v))
          /\ admitted[v] + Cardinality(Pending(k, v)) <= P[v + 1] - P[v]
      BY <1>1, <3>1 DEF Covers
    <3>3. admitted[v] \in Nat /\ Cardinality(Pending(k, v)) \in Nat
      BY <3>1, <3>2, FS_CardinalityType DEF TypeOK
    <3>4. P[v] \in Nat /\ P[Window] \in Nat
      BY <3>1
    <3> QED BY <3>1, <3>2, <3>3, <3>4
  <2>5. CASE count[k] = 0
    <3>1. count'[k] = 0
      BY <2>1, <2>5
    <3>2. P[Window] <= Limit(k) - 1
      BY <1>1, <2>5 DEF Fits
    <3>3. Q[Window] <= Limit(k) - 1
      BY <1>2, <2>3, <2>4, <3>2
    <3> QED BY <2>3, <3>1, <3>3 DEF Fits
  <2>6. CASE count[k] # 0
    <3>1. /\ ttl[k] \in 1 .. Window
          /\ P[Window - ttl[k]] <= Used(k) - 1
          /\ P[Window - ttl[k] + 1] <= Used(k)
          /\ P[Window] - P[Window - ttl[k] + 1] <= Limit(k) - 1
      BY <1>1, <2>6 DEF Fits
    <3>2. PICK e \in 0 .. Window : e = Window - ttl[k] /\ e + 1 \in 0 .. Window
      BY <1>2, <3>1
    <3>3. PICK m \in Nat : m = P[e]
      BY <3>2
    <3>4. PICK n \in Nat : n = P[e + 1]
      BY <3>2
    <3>5. Used(k) \in Nat /\ Used(k) <= Limit(k)
      BY <1>2, <2>1 DEF Used
    <3>6. m <= Used(k) - 1 /\ n <= Used(k) /\ P[Window] - n <= Limit(k) - 1
      BY <3>1, <3>2, <3>3, <3>4
    <3>7. CASE ttl[k] = 1
      <4>1. e = v /\ count'[k] = 0
        BY <2>1, <2>2, <3>2, <3>7
      <4>2. Q[Window] = m
        BY <2>3, <3>3, <4>1
      <4>3. Q[Window] <= Limit(k) - 1
        BY <1>2, <3>5, <3>6, <4>2
      <4> QED BY <2>3, <4>1, <4>3 DEF Fits
    <3>8. CASE ttl[k] # 1
      <4>0. PICK t \in 1 .. Window : t = ttl[k]
        BY <3>1
      <4>1. count'[k] = count[k] /\ ttl'[k] = t - 1 /\ ttl'[k] \in 1 .. Window
        BY <1>2, <2>1, <3>8, <4>0
      <4>2. Window - ttl'[k] = e + 1 /\ (e + 1) + 1 \in 0 .. Window /\ e + 1 # 0
            /\ (e + 1) + 1 # 0 /\ ((e + 1) + 1) - 1 = e + 1 /\ (e + 1) - 1 = e
        <5>1. e = Window - t /\ t # 1
          BY <3>2, <3>8, <4>0
        <5> QED BY <1>2, <4>1, <5>1
      <4>3. Q[e + 1] = m /\ Q[(e + 1) + 1] = n
        BY <1>5, <3>2, <3>3, <3>4, <4>2
      <4>4. Used(k)' = Used(k)
        BY <4>1 DEF Used
      <4>5. Q[Window] - n <= Limit(k) - 1
        BY <1>2, <2>3, <2>4, <3>6
      <4>6. /\ Q[Window - ttl'[k]] <= Used(k)' - 1
            /\ Q[Window - ttl'[k] + 1] <= Used(k)'
            /\ Q[Window] - Q[Window - ttl'[k] + 1] <= Limit(k) - 1
        BY <3>6, <4>2, <4>3, <4>4, <4>5
      <4> QED BY <2>6, <4>1, <4>6 DEF Fits
    <3> QED BY <3>7, <3>8
  <2> QED BY <2>5, <2>6
<1> QED BY <1>4, <1>8, <1>9 DEF TwoWindows

LEMMA RequestWindows ==
  ASSUME TypeOK, TypeOK', BurstInv, NEW p \in Requests,
         Submit(p) \/ CountAddress(p) \/ CountSubject(p) \/ Fail(p) \/ Admit(p) \/ Reject(p)
  PROVE  BurstInv'
<1> USE DEF Goto, Forget, Unblock
<1>1. ASSUME NEW q \in Requests PROVE CountedBefore(q)'
  <2>1. CASE q # p
    <3>1. pc'[q] = pc[q] /\ keys'[q] = keys[q] /\ age'[q] = age[q] /\ watched' = watched
      BY <2>1 DEF Submit, CountAddress, CountSubject, Fail, Admit, Reject, Consume, TypeOK
    <3> QED BY <3>1 DEF BurstInv, CountedBefore
  <2>2. CASE q = p
    <3>1. CASE Submit(p)
      <4>1. pc[p] \in {"idle", "told"} /\ pc'[p] = "ip" /\ age'[p] = age[p]
        BY <3>1 DEF Submit, TypeOK
      <4> QED BY <2>2, <4>1 DEF BurstInv, CountedBefore
    <3>2. CASE CountAddress(p)
      <4>1. /\ pc[p] = "ip" /\ pc'[p] = "subject" /\ keys' = keys
            /\ watched' = watched
            /\ watched # keys[p].ip => age'[p] = age[p]
        BY <3>2 DEF CountAddress, Consume, TypeOK
      <4> QED BY <2>2, <4>1 DEF BurstInv, CountedBefore
    <3>3. CASE CountSubject(p)
      <4>1. pc'[p] = "answer"
        BY <3>3 DEF CountSubject, TypeOK
      <4> QED BY <2>2, <4>1 DEF CountedBefore
    <3>4. CASE Fail(p) \/ Admit(p) \/ Reject(p)
      <4>1. pc'[p] \in {"idle", "told"} /\ age'[p] = Window
        BY <3>4 DEF Fail, Admit, Reject, TypeOK
      <4> QED BY <2>2, <4>1 DEF CountedBefore
    <3> QED BY <3>1, <3>2, <3>3, <3>4
  <2> QED BY <2>1, <2>2
<1>0. watched' = watched
  BY DEF Submit, CountAddress, CountSubject, Fail, Admit, Reject
<1>2. ASSUME NEW k \in Keys, k = watched PROVE TwoWindows(k)'
  <2>1. TwoWindows(k) /\ CountedBefore(p)
    BY <1>2 DEF BurstInv
  <2>2. /\ keys[p].ip \in Keys /\ keys[p].subject \in Keys
        /\ keys[p].ip # keys[p].subject
    BY KeysOfRequest
  <2>3. CASE CountAddress(p)
    <3>1. /\ Consume(p, keys[p].ip) /\ admitted' = admitted /\ age[p] = Window
      BY <2>1, <2>2, <2>3 DEF CountAddress, CountedBefore
    <3> QED BY <1>2, <2>1, <2>2, <3>1, ConsumeWindows
  <2>4. CASE CountSubject(p)
    <3>1. /\ Consume(p, keys[p].subject) /\ admitted' = admitted
          /\ keys[p].subject = watched => age[p] = Window
      BY <2>1, <2>2, <2>4 DEF CountSubject, CountedBefore
    <3> QED BY <1>2, <2>1, <2>2, <3>1, ConsumeWindows
  <2>5. CASE Admit(p)
    BY <1>2, <2>1, <2>5, AdmitWindows
  <2>6. CASE Submit(p) \/ Fail(p) \/ Reject(p)
    <3>1. PICK j \in Keys : ConsumeFixedWindow(j) \/ UNCHANGED <<count, ttl>>
      BY <2>2, <2>6 DEF Submit, Fail, Reject
    <3>2. admitted' = admitted
      BY <2>6 DEF Submit, Fail, Reject
    <3>3. \A q \in Requests : \/ age'[q] = Window
                              \/ age'[q] = age[q] /\ result'[q][k] = result[q][k]
      BY <2>6 DEF Submit, Fail, Reject, TypeOK
    <3> QED BY <2>1, <3>1, <3>2, <3>3, QuietWindows
  <2> QED BY <2>3, <2>4, <2>5, <2>6
<1>3. TwoWindows(watched)'
  <2>1. PICK k \in Keys : k = watched
    BY WatchedIsKey
  <2>2. TwoWindows(k)'
    BY <1>2, <2>1
  <2> QED BY <1>0, <2>1, <2>2 DEF TwoWindows, Covers, Fits, Used, Pending, Limit
<1> QED BY <1>1, <1>3 DEF BurstInv

NothingCounted ==
  /\ \A k \in Keys : count[k] = 0
  /\ admitted = NoneAdmitted
  /\ \A p \in Requests : age[p] = Window

LEMMA EmptyWindows == NothingCounted => \A k \in Keys : TwoWindows(k)
<1> SUFFICES ASSUME NothingCounted, NEW k \in Keys PROVE TwoWindows(k)
  OBVIOUS
<1> USE DEF NothingCounted
<1> DEFINE P == [n \in 0 .. Window |-> 0]
<1>1. Limit(k) \in Nat /\ Limit(k) >= 1 /\ Window \in Nat /\ Window >= 1
  BY LimitIsPositive, WindowIsPositive
<1>2. P \in [0 .. Window -> Nat] /\ P[0] = 0 /\ P[1] = 0 /\ P[Window] = 0
  BY <1>1
<1>3. ASSUME NEW a \in Ages
      PROVE  /\ IsFiniteSet(Pending(k, a))
             /\ admitted[a] + Cardinality(Pending(k, a)) <= P[a + 1] - P[a]
  <2>1. Pending(k, a) = {}
    BY AgesAreWithin DEF Pending
  <2>2. admitted[a] = 0
    BY DEF NoneAdmitted, Ages
  <2>3. P[a + 1] = 0 /\ P[a] = 0
    BY AgesAreWithin
  <2> QED BY <2>1, <2>2, <2>3, FS_EmptySet
<1> HIDE DEF P
<1>4. Covers(P, k)
  BY <1>2, <1>3 DEF Covers
<1>5. Fits(P, k)
  BY <1>1, <1>2 DEF Fits
<1> QED BY <1>2, <1>4, <1>5 DEF TwoWindows

LEMMA BurstInit == LimitInit => BurstInv
BY EmptyWindows, LimitTypeInit, WatchedIsKey DEF LimitInit, BurstInv, CountedBefore, NothingCounted

LEMMA BurstStep == TypeOK /\ TypeOK' /\ BurstInv /\ [LimitNext]_limitVars => BurstInv'
<1> SUFFICES ASSUME TypeOK, TypeOK', BurstInv, [LimitNext]_limitVars PROVE BurstInv'
  OBVIOUS
<1>1. CASE Tick
  <2>1. ASSUME NEW q \in Requests PROVE CountedBefore(q)'
    <3>1. /\ pc' = pc /\ keys' = keys
          /\ watched' = watched
          /\ age[q] = Window => age'[q] = Window
      BY <1>1 DEF Tick, TypeOK
    <3> QED BY <3>1 DEF BurstInv, CountedBefore
  <2>2. PICK k \in Keys : k = watched /\ TwoWindows(k) /\ watched' = k
    BY <1>1, WatchedIsKey DEF BurstInv, Tick
  <2>3. TwoWindows(k)'
    BY <1>1, <2>2, TickWindows
  <2>4. TwoWindows(watched)'
    BY <2>2, <2>3 DEF TwoWindows, Covers, Fits, Used, Pending, Limit
  <2> QED BY <2>1, <2>4 DEF BurstInv
<1>2. CASE LoseCounters
  <2>1. NothingCounted'
    BY <1>2 DEF LoseCounters, NothingCounted
  <2>2. (\A k \in Keys : TwoWindows(k))'
    BY <2>1, EmptyWindows, PTL
  <2>3. \A q \in Requests : CountedBefore(q)'
    BY <2>1 DEF CountedBefore, NothingCounted
  <2>4. watched' \in Keys
    BY <1>2, WatchedIsKey DEF LoseCounters
  <2>5. TwoWindows(watched)'
    BY <2>2, <2>4
  <2> QED BY <2>3, <2>5 DEF BurstInv
<1>3. CASE UNCHANGED limitVars
  <2>1. UNCHANGED <<count, ttl, pc, keys, result, watched, age, admitted>>
    BY <1>3 DEF limitVars, requestVars
  <2> QED
    BY <2>1 DEF BurstInv, CountedBefore, TwoWindows, Covers, Fits, Used, Pending
<1> QED BY <1>1, <1>2, <1>3, RequestWindows DEF LimitNext

\* The total of what is admitted is within the bound of its last age.
LEMMA TotalIsCovered ==
  ASSUME TypeOK, NEW k \in Keys, NEW P \in [0 .. Window -> Nat], Covers(P, k),
         NEW v, IsTotal(v, admitted, Ages)
  PROVE  v <= P[Window]
<1> DEFINE g == admitted
           A == {n \in Nat : n <= Window =>
                   \E w \in Int : IsTotal(w, [a \in 0 .. n - 1 |-> g[a]], 0 .. n - 1)
                                  /\ w <= P[n]}
<1>1. Window \in Nat /\ Window >= 1 /\ g \in [Ages -> Nat]
  BY WindowIsPositive DEF TypeOK
<1>2. \A n \in Nat : IsFiniteSet(0 .. n - 1)
  BY FS_Interval
<1>3. 0 \in A
  <2>1. PICK S : S = 0 .. (0 - 1)
    OBVIOUS
  <2>2. S = {} /\ IsFiniteSet(S)
    BY <2>1, FS_EmptySet
  <2>3. PICK f : f = [a \in S |-> g[a]]
    OBVIOUS
  <2>4. f \in [S -> Int]
    BY <2>2, <2>3
  <2>5. PICK w \in Int : IsTotal(w, f, S) /\ w = 0
    BY <2>2, <2>4, TotalExists, TotalIsInteger
  <2>6. P[0] = 0
    BY DEF Covers
  <2> QED BY <2>1, <2>3, <2>5, <2>6
<1>4. ASSUME NEW n \in Nat, n \in A PROVE n + 1 \in A
  <2> SUFFICES ASSUME n + 1 <= Window
               PROVE  \E w \in Int :
                        /\ IsTotal(w, [a \in 0 .. (n + 1) - 1 |-> g[a]], 0 .. (n + 1) - 1)
                        /\ w <= P[n + 1]
    OBVIOUS
  <2>0. n <= Window
    BY <1>1
  <2>1. PICK v1 \in Int : /\ IsTotal(v1, [a \in 0 .. n - 1 |-> g[a]], 0 .. n - 1)
                          /\ v1 <= P[n]
    BY <1>4, <2>0, Zenon
  <2>2. PICK S : S = 0 .. n - 1
    OBVIOUS
  <2>3. /\ 0 .. (n + 1) - 1 = S \cup {n} /\ n \notin S /\ S \subseteq Ages /\ n \in Ages
        /\ IsFiniteSet(S)
    BY <1>1, <1>2, <2>2 DEF Ages
  <2>4. PICK h : h = [a \in S \cup {n} |-> g[a]]
    OBVIOUS
  <2>5. PICK f : f = [a \in S |-> g[a]]
    OBVIOUS
  <2>6. h \in [S \cup {n} -> Int] /\ f \in [S -> Int] /\ \A a \in S : f[a] = h[a]
    BY <1>1, <2>3, <2>4, <2>5
  <2>7. IsFiniteSet(S \cup {n})
    BY <2>3, FS_AddElement
  <2>8. PICK w \in Int : IsTotal(w, h, S \cup {n})
    BY <2>6, <2>7, TotalExists
  <2>9. IsTotal(v1, f, S)
    BY <2>1, <2>2, <2>5
  <2>10. w = v1 + h[n]
    BY <2>3, <2>6, <2>8, <2>9, TotalOfOneMore
  <2>11. h[n] = g[n] /\ g[n] \in Nat
    BY <1>1, <2>3, <2>4
  <2>12. g[n] + Cardinality(Pending(k, n)) <= P[n + 1] - P[n]
         /\ Cardinality(Pending(k, n)) \in Nat
    BY <2>3, FS_CardinalityType DEF Covers
  <2>13. P[n] \in Nat /\ P[n + 1] \in Nat
    BY <1>1
  <2>14. w <= P[n + 1]
    BY <2>1, <2>10, <2>11, <2>12, <2>13
  <2> QED BY <2>3, <2>4, <2>8, <2>14
<1>5. Window \in A
  <2> HIDE DEF A
  <2> QED BY <1>1, <1>3, <1>4, Induction
<1>6. PICK w \in Int : /\ IsTotal(w, [a \in 0 .. Window - 1 |-> g[a]], 0 .. Window - 1)
                       /\ w <= P[Window]
  <2>1. Window <= Window
    BY <1>1
  <2> QED BY <1>5, <2>1, Zenon
<1>7. [a \in 0 .. Window - 1 |-> g[a]] = g
  BY <1>1 DEF Ages
<1>8. IsTotal(w, g, Ages)
  BY <1>6, <1>7 DEF Ages
<1>9. w = v
  <2> HIDE DEF g
  <2>1. IsFiniteSet(Ages) /\ g \in [Ages -> Int]
    BY <1>1, <1>2 DEF Ages
  <2> QED BY <1>8, <2>1, TotalIsUnique DEF g
<1> QED BY <1>6, <1>9

\* The sum over the ages, as the property defines it, is a total.
LEMMA FoldIsTotal ==
  ASSUME NEW S, IsFiniteSet(S), NEW g \in [S -> Int]
  PROVE  IsTotal(FoldFunction(LAMBDA m, n : m + n, 0, g), g, S)
<1> DEFINE Adds(f) == f = [s \in SUBSET S |->
                        IF s = {} THEN 0 ELSE g[CHOOSE x \in s : TRUE]
                                              + f[s \ {CHOOSE x \in s : TRUE}]]
           F == CHOOSE f : Adds(f)
<1>1. PICK G : AddsUp(G, g, S)
  BY SumExists
<1>2. \A f : AddsUp(f, g, S) <=> Adds(f)
  BY DEF AddsUp, Pick
<1>3. AddsUp(F, g, S)
  <2>1. Adds(G)
    BY <1>1, <1>2, Zenon
  <2>2. Adds(F)
    <3> HIDE DEF Adds
    <3> QED BY <2>1, Zenon
  <2> HIDE DEF Adds, F
  <2> QED BY <1>2, <2>2, Zenon
<1>4. FoldFunction(LAMBDA m, n : m + n, 0, g) = F[S]
  BY DEF FoldFunction, FoldFunctionOnSet, MapThenFoldSet
<1> QED BY <1>3, <1>4 DEF IsTotal

\* Of the requests counted within a window's length, however two windows meet in
\* it, fewer than twice the maximum are admitted, for any number of clients.
THEOREM BurstsStayBounded == LimitSpec => []BurstsAreBounded
<1>1. ASSUME TypeOK, BurstInv, NEW k \in Keys, k = watched
      PROVE  FoldFunction(LAMBDA m, n : m + n, 0, admitted) <= 2 * Limit(k) - 1
  <2>1. PICK P \in [0 .. Window -> Nat] : Covers(P, k) /\ Fits(P, k)
    BY <1>1 DEF BurstInv, TwoWindows
  <2>2. PICK v : v = FoldFunction(LAMBDA m, n : m + n, 0, admitted)
    OBVIOUS
  <2>3. IsFiniteSet(Ages)
    BY WindowIsPositive, FS_Interval DEF Ages
  <2>4. admitted \in [Ages -> Int]
    BY <1>1 DEF TypeOK
  <2>5. IsTotal(v, admitted, Ages)
    BY <2>2, <2>3, <2>4, FoldIsTotal
  <2>6. v \in Int /\ v <= P[Window]
    BY <1>1, <2>1, <2>3, <2>4, <2>5, TotalIsCovered, TotalIsInteger
  <2>7. Limit(k) \in Nat /\ Limit(k) >= 1 /\ Window \in Nat /\ Window >= 1
    BY LimitIsPositive, WindowIsPositive
  <2>8. PICK w \in Nat : w = P[Window]
    BY <2>7
  <2>9. w <= 2 * Limit(k) - 1
    <3>1. CASE count[k] = 0
      BY <2>1, <2>7, <2>8, <3>1 DEF Fits
    <3>2. CASE count[k] # 0
      <4>1. /\ ttl[k] \in 1 .. Window
            /\ P[Window - ttl[k] + 1] <= Used(k)
            /\ w - P[Window - ttl[k] + 1] <= Limit(k) - 1
        BY <2>1, <2>8, <3>2 DEF Fits
      <4>2. PICK e \in 0 .. Window - 1 : e = Window - ttl[k]
        BY <2>7, <4>1
      <4>3. PICK n \in Nat : n = P[e + 1]
        <5>1. e + 1 \in 0 .. Window
          BY <2>7, <4>2
        <5> QED BY <5>1
      <4>4. Used(k) <= Limit(k) /\ Used(k) \in Nat
        BY <1>1, <2>7 DEF Used, TypeOK
      <4>5. n <= Used(k) /\ w - n <= Limit(k) - 1
        BY <4>1, <4>2, <4>3
      <4> QED BY <2>7, <4>4, <4>5
    <3> QED BY <3>1, <3>2
  <2>10. v <= 2 * Limit(k) - 1
    BY <2>6, <2>7, <2>8, <2>9
  <2> QED BY <2>2, <2>10, Zenon
<1>2. TypeOK /\ BurstInv => BurstsAreBounded
  BY <1>1, WatchedIsKey DEF BurstsAreBounded
<1> QED BY <1>2, BurstInit, BurstStep, LimitTypes, PTL DEF LimitSpec
================================================================================
