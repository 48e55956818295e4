-------------------------- MODULE RecurringSchedules --------------------------
(***************************************************************************)
(* Calendar arithmetic of RecurringSchedulesService and                    *)
(* ProviderSessionsService: which dates a schedule has, at which instants  *)
(* its occurrences start, and what a session remembers of its zone.  One   *)
(* schedule and one manual session of an activity, requests one at a time  *)
(* (SessionSchedule has their races, cancellation and archival), while the *)
(* clock passes changes of offset and the provider moves to another zone.  *)
(* Capacity is left out.                                                   *)
(*                                                                         *)
(* Date 0 is a Monday; the wall clock shows Day * d at midnight of date d. *)
(***************************************************************************)
EXTENDS LocalTime

CONSTANTS
  Zones,      \* zones of the provider
  Inputs,     \* schedules that are requested
  WallClocks, \* local starts that are requested for a manual session
  Durations,  \* durations that are requested
  Cutoffs,    \* booking cutoffs that are requested
  Moments,    \* instants at which requests arrive
  MaxDays,    \* a schedule spans at most one day more (365 in the code)
  None        \* nothing requested, no row

Input == [startTime : 0 .. Day - 1, weekdays : SUBSET (1 .. 7) \ {{}}, interval : 1 .. 52,
          first : Nat, last : Nat, duration : 1 .. Day, cutoff : Nat,
          policy : OverlapPolicies]

ASSUME ZonesAssumption ==
  /\ Zones \subseteq Zone
  /\ \A z \in Zones : {z.before, z.after} \subseteq (-Day) .. Day
ASSUME InputsAssumption == Inputs \subseteq Input
ASSUME MomentsAssumption == Moments \subseteq Nat /\ Moments # {}
ASSUME DurationsAssumption == Durations \subseteq 1 .. Day /\ Cutoffs \subseteq Nat
ASSUME WallClocksAssumption == WallClocks \subseteq Int
ASSUME NoneAssumption == None \notin Int /\ None \notin [input : Inputs, zone : Zones]

VARIABLES
  now,
  zone,      \* the zone of the provider
  schedule,  \* the schedule, with the zone it was created in, or None
  sessions,  \* the rows of activity_sessions
  answer     \* what the last generation answered, or None

vars == <<now, zone, schedule, sessions, answer>>

Init ==
  /\ now \in Moments /\ \A m \in Moments : now <= m
  /\ zone \in Zones
  /\ schedule = None
  /\ sessions = {}
  /\ answer = None

Starts == {s.start : s \in sessions}
Materialized == {s \in sessions : s.recurring}

-----------------------------------------------------------------------------
(* A session that begins at a resolved time; asked is the wall clock that   *)
(* was asked for.                                                           *)
RowWithStartOffset(z, asked, resolved, duration, cutoff, recurring) ==
  [asked |-> asked, start |-> resolved.instant, end |-> resolved.instant + duration,
   zone |-> z, offset |-> resolved.offset, endOffset |-> resolved.offset,
   cutoff |-> cutoff, cutoffAt |-> resolved.instant - cutoff, recurring |-> recurring]

Row(z, asked, resolved, duration, cutoff, recurring) ==
  [asked |-> asked, start |-> resolved.instant, end |-> resolved.instant + duration,
   zone |-> z, offset |-> resolved.offset,
   endOffset |-> Offset(z, resolved.instant + duration),
   cutoff |-> cutoff, cutoffAt |-> resolved.instant - cutoff, recurring |-> recurring]

IsInFuture(resolved, cutoff) == resolved.instant > now /\ resolved.instant - cutoff > now

(* create of ProviderSessionsService                                        *)
CreateSession(local, duration, cutoff, policy) ==
  LET resolved == ResolveLocalDateTime(zone, local, policy, now)
  IN  /\ Materialized = sessions
      /\ resolved.kind = "instant"
      /\ IsInFuture(resolved, cutoff)
      /\ resolved.instant \notin Starts
      /\ sessions' = sessions \cup {Row(zone, local, resolved, duration, cutoff, FALSE)}
      /\ answer' = None
      /\ UNCHANGED <<now, zone, schedule>>

Kept(new, old) == IF new = None THEN old ELSE new

(* update: the columns that follow from a new start, duration or cutoff.    *)
Moved(s, local, duration, cutoff, resolved) ==
  LET start == IF local = None THEN s.start ELSE resolved.instant
      end == start + Kept(duration, s.end - s.start)
      z == IF local = None THEN s.zone ELSE zone
      changesTime == local # None \/ duration # None
  IN  [s EXCEPT !.asked = Kept(local, @), !.start = start, !.zone = z,
                !.offset = IF local = None THEN @ ELSE resolved.offset,
                !.end = IF changesTime THEN end ELSE @,
                !.endOffset = IF changesTime THEN Offset(z, end) ELSE @,
                !.cutoff = Kept(cutoff, @),
                !.cutoffAt = IF local = None /\ cutoff = None
                               THEN @ ELSE start - Kept(cutoff, s.cutoff)]

UpdateSession(s, local, duration, cutoff, policy) ==
  LET resolved == ResolveLocalDateTime(zone, local, policy, now)
      row == Moved(s, local, duration, cutoff, resolved)
  IN  /\ <<local, duration, cutoff>> # <<None, None, None>>
      /\ s.start > now
      /\ s.recurring => local = None /\ duration = None
      /\ local = None => policy = NoPolicy
      /\ local # None => resolved.kind = "instant" /\ resolved.instant > now
      /\ row.start \notin Starts \ {s.start}
      /\ sessions' = (sessions \ {s}) \cup {row}
      /\ answer' = None
      /\ UNCHANGED <<now, zone, schedule>>

-----------------------------------------------------------------------------
(* assertGenerationWindow; the last date ends at midnight UTC.              *)
MayGenerate(input) ==
  /\ input.first <= input.last
  /\ input.last - input.first <= MaxDays
  /\ Day * (input.last + 1) > now

CreateSchedule(input) ==
  /\ schedule = None
  /\ MayGenerate(input)
  /\ schedule' = [input |-> input, zone |-> zone]
  /\ answer' = None
  /\ UNCHANGED <<now, zone, sessions>>

Weekday(date) == (date % 7) + 1

(* Counts from the Monday of the first week.                                *)
IsOccurrenceInWeek(input, date) ==
  /\ (date \div 7 - input.first \div 7) % input.interval = 0
  /\ Weekday(date) \in input.weekdays

IsOccurrenceDate(input, date) ==
  /\ ((date - input.first) \div 7) % input.interval = 0
  /\ Weekday(date) \in input.weekdays

OccurrenceDates(input, through) ==
  {d \in input.first .. through : IsOccurrenceDate(input, d)}

LocalStart(input, date) == Day * date + input.startTime

Occurrence(date) ==
  LET input == schedule.input
      resolved == ResolveLocalDateTime(schedule.zone, LocalStart(input, date), input.policy, now)
  IN  [resolved |-> resolved,
       row |-> Row(schedule.zone, LocalStart(input, date), resolved, input.duration,
                   input.cutoff, TRUE)]

(* generate: rows whose start is taken are skipped, and a session that is   *)
(* not of the schedule on one of the starts makes the whole request fail.   *)
Generate(through) ==
  LET input == schedule.input
      found == {Occurrence(d) : d \in OccurrenceDates(input, through)}
      gaps == {o \in found : o.resolved.kind = "gap"}
      rows == {o.row : o \in {n \in found \ gaps : IsInFuture(n.resolved, input.cutoff)}}
  IN  /\ through \in input.first .. input.last
      /\ \A r \in rows, s \in sessions : r.start = s.start => s.recurring
      /\ sessions' = sessions \cup {r \in rows : r.start \notin Starts}
      /\ answer' = [through |-> through, skipped |-> Cardinality(gaps)]
      /\ UNCHANGED <<now, zone, schedule>>

-----------------------------------------------------------------------------
Wait ==
  /\ \E m \in Moments : now < m /\ now' = m
  /\ answer' = None
  /\ UNCHANGED <<zone, schedule, sessions>>

(* ProvidersService.update                                                  *)
ChangeZone(z) ==
  /\ zone' = z
  /\ answer' = None
  /\ UNCHANGED <<now, schedule, sessions>>

Next ==
  \/ \E local \in WallClocks, d \in Durations, c \in Cutoffs,
        policy \in OverlapPolicies \cup {NoPolicy} : CreateSession(local, d, c, policy)
  \/ \E s \in sessions, local \in WallClocks \cup {None}, d \in Durations \cup {None},
        c \in Cutoffs \cup {None}, policy \in OverlapPolicies \cup {NoPolicy} :
          UpdateSession(s, local, d, c, policy)
  \/ \E input \in Inputs : CreateSchedule(input)
  \/ schedule # None /\ \E through \in schedule.input.first .. schedule.input.last :
                          Generate(through)
  \/ Wait
  \/ \E z \in Zones : ChangeZone(z)

Spec == Init /\ [][Next]_vars

-----------------------------------------------------------------------------
(***************************************************************************)
(* Properties                                                              *)
(***************************************************************************)

(* The dates of a schedule by definition: those of its weekdays in every    *)
(* interval-th block of seven days from the first date.                     *)
Dates(input) ==
  {d \in input.first .. input.last :
     /\ (d % 7) + 1 \in input.weekdays
     /\ \E k \in 0 .. input.last - input.first :
          d \in (input.first + 7 * input.interval * k) .. (input.first + 7 * input.interval * k + 6)}

(* The instant of an occurrence by definition of the zone, if there is one. *)
Wanted(input, z, date) ==
  LET instants == InstantsOf(z, LocalStart(input, date))
  IN  IF input.policy = "LATER"
        THEN {t \in instants : \A u \in instants : u <= t}
        ELSE {t \in instants : \A u \in instants : t <= u}

(* "snapshots the canonical provider IANA timezone plus the start and end   *)
(* offsets on every session" (README.md:164): a session is shown at the     *)
(* wall clock that was asked for and ends when a clock of its zone says so, *)
(* after any changes of its start, duration and cutoff and of the           *)
(* provider's zone; the cutoff stays where it counts from the start.        *)
SnapshotsAgree ==
  \A s \in sessions :
    /\ WallClockAtOffset(s.start, s.offset) = s.asked
    /\ WallClockAtOffset(s.end, s.endOffset) = WallClock(s.zone, s.end)
    /\ s.start \in InstantsOf(s.zone, s.asked)
    /\ s.cutoffAt = s.start - s.cutoff

(* Generations at different moments, before and after the clock changes,    *)
(* agree: an occurrence is materialized at most once per date of the        *)
(* schedule, at the instant its policy selects.                             *)
OneOccurrencePerDate ==
  /\ \A s \in Materialized :
       \E d \in Dates(schedule.input) :
         s.asked = LocalStart(schedule.input, d) /\ s.start \in Wanted(schedule.input, schedule.zone, d)
  /\ \A s, r \in Materialized : s.asked = r.asked => s = r

(* "Weekly recurrence is finite and materialized, with explicit gap         *)
(* skipping" (README.md:164): a generation that succeeds leaves no date up  *)
(* to its limit without a session, but those already past, and reports as   *)
(* skipped those whose local time does not exist.                           *)
GenerationsAreComplete ==
  answer # None =>
    LET input == schedule.input
        upTo == {d \in Dates(input) : d <= answer.through}
    IN  /\ \A d \in upTo : \A t \in Wanted(input, schedule.zone, d) :
             t - input.cutoff > now => t \in Starts
        /\ answer.skipped = Cardinality({d \in upTo : Wanted(input, schedule.zone, d) = {}})
=============================================================================
