--------------------------- MODULE RequestInputs ---------------------------
(***************************************************************************)
(* What becomes of the body of a request on its way into a table.  Three   *)
(* layers decide about each field and none of them knows the other two:    *)
(* the ValidationPipe applies the decorators of a DTO, the service trims,  *)
(* parses or replaces the value, and PostgreSQL applies the type and the   *)
(* checks of the column.  What a layer lets through and the next one       *)
(* cannot take is an internal error (the exception filter answers 500).    *)
(*                                                                         *)
(* A text is its number of characters, before and after trimming and in    *)
(* lower case; a well-formed slug, code, address, date or identifier is    *)
(* one value.  The start of a session is its minute in the calendar of     *)
(* ISO 8601, whose years have four digits; the clock stands still.         *)
(* Callers are authorized and the rows they name exist: who may do what,   *)
(* and when, is the matter of the other modules.                           *)
(***************************************************************************)
EXTENDS Integers, Functions, CommissionSnapshot

CONSTANTS
    MaxInteger,     \* 2147483647 in the code
    Digits,         \* the largest number of 19 digits
    MaxOffset,      \* the largest offset a query can have
    MaxNumber,      \* the largest number in a request
    Now,            \* the minute it is, from the start of the calendar
    Soon,           \* the minute of a start that is nothing special
    LastMinute,     \* the last minute of the year 9999
    Plans           \* sessions, and last dates of schedules, that may be stored

\* MaxBigint is 9223372036854775807 in the code.
ASSUME BoundsAssumption ==
    /\ {MaxInteger, Digits, MaxOffset, MaxNumber} \subseteq Nat
    /\ 32767 < MaxInteger /\ MaxInteger < MaxBigint /\ MaxBigint < Digits
    /\ 999900 <= MaxOffset /\ MaxOffset < MaxNumber
    /\ {Now, Soon, LastMinute} \subseteq Nat /\ Now < Soon /\ Soon <= LastMinute

\* What the checks of the tables leave of a session or of a schedule.
ScheduledPlans == [localStartsAt : Nat, durationMinutes : 1 .. 1440,
                   bookingCutoffMinutes : 0 .. MaxInteger, capacity : 1 .. 32767]

ASSUME PlansAssumption == Plans \subseteq ScheduledPlans

VARIABLES
    operation,      \* the endpoint that is called
    input,          \* the fields of the body or the query
    stage,          \* "idle", "sent", "valid", "ready", or the answer
    row,            \* the columns that the service writes
    activity,       \* the stored activity, as far as others rely on it
    plan            \* the stored session, or last date of a schedule, that is named

inputVars == <<operation, input, stage, row, activity, plan>>

Answers == {"stored", "refused", "failed"}

-----------------------------------------------------------------------------
(* Values *)

Value(is, size, trimmed, lowered) ==
    [is |-> is, size |-> size, trimmed |-> trimmed, lowered |-> lowered]

Absent == Value("absent", 0, 0, 0)
Null == Value("null", 0, 0, 0)
Malformed == Value("malformed", 0, 0, 0)
Valid == Value("valid", 1, 1, 1)
Taken == Value("taken", 1, 1, 1)    \* well-formed, and used by another row
WithNul == Value("nul", 1, 1, 1)    \* of a fitting length, with the character U+0000
Moment(n) == Value("moment", n, n, n)   \* a start, by its minute
Number(n) == Value("number", n, n, n)
Text(n, trimmed) == Value("text", n, trimmed, trimmed)
Growing(n) == Value("text", n, n, 2 * n)    \* two characters each in lower case

TrimmedOf(v) == IF v.is = "text" THEN [v EXCEPT !.size = v.trimmed] ELSE v

-----------------------------------------------------------------------------
(* The decorators of a field *)

Rule(kind, min, max, trims) ==
    [kind |-> kind, min |-> min, max |-> max, trims |-> trims,
     optional |-> FALSE, nullable |-> FALSE, default |-> Absent]

Whole(min, max) == Rule("number", min, max, FALSE)
Signed(max) == Rule("signed", -max, max, FALSE)     \* and not zero
Items(min, max) == Rule("number", min, max, FALSE)  \* the length of an array
String(min, max) == Rule("text", min, max, FALSE)
Trimmed(min, max) == Rule("text", min, max, TRUE)
Format == Rule("format", 1, 1, FALSE)
Url == Rule("url", 1, 1, FALSE)     \* only its host is looked at closely
LocalTime == Rule("moment", 1, 1, FALSE)

Optional(rule) == [rule EXCEPT !.optional = TRUE]
Nullable(rule) == [rule EXCEPT !.optional = TRUE, !.nullable = TRUE]
Defaulted(rule, v) == [rule EXCEPT !.optional = TRUE, !.default = v]

Partial(dto) == [f \in DOMAIN dto |-> Optional(dto[f])]
Omitting(dto, fields) == Restrict(dto, DOMAIN dto \ fields)

\* A pipe that validates texts as they come.
Untransformed(rule, v) == IF v = Absent THEN rule.default ELSE v

\* The value that is validated, and that the service sees.
Transformed(rule, v) ==
    IF v = Absent THEN rule.default
    ELSE IF rule.trims THEN TrimmedOf(v) ELSE v

IsWithin(rule, v) == rule.min <= v.size /\ v.size <= rule.max

Conforms(rule, v) ==
    \/ v \in {Absent, Null} /\ rule.optional
    \/ v \in {Valid, Taken} /\ rule.kind \in {"text", "format", "url", "moment"}
    \/ v = WithNul /\ rule.kind \in {"text", "url"}
    \/ v.is = "moment" /\ rule.kind = "moment"
    \/ v.is = "text" /\ rule.kind = "text" /\ IsWithin(rule, v)
    \/ v.is = "number" /\ rule.kind = "number" /\ IsWithin(rule, v)
    \/ v.is = "number" /\ rule.kind = "signed" /\ IsWithin(rule, v) /\ v.size # 0

-----------------------------------------------------------------------------
(* The DTOs *)

ActivityMediaInputDto ==
    [type |-> Format, url |-> Url, altText |-> Nullable(Trimmed(0, 240)),
     displayOrder |-> Defaulted(Whole(0, 32767), Number(0))]

CreateActivityDto ==
    [categoryId |-> Format, title |-> Trimmed(2, 160), slug |-> Format,
     shortDescription |-> Nullable(Trimmed(0, 500)),
     fullDescription |-> Nullable(Trimmed(0, 10000)),
     priceMinor |-> Nullable(Whole(0, Digits)),
     currency |-> Nullable(Format),
     durationMinutes |-> Nullable(Whole(1, 32767)),
     locationType |-> Nullable(Format),
     venueName |-> Nullable(Trimmed(0, 160)),
     addressLine1 |-> Nullable(Trimmed(0, 200)),
     addressLine2 |-> Nullable(Trimmed(0, 200)),
     city |-> Nullable(Trimmed(0, 120)), region |-> Nullable(Trimmed(0, 120)),
     postalCode |-> Nullable(Trimmed(0, 32)), country |-> Nullable(Format),
     onlineUrl |-> Nullable(Url),
     minParticipants |-> Nullable(Whole(1, 32767)),
     maxParticipants |-> Nullable(Whole(1, 32767)),
     cancellationPolicy |-> Nullable(Trimmed(0, 5000)),
     cancellationWindowMinutes |-> Nullable(Whole(0, MaxInteger)),
     bookingCutoffMinutes |-> Nullable(Whole(0, MaxInteger)),
     media |-> Optional(Items(0, 20))]

CreateOneTimeSessionDto ==
    [localStartsAt |-> LocalTime, dstOverlapPolicy |-> Optional(Format),
     durationMinutes |-> Optional(Whole(1, 1440)), capacity |-> Whole(1, 32767),
     bookingCutoffMinutes |-> Optional(Whole(0, MaxInteger))]

CancelSessionDto == [reason |-> Trimmed(1, 500)]

CreateScheduleTemplateDto ==
    [localStartTime |-> Format, weekdays |-> Format,
     intervalWeeks |-> Defaulted(Whole(1, 52), Number(1)),
     generationStartDate |-> Format, generationEndDate |-> Format,
     durationMinutes |-> Optional(Whole(1, 1440)), capacity |-> Whole(1, 32767),
     bookingCutoffMinutes |-> Optional(Whole(0, MaxInteger)),
     dstOverlapPolicy |-> Defaulted(Format, Valid), dstGapPolicy |-> Defaulted(Format, Valid)]

GenerateScheduleDto == [throughDate |-> Optional(Format)]

CreateEmployerDto ==
    [name |-> String(2, 160), slug |-> Format, country |-> Format,
     timezone |-> String(1, 64), defaultCurrency |-> Format,
     contactEmail |-> Optional(Format), contactPhone |-> Optional(String(0, 32)),
     websiteUrl |-> Optional(Url), initialAdminUserId |-> Format]

TenantUpdateEmployerDto ==
    Partial(Restrict(CreateEmployerDto, {"name", "slug", "country"}))

UpdateEmployerSettingsDto ==
    Partial(Restrict(CreateEmployerDto,
        {"timezone", "defaultCurrency", "contactEmail", "contactPhone", "websiteUrl"}))

CreateEmployeeDto ==
    [email |-> Format, firstName |-> String(1, 100), lastName |-> String(1, 100),
     employeeNumber |-> Optional(String(0, 80)), department |-> Optional(String(0, 120)),
     jobTitle |-> Optional(String(0, 120)), userId |-> Optional(Format)]

CreateProviderDto ==
    [businessName |-> String(2, 160), slug |-> Format,
     description |-> Optional(String(0, 5000)), country |-> Format,
     timezone |-> String(1, 64), contactEmail |-> Optional(Format),
     contactPhone |-> Optional(String(0, 32)), websiteUrl |-> Optional(Url),
     commissionRateBps |-> Whole(0, BasisPoints), initialAdminUserId |-> Format]

CreateCategoryDto ==
    [name |-> Trimmed(2, 120), slug |-> Format,
     description |-> Nullable(Trimmed(0, 2000)),
     displayOrder |-> Optional(Whole(0, 32767))]

CreditDto ==
    [amountMinor |-> Whole(1, Digits), currency |-> Format, referenceId |-> Format,
     note |-> Optional(String(0, 500))]

ManualAdjustmentDto ==
    [amountDeltaMinor |-> Signed(Digits), currency |-> Format, referenceId |-> Format,
     reason |-> String(1, 500)]

ExpireDto ==
    [amountMinor |-> Whole(1, Digits), currency |-> Format, referenceId |-> Format,
     reason |-> String(1, 500)]

PageQueryDto ==
    [page |-> Defaulted(Whole(1, MaxNumber), Number(1)), limit |-> Defaulted(Whole(1, 100), Number(20))]

CatalogPageQueryDto ==
    [PageQueryDto EXCEPT !.page = Defaulted(Whole(1, 10000), Number(1))]

-----------------------------------------------------------------------------
(* What the services do with a field.  The name of a use is the name of    *)
(* the function or the operator that the code applies to it; a field that  *)
(* is missing here is stored as it is.                                     *)

\* f, and g where f has no value.
f ++ g == [x \in DOMAIN f \cup DOMAIN g |-> IF x \in DOMAIN f THEN f[x] ELSE g[x]]

Uses(fields, use) == [f \in fields |-> use]

MutableData ==
    Uses({"title"}, "requiredText") ++ Uses({"slug"}, "normalizeSlug")
    ++ Uses({"shortDescription", "fullDescription", "venueName", "addressLine1",
             "addressLine2", "city", "region", "postalCode", "onlineUrl",
             "cancellationPolicy"}, "optionalText")
    ++ Uses({"priceMinor"}, "parseMinorUnits")
    ++ Uses({"categoryId"}, "connect") ++ Uses({"media"}, "map")

MediaData == Uses({"altText"}, "optionalText")

SessionData ==
    Uses({"localStartsAt"}, "resolveLocalDateTime")
    ++ Uses({"dstOverlapPolicy"}, "decide")
    ++ Uses({"durationMinutes", "bookingCutoffMinutes"}, "effectiveValue")
    ++ Uses({"capacity"}, "assertCapacity")

SessionChanges ==
    Uses({"localStartsAt"}, "resolveLocalDateTime")
    ++ Uses({"dstOverlapPolicy"}, "policyWithTime")
    ++ Uses({"durationMinutes", "bookingCutoffMinutes", "capacity"}, "orExisting")

ScheduleData ==
    Uses({"durationMinutes", "bookingCutoffMinutes"}, "effectiveValue")
    ++ Uses({"capacity"}, "assertCapacity")

GenerateData == Uses({"throughDate"}, "parseLocalDate")

EmployerData ==
    Uses({"name"}, "trim") ++ Uses({"slug"}, "normalizeSlug")
    ++ Uses({"timezone"}, "assertTimeZone") ++ Uses({"initialAdminUserId"}, "connect")

EmployeeData ==
    Uses({"email", "firstName", "lastName"}, "trim") ++ Uses({"userId"}, "connect")

ProviderData ==
    Uses({"businessName"}, "trim") ++ Uses({"slug"}, "normalizeSlug")
    ++ Uses({"timezone"}, "assertTimeZone") ++ Uses({"initialAdminUserId"}, "connect")

CategoryData == Uses({"name"}, "requiredText") ++ Uses({"slug"}, "normalizeSlug")

AllowanceData ==
    Uses({"amountMinor", "amountDeltaMinor"}, "parseMinorUnits")
    ++ Uses({"note", "reason"}, "trim")

-----------------------------------------------------------------------------
(* The columns *)

Column(min, max) ==
    [min |-> min, max |-> max, null |-> FALSE, blank |-> TRUE, unique |-> FALSE]

SmallInt(min) == Column(min, 32767)
VarChar(n) == Column(0, n)
TextColumn == Column(0, MaxNumber)
Coded == Column(1, 1)       \* a code, an address, a date or an identifier
Instant == Column(1, LastMinute)

OrNull(column) == [column EXCEPT !.null = TRUE]
NotBlank(column) == [column EXCEPT !.blank = FALSE]
Unique(column) == [column EXCEPT !.unique = TRUE]

Activities ==
    [categoryId |-> Coded, title |-> NotBlank(VarChar(160)), slug |-> Unique(Coded),
     shortDescription |-> OrNull(VarChar(500)), fullDescription |-> OrNull(TextColumn),
     priceMinor |-> OrNull(Column(0, MaxBigint)), currency |-> OrNull(Coded),
     durationMinutes |-> OrNull(SmallInt(1)), locationType |-> OrNull(Coded),
     venueName |-> OrNull(VarChar(160)), addressLine1 |-> OrNull(VarChar(200)),
     addressLine2 |-> OrNull(VarChar(200)),
     city |-> OrNull(NotBlank(VarChar(120))), normalizedCity |-> OrNull(VarChar(120)),
     region |-> OrNull(VarChar(120)), postalCode |-> OrNull(VarChar(32)),
     country |-> OrNull(Coded), onlineUrl |-> OrNull(VarChar(2048)),
     minParticipants |-> OrNull(SmallInt(1)), maxParticipants |-> OrNull(SmallInt(1)),
     cancellationPolicy |-> OrNull(TextColumn),
     cancellationWindowMinutes |-> OrNull(Column(0, MaxInteger)),
     bookingCutoffMinutes |-> OrNull(Column(0, MaxInteger))]

ActivityMedia ==
    [type |-> Coded, url |-> Coded, altText |-> OrNull(VarChar(240)),
     displayOrder |-> SmallInt(0)]

\* The instants of a session, which it computes from other fields.
Instants == [startsAt |-> Unique(Instant), endsAt |-> Instant, bookingCutoffAt |-> Instant]

\* The duration is checked as that between startsAt and endsAt.
ActivitySessions ==
    Instants ++
    [durationMinutes |-> Column(1, 1440), capacity |-> SmallInt(1),
     bookingCutoffMinutes |-> Column(0, MaxInteger), reason |-> NotBlank(VarChar(500))]

ScheduleTemplates ==
    [localStartTime |-> Coded, weekdays |-> Coded, intervalWeeks |-> Column(1, 52),
     generationStartDate |-> Coded, generationEndDate |-> Coded,
     durationMinutes |-> Column(1, 1440), capacity |-> SmallInt(1),
     bookingCutoffMinutes |-> Column(0, MaxInteger),
     dstOverlapPolicy |-> Coded, dstGapPolicy |-> Coded]

Employers ==
    [name |-> VarChar(160), slug |-> Unique(Coded), country |-> Coded,
     timezone |-> VarChar(64), defaultCurrency |-> Coded,
     contactEmail |-> OrNull(Coded), contactPhone |-> OrNull(VarChar(32)),
     websiteUrl |-> OrNull(Coded), initialAdminUserId |-> Coded]

Employees ==
    [email |-> Unique(Coded), firstName |-> VarChar(100), lastName |-> VarChar(100),
     employeeNumber |-> OrNull(Unique(VarChar(80))), department |-> OrNull(VarChar(120)),
     jobTitle |-> OrNull(VarChar(120)), userId |-> OrNull(Unique(Coded))]

Providers ==
    [businessName |-> VarChar(160), slug |-> Unique(Coded),
     description |-> OrNull(TextColumn), country |-> Coded, timezone |-> VarChar(64),
     contactEmail |-> OrNull(Coded), contactPhone |-> OrNull(VarChar(32)),
     websiteUrl |-> OrNull(Coded), commissionRateBps |-> Column(0, BasisPoints),
     initialAdminUserId |-> Coded]

Categories ==
    [name |-> NotBlank(VarChar(120)), slug |-> Unique(Coded),
     description |-> OrNull(TextColumn), displayOrder |-> SmallInt(0)]

\* The entry of a command; the trigger on audit_logs asks for the reason of
\* a manual adjustment.
Ledger ==
    [amountMinor |-> Column(1, MaxBigint), amountDeltaMinor |-> Column(-MaxBigint, MaxBigint),
     currency |-> Coded, referenceId |-> Coded, note |-> OrNull(TextColumn)]

LedgerWithReason == Ledger ++ [reason |-> TextColumn]
AuditedLedger == Ledger ++ [reason |-> NotBlank(TextColumn)]

\* The window of a list.
ListWindow == [skip |-> Column(0, MaxOffset)]

-----------------------------------------------------------------------------
(* The operations *)

Op(dto, uses, table) == [dto |-> dto, uses |-> uses, table |-> table]

Operations ==
    [createActivity |-> Op(CreateActivityDto, MutableData, Activities),
     updateActivity |-> Op(Partial(CreateActivityDto), MutableData, Activities),
     addMedia |-> Op(ActivityMediaInputDto, MediaData, ActivityMedia),
     createSession |-> Op(CreateOneTimeSessionDto, SessionData, ActivitySessions),
     updateSession |-> Op(Partial(CreateOneTimeSessionDto), SessionChanges, ActivitySessions),
     cancelSession |-> Op(CancelSessionDto, <<>>, ActivitySessions),
     createSchedule |-> Op(CreateScheduleTemplateDto, ScheduleData, ScheduleTemplates),
     generateSchedule |-> Op(GenerateScheduleDto, GenerateData, Instants),
     createEmployer |-> Op(CreateEmployerDto, EmployerData, Employers),
     updateEmployerAdmin |->
        Op(Partial(Omitting(CreateEmployerDto, {"initialAdminUserId"})), EmployerData, Employers),
     updateEmployerScoped |-> Op(TenantUpdateEmployerDto, EmployerData, Employers),
     updateSettings |-> Op(UpdateEmployerSettingsDto, EmployerData, Employers),
     createEmployee |-> Op(CreateEmployeeDto, EmployeeData, Employees),
     updateEmployee |-> Op(Partial(Omitting(CreateEmployeeDto, {"userId"})), EmployeeData, Employees),
     createProvider |-> Op(CreateProviderDto, ProviderData, Providers),
     updateProviderAdmin |->
        Op(Partial(Omitting(CreateProviderDto, {"initialAdminUserId"})), ProviderData, Providers),
     updateProviderScoped |->
        Op(Partial(Omitting(CreateProviderDto, {"initialAdminUserId", "commissionRateBps"})),
           ProviderData, Providers),
     createCategory |->
        Op(CreateCategoryDto, CategoryData ++ Uses({"displayOrder"}, "orZero"), Categories),
     updateCategory |-> Op(Partial(CreateCategoryDto), CategoryData, Categories),
     credit |-> Op(CreditDto, AllowanceData, Ledger),
     adjust |-> Op(ManualAdjustmentDto, AllowanceData, AuditedLedger),
     expire |-> Op(ExpireDto, AllowanceData, LedgerWithReason),
     list |-> Op(PageQueryDto, <<>>, ListWindow),
     listCatalog |-> Op(CatalogPageQueryDto, <<>>, ListWindow)]

Lists == {"list", "listCatalog"}
RefuseEmpty == {"updateActivity", "updateSession", "updateCategory"}

Dto == Operations[operation].dto
Table == Operations[operation].table
Use(f) ==
    IF f \in DOMAIN Operations[operation].uses
    THEN Operations[operation].uses[f] ELSE "keep"

-----------------------------------------------------------------------------
(* Requests: well-formed but for one field, or two that are related. *)

Expected(rule) ==
    IF rule.optional THEN Absent
    ELSE CASE rule.kind = "number" -> Number(rule.min)
           [] rule.kind = "signed" -> Number(1)
           [] OTHER -> Valid

AtLimits(rule) ==
    CASE rule.kind \in {"format", "url"} -> {}
      [] rule.kind = "moment" ->
            {Moment(n) : n \in {Now, Now + 1, LastMinute - 1440, LastMinute, LastMinute + 1}}
      [] rule.kind = "text" ->
            {Text(n, n) : n \in {rule.min - 1, rule.min, rule.max, rule.max + 1} \cap Nat}
            \cup {Text(rule.max + 2, rule.max), Text(rule.min + 1, 0), Growing(rule.max)}
            \cup {Text(n + 1, n) : n \in {rule.min - 1} \cap Nat}
      [] OTHER ->
            {Number(n) : n \in {rule.min - 1, rule.min, 0, rule.max, rule.max + 1}}
            \cup {Number(n) : n \in {MaxBigint, MaxBigint + 1} \cap rule.min..rule.max}

Candidates(rule) == {Absent, Null, Malformed, Valid, Taken, WithNul} \cup AtLimits(rule)

Related ==
    {{"minParticipants", "maxParticipants"}, {"page", "limit"},
     {"localStartsAt", "dstOverlapPolicy"}, {"localStartsAt", "bookingCutoffMinutes"},
     {"durationMinutes", "capacity"}}

Deviations(o) ==
    LET fields == DOMAIN Operations[o].dto
    IN  {{f} : f \in fields} \cup {r \in Related : r \subseteq fields}

\* A one-time session that is still to come, and that the table can hold.
Sessions ==
    {p \in Plans : /\ Now < p.localStartsAt
                   /\ p.localStartsAt + p.durationMinutes <= LastMinute
                   /\ 1 <= p.localStartsAt - p.bookingCutoffMinutes}

\* What an operation may find under the identifier that it names: a session,
\* or a schedule with the last of its dates.
Named(o) ==
    CASE o = "updateSession" -> Sessions
      [] o = "generateSchedule" -> Plans
      [] OTHER -> {<<>>}

-----------------------------------------------------------------------------
InputTypeOK ==
    /\ operation \in DOMAIN Operations \cup {"none"}
    /\ operation # "none" => DOMAIN input = DOMAIN Dto /\ DOMAIN row \subseteq DOMAIN Table
    /\ stage \in {"idle", "sent", "valid", "ready"} \cup Answers
    /\ \A f \in DOMAIN activity : activity[f] = Null \/ activity[f].is = "number"
    /\ plan \in Plans \cup {<<>>}

\* A draft without any of the optional fields.
InputInit ==
    /\ operation = "none"
    /\ input = <<>>
    /\ stage = "idle"
    /\ row = <<>>
    /\ activity = [f \in {"durationMinutes", "bookingCutoffMinutes",
                         "minParticipants", "maxParticipants"} |-> Null]
    /\ plan = <<>>

Send(o) ==
    LET dto == Operations[o].dto
    IN  /\ stage = "idle"
        /\ operation' = o
        /\ \E d \in Deviations(o) :
             \E given \in [d -> UNION {Candidates(dto[f]) : f \in d}] :
                /\ \A f \in d : given[f] \in Candidates(dto[f])
                /\ o \in Lists => \A f \in d : given[f] # Null
                /\ input' = given ++ [f \in DOMAIN dto |-> Expected(dto[f])]
        /\ plan' \in Named(o)
        /\ stage' = "sent"
        /\ row' = <<>>
        /\ UNCHANGED activity

\* ValidationPipe: transforms, validates, and fills in the defaults.
Validate ==
    /\ stage = "sent"
    /\ input' = [f \in DOMAIN input |-> Transformed(Dto[f], input[f])]
    /\ stage' = IF \A f \in DOMAIN input : Conforms(Dto[f], input'[f])
                THEN "valid" ELSE "refused"
    /\ UNCHANGED <<operation, row, activity, plan>>

-----------------------------------------------------------------------------
(* The service *)

IsNothing(v) == v \in {Absent, Null}

MinuteOf(v) == IF v \in {Valid, Taken} THEN Soon ELSE v.size

\* A statement of the service that takes a field as it comes.
Breaks(f) ==
    /\ input[f] = Null
    /\ Use(f) \in {"requiredText", "normalizeSlug", "connect", "map", "trim",
                   "resolveLocalDateTime", "parseLocalDate"}

Refuses(f) ==
    LET v == input[f]
        use == Use(f)
    IN  \/ use = "requiredText" /\ v.is = "text" /\ v.trimmed = 0
        \/ use = "parseMinorUnits" /\ v.is = "number" /\ v.size \notin -MaxBigint..MaxBigint
        \/ use = "assertTimeZone" /\ v \notin {Absent, Valid, Taken}
        \/ use = "effectiveValue" /\ IsNothing(v) /\ activity[f] = Null
        \/ use = "resolveLocalDateTime" /\ ~IsNothing(v) /\ MinuteOf(v) <= Now
        \/ use = "policyWithTime" /\ v # Absent /\ input.localStartsAt = Absent

Stored(f) ==
    LET v == input[f]
        use == Use(f)
    IN  CASE use \in {"requiredText", "trim"} -> TrimmedOf(v)
          [] use = "optionalText" ->
                IF v.is = "text" /\ v.trimmed = 0 THEN Null ELSE TrimmedOf(v)
          [] use = "effectiveValue" -> IF IsNothing(v) THEN activity[f] ELSE v
          [] use = "orZero" -> IF IsNothing(v) THEN Number(0) ELSE v
          [] use = "orExisting" -> IF IsNothing(v) THEN Absent ELSE v
          [] OTHER -> v

\* A field of the session that is created, changed or generated.
Planned(f) ==
    IF f \in DOMAIN plan /\ (f \notin DOMAIN input \/ IsNothing(input[f]))
    THEN Number(plan[f]) ELSE Stored(f)

StartMinute == MinuteOf(Planned("localStartsAt"))
EndMinute == StartMinute + Planned("durationMinutes").size
CutoffMinute == StartMinute - Planned("bookingCutoffMinutes").size

\* A date whose cutoff has passed is not generated; in a request to create a
\* session it is refused.
CutoffPassed == StartMinute <= Now \/ CutoffMinute <= Now

OverCapacity ==
    /\ operation \in {"createSession", "updateSession", "createSchedule", "generateSchedule"}
    /\ activity.maxParticipants # Null
    /\ Planned("capacity").size > activity.maxParticipants.size

\* An instant is written when a field that it is computed from is given.
WrittenInstants ==
    LET from == [startsAt |-> {"localStartsAt"},
                 endsAt |-> {"localStartsAt", "durationMinutes"},
                 bookingCutoffAt |-> {"localStartsAt", "bookingCutoffMinutes"}]
    IN  CASE operation \in {"createSession", "updateSession"} ->
               {c \in DOMAIN from : \E f \in from[c] : input[f] # Absent}
          [] operation = "generateSchedule" -> IF CutoffPassed THEN {} ELSE DOMAIN from
          [] OTHER -> {}

InstantOf(c) ==
    CASE c = "startsAt" -> IF operation = "generateSchedule" THEN Moment(StartMinute)
                           ELSE Planned("localStartsAt")
      [] c = "endsAt" -> Moment(EndMinute)
      [] OTHER -> Moment(CutoffMinute)

LowerCase(v) == IF v.is = "text" THEN [v EXCEPT !.size = v.lowered] ELSE v

WrittenRow ==
    IF operation \in Lists
    THEN [skip |-> Number((input.page.size - 1) * input.limit.size)]
    ELSE LET given == {f \in DOMAIN input \cap DOMAIN Table : Stored(f) # Absent}
         IN  [f \in given |-> Stored(f)]
             ++ [c \in {c \in {"normalizedCity"} : "city" \in given} |-> LowerCase(Stored("city"))]
             ++ [c \in WrittenInstants |-> InstantOf(c)]

\* A field of the activity after the row r is written.
Merged(r, f) ==
    IF f \in DOMAIN r THEN r[f]
    ELSE IF operation = "createActivity" THEN Null ELSE activity[f]

InOrder(min, max) == min.is = "number" /\ max.is = "number" => min.size <= max.size

\* assertParticipantRange of the service, and the check of the table.
IsInverted(r) ==
    /\ operation \in {"createActivity", "updateActivity"}
    /\ ~InOrder(Merged(r, "minParticipants"), Merged(r, "maxParticipants"))

\* A service that leaves the order of the two to the database.
LeaveParticipantRange(r) == FALSE

AssertParticipantRange(r) == IsInverted(r)

IsEmpty == operation \in RefuseEmpty /\ \A f \in DOMAIN input : input[f] = Absent

\* The checks that concern more than one field, and row', what is to be written.
IsRefused ==
    \/ IsEmpty
    \/ AssertParticipantRange(row')
    \/ OverCapacity
    \/ operation = "createSession" /\ CutoffPassed

Serve ==
    /\ stage = "valid"
    /\ row' = WrittenRow
    /\ stage' = IF \E f \in DOMAIN input : Breaks(f) THEN "failed"
                ELSE IF IsRefused \/ \E f \in DOMAIN input : Refuses(f)
                THEN "refused" ELSE "ready"
    /\ UNCHANGED <<operation, input, activity, plan>>

-----------------------------------------------------------------------------
(* The database *)

Fits(column, v) ==
    /\ v # WithNul
    /\ v = Null => column.null
    /\ v.is \in {"text", "number", "moment"} => column.min <= v.size /\ v.size <= column.max
    /\ v.is = "text" /\ v.trimmed = 0 => column.blank

IsTaken == \E c \in DOMAIN row : row[c] = Taken /\ Table[c].unique

\* The type and the checks of the row, then its unique indexes.
Store ==
    /\ stage = "ready"
    /\ stage' = IF IsInverted(row) \/ \E c \in DOMAIN row : ~Fits(Table[c], row[c])
                THEN "failed"
                ELSE IF IsTaken THEN "refused" ELSE "stored"
    /\ activity' = IF stage' = "stored" /\ operation \in {"createActivity", "updateActivity"}
                   THEN [f \in DOMAIN activity |-> Merged(row, f)]
                   ELSE activity
    /\ UNCHANGED <<operation, input, row, plan>>

Answer ==
    /\ stage \in Answers
    /\ operation' = "none"
    /\ input' = <<>>
    /\ stage' = "idle"
    /\ row' = <<>>
    /\ plan' = <<>>
    /\ UNCHANGED activity

InputNext ==
    \/ \E o \in DOMAIN Operations : Send(o)
    \/ Validate
    \/ Serve
    \/ Store
    \/ Answer

InputSpec == InputInit /\ [][InputNext]_inputVars

-----------------------------------------------------------------------------
(* Properties *)

\* The documented API: null only where the description says so.
IsDocumented == \A f \in DOMAIN input : input[f] = Null => Dto[f].nullable

\* The activity may last longer than a session, which takes its duration.
InheritsLongDuration ==
    /\ operation \in {"createSession", "createSchedule"}
    /\ input.durationMinutes = Absent
    /\ activity.durationMinutes.size > 1440

\* The lower case of a city may be longer than the city and its column.
CityGrows ==
    /\ operation \in {"createActivity", "updateActivity"}
    /\ LowerCase(input.city).size > 120

\* The page of the lists of organizations and entries has no maximum.
PageTooFar ==
    /\ operation = "list"
    /\ (input.page.size - 1) * input.limit.size > MaxOffset

\* A reason of blanks has a length when it is validated, and none when the
\* trigger looks for the reason of a manual adjustment.
BlankReason == operation = "adjust" /\ input.reason.trimmed = 0

\* PostgreSQL stores no U+0000 in a text, and no decorator looks for it.
HoldsNul == \E f \in DOMAIN input : input[f] = WithNul

\* A session that starts at the end of the year 9999 ends after it.
EndsAfterCalendar ==
    /\ operation \in {"createSession", "updateSession", "generateSchedule"}
    /\ EndMinute > LastMinute

\* An update, unlike the creation, may ask for a cutoff in the past, and the
\* largest number of minutes goes back before the year 1.
CutoffBeforeCalendar == operation = "updateSession" /\ CutoffMinute < 1

\* A request within the documented API never ends in an internal error but
\* in seven cases: the three layers agree about everything else.
DocumentedRequestsDoNotFail ==
    stage = "failed" /\ IsDocumented =>
        \/ InheritsLongDuration \/ EndsAfterCalendar \/ CutoffBeforeCalendar
        \/ CityGrows \/ PageTooFar \/ BlankReason \/ HoldsNul

\* What is stored is within the bounds the DTO states: the upper one where the
\* request has the field (a missing one may fall back on the activity's), the
\* lower one of a text where the DTO trims before it validates (a name that is
\* trimmed afterwards can be stored blank).
StoredKeepsBounds ==
    stage = "stored" =>
        \A f \in DOMAIN row \cap DOMAIN Dto :
            LET rule == Dto[f]
            IN  /\ row[f].is \in {"text", "number"} /\ input[f] # Absent => row[f].size <= rule.max
                /\ row[f].is = "text" /\ rule.trims => rule.min <= row[f].size

=============================================================================
