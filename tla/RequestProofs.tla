---------------------------- MODULE RequestProofs ----------------------------
(***************************************************************************)
(* What a request brings along, and what becomes of it: the fields of      *)
(* RequestInputs, for every bound of the columns, and the tokens of        *)
(* EmailVerification, for any number of requests.                          *)
(***************************************************************************)
EXTENDS EmailVerification, RequestInputs, FiniteSetTheorems, TLAPS

(* The rules of the DTOs, and the columns. *)

\* The rules of the fields, and the columns of the tables.
Kinds == {"number", "signed", "text", "format", "url", "moment"}
Rules == [kind : Kinds, min : Int, max : Int, trims : BOOLEAN, optional : BOOLEAN,
          nullable : BOOLEAN,
          default : [is : {"absent", "valid", "number"}, size : Int, trimmed : Int, lowered : Int]]
Columns == [min : Int, max : Int, null : BOOLEAN, blank : BOOLEAN, unique : BOOLEAN]

\* A rule of that kind and those bounds which a field must meet to be present.
HasFields(r, kind, min, max, trims) ==
    /\ r \in Rules /\ r.kind = kind /\ r.min = min /\ r.max = max
    /\ r.trims <=> trims
    /\ ~r.optional /\ ~r.nullable /\ r.default = Absent

\* What each decorator makes of a rule, and each modifier of a rule or a column.
LEMMA RuleFields ==
    /\ HasFields(Format, "format", 1, 1, FALSE)
    /\ HasFields(Url, "url", 1, 1, FALSE)
    /\ HasFields(LocalTime, "moment", 1, 1, FALSE)
    /\ \A m, n \in Int : /\ HasFields(Whole(m, n), "number", m, n, FALSE)
                         /\ HasFields(Items(m, n), "number", m, n, FALSE)
                         /\ HasFields(String(m, n), "text", m, n, FALSE)
                         /\ HasFields(Trimmed(m, n), "text", m, n, TRUE)
    /\ \A n \in Int : HasFields(Signed(n), "signed", -n, n, FALSE)
<1> USE DEF HasFields, Rules, Kinds, Rule
<1>0. Absent \in [is : {"absent", "valid", "number"}, size : Int, trimmed : Int, lowered : Int]
  BY DEF Absent, Value
<1>1. /\ HasFields(Format, "format", 1, 1, FALSE)
      /\ HasFields(Url, "url", 1, 1, FALSE)
      /\ HasFields(LocalTime, "moment", 1, 1, FALSE)
  BY <1>0 DEF Format, Url, LocalTime
<1>2. ASSUME NEW m \in Int, NEW n \in Int
      PROVE  /\ HasFields(Whole(m, n), "number", m, n, FALSE)
             /\ HasFields(Items(m, n), "number", m, n, FALSE)
             /\ HasFields(String(m, n), "text", m, n, FALSE)
             /\ HasFields(Trimmed(m, n), "text", m, n, TRUE)
  BY <1>0 DEF Whole, Items, String, Trimmed
<1>3. ASSUME NEW n \in Int
      PROVE  HasFields(Signed(n), "signed", -n, n, FALSE)
  BY <1>0 DEF Signed
<1> QED BY <1>1, <1>2, <1>3

LEMMA ChangedRules ==
    /\ \A r \in Rules : /\ Optional(r) \in Rules /\ Optional(r).kind = r.kind
                        /\ Optional(r).min = r.min /\ Optional(r).max = r.max
                        /\ Optional(r).trims = r.trims /\ Optional(r).optional
                        /\ Optional(r).nullable = r.nullable /\ Optional(r).default = r.default
    /\ \A r \in Rules : /\ Nullable(r) \in Rules /\ Nullable(r).kind = r.kind
                        /\ Nullable(r).min = r.min /\ Nullable(r).max = r.max
                        /\ Nullable(r).trims = r.trims /\ Nullable(r).optional
                        /\ Nullable(r).nullable /\ Nullable(r).default = r.default
<1>1. ASSUME NEW r \in Rules
      PROVE  /\ Optional(r) \in Rules /\ Optional(r).kind = r.kind
             /\ Optional(r).min = r.min /\ Optional(r).max = r.max
             /\ Optional(r).trims = r.trims /\ Optional(r).optional
             /\ Optional(r).nullable = r.nullable /\ Optional(r).default = r.default
  BY DEF Optional, Rules
<1>2. ASSUME NEW r \in Rules
      PROVE  /\ Nullable(r) \in Rules /\ Nullable(r).kind = r.kind
             /\ Nullable(r).min = r.min /\ Nullable(r).max = r.max
             /\ Nullable(r).trims = r.trims /\ Nullable(r).optional
             /\ Nullable(r).nullable /\ Nullable(r).default = r.default
  BY DEF Nullable, Rules
<1> QED BY <1>1, <1>2

LEMMA DefaultedRules ==
  ASSUME NEW r \in Rules,
         NEW v \in [is : {"absent", "valid", "number"}, size : Int, trimmed : Int, lowered : Int]
  PROVE  /\ Defaulted(r, v) \in Rules /\ Defaulted(r, v).kind = r.kind
         /\ Defaulted(r, v).min = r.min /\ Defaulted(r, v).max = r.max
         /\ Defaulted(r, v).trims = r.trims /\ Defaulted(r, v).optional
         /\ Defaulted(r, v).nullable = r.nullable /\ Defaulted(r, v).default = v
BY DEF Defaulted, Rules

LEMMA ColumnFields ==
    /\ \A m, n \in Int : /\ Column(m, n) \in Columns
                         /\ Column(m, n).min = m /\ Column(m, n).max = n
                         /\ ~Column(m, n).null /\ Column(m, n).blank
    /\ \A c \in Columns : /\ OrNull(c) \in Columns /\ OrNull(c).min = c.min /\ OrNull(c).max = c.max
                          /\ OrNull(c).null /\ OrNull(c).blank = c.blank
    /\ \A c \in Columns : /\ NotBlank(c) \in Columns /\ NotBlank(c).min = c.min /\ NotBlank(c).max = c.max
                          /\ NotBlank(c).null = c.null /\ ~NotBlank(c).blank
    /\ \A c \in Columns : /\ Unique(c) \in Columns /\ Unique(c).min = c.min /\ Unique(c).max = c.max
                          /\ Unique(c).null = c.null /\ Unique(c).blank = c.blank
<1>1. \A m, n \in Int : /\ Column(m, n) \in Columns
                         /\ Column(m, n).min = m /\ Column(m, n).max = n
                         /\ ~Column(m, n).null /\ Column(m, n).blank
  BY DEF Column, Columns
<1>2. \A c \in Columns : /\ OrNull(c) \in Columns /\ OrNull(c).min = c.min /\ OrNull(c).max = c.max
                          /\ OrNull(c).null /\ OrNull(c).blank = c.blank
  BY DEF OrNull, Columns
<1>3. \A c \in Columns : /\ NotBlank(c) \in Columns /\ NotBlank(c).min = c.min /\ NotBlank(c).max = c.max
                          /\ NotBlank(c).null = c.null /\ ~NotBlank(c).blank
  BY DEF NotBlank, Columns
<1>4. \A c \in Columns : /\ Unique(c) \in Columns /\ Unique(c).min = c.min /\ Unique(c).max = c.max
                          /\ Unique(c).null = c.null /\ Unique(c).blank = c.blank
  BY DEF Unique, Columns
<1> QED BY <1>1, <1>2, <1>3, <1>4

\* A rule accepts its own default.
IsRule(r) ==
    /\ r \in Rules
    /\ r.nullable => r.optional
    /\ r.kind = "text" => r.min >= 0 /\ r.max >= 0
    /\ \/ r.default = Absent
       \/ r.default = Valid /\ r.kind = "format"
       \/ r.kind = "number" /\ \E n \in r.min .. r.max : r.default = Number(n)

\* What the service does with the field f.
UseIn(uses, f) == IF f \in DOMAIN uses THEN uses[f] ELSE "keep"

\* Whatever the rule and the service let through, the column takes.
Takes(f, r, use, c) ==
    /\ c \in Columns
    /\ r.nullable => use \in {"keep", "optionalText", "parseMinorUnits"}
    /\ r.nullable \/ use = "optionalText" => c.null
    /\ r.kind # "moment"
    /\ r.kind = "text" => /\ c.min <= 0 /\ r.max <= c.max
                          /\ \/ c.blank \/ use \in {"requiredText", "optionalText"}
                             \/ r.trims /\ r.min >= 1
                             \/ f = "reason" /\ use = "trim"
    /\ r.kind \in {"number", "signed"} =>
         /\ c.min <= r.min \/ (use = "parseMinorUnits" /\ c.min <= -MaxBigint)
         /\ r.max <= c.max \/ (use = "parseMinorUnits" /\ MaxBigint <= c.max)
    /\ use = "orZero" => c.min <= 0 /\ 0 <= c.max /\ 0 <= r.max
    /\ use = "effectiveValue" =>
         /\ c.max <= r.max
         /\ \/ f = "durationMinutes" /\ c.min <= 1 /\ 1440 <= c.max
            \/ f = "bookingCutoffMinutes" /\ c.min <= 0 /\ MaxInteger <= c.max

\* The three layers agree about the field f, and about all fields.
Agrees(f, dto, uses, table) ==
   /\ IsRule(dto[f])
   /\ f \in DOMAIN table => Takes(f, dto[f], UseIn(uses, f), table[f])
   /\ f \notin DOMAIN table => ~dto[f].nullable

Agree(dto, uses, table) == \A f \in DOMAIN dto : Agrees(f, dto, uses, table)

LEMMA Bounds ==
    /\ MaxInteger \in Int /\ MaxBigint \in Int /\ Digits \in Int /\ MaxOffset \in Int
    /\ MaxNumber \in Int /\ 32767 < MaxInteger /\ MaxInteger < MaxBigint /\ MaxBigint < Digits
    /\ 999900 <= MaxOffset /\ MaxOffset < MaxNumber
    /\ Now \in Nat /\ Soon \in Nat /\ LastMinute \in Nat /\ Now < Soon /\ Soon <= LastMinute
BY BoundsAssumption, MaxBigintAssumption

LEMMA UsesFields ==
    /\ \A S, u, x : x \in DOMAIN Uses(S, u) <=> x \in S
    /\ \A S, u, x : UseIn(Uses(S, u), x) = IF x \in S THEN u ELSE "keep"
BY DEF Uses, UseIn

LEMMA MergedUses ==
    /\ \A f, g, x : x \in DOMAIN (f ++ g) <=> x \in DOMAIN f \/ x \in DOMAIN g
    /\ \A f, g, x : UseIn(f ++ g, x) = IF x \in DOMAIN f THEN UseIn(f, x) ELSE UseIn(g, x)
BY DEF ++, UseIn

LEMMA RulesAreRules ==
    /\ IsRule(Format) /\ IsRule(Optional(Format)) /\ IsRule(Nullable(Format))
    /\ IsRule(Url) /\ IsRule(Optional(Url)) /\ IsRule(Nullable(Url)) /\ IsRule(LocalTime)
    /\ \A m, n \in Int : /\ IsRule(Whole(m, n)) /\ IsRule(Optional(Whole(m, n)))
                         /\ IsRule(Nullable(Whole(m, n))) /\ IsRule(Optional(Items(m, n)))
    /\ \A n \in Int : IsRule(Signed(n))
    /\ \A m, n \in Nat : /\ IsRule(Trimmed(m, n)) /\ IsRule(Nullable(Trimmed(m, n)))
                         /\ IsRule(String(m, n)) /\ IsRule(Optional(String(m, n)))
<1>1. ASSUME NEW r, IsRule(r) PROVE IsRule(Optional(r)) /\ IsRule(Nullable(r))
  <2>1. r \in Rules
    BY <1>1 DEF IsRule
  <2> QED BY <1>1, <2>1, ChangedRules DEF IsRule
<1>2. IsRule(Format) /\ IsRule(Url) /\ IsRule(LocalTime)
  BY RuleFields DEF HasFields, IsRule
<1>3. \A m, n \in Int : IsRule(Whole(m, n)) /\ IsRule(Items(m, n))
  BY RuleFields DEF HasFields, IsRule
<1>4. \A n \in Int : IsRule(Signed(n))
  BY RuleFields DEF HasFields, IsRule
<1>5. \A m, n \in Nat : IsRule(String(m, n)) /\ IsRule(Trimmed(m, n))
  BY RuleFields DEF HasFields, IsRule
<1> QED BY <1>1, <1>2, <1>3, <1>4, <1>5

\* The uses under which a text, a number or a format fits its column as it is.
Plain == {"keep", "requiredText", "optionalText", "normalizeSlug", "connect", "map", "trim",
          "assertTimeZone", "assertCapacity", "orExisting", "parseMinorUnits"}
Nullables == {"keep", "optionalText", "parseMinorUnits"}

\* Which rule and which column go together, under which use.
LEMMA UrlsTake ==
    /\ \A f, c : c \in Columns => Takes(f, Url, "keep", c) /\ Takes(f, Optional(Url), "keep", c)
    /\ \A f, c : c \in Columns /\ c.null => Takes(f, Nullable(Url), "optionalText", c)
BY RuleFields, ChangedRules DEF HasFields, Takes

LEMMA FormatsTake ==
    /\ \A f, use, c : use \in Plain /\ c \in Columns /\ (use = "optionalText" => c.null) =>
         Takes(f, Format, use, c)
    /\ \A f, use, c : use \in Plain /\ c \in Columns /\ (use = "optionalText" => c.null) =>
         Takes(f, Optional(Format), use, c)
    /\ \A f, use, c : use \in Nullables /\ c \in Columns /\ c.null =>
         Takes(f, Nullable(Format), use, c)
BY RuleFields, ChangedRules DEF HasFields, Takes, Plain, Nullables

LEMMA TextsTake ==
    /\ \A f, use, m, n, c :
         /\ use \in Plain /\ m \in Nat /\ n \in Nat /\ c \in Columns
         /\ c.min <= 0 /\ n <= c.max /\ (use = "optionalText" => c.null)
         /\ c.blank \/ m >= 1 \/ use \in {"requiredText", "optionalText"}
      => Takes(f, Trimmed(m, n), use, c)
    /\ \A f, use, m, n, c :
         /\ use \in Nullables /\ m \in Nat /\ n \in Nat /\ c \in Columns
         /\ c.min <= 0 /\ n <= c.max /\ c.null
         /\ c.blank \/ use = "optionalText"
      => Takes(f, Nullable(Trimmed(m, n)), use, c)
<1>1. \A m, n \in Nat :
        /\ \A r \in {Trimmed(m, n), Nullable(Trimmed(m, n))} :
             r.kind = "text" /\ r.min = m /\ r.max = n /\ r.trims
        /\ ~Trimmed(m, n).nullable /\ Nullable(Trimmed(m, n)).nullable
  BY RuleFields, ChangedRules DEF HasFields
<1>2. ASSUME NEW f, NEW use \in Plain, NEW m \in Nat, NEW n \in Nat, NEW c \in Columns,
             c.min <= 0, n <= c.max, use = "optionalText" => c.null,
             c.blank \/ m >= 1 \/ use \in {"requiredText", "optionalText"}
      PROVE  Takes(f, Trimmed(m, n), use, c)
  BY <1>1, <1>2 DEF Takes, Plain
<1>3. ASSUME NEW f, NEW use \in Nullables, NEW m \in Nat, NEW n \in Nat, NEW c \in Columns,
             c.min <= 0, n <= c.max, c.null, c.blank \/ use = "optionalText"
      PROVE  Takes(f, Nullable(Trimmed(m, n)), use, c)
  BY <1>1, <1>3 DEF Takes, Nullables
<1> QED BY <1>2, <1>3

LEMMA StringsTake ==
  ASSUME NEW f, NEW use \in Plain \ {"optionalText"}, NEW m \in Nat, NEW n \in Nat, NEW c \in Columns,
         c.min <= 0, n <= c.max, c.blank \/ (f = "reason" /\ use = "trim")
  PROVE  Takes(f, String(m, n), use, c) /\ Takes(f, Optional(String(m, n)), use, c)
<1>1. \A r \in {String(m, n), Optional(String(m, n))} :
        r.kind = "text" /\ r.min = m /\ r.max = n /\ ~r.nullable
  BY RuleFields, ChangedRules DEF HasFields
<1> QED BY <1>1 DEF Takes, Plain

LEMMA NumbersTake ==
    \A f, use, m, n, c :
         use \in Plain \ {"optionalText"} /\ m \in Int /\ n \in Int /\ c \in Columns /\ c.min <= m /\ n <= c.max
      => Takes(f, Whole(m, n), use, c) /\ Takes(f, Optional(Whole(m, n)), use, c)
<1>1. \A m, n \in Int :
        /\ \A r \in {Whole(m, n), Optional(Whole(m, n))} :
             r.kind = "number" /\ r.min = m /\ r.max = n /\ ~r.nullable
  BY RuleFields, ChangedRules DEF HasFields
<1> QED BY <1>1 DEF Takes, Plain

LEMMA NullableNumbersTake ==
    \A f, m, n, c :
         m \in Int /\ n \in Int /\ c \in Columns /\ c.null /\ c.min <= m /\ n <= c.max
      => Takes(f, Nullable(Whole(m, n)), "keep", c)
<1>1. \A m, n \in Int :
        LET r == Nullable(Whole(m, n))
        IN  r.kind = "number" /\ r.min = m /\ r.max = n /\ r.nullable
  BY RuleFields, ChangedRules DEF HasFields
<1> QED BY <1>1 DEF Takes

LEMMA AmountsTake ==
    /\ \A f, m, n, c : m \in Int /\ n \in Int /\ c \in Columns /\ c.min <= m /\ MaxBigint <= c.max
      => Takes(f, Whole(m, n), "parseMinorUnits", c)
    /\ \A f, m, n, c : m \in Int /\ n \in Int /\ c \in Columns /\ c.min <= m /\ MaxBigint <= c.max /\ c.null
      => Takes(f, Nullable(Whole(m, n)), "parseMinorUnits", c)
    /\ \A f, n, c : n \in Int /\ c \in Columns /\ c.min <= -MaxBigint /\ MaxBigint <= c.max =>
         Takes(f, Signed(n), "parseMinorUnits", c)
<1>1. \A m, n \in Int :
        /\ \A r \in {Whole(m, n), Nullable(Whole(m, n))} :
             r.kind = "number" /\ r.min = m /\ r.max = n
        /\ ~Whole(m, n).nullable /\ Nullable(Whole(m, n)).nullable
  BY RuleFields, ChangedRules DEF HasFields
<1>2. \A n \in Int : Signed(n).kind = "signed" /\ Signed(n).min = -n /\ Signed(n).max = n /\ ~Signed(n).nullable
  BY RuleFields DEF HasFields
<1>3. \A f, n, c : n \in Int /\ c \in Columns /\ c.min <= -MaxBigint /\ MaxBigint <= c.max =>
         Takes(f, Signed(n), "parseMinorUnits", c)
  BY <1>2 DEF Takes
<1>4. \A f, m, n, c : m \in Int /\ n \in Int /\ c \in Columns /\ c.min <= m /\ MaxBigint <= c.max =>
         /\ Takes(f, Whole(m, n), "parseMinorUnits", c)
         /\ c.null => Takes(f, Nullable(Whole(m, n)), "parseMinorUnits", c)
  BY <1>1 DEF Takes
<1> QED BY <1>3, <1>4

\* A column with those bounds.
HasColumn(c, min, max, null, blank) ==
    c \in Columns /\ c.min = min /\ c.max = max /\ (c.null <=> null) /\ (c.blank <=> blank)

\* The columns of the tables.
LEMMA TableColumns ==
    \A m, n \in Int : /\ HasColumn(Column(m, n), m, n, FALSE, TRUE)
                        /\ HasColumn(OrNull(Column(m, n)), m, n, TRUE, TRUE)
                        /\ HasColumn(NotBlank(Column(m, n)), m, n, FALSE, FALSE)
                        /\ HasColumn(OrNull(NotBlank(Column(m, n))), m, n, TRUE, FALSE)
                        /\ HasColumn(Unique(Column(m, n)), m, n, FALSE, TRUE)
                        /\ HasColumn(OrNull(Unique(Column(m, n))), m, n, TRUE, TRUE)
BY ColumnFields DEF HasColumn

LEMMA InheritedTake ==
    /\ Takes("durationMinutes", Optional(Whole(1, 1440)), "effectiveValue", Column(1, 1440))
    /\ Takes("bookingCutoffMinutes", Optional(Whole(0, MaxInteger)), "effectiveValue",
             Column(0, MaxInteger))
    /\ Takes("displayOrder", Optional(Whole(0, 32767)), "orZero", Column(0, 32767))
<1>1. \A m, n \in Int : /\ Optional(Whole(m, n)).kind = "number"
                        /\ Optional(Whole(m, n)).min = m /\ Optional(Whole(m, n)).max = n
                        /\ ~Optional(Whole(m, n)).nullable
  BY RuleFields, ChangedRules DEF HasFields
<1> QED BY <1>1, ColumnFields, Bounds DEF Takes

LEMMA DefaultedTake ==
    /\ IsRule(Defaulted(Format, Valid))
    /\ \A f, c : c \in Columns => Takes(f, Defaulted(Format, Valid), "keep", c)
    /\ \A m, n, k : m \in Int /\ n \in Int /\ k \in m .. n => IsRule(Defaulted(Whole(m, n), Number(k)))
    /\ \A f, m, n, k, c : m \in Int /\ n \in Int /\ k \in m .. n /\ c \in Columns
                          /\ c.min <= m /\ n <= c.max
         => Takes(f, Defaulted(Whole(m, n), Number(k)), "keep", c)
<1>1. Valid \in [is : {"absent", "valid", "number"}, size : Int, trimmed : Int, lowered : Int]
  BY DEF Valid, Value
<1>2. ASSUME NEW k \in Int
      PROVE  Number(k) \in [is : {"absent", "valid", "number"}, size : Int, trimmed : Int, lowered : Int]
  BY DEF Number, Value
<1>a. /\ Format \in Rules /\ Format.kind = "format" /\ ~Format.nullable
      /\ \A m, n \in Int : /\ Whole(m, n) \in Rules /\ Whole(m, n).kind = "number"
                           /\ Whole(m, n).min = m /\ Whole(m, n).max = n /\ ~Whole(m, n).nullable
  BY RuleFields DEF HasFields
<1>3. /\ Defaulted(Format, Valid) \in Rules /\ Defaulted(Format, Valid).kind = "format"
      /\ Defaulted(Format, Valid).default = Valid /\ ~Defaulted(Format, Valid).nullable
  BY <1>a, <1>1, DefaultedRules
<1>4. ASSUME NEW m \in Int, NEW n \in Int, NEW k \in m .. n
      PROVE  LET r == Defaulted(Whole(m, n), Number(k))
             IN  /\ r \in Rules /\ r.kind = "number" /\ r.default = Number(k) /\ ~r.nullable
                 /\ r.min = m /\ r.max = n
  <2>1. k \in Int
    OBVIOUS
  <2>2. Whole(m, n) \in Rules /\ Whole(m, n).kind = "number" /\ ~Whole(m, n).nullable
    BY <1>a
  <2>3. Whole(m, n).min = m /\ Whole(m, n).max = n
    BY <1>a
  <2>4. Number(k) \in [is : {"absent", "valid", "number"}, size : Int, trimmed : Int, lowered : Int]
    BY <1>2, <2>1
  <2> QED BY <2>2, <2>3, <2>4, DefaultedRules
<1>5. \A f, c : c \in Columns => Takes(f, Defaulted(Format, Valid), "keep", c)
  BY <1>3 DEF Takes
<1>6. ASSUME NEW m \in Int, NEW n \in Int, NEW k \in m .. n
      PROVE  /\ IsRule(Defaulted(Whole(m, n), Number(k)))
             /\ \A f, c : c \in Columns /\ c.min <= m /\ n <= c.max =>
                  Takes(f, Defaulted(Whole(m, n), Number(k)), "keep", c)
  BY <1>4 DEF IsRule, Takes
<1>7. IsRule(Defaulted(Format, Valid))
  BY <1>3 DEF IsRule
<1> QED BY <1>5, <1>6, <1>7

-----------------------------------------------------------------------------
(* The pairs of a rule and a column that the tables have. *)

LEMMA UrlColumns ==
    /\ \A f : Takes(f, Url, "keep", Column(1, 1))
    /\ \A f : Takes(f, Optional(Url), "keep", OrNull(Column(1, 1)))
    /\ \A f, n : n \in Int => Takes(f, Nullable(Url), "optionalText", OrNull(Column(0, n)))
<1>1. Column(1, 1) \in Columns /\ OrNull(Column(1, 1)) \in Columns
  BY TableColumns DEF HasColumn
<1>2. \A n \in Int : OrNull(Column(0, n)) \in Columns /\ OrNull(Column(0, n)).null
  BY TableColumns DEF HasColumn
<1> QED BY <1>1, <1>2, UrlsTake

LEMMA FormatColumns ==
    /\ \A f, u : u \in Plain \ {"optionalText"} =>
         Takes(f, Format, u, Column(1, 1))
    /\ \A f, u : u \in Plain \ {"optionalText"} =>
         Takes(f, Format, u, Unique(Column(1, 1)))
    /\ \A f, u : u \in Plain \ {"optionalText"} =>
         Takes(f, Optional(Format), u, OrNull(Column(1, 1)))
    /\ \A f, u : u \in Plain \ {"optionalText"} =>
         Takes(f, Optional(Format), u, OrNull(Unique(Column(1, 1))))
    /\ \A f : Takes(f, Nullable(Format), "keep", OrNull(Column(1, 1)))
    /\ \A f, n : n \in Int => Takes(f, Nullable(Format), "optionalText", OrNull(Column(0, n)))
    /\ \A f : Takes(f, Defaulted(Format, Valid), "keep", Column(1, 1))
<1>1. /\ Column(1, 1) \in Columns /\ Unique(Column(1, 1)) \in Columns
      /\ OrNull(Column(1, 1)) \in Columns /\ OrNull(Column(1, 1)).null
      /\ OrNull(Unique(Column(1, 1))) \in Columns
  BY TableColumns DEF HasColumn
<1>2. \A n \in Int : OrNull(Column(0, n)) \in Columns /\ OrNull(Column(0, n)).null
  BY TableColumns DEF HasColumn
<1>3. \A f, u : u \in Plain \ {"optionalText"} =>
         /\ Takes(f, Format, u, Column(1, 1)) /\ Takes(f, Format, u, Unique(Column(1, 1)))
         /\ Takes(f, Optional(Format), u, OrNull(Column(1, 1)))
         /\ Takes(f, Optional(Format), u, OrNull(Unique(Column(1, 1))))
  BY <1>1, FormatsTake
<1>4. \A f : Takes(f, Nullable(Format), "keep", OrNull(Column(1, 1)))
  BY <1>1, FormatsTake DEF Nullables
<1>5. \A f, n : n \in Int => Takes(f, Nullable(Format), "optionalText", OrNull(Column(0, n)))
  BY <1>2, FormatsTake DEF Nullables
<1>6. \A f : Takes(f, Defaulted(Format, Valid), "keep", Column(1, 1))
  BY <1>1, DefaultedTake
<1> QED BY <1>3, <1>4, <1>5, <1>6

LEMMA TextColumns ==
    /\ \A f, u, m, n : u \in Plain \ {"optionalText"} /\ m \in Nat /\ n \in Nat /\ m >= 1 =>
         Takes(f, Trimmed(m, n), u, NotBlank(Column(0, n)))
    /\ \A f, u, m, n, k : u \in {"keep", "optionalText"} /\ m \in Nat /\ n \in Nat /\ k \in Nat /\ n <= k =>
         Takes(f, Nullable(Trimmed(m, n)), u, OrNull(Column(0, k)))
    /\ \A f, m, n : m \in Nat /\ n \in Nat =>
         Takes(f, Nullable(Trimmed(m, n)), "optionalText", OrNull(NotBlank(Column(0, n))))
    /\ \A f, u, m, n, k : u \in Plain \ {"optionalText"} /\ m \in Nat /\ n \in Nat /\ k \in Nat /\ n <= k =>
         Takes(f, String(m, n), u, Column(0, k))
    /\ \A f, u, m, n, k : u \in Plain \ {"optionalText"} /\ m \in Nat /\ n \in Nat /\ k \in Nat /\ n <= k =>
         Takes(f, Optional(String(m, n)), u, OrNull(Column(0, k)))
    /\ \A f, u, m, n : u \in Plain \ {"optionalText"} /\ m \in Nat /\ n \in Nat =>
         Takes(f, Optional(String(m, n)), u, OrNull(Unique(Column(0, n))))
    /\ \A m, n, k : m \in Nat /\ n \in Nat /\ k \in Nat /\ n <= k =>
         Takes("reason", String(m, n), "trim", NotBlank(Column(0, k)))
<1>1. \A k \in Nat : /\ HasColumn(Column(0, k), 0, k, FALSE, TRUE)
                     /\ HasColumn(OrNull(Column(0, k)), 0, k, TRUE, TRUE)
                     /\ HasColumn(NotBlank(Column(0, k)), 0, k, FALSE, FALSE)
                     /\ HasColumn(OrNull(NotBlank(Column(0, k))), 0, k, TRUE, FALSE)
  BY TableColumns DEF HasColumn
<1>2. \A f, u, m, n : u \in Plain \ {"optionalText"} /\ m \in Nat /\ n \in Nat /\ m >= 1 =>
         Takes(f, Trimmed(m, n), u, NotBlank(Column(0, n)))
  BY <1>1, TextsTake DEF HasColumn
<1>3. \A f, u, m, n, k : u \in {"keep", "optionalText"} /\ m \in Nat /\ n \in Nat /\ k \in Nat /\ n <= k =>
         Takes(f, Nullable(Trimmed(m, n)), u, OrNull(Column(0, k)))
  BY <1>1, TextsTake DEF HasColumn, Nullables
<1>4. \A f, m, n : m \in Nat /\ n \in Nat =>
         Takes(f, Nullable(Trimmed(m, n)), "optionalText", OrNull(NotBlank(Column(0, n))))
  BY <1>1, TextsTake DEF HasColumn, Nullables
<1>5. ASSUME NEW f, NEW u \in Plain \ {"optionalText"}, NEW m \in Nat, NEW n \in Nat, NEW k \in Nat,
             n <= k
      PROVE  /\ Takes(f, String(m, n), u, Column(0, k))
             /\ Takes(f, Optional(String(m, n)), u, OrNull(Column(0, k)))
  <2>1. ASSUME NEW c \in {Column(0, k), OrNull(Column(0, k))}
        PROVE  c \in Columns /\ c.min = 0 /\ c.max = k /\ c.blank
    BY <1>1 DEF HasColumn
  <2>2. ASSUME NEW c \in {Column(0, k), OrNull(Column(0, k))}
        PROVE  Takes(f, String(m, n), u, c) /\ Takes(f, Optional(String(m, n)), u, c)
    BY <1>5, <2>1, StringsTake
  <2> QED BY <2>2
<1>6. \A m, n, k : m \in Nat /\ n \in Nat /\ k \in Nat /\ n <= k =>
         Takes("reason", String(m, n), "trim", NotBlank(Column(0, k)))
  BY <1>1, StringsTake DEF HasColumn, Plain
<1>7. \A f, u, m, n : u \in Plain \ {"optionalText"} /\ m \in Nat /\ n \in Nat =>
         Takes(f, Optional(String(m, n)), u, OrNull(Unique(Column(0, n))))
  <2>1. \A n \in Nat : LET c == OrNull(Unique(Column(0, n)))
                        IN  c \in Columns /\ c.min = 0 /\ c.max = n /\ c.blank
    BY TableColumns DEF HasColumn
  <2> QED BY <2>1, StringsTake
<1> QED BY <1>2, <1>3, <1>4, <1>5, <1>6, <1>7

LEMMA NumberColumns ==
    /\ \A f, u, m, n : u \in Plain \ {"optionalText"} /\ m \in Int /\ n \in Int =>
         Takes(f, Whole(m, n), u, Column(m, n))
    /\ \A f, u, m, n : u \in Plain \ {"optionalText"} /\ m \in Int /\ n \in Int =>
         Takes(f, Optional(Whole(m, n)), u, Column(m, n))
    /\ \A f, m, n : m \in Int /\ n \in Int =>
         Takes(f, Nullable(Whole(m, n)), "keep", OrNull(Column(m, n)))
    /\ \A f, m, n, k : m \in Int /\ n \in Int /\ k \in m .. n =>
         Takes(f, Defaulted(Whole(m, n), Number(k)), "keep", Column(m, n))
    /\ \A f, m : m \in Int => Takes(f, Whole(m, Digits), "parseMinorUnits", Column(m, MaxBigint))
    /\ \A f, m : m \in Int => Takes(f, Nullable(Whole(m, Digits)), "parseMinorUnits", OrNull(Column(m, MaxBigint)))
    /\ \A f : Takes(f, Signed(Digits), "parseMinorUnits", Column(-MaxBigint, MaxBigint))
<1>1. \A m, n \in Int : /\ HasColumn(Column(m, n), m, n, FALSE, TRUE)
                        /\ HasColumn(OrNull(Column(m, n)), m, n, TRUE, TRUE)
  BY TableColumns
<1>2. MaxBigint \in Int /\ Digits \in Int /\ -MaxBigint \in Int
  BY Bounds
<1>3. \A f, u, m, n : u \in Plain \ {"optionalText"} /\ m \in Int /\ n \in Int =>
         /\ Takes(f, Whole(m, n), u, Column(m, n))
         /\ Takes(f, Optional(Whole(m, n)), u, Column(m, n))
  BY <1>1, NumbersTake DEF HasColumn
<1>4. \A f, m, n : m \in Int /\ n \in Int =>
         Takes(f, Nullable(Whole(m, n)), "keep", OrNull(Column(m, n)))
  BY <1>1, NullableNumbersTake DEF HasColumn
<1>5. \A f, m, n, k : m \in Int /\ n \in Int /\ k \in m .. n =>
         Takes(f, Defaulted(Whole(m, n), Number(k)), "keep", Column(m, n))
  BY <1>1, DefaultedTake DEF HasColumn
<1>6. \A m \in Int : /\ HasColumn(Column(m, MaxBigint), m, MaxBigint, FALSE, TRUE)
                     /\ HasColumn(OrNull(Column(m, MaxBigint)), m, MaxBigint, TRUE, TRUE)
  BY <1>1, <1>2
<1>7. \A f, m : m \in Int => Takes(f, Whole(m, Digits), "parseMinorUnits", Column(m, MaxBigint))
  BY <1>2, <1>6, AmountsTake DEF HasColumn
<1>8. \A f, m : m \in Int => Takes(f, Nullable(Whole(m, Digits)), "parseMinorUnits", OrNull(Column(m, MaxBigint)))
  BY <1>2, <1>6, AmountsTake DEF HasColumn
<1>9. HasColumn(Column(-MaxBigint, MaxBigint), -MaxBigint, MaxBigint, FALSE, TRUE)
  BY <1>2, <1>6
<1>10. \A f : Takes(f, Signed(Digits), "parseMinorUnits", Column(-MaxBigint, MaxBigint))
  BY <1>2, <1>9, AmountsTake DEF HasColumn
<1> QED BY <1>3, <1>4, <1>5, <1>7, <1>8, <1>10

\* The field f of a DTO meets its use and its column.
Meets(f, dto, uses, table, rule, use, column) ==
    /\ dto[f] = rule
    /\ UseIn(uses, f) = use
    /\ f \in DOMAIN table /\ table[f] = column

LEMMA FieldAgrees ==
  ASSUME NEW f, NEW dto, NEW uses, NEW table, NEW rule, NEW use, NEW column,
         Meets(f, dto, uses, table, rule, use, column), IsRule(rule), Takes(f, rule, use, column)
  PROVE  Agrees(f, dto, uses, table)
BY DEF Agrees, Meets

\* The reason of an adjustment and of an expiry is not a column of the ledger.
LEMMA LedgerTables ==
    /\ \A f : f \in DOMAIN LedgerWithReason <=> f \in DOMAIN Ledger \/ f = "reason"
    /\ \A f : f \in DOMAIN AuditedLedger <=> f \in DOMAIN Ledger \/ f = "reason"
    /\ \A f \in DOMAIN Ledger : LedgerWithReason[f] = Ledger[f] /\ AuditedLedger[f] = Ledger[f]
    /\ LedgerWithReason["reason"] = TextColumn /\ AuditedLedger["reason"] = NotBlank(TextColumn)
<1>1. "reason" \notin DOMAIN Ledger
  BY DEF Ledger
<1> QED BY <1>1 DEF LedgerWithReason, AuditedLedger, ++

\* The instants of a session are no fields of a request.
LEMMA SessionTable ==
    /\ DOMAIN Instants = {"startsAt", "endsAt", "bookingCutoffAt"}
    /\ DOMAIN ActivitySessions = DOMAIN Instants \cup
            {"durationMinutes", "capacity", "bookingCutoffMinutes", "reason"}
    /\ \A c \in DOMAIN Instants : ActivitySessions[c] = Instants[c]
    /\ ActivitySessions["durationMinutes"] = Column(1, 1440)
    /\ ActivitySessions["capacity"] = Column(1, 32767)
    /\ ActivitySessions["bookingCutoffMinutes"] = Column(0, MaxInteger)
    /\ ActivitySessions["reason"] = NotBlank(Column(0, 500))
<1>1. DOMAIN Instants = {"startsAt", "endsAt", "bookingCutoffAt"}
  BY DEF Instants
<1> QED BY <1>1 DEF ActivitySessions, ++, SmallInt, VarChar

-----------------------------------------------------------------------------
(* The tables, one by one: every field of the DTO agrees with its column. *)

LEMMA ActivitiesAgree == Agree(CreateActivityDto, MutableData, Activities)
<1> SUFFICES ASSUME NEW f \in DOMAIN CreateActivityDto
             PROVE  Agrees(f, CreateActivityDto, MutableData, Activities)
  BY DEF Agree
<1> DEFINE M(r, u, c) == Meets(f, CreateActivityDto, MutableData, Activities, r, u, c)
<1>1. CASE f = "categoryId"
  <2>1. M(Format, "connect", Column(1, 1))
    BY <1>1, UsesFields, MergedUses DEF CreateActivityDto, MutableData, Activities, VarChar, TextColumn, Coded, SmallInt, Meets
  <2> QED BY <2>1, RulesAreRules, FormatColumns, Bounds, FieldAgrees DEF Plain
<1>2. CASE f = "slug"
  <2>1. M(Format, "normalizeSlug", Unique(Column(1, 1)))
    BY <1>2, UsesFields, MergedUses DEF CreateActivityDto, MutableData, Activities, VarChar, TextColumn, Coded, SmallInt, Meets
  <2> QED BY <2>1, RulesAreRules, FormatColumns, Bounds, FieldAgrees DEF Plain
<1>3. CASE f \in {"currency", "locationType", "country"}
  <2>1. M(Nullable(Format), "keep", OrNull(Column(1, 1)))
    BY <1>3, UsesFields, MergedUses DEF CreateActivityDto, MutableData, Activities, VarChar, TextColumn, Coded, SmallInt, Meets
  <2> QED BY <2>1, RulesAreRules, FormatColumns, Bounds, FieldAgrees DEF Plain
<1>4. CASE f = "onlineUrl"
  <2>1. M(Nullable(Url), "optionalText", OrNull(Column(0, 2048)))
    BY <1>4, UsesFields, MergedUses DEF CreateActivityDto, MutableData, Activities, VarChar, TextColumn, Coded, SmallInt, Meets
  <2> QED BY <2>1, RulesAreRules, UrlColumns, Bounds, FieldAgrees DEF Plain
<1>5. CASE f = "title"
  <2>1. M(Trimmed(2, 160), "requiredText", NotBlank(Column(0, 160)))
    BY <1>5, UsesFields, MergedUses DEF CreateActivityDto, MutableData, Activities, VarChar, TextColumn, Coded, SmallInt, Meets
  <2> QED BY <2>1, RulesAreRules, TextColumns, Bounds, FieldAgrees DEF Plain
<1>6. CASE f \in {"shortDescription", "fullDescription", "venueName",
               "addressLine1", "addressLine2", "region", "postalCode", "cancellationPolicy"}
  <2>1. PICK n \in Nat, k \in Nat : M(Nullable(Trimmed(0, n)), "optionalText", OrNull(Column(0, k))) /\ n <= k
    BY <1>6, UsesFields, MergedUses, BoundsAssumption DEF CreateActivityDto, MutableData, Activities, VarChar, TextColumn, Coded, SmallInt, Meets
  <2> QED BY <2>1, RulesAreRules, TextColumns, Bounds, FieldAgrees DEF Plain
<1>7. CASE f = "city"
  <2>1. M(Nullable(Trimmed(0, 120)), "optionalText", OrNull(NotBlank(Column(0, 120))))
    BY <1>7, UsesFields, MergedUses DEF CreateActivityDto, MutableData, Activities, VarChar, TextColumn, Coded, SmallInt, Meets
  <2> QED BY <2>1, RulesAreRules, TextColumns, Bounds, FieldAgrees DEF Plain
<1>8. CASE f = "priceMinor"
  <2>1. M(Nullable(Whole(0, Digits)), "parseMinorUnits", OrNull(Column(0, MaxBigint)))
    BY <1>8, UsesFields, MergedUses DEF CreateActivityDto, MutableData, Activities, VarChar, TextColumn, Coded, SmallInt, Meets
  <2> QED BY <2>1, RulesAreRules, NumberColumns, Bounds, FieldAgrees DEF Plain
<1>9. CASE f \in {"durationMinutes", "minParticipants", "maxParticipants"}
  <2>1. M(Nullable(Whole(1, 32767)), "keep", OrNull(Column(1, 32767)))
    BY <1>9, UsesFields, MergedUses DEF CreateActivityDto, MutableData, Activities, VarChar, TextColumn, Coded, SmallInt, Meets
  <2> QED BY <2>1, RulesAreRules, NumberColumns, Bounds, FieldAgrees DEF Plain
<1>10. CASE f \in {"cancellationWindowMinutes", "bookingCutoffMinutes"}
  <2>1. M(Nullable(Whole(0, MaxInteger)), "keep", OrNull(Column(0, MaxInteger)))
    BY <1>10, UsesFields, MergedUses DEF CreateActivityDto, MutableData, Activities, VarChar, TextColumn, Coded, SmallInt, Meets
  <2> QED BY <2>1, RulesAreRules, NumberColumns, Bounds, FieldAgrees DEF Plain
<1>11. CASE f = "media"
  <2>1. CreateActivityDto[f] = Optional(Items(0, 20)) /\ f \notin DOMAIN Activities
    BY <1>11 DEF CreateActivityDto, Activities
  <2>2. IsRule(CreateActivityDto[f]) /\ ~CreateActivityDto[f].nullable
    BY <2>1, RulesAreRules, RuleFields, ChangedRules DEF HasFields
  <2> QED BY <2>1, <2>2 DEF Agrees
<1> QED
  BY <1>1, <1>2, <1>3, <1>4, <1>5, <1>6, <1>7, <1>8, <1>9, <1>10, <1>11 DEF CreateActivityDto

LEMMA MediaAgree == Agree(ActivityMediaInputDto, MediaData, ActivityMedia)
<1> SUFFICES ASSUME NEW f \in DOMAIN ActivityMediaInputDto
             PROVE  Agrees(f, ActivityMediaInputDto, MediaData, ActivityMedia)
  BY DEF Agree
<1> DEFINE M(r, u, c) == Meets(f, ActivityMediaInputDto, MediaData, ActivityMedia, r, u, c)
<1>1. CASE f = "type"
  <2>1. M(Format, "keep", Column(1, 1))
    BY <1>1, UsesFields, MergedUses DEF ActivityMediaInputDto, MediaData, ActivityMedia, VarChar, Coded, SmallInt, Meets
  <2> QED BY <2>1, RulesAreRules, FormatColumns, Bounds, FieldAgrees DEF Plain
<1>2. CASE f = "altText"
  <2>1. M(Nullable(Trimmed(0, 240)), "optionalText", OrNull(Column(0, 240)))
    BY <1>2, UsesFields, MergedUses DEF ActivityMediaInputDto, MediaData, ActivityMedia, VarChar, Coded, SmallInt, Meets
  <2> QED BY <2>1, RulesAreRules, TextColumns, Bounds, FieldAgrees DEF Plain
<1>3. CASE f = "displayOrder"
  <2>1. M(Defaulted(Whole(0, 32767), Number(0)), "keep", Column(0, 32767))
    BY <1>3, UsesFields, MergedUses DEF ActivityMediaInputDto, MediaData, ActivityMedia, VarChar, Coded, SmallInt, Meets
  <2> QED BY <2>1, RulesAreRules, DefaultedTake, NumberColumns, Bounds, FieldAgrees DEF Plain
<1>4. CASE f = "url"
  <2>1. M(Url, "keep", Column(1, 1))
    BY <1>4, UsesFields, MergedUses DEF ActivityMediaInputDto, MediaData, ActivityMedia, VarChar, Coded, SmallInt, Meets
  <2> QED BY <2>1, RulesAreRules, UrlColumns, Bounds, FieldAgrees
<1> QED
  BY <1>1, <1>2, <1>3, <1>4 DEF ActivityMediaInputDto

LEMMA SessionsAgree == Agree(CreateOneTimeSessionDto, SessionData, ActivitySessions)
<1> SUFFICES ASSUME NEW f \in DOMAIN CreateOneTimeSessionDto
             PROVE  Agrees(f, CreateOneTimeSessionDto, SessionData, ActivitySessions)
  BY DEF Agree
<1> DEFINE M(r, u, c) == Meets(f, CreateOneTimeSessionDto, SessionData, ActivitySessions, r, u, c)
<1>1. CASE f \in {"localStartsAt", "dstOverlapPolicy"}
  <2>1. CreateOneTimeSessionDto[f] \in {LocalTime, Optional(Format)} /\ f \notin DOMAIN ActivitySessions
    BY <1>1, SessionTable DEF CreateOneTimeSessionDto
  <2>2. IsRule(CreateOneTimeSessionDto[f]) /\ ~CreateOneTimeSessionDto[f].nullable
    BY <2>1, RulesAreRules, RuleFields, ChangedRules DEF HasFields
  <2> QED BY <2>1, <2>2 DEF Agrees
<1>2. CASE f = "durationMinutes"
  <2>1. M(Optional(Whole(1, 1440)), "effectiveValue", Column(1, 1440))
    BY <1>2, UsesFields, MergedUses, SessionTable DEF CreateOneTimeSessionDto, SessionData, Meets
  <2> QED BY <1>2, <2>1, RulesAreRules, InheritedTake, Bounds, FieldAgrees DEF Plain
<1>3. CASE f = "bookingCutoffMinutes"
  <2>1. M(Optional(Whole(0, MaxInteger)), "effectiveValue", Column(0, MaxInteger))
    BY <1>3, UsesFields, MergedUses, SessionTable DEF CreateOneTimeSessionDto, SessionData, Meets
  <2> QED BY <1>3, <2>1, RulesAreRules, InheritedTake, Bounds, FieldAgrees DEF Plain
<1>4. CASE f = "capacity"
  <2>1. M(Whole(1, 32767), "assertCapacity", Column(1, 32767))
    BY <1>4, UsesFields, MergedUses, SessionTable DEF CreateOneTimeSessionDto, SessionData, Meets
  <2> QED BY <2>1, RulesAreRules, NumberColumns, Bounds, FieldAgrees DEF Plain
<1> QED
  BY <1>1, <1>2, <1>3, <1>4 DEF CreateOneTimeSessionDto

LEMMA ChangesAgree == Agree(CreateOneTimeSessionDto, SessionChanges, ActivitySessions)
<1> SUFFICES ASSUME NEW f \in DOMAIN CreateOneTimeSessionDto
             PROVE  Agrees(f, CreateOneTimeSessionDto, SessionChanges, ActivitySessions)
  BY DEF Agree
<1> DEFINE M(r, u, c) == Meets(f, CreateOneTimeSessionDto, SessionChanges, ActivitySessions, r, u, c)
<1>1. CASE f \in {"localStartsAt", "dstOverlapPolicy"}
  <2>1. CreateOneTimeSessionDto[f] \in {LocalTime, Optional(Format)} /\ f \notin DOMAIN ActivitySessions
    BY <1>1, SessionTable DEF CreateOneTimeSessionDto
  <2>2. IsRule(CreateOneTimeSessionDto[f]) /\ ~CreateOneTimeSessionDto[f].nullable
    BY <2>1, RulesAreRules, RuleFields, ChangedRules DEF HasFields
  <2> QED BY <2>1, <2>2 DEF Agrees
<1>2. CASE f = "durationMinutes"
  <2>1. M(Optional(Whole(1, 1440)), "orExisting", Column(1, 1440))
    BY <1>2, UsesFields, MergedUses, SessionTable DEF CreateOneTimeSessionDto, SessionChanges, Meets
  <2> QED BY <2>1, RulesAreRules, NumberColumns, Bounds, FieldAgrees DEF Plain
<1>3. CASE f = "bookingCutoffMinutes"
  <2>1. M(Optional(Whole(0, MaxInteger)), "orExisting", Column(0, MaxInteger))
    BY <1>3, UsesFields, MergedUses, SessionTable DEF CreateOneTimeSessionDto, SessionChanges, Meets
  <2> QED BY <2>1, RulesAreRules, NumberColumns, Bounds, FieldAgrees DEF Plain
<1>4. CASE f = "capacity"
  <2>1. M(Whole(1, 32767), "orExisting", Column(1, 32767))
    BY <1>4, UsesFields, MergedUses, SessionTable DEF CreateOneTimeSessionDto, SessionChanges, Meets
  <2> QED BY <2>1, RulesAreRules, NumberColumns, Bounds, FieldAgrees DEF Plain
<1> QED
  BY <1>1, <1>2, <1>3, <1>4 DEF CreateOneTimeSessionDto

LEMMA CancellationsAgree == Agree(CancelSessionDto, <<>>, ActivitySessions)
<1> SUFFICES ASSUME NEW f \in DOMAIN CancelSessionDto
             PROVE  Agrees(f, CancelSessionDto, <<>>, ActivitySessions)
  BY DEF Agree
<1> DEFINE M(r, u, c) == Meets(f, CancelSessionDto, <<>>, ActivitySessions, r, u, c)
<1>1. CASE f = "reason"
  <2>1. M(Trimmed(1, 500), "keep", NotBlank(Column(0, 500)))
    BY <1>1, UsesFields, MergedUses, SessionTable DEF CancelSessionDto, Meets, UseIn
  <2> QED BY <1>1, <2>1, RulesAreRules, TextColumns, Bounds, FieldAgrees DEF Plain
<1> QED
  BY <1>1 DEF CancelSessionDto

LEMMA SchedulesAgree == Agree(CreateScheduleTemplateDto, ScheduleData, ScheduleTemplates)
<1> SUFFICES ASSUME NEW f \in DOMAIN CreateScheduleTemplateDto
             PROVE  Agrees(f, CreateScheduleTemplateDto, ScheduleData, ScheduleTemplates)
  BY DEF Agree
<1> DEFINE M(r, u, c) == Meets(f, CreateScheduleTemplateDto, ScheduleData, ScheduleTemplates, r, u, c)
<1>1. CASE f \in {"localStartTime", "weekdays", "generationStartDate", "generationEndDate"}
  <2>1. M(Format, "keep", Column(1, 1))
    BY <1>1, UsesFields, MergedUses DEF CreateScheduleTemplateDto, ScheduleData, ScheduleTemplates, Coded, SmallInt, Meets
  <2> QED BY <2>1, RulesAreRules, FormatColumns, Bounds, FieldAgrees DEF Plain
<1>2. CASE f \in {"dstOverlapPolicy", "dstGapPolicy"}
  <2>1. M(Defaulted(Format, Valid), "keep", Column(1, 1))
    BY <1>2, UsesFields, MergedUses DEF CreateScheduleTemplateDto, ScheduleData, ScheduleTemplates, Coded, SmallInt, Meets
  <2> QED BY <2>1, RulesAreRules, DefaultedTake, FormatColumns, Bounds, FieldAgrees DEF Plain
<1>3. CASE f = "intervalWeeks"
  <2>1. M(Defaulted(Whole(1, 52), Number(1)), "keep", Column(1, 52))
    BY <1>3, UsesFields, MergedUses DEF CreateScheduleTemplateDto, ScheduleData, ScheduleTemplates, Coded, SmallInt, Meets
  <2> QED BY <2>1, RulesAreRules, DefaultedTake, NumberColumns, Bounds, FieldAgrees DEF Plain
<1>4. CASE f = "durationMinutes"
  <2>1. M(Optional(Whole(1, 1440)), "effectiveValue", Column(1, 1440))
    BY <1>4, UsesFields, MergedUses DEF CreateScheduleTemplateDto, ScheduleData, ScheduleTemplates, Coded, SmallInt, Meets
  <2> QED BY <1>4, <2>1, RulesAreRules, InheritedTake, Bounds, FieldAgrees DEF Plain
<1>5. CASE f = "bookingCutoffMinutes"
  <2>1. M(Optional(Whole(0, MaxInteger)), "effectiveValue", Column(0, MaxInteger))
    BY <1>5, UsesFields, MergedUses DEF CreateScheduleTemplateDto, ScheduleData, ScheduleTemplates, Coded, SmallInt, Meets
  <2> QED BY <1>5, <2>1, RulesAreRules, InheritedTake, Bounds, FieldAgrees DEF Plain
<1>6. CASE f = "capacity"
  <2>1. M(Whole(1, 32767), "assertCapacity", Column(1, 32767))
    BY <1>6, UsesFields, MergedUses DEF CreateScheduleTemplateDto, ScheduleData, ScheduleTemplates, Coded, SmallInt, Meets
  <2> QED BY <2>1, RulesAreRules, NumberColumns, Bounds, FieldAgrees DEF Plain
<1> QED
  BY <1>1, <1>2, <1>3, <1>4, <1>5, <1>6 DEF CreateScheduleTemplateDto

LEMMA GenerationsAgree == Agree(GenerateScheduleDto, GenerateData, Instants)
<1> SUFFICES ASSUME NEW f \in DOMAIN GenerateScheduleDto
             PROVE  Agrees(f, GenerateScheduleDto, GenerateData, Instants)
  BY DEF Agree
<1> DEFINE M(r, u, c) == Meets(f, GenerateScheduleDto, GenerateData, Instants, r, u, c)
<1>1. CASE f = "throughDate"
  <2>1. GenerateScheduleDto[f] = Optional(Format) /\ f \notin DOMAIN Instants
    BY <1>1, SessionTable DEF GenerateScheduleDto
  <2>2. IsRule(GenerateScheduleDto[f]) /\ ~GenerateScheduleDto[f].nullable
    BY <2>1, RulesAreRules, RuleFields, ChangedRules DEF HasFields
  <2> QED BY <2>1, <2>2 DEF Agrees
<1> QED
  BY <1>1 DEF GenerateScheduleDto

LEMMA EmployersAgree == Agree(CreateEmployerDto, EmployerData, Employers)
<1> SUFFICES ASSUME NEW f \in DOMAIN CreateEmployerDto
             PROVE  Agrees(f, CreateEmployerDto, EmployerData, Employers)
  BY DEF Agree
<1> DEFINE M(r, u, c) == Meets(f, CreateEmployerDto, EmployerData, Employers, r, u, c)
<1>1. CASE f = "slug"
  <2>1. M(Format, "normalizeSlug", Unique(Column(1, 1)))
    BY <1>1, UsesFields, MergedUses DEF CreateEmployerDto, EmployerData, Employers, Coded, VarChar, Meets
  <2> QED BY <2>1, RulesAreRules, FormatColumns, Bounds, FieldAgrees DEF Plain
<1>2. CASE f = "name"
  <2>1. M(String(2, 160), "trim", Column(0, 160))
    BY <1>2, UsesFields, MergedUses DEF CreateEmployerDto, EmployerData, Employers, Coded, VarChar, Meets
  <2> QED BY <2>1, RulesAreRules, TextColumns, Bounds, FieldAgrees DEF Plain
<1>3. CASE f = "timezone"
  <2>1. M(String(1, 64), "assertTimeZone", Column(0, 64))
    BY <1>3, UsesFields, MergedUses DEF CreateEmployerDto, EmployerData, Employers, Coded, VarChar, Meets
  <2> QED BY <2>1, RulesAreRules, TextColumns, Bounds, FieldAgrees DEF Plain
<1>4. CASE f = "contactEmail"
  <2>1. M(Optional(Format), "keep", OrNull(Column(1, 1)))
    BY <1>4, UsesFields, MergedUses DEF CreateEmployerDto, EmployerData, Employers, Coded, VarChar, Meets
  <2> QED BY <2>1, RulesAreRules, FormatColumns, Bounds, FieldAgrees DEF Plain
<1>5. CASE f = "contactPhone"
  <2>1. M(Optional(String(0, 32)), "keep", OrNull(Column(0, 32)))
    BY <1>5, UsesFields, MergedUses DEF CreateEmployerDto, EmployerData, Employers, Coded, VarChar, Meets
  <2> QED BY <2>1, RulesAreRules, TextColumns, Bounds, FieldAgrees DEF Plain
<1>6. CASE f = "initialAdminUserId"
  <2>1. M(Format, "connect", Column(1, 1))
    BY <1>6, UsesFields, MergedUses DEF CreateEmployerDto, EmployerData, Employers, Coded, VarChar, Meets
  <2> QED BY <2>1, RulesAreRules, FormatColumns, Bounds, FieldAgrees DEF Plain
<1>7. CASE f \in {"country", "defaultCurrency"}
  <2>1. M(Format, "keep", Column(1, 1))
    BY <1>7, UsesFields, MergedUses DEF CreateEmployerDto, EmployerData, Employers, Coded, VarChar, Meets
  <2> QED BY <2>1, RulesAreRules, FormatColumns, Bounds, FieldAgrees DEF Plain
<1>8. CASE f = "websiteUrl"
  <2>1. M(Optional(Url), "keep", OrNull(Column(1, 1)))
    BY <1>8, UsesFields, MergedUses DEF CreateEmployerDto, EmployerData, Employers, Coded, VarChar, Meets
  <2> QED BY <2>1, RulesAreRules, UrlColumns, Bounds, FieldAgrees
<1> QED
  BY <1>1, <1>2, <1>3, <1>4, <1>5, <1>6, <1>7, <1>8 DEF CreateEmployerDto

LEMMA EmployeesAgree == Agree(CreateEmployeeDto, EmployeeData, Employees)
<1> SUFFICES ASSUME NEW f \in DOMAIN CreateEmployeeDto
             PROVE  Agrees(f, CreateEmployeeDto, EmployeeData, Employees)
  BY DEF Agree
<1> DEFINE M(r, u, c) == Meets(f, CreateEmployeeDto, EmployeeData, Employees, r, u, c)
<1>1. CASE f = "email"
  <2>1. M(Format, "trim", Unique(Column(1, 1)))
    BY <1>1, UsesFields, MergedUses DEF CreateEmployeeDto, EmployeeData, Employees, Coded, VarChar, Meets
  <2> QED BY <2>1, RulesAreRules, FormatColumns, Bounds, FieldAgrees DEF Plain
<1>2. CASE f \in {"firstName", "lastName"}
  <2>1. M(String(1, 100), "trim", Column(0, 100))
    BY <1>2, UsesFields, MergedUses DEF CreateEmployeeDto, EmployeeData, Employees, Coded, VarChar, Meets
  <2> QED BY <2>1, RulesAreRules, TextColumns, Bounds, FieldAgrees DEF Plain
<1>3. CASE f \in {"department", "jobTitle"}
  <2>1. PICK n \in Nat : M(Optional(String(0, n)), "keep", OrNull(Column(0, n)))
    BY <1>3, UsesFields, MergedUses, BoundsAssumption DEF CreateEmployeeDto, EmployeeData, Employees, Coded, VarChar, Meets
  <2> QED BY <2>1, RulesAreRules, TextColumns, Bounds, FieldAgrees DEF Plain
<1>4. CASE f = "userId"
  <2>1. M(Optional(Format), "connect", OrNull(Unique(Column(1, 1))))
    BY <1>4, UsesFields, MergedUses DEF CreateEmployeeDto, EmployeeData, Employees, Coded, VarChar, Meets
  <2> QED BY <2>1, RulesAreRules, FormatColumns, Bounds, FieldAgrees DEF Plain
<1>5. CASE f = "employeeNumber"
  <2>1. M(Optional(String(0, 80)), "keep", OrNull(Unique(Column(0, 80))))
    BY <1>5, UsesFields, MergedUses DEF CreateEmployeeDto, EmployeeData, Employees, Coded, VarChar, Meets
  <2> QED BY <2>1, RulesAreRules, TextColumns, Bounds, FieldAgrees DEF Plain
<1> QED
  BY <1>1, <1>2, <1>3, <1>4, <1>5 DEF CreateEmployeeDto

LEMMA ProvidersAgree == Agree(CreateProviderDto, ProviderData, Providers)
<1> SUFFICES ASSUME NEW f \in DOMAIN CreateProviderDto
             PROVE  Agrees(f, CreateProviderDto, ProviderData, Providers)
  BY DEF Agree
<1> DEFINE M(r, u, c) == Meets(f, CreateProviderDto, ProviderData, Providers, r, u, c)
<1>1. CASE f = "slug"
  <2>1. M(Format, "normalizeSlug", Unique(Column(1, 1)))
    BY <1>1, UsesFields, MergedUses DEF CreateProviderDto, ProviderData, Providers, Coded, VarChar, TextColumn, Meets
  <2> QED BY <2>1, RulesAreRules, FormatColumns, Bounds, FieldAgrees DEF Plain
<1>2. CASE f = "businessName"
  <2>1. M(String(2, 160), "trim", Column(0, 160))
    BY <1>2, UsesFields, MergedUses DEF CreateProviderDto, ProviderData, Providers, Coded, VarChar, TextColumn, Meets
  <2> QED BY <2>1, RulesAreRules, TextColumns, Bounds, FieldAgrees DEF Plain
<1>3. CASE f = "timezone"
  <2>1. M(String(1, 64), "assertTimeZone", Column(0, 64))
    BY <1>3, UsesFields, MergedUses DEF CreateProviderDto, ProviderData, Providers, Coded, VarChar, TextColumn, Meets
  <2> QED BY <2>1, RulesAreRules, TextColumns, Bounds, FieldAgrees DEF Plain
<1>4. CASE f = "contactEmail"
  <2>1. M(Optional(Format), "keep", OrNull(Column(1, 1)))
    BY <1>4, UsesFields, MergedUses DEF CreateProviderDto, ProviderData, Providers, Coded, VarChar, TextColumn, Meets
  <2> QED BY <2>1, RulesAreRules, FormatColumns, Bounds, FieldAgrees DEF Plain
<1>5. CASE f = "contactPhone"
  <2>1. M(Optional(String(0, 32)), "keep", OrNull(Column(0, 32)))
    BY <1>5, UsesFields, MergedUses DEF CreateProviderDto, ProviderData, Providers, Coded, VarChar, TextColumn, Meets
  <2> QED BY <2>1, RulesAreRules, TextColumns, Bounds, FieldAgrees DEF Plain
<1>6. CASE f = "initialAdminUserId"
  <2>1. M(Format, "connect", Column(1, 1))
    BY <1>6, UsesFields, MergedUses DEF CreateProviderDto, ProviderData, Providers, Coded, VarChar, TextColumn, Meets
  <2> QED BY <2>1, RulesAreRules, FormatColumns, Bounds, FieldAgrees DEF Plain
<1>7. CASE f = "country"
  <2>1. M(Format, "keep", Column(1, 1))
    BY <1>7, UsesFields, MergedUses DEF CreateProviderDto, ProviderData, Providers, Coded, VarChar, TextColumn, Meets
  <2> QED BY <2>1, RulesAreRules, FormatColumns, Bounds, FieldAgrees DEF Plain
<1>8. CASE f = "description"
  <2>1. M(Optional(String(0, 5000)), "keep", OrNull(Column(0, MaxNumber)))
    BY <1>8, UsesFields, MergedUses DEF CreateProviderDto, ProviderData, Providers, Coded, VarChar, TextColumn, Meets
  <2> QED BY <2>1, RulesAreRules, TextColumns, Bounds, FieldAgrees DEF Plain
<1>9. CASE f = "commissionRateBps"
  <2>1. M(Whole(0, BasisPoints), "keep", Column(0, BasisPoints))
    BY <1>9, UsesFields, MergedUses DEF CreateProviderDto, ProviderData, Providers, Coded, VarChar, TextColumn, Meets
  <2> QED BY <2>1, RulesAreRules, NumberColumns, Bounds, FieldAgrees DEF Plain, BasisPoints
<1>10. CASE f = "websiteUrl"
  <2>1. M(Optional(Url), "keep", OrNull(Column(1, 1)))
    BY <1>10, UsesFields, MergedUses DEF CreateProviderDto, ProviderData, Providers, Coded, VarChar, TextColumn, Meets
  <2> QED BY <2>1, RulesAreRules, UrlColumns, Bounds, FieldAgrees
<1> QED
  BY <1>1, <1>2, <1>3, <1>4, <1>5, <1>6, <1>7, <1>8, <1>9, <1>10 DEF CreateProviderDto

LEMMA CategoriesAgree == Agree(CreateCategoryDto, CategoryData, Categories)
<1> SUFFICES ASSUME NEW f \in DOMAIN CreateCategoryDto
             PROVE  Agrees(f, CreateCategoryDto, CategoryData, Categories)
  BY DEF Agree
<1> DEFINE M(r, u, c) == Meets(f, CreateCategoryDto, CategoryData, Categories, r, u, c)
<1>1. CASE f = "name"
  <2>1. M(Trimmed(2, 120), "requiredText", NotBlank(Column(0, 120)))
    BY <1>1, UsesFields, MergedUses DEF CreateCategoryDto, CategoryData, Categories, Coded, VarChar, TextColumn, SmallInt, Meets
  <2> QED BY <2>1, RulesAreRules, TextColumns, Bounds, FieldAgrees DEF Plain
<1>2. CASE f = "slug"
  <2>1. M(Format, "normalizeSlug", Unique(Column(1, 1)))
    BY <1>2, UsesFields, MergedUses DEF CreateCategoryDto, CategoryData, Categories, Coded, VarChar, TextColumn, SmallInt, Meets
  <2> QED BY <2>1, RulesAreRules, FormatColumns, Bounds, FieldAgrees DEF Plain
<1>3. CASE f = "description"
  <2>1. M(Nullable(Trimmed(0, 2000)), "keep", OrNull(Column(0, MaxNumber)))
    BY <1>3, UsesFields, MergedUses DEF CreateCategoryDto, CategoryData, Categories, Coded, VarChar, TextColumn, SmallInt, Meets
  <2> QED BY <2>1, RulesAreRules, TextColumns, Bounds, FieldAgrees DEF Plain
<1>4. CASE f = "displayOrder"
  <2>1. M(Optional(Whole(0, 32767)), "keep", Column(0, 32767))
    BY <1>4, UsesFields, MergedUses DEF CreateCategoryDto, CategoryData, Categories, Coded, VarChar, TextColumn, SmallInt, Meets
  <2> QED BY <2>1, RulesAreRules, NumberColumns, Bounds, FieldAgrees DEF Plain
<1> QED
  BY <1>1, <1>2, <1>3, <1>4 DEF CreateCategoryDto

LEMMA NewCategoriesAgree == Agree(CreateCategoryDto, CategoryData ++ Uses({"displayOrder"}, "orZero"), Categories)
<1> SUFFICES ASSUME NEW f \in DOMAIN CreateCategoryDto
             PROVE  Agrees(f, CreateCategoryDto, CategoryData ++ Uses({"displayOrder"}, "orZero"), Categories)
  BY DEF Agree
<1> DEFINE M(r, u, c) == Meets(f, CreateCategoryDto, CategoryData ++ Uses({"displayOrder"}, "orZero"), Categories, r, u, c)
<1>1. CASE f = "name"
  <2>1. M(Trimmed(2, 120), "requiredText", NotBlank(Column(0, 120)))
    BY <1>1, UsesFields, MergedUses DEF CreateCategoryDto, CategoryData, Categories, Coded, VarChar, TextColumn, SmallInt, Meets
  <2> QED BY <2>1, RulesAreRules, TextColumns, Bounds, FieldAgrees DEF Plain
<1>2. CASE f = "slug"
  <2>1. M(Format, "normalizeSlug", Unique(Column(1, 1)))
    BY <1>2, UsesFields, MergedUses DEF CreateCategoryDto, CategoryData, Categories, Coded, VarChar, TextColumn, SmallInt, Meets
  <2> QED BY <2>1, RulesAreRules, FormatColumns, Bounds, FieldAgrees DEF Plain
<1>3. CASE f = "description"
  <2>1. M(Nullable(Trimmed(0, 2000)), "keep", OrNull(Column(0, MaxNumber)))
    BY <1>3, UsesFields, MergedUses DEF CreateCategoryDto, CategoryData, Categories, Coded, VarChar, TextColumn, SmallInt, Meets
  <2> QED BY <2>1, RulesAreRules, TextColumns, Bounds, FieldAgrees DEF Plain
<1>4. CASE f = "displayOrder"
  <2>1. M(Optional(Whole(0, 32767)), "orZero", Column(0, 32767))
    BY <1>4, UsesFields, MergedUses DEF CreateCategoryDto, CategoryData, Categories, Coded, VarChar, TextColumn, SmallInt, Meets
  <2> QED BY <1>4, <2>1, RulesAreRules, InheritedTake, Bounds, FieldAgrees DEF Plain
<1> QED
  BY <1>1, <1>2, <1>3, <1>4 DEF CreateCategoryDto

LEMMA CreditsAgree == Agree(CreditDto, AllowanceData, Ledger)
<1> SUFFICES ASSUME NEW f \in DOMAIN CreditDto
             PROVE  Agrees(f, CreditDto, AllowanceData, Ledger)
  BY DEF Agree
<1> DEFINE M(r, u, c) == Meets(f, CreditDto, AllowanceData, Ledger, r, u, c)
<1>1. CASE f = "amountMinor"
  <2>1. M(Whole(1, Digits), "parseMinorUnits", Column(1, MaxBigint))
    BY <1>1, UsesFields, MergedUses DEF CreditDto, AllowanceData, Ledger, Coded, TextColumn, Meets
  <2> QED BY <2>1, RulesAreRules, NumberColumns, Bounds, FieldAgrees DEF Plain
<1>2. CASE f \in {"currency", "referenceId"}
  <2>1. M(Format, "keep", Column(1, 1))
    BY <1>2, UsesFields, MergedUses DEF CreditDto, AllowanceData, Ledger, Coded, TextColumn, Meets
  <2> QED BY <2>1, RulesAreRules, FormatColumns, Bounds, FieldAgrees DEF Plain
<1>3. CASE f = "note"
  <2>1. M(Optional(String(0, 500)), "trim", OrNull(Column(0, MaxNumber)))
    BY <1>3, UsesFields, MergedUses DEF CreditDto, AllowanceData, Ledger, Coded, TextColumn, Meets
  <2> QED BY <2>1, RulesAreRules, TextColumns, Bounds, FieldAgrees DEF Plain
<1> QED
  BY <1>1, <1>2, <1>3 DEF CreditDto

LEMMA AdjustmentsAgree == Agree(ManualAdjustmentDto, AllowanceData, AuditedLedger)
<1> SUFFICES ASSUME NEW f \in DOMAIN ManualAdjustmentDto
             PROVE  Agrees(f, ManualAdjustmentDto, AllowanceData, AuditedLedger)
  BY DEF Agree
<1> DEFINE M(r, u, c) == Meets(f, ManualAdjustmentDto, AllowanceData, AuditedLedger, r, u, c)
<1>1. CASE f = "amountDeltaMinor"
  <2>1. M(Signed(Digits), "parseMinorUnits", Column(-MaxBigint, MaxBigint))
    BY <1>1, UsesFields, MergedUses, LedgerTables DEF ManualAdjustmentDto, AllowanceData, Ledger, Coded, TextColumn, Meets
  <2> QED BY <2>1, RulesAreRules, NumberColumns, Bounds, FieldAgrees DEF Plain
<1>2. CASE f \in {"currency", "referenceId"}
  <2>1. M(Format, "keep", Column(1, 1))
    BY <1>2, UsesFields, MergedUses, LedgerTables DEF ManualAdjustmentDto, AllowanceData, Ledger, Coded, TextColumn, Meets
  <2> QED BY <2>1, RulesAreRules, FormatColumns, Bounds, FieldAgrees DEF Plain
<1>3. CASE f = "reason"
  <2>1. M(String(1, 500), "trim", NotBlank(Column(0, MaxNumber)))
    BY <1>3, UsesFields, MergedUses, LedgerTables DEF ManualAdjustmentDto, AllowanceData, Ledger, Coded, TextColumn, Meets
  <2> QED BY <1>3, <2>1, RulesAreRules, TextColumns, Bounds, FieldAgrees DEF Plain
<1> QED
  BY <1>1, <1>2, <1>3 DEF ManualAdjustmentDto

LEMMA ExpiriesAgree == Agree(ExpireDto, AllowanceData, LedgerWithReason)
<1> SUFFICES ASSUME NEW f \in DOMAIN ExpireDto
             PROVE  Agrees(f, ExpireDto, AllowanceData, LedgerWithReason)
  BY DEF Agree
<1> DEFINE M(r, u, c) == Meets(f, ExpireDto, AllowanceData, LedgerWithReason, r, u, c)
<1>1. CASE f = "amountMinor"
  <2>1. M(Whole(1, Digits), "parseMinorUnits", Column(1, MaxBigint))
    BY <1>1, UsesFields, MergedUses, LedgerTables DEF ExpireDto, AllowanceData, Ledger, Coded, TextColumn, Meets
  <2> QED BY <2>1, RulesAreRules, NumberColumns, Bounds, FieldAgrees DEF Plain
<1>2. CASE f \in {"currency", "referenceId"}
  <2>1. M(Format, "keep", Column(1, 1))
    BY <1>2, UsesFields, MergedUses, LedgerTables DEF ExpireDto, AllowanceData, Ledger, Coded, TextColumn, Meets
  <2> QED BY <2>1, RulesAreRules, FormatColumns, Bounds, FieldAgrees DEF Plain
<1>3. CASE f = "reason"
  <2>1. M(String(1, 500), "trim", Column(0, MaxNumber))
    BY <1>3, UsesFields, MergedUses, LedgerTables DEF ExpireDto, AllowanceData, Ledger, Coded, TextColumn, Meets
  <2> QED BY <1>3, <2>1, RulesAreRules, TextColumns, Bounds, FieldAgrees DEF Plain
<1> QED
  BY <1>1, <1>2, <1>3 DEF ExpireDto

-----------------------------------------------------------------------------
(* The values, and a field on its way through the three layers. *)

\* The values that a request can hold.
IsText(v) == \E n, t, l \in Nat : t <= n /\ v = Value("text", n, t, l)
IsNumber(v) == \E n \in Int : v = Number(n)
IsMoment(v) == \E n \in Int : v = Moment(n)
IsValue(v) ==
    \/ v \in {Absent, Null, Malformed, Valid, Taken, WithNul}
    \/ IsNumber(v) \/ IsText(v) \/ IsMoment(v)

LEMMA ValueFields ==
  /\ Absent.is = "absent" /\ Null.is = "null" /\ Malformed.is = "malformed"
  /\ Valid.is = "valid" /\ Taken.is = "taken" /\ WithNul.is = "nul"
  /\ \A n : Number(n).is = "number" /\ Number(n).size = n
  /\ \A n : Moment(n).is = "moment" /\ Moment(n).size = n
  /\ \A n, t, l : LET v == Value("text", n, t, l)
                  IN  v.is = "text" /\ v.size = n /\ v.trimmed = t /\ v.lowered = l
BY DEF Absent, Null, Malformed, Valid, Taken, WithNul, Number, Moment, Value

\* A value is known by what it is.
LEMMA ValueCases ==
  ASSUME NEW v, IsValue(v)
  PROVE  /\ v.is \in {"absent", "null", "malformed", "valid", "taken", "nul", "number", "text", "moment"}
         /\ v.is = "absent" <=> v = Absent
         /\ v.is = "null" <=> v = Null
         /\ v.is \in {"valid", "taken"} <=> v \in {Valid, Taken}
         /\ v.is = "nul" <=> v = WithNul
         /\ v.is = "number" <=> IsNumber(v)
         /\ v.is = "text" <=> IsText(v)
         /\ v.is = "moment" <=> IsMoment(v)
         /\ v.is = "moment" => v.size \in Int
         /\ v.is = "number" => v.size \in Int
         /\ v.is = "text" => v.size \in Nat /\ v.trimmed \in Nat /\ v.lowered \in Nat /\ v.trimmed <= v.size
<1>1. CASE v \in {Absent, Null, Malformed, Valid, Taken, WithNul}
  BY <1>1, ValueFields DEF IsNumber, IsText, IsMoment
<1>2. CASE IsNumber(v)
  BY <1>2, ValueFields DEF IsNumber, IsText, IsMoment
<1>4. CASE IsMoment(v)
  BY <1>4, ValueFields DEF IsNumber, IsText, IsMoment
<1>3. CASE IsText(v)
  <2>1. PICK n \in Nat, t \in Nat, l \in Nat : t <= n /\ v = Value("text", n, t, l)
    BY <1>3 DEF IsText
  <2>2. v.is = "text" /\ v.size = n /\ v.trimmed = t /\ v.lowered = l
    BY <2>1, ValueFields
  <2> QED BY <1>3, <2>1, <2>2, ValueFields DEF IsNumber, IsMoment
<1> QED BY <1>1, <1>2, <1>3, <1>4 DEF IsValue

\* Trimmed, a text is as long as it is without its blanks.
LEMMA TrimmedValues ==
  ASSUME NEW v, IsValue(v)
  PROVE  /\ IsValue(TrimmedOf(v))
         /\ v.is # "text" => TrimmedOf(v) = v
         /\ v.is = "text" => LET w == TrimmedOf(v)
                             IN  /\ w.is = "text" /\ w.size = v.trimmed
                                 /\ w.trimmed = v.trimmed /\ w.lowered = v.lowered
<1>1. CASE v.is # "text"
  BY <1>1 DEF TrimmedOf
<1>2. CASE v.is = "text"
  <2>1. PICK n \in Nat, t \in Nat, l \in Nat : t <= n /\ v = Value("text", n, t, l)
    BY <1>2, ValueCases DEF IsText
  <2>2. TrimmedOf(v) = Value("text", t, t, l)
    BY <2>1, <1>2 DEF TrimmedOf, Value
  <2>3. IsText(TrimmedOf(v))
    BY <2>2 DEF IsText
  <2> QED BY <1>2, <2>1, <2>2, <2>3, ValueFields DEF IsValue
<1> QED BY <1>1, <1>2

\* What the service writes for a value, when the activity has the value a.
StoredAs(use, v, a) ==
    CASE use \in {"requiredText", "trim"} -> TrimmedOf(v)
      [] use = "optionalText" ->
            IF v.is = "text" /\ v.trimmed = 0 THEN Null ELSE TrimmedOf(v)
      [] use = "effectiveValue" -> IF IsNothing(v) THEN a ELSE v
      [] use = "orZero" -> IF IsNothing(v) THEN Number(0) ELSE v
      [] use = "orExisting" -> IF IsNothing(v) THEN Absent ELSE v
      [] OTHER -> v

\* Stored does not look at anything but the use of a field and its two values.
LEMMA StoredIsStoredAs ==
  ASSUME NEW f
  PROVE  Stored(f) = StoredAs(UseIn(Operations[operation].uses, f), input[f], activity[f])
BY DEF Stored, StoredAs, Use, UseIn

LEMMA StoredValues ==
  ASSUME NEW use, NEW v, NEW a
  PROVE  /\ use \in {"requiredText", "trim"} => StoredAs(use, v, a) = TrimmedOf(v)
         /\ use = "optionalText" =>
                StoredAs(use, v, a) = IF v.is = "text" /\ v.trimmed = 0 THEN Null ELSE TrimmedOf(v)
         /\ use = "effectiveValue" => StoredAs(use, v, a) = IF IsNothing(v) THEN a ELSE v
         /\ use = "orZero" => StoredAs(use, v, a) = IF IsNothing(v) THEN Number(0) ELSE v
         /\ use = "orExisting" =>
                StoredAs(use, v, a) = IF IsNothing(v) THEN Absent ELSE v
         /\ use \notin {"requiredText", "trim", "optionalText", "effectiveValue", "orZero",
                        "orExisting"} => StoredAs(use, v, a) = v
<1>1. CASE use \in {"requiredText", "trim"}
  BY <1>1 DEF StoredAs
<1>2. CASE use = "optionalText"
  BY <1>2 DEF StoredAs
<1>3. CASE use = "effectiveValue"
  BY <1>3 DEF StoredAs
<1>4. CASE use = "orZero"
  BY <1>4 DEF StoredAs
<1>5. CASE use = "orExisting"
  BY <1>5 DEF StoredAs
<1>6. CASE use \notin {"requiredText", "trim", "optionalText", "effectiveValue", "orZero",
                        "orExisting"}
  BY <1>6 DEF StoredAs
<1> QED BY <1>1, <1>2, <1>3, <1>4, <1>5, <1>6

\* What is not absent nor null is written, trimmed or as it is.
LEMMA StoredSomething ==
  ASSUME NEW use, NEW v, NEW a, IsValue(v), ~IsNothing(v)
  PROVE  \/ StoredAs(use, v, a) \in {v, TrimmedOf(v)}
         \/ use = "optionalText" /\ StoredAs(use, v, a) = Null
BY StoredValues

\* What the pipe leaves of a field: a value that the rule accepts.
Accepted(rule, v) ==
    /\ IsValue(v) /\ Conforms(rule, v)
    /\ rule.trims /\ v.is = "text" => v.size = v.trimmed

\* What an accepted value is.
LEMMA AcceptedCases ==
  ASSUME NEW rule, NEW v, Accepted(rule, v)
  PROVE  \/ IsNothing(v) /\ rule.optional
         \/ v \in {Valid, Taken, WithNul}
         \/ v.is = "moment" /\ rule.kind = "moment"
         \/ v.is = "text" /\ rule.kind = "text" /\ IsWithin(rule, v)
         \/ v.is = "number" /\ rule.kind \in {"number", "signed"} /\ IsWithin(rule, v)
BY DEF Accepted, Conforms, IsNothing

\* A value of the activity that the column takes.
IsInColumn(c, a) == \E n \in Int : a = Number(n) /\ c.min <= n /\ n <= c.max

\* A field that is missing or null ends in its column all the same.
LEMMA NothingFits ==
  ASSUME NEW f, NEW rule, NEW use, NEW c, NEW v, NEW a,
         Takes(f, rule, use, c), Accepted(rule, v), IsNothing(v),
         v = Null => rule.nullable,
         use = "effectiveValue" => IsInColumn(c, a),
         StoredAs(use, v, a) # Absent
  PROVE  Fits(c, StoredAs(use, v, a))
<1>1. /\ v \in {Absent, Null} /\ v.is \in {"absent", "null"} /\ TrimmedOf(v) = v
      /\ v = Absent => v.is = "absent"
  BY TrimmedValues, ValueFields DEF IsNothing, Accepted
<1>2. CASE use = "effectiveValue"
  <2>1. PICK n \in Int : a = Number(n) /\ c.min <= n /\ n <= c.max
    BY <1>2 DEF IsInColumn
  <2>2. StoredAs(use, v, a) = Number(n)
    BY <1>2, <2>1, StoredValues
  <2> QED BY <2>1, <2>2, ValueFields DEF Fits
<1>3. CASE use = "orZero"
  <2>1. StoredAs(use, v, a) = Number(0)
    BY <1>3, StoredValues
  <2>2. c.min <= 0 /\ 0 <= c.max
    BY <1>3 DEF Takes
  <2> QED BY <2>1, <2>2, ValueFields DEF Fits
<1>4. CASE use \notin {"effectiveValue", "orZero"}
  <2>1. StoredAs(use, v, a) \in {Absent, Null, v}
    BY <1>1, <1>4, StoredValues
  <2>2. StoredAs(use, v, a) = Null
    BY <1>1, <2>1
  <2>3. c.null
    <3>1. CASE v = Null
      BY <3>1 DEF Takes
    <3>2. CASE v # Null
      <4>1. use = "optionalText"
        BY <1>1, <1>4, <2>2, <3>2, StoredValues, ValueFields
      <4> QED BY <4>1 DEF Takes
    <3> QED BY <3>1, <3>2
  <2> QED BY <2>2, <2>3, ValueFields DEF Fits
<1> QED BY <1>2, <1>3, <1>4

\* So does a text,
LEMMA TextFits ==
  ASSUME NEW f, NEW rule, NEW use, NEW c, NEW v, NEW a,
         rule \in Rules, Takes(f, rule, use, c), Accepted(rule, v), v.is = "text", rule.kind = "text",
         IsWithin(rule, v),
         use = "requiredText" => v.trimmed # 0,
         f = "reason" /\ use = "trim" /\ ~c.blank => v.trimmed # 0
  PROVE  Fits(c, StoredAs(use, v, a))
<1> DEFINE w == StoredAs(use, v, a)
<1>1. /\ IsValue(v) /\ ~IsNothing(v) /\ v.size \in Nat /\ v.trimmed \in Nat /\ v.trimmed <= v.size
      /\ v # Null
  BY ValueCases, ValueFields DEF Accepted, IsNothing
<1>2. /\ c \in Columns /\ c.min \in Int /\ c.max \in Int /\ rule.min \in Int /\ rule.max \in Int
      /\ c.min <= 0 /\ rule.max <= c.max /\ rule.min <= v.size /\ v.size <= rule.max
  BY DEF Takes, Columns, Rules, IsWithin
<1>3. CASE use = "optionalText" /\ w = Null
  BY <1>3, ValueFields DEF Fits, Takes
<1>4. CASE w \in {v, TrimmedOf(v)} /\ ~(use = "optionalText" /\ w = Null)
  <2>1. /\ w.is = "text" /\ w.trimmed = v.trimmed /\ w.size \in {v.size, v.trimmed} /\ w # Null
    BY <1>1, <1>4, TrimmedValues, ValueFields
  <2>2. v.trimmed = 0 => c.blank
    <3>1. CASE use = "optionalText"
      BY <1>4, <3>1, StoredValues
    <3>2. CASE rule.trims /\ rule.min >= 1
      BY <1>2, <3>2 DEF Accepted
    <3> QED BY <3>1, <3>2 DEF Takes
  <2>3. w # WithNul
    BY <2>1, ValueFields
  <2>4. c.min <= w.size /\ w.size <= c.max
    BY <1>1, <1>2, <2>1
  <2> QED BY <2>1, <2>2, <2>3, <2>4 DEF Fits
<1> QED BY <1>1, <1>3, <1>4, StoredSomething

\* and so does a number.
LEMMA NumberFits ==
  ASSUME NEW f, NEW rule, NEW use, NEW c, NEW v, NEW a,
         rule \in Rules, Takes(f, rule, use, c), IsValue(v), v.is = "number",
         rule.kind \in {"number", "signed"}, IsWithin(rule, v),
         use = "parseMinorUnits" => v.size \in -MaxBigint .. MaxBigint
  PROVE  Fits(c, StoredAs(use, v, a))
<1>1. /\ ~IsNothing(v) /\ TrimmedOf(v) = v /\ v # Null /\ v.size \in Int
  BY ValueCases, TrimmedValues, ValueFields DEF IsNothing
<1>2. StoredAs(use, v, a) = v
  BY <1>1, StoredValues
<1>3. /\ c.min \in Int /\ c.max \in Int /\ rule.min \in Int /\ rule.max \in Int
      /\ rule.min <= v.size /\ v.size <= rule.max
  BY DEF Takes, Columns, Rules, IsWithin
<1>4. c.min <= v.size /\ v.size <= c.max
  BY <1>1, <1>3, Bounds DEF Takes
<1> QED BY <1>1, <1>2, <1>4, ValueFields DEF Fits

\* What the rule accepts and the service does not refuse, the column takes.
LEMMA FieldFits ==
  ASSUME NEW f, NEW rule, NEW use, NEW c, NEW v, NEW a,
         rule \in Rules, Takes(f, rule, use, c), Accepted(rule, v),
         v = Null => rule.nullable,
         use = "effectiveValue" /\ IsNothing(v) => IsInColumn(c, a),
         use = "requiredText" /\ v.is = "text" => v.trimmed # 0,
         f = "reason" /\ use = "trim" /\ ~c.blank => v.trimmed # 0,
         use = "parseMinorUnits" /\ v.is = "number" => v.size \in -MaxBigint .. MaxBigint,
         v # WithNul,
         StoredAs(use, v, a) # Absent
  PROVE  Fits(c, StoredAs(use, v, a))
<1>1. IsValue(v)
  BY DEF Accepted
<1>2. CASE IsNothing(v)
  BY <1>2, NothingFits
<1>3. CASE v \in {Valid, Taken}
  <2>1. v.is \in {"valid", "taken"} /\ ~IsNothing(v)
    BY <1>3, ValueFields DEF IsNothing
  <2>2. StoredAs(use, v, a) = v
    BY <1>1, <2>1, StoredValues, TrimmedValues
  <2> QED BY <2>1, <2>2, ValueFields DEF Fits
<1>4. CASE v.is = "text" /\ rule.kind = "text" /\ IsWithin(rule, v)
  BY <1>4, TextFits
<1>5. CASE v.is = "number" /\ rule.kind \in {"number", "signed"} /\ IsWithin(rule, v)
  BY <1>1, <1>5, NumberFits
<1>6. ~(v.is = "moment" /\ rule.kind = "moment")
  BY DEF Takes
<1> QED BY <1>2, <1>3, <1>4, <1>5, <1>6, AcceptedCases

\* What is written for v is within the bounds of its rule.
KeepsBounds(rule, v, w) ==
    /\ w.is \in {"text", "number"} /\ v # Absent => w.size <= rule.max
    /\ w.is = "text" /\ rule.trims => rule.min <= w.size

\* A field that the column takes keeps the bounds of its rule.
LEMMA FieldKeepsBounds ==
  ASSUME NEW f, NEW rule, NEW use, NEW c, NEW v, NEW a,
         rule \in Rules, Takes(f, rule, use, c), Accepted(rule, v),
         use = "effectiveValue" => a = Null \/ IsNumber(a),
         Fits(c, StoredAs(use, v, a))
  PROVE  KeepsBounds(rule, v, StoredAs(use, v, a))
<1> DEFINE w == StoredAs(use, v, a)
<1>1. IsValue(v) /\ rule.min \in Int /\ rule.max \in Int /\ c.max \in Int
  BY DEF Accepted, Takes, Columns, Rules
<1>2. CASE IsNothing(v)
  <2>1. TrimmedOf(v) = v /\ v.is \in {"absent", "null"}
    BY <1>1, <1>2, TrimmedValues, ValueFields DEF IsNothing
  <2>2. CASE use = "effectiveValue"
    <3>1. w = a /\ c.max <= rule.max
      BY <1>2, <2>2, StoredValues DEF Takes
    <3>2. CASE a = Null
      BY <3>1, <3>2, ValueFields DEF KeepsBounds
    <3>3. CASE IsNumber(a)
      <4>1. w.is = "number" /\ w.size \in Int
        BY <3>1, <3>3, ValueFields DEF IsNumber
      <4> QED BY <1>1, <3>1, <4>1 DEF Fits, KeepsBounds
    <3> QED BY <2>2, <3>2, <3>3
  <2>3. CASE use = "orZero"
    <3>1. w = Number(0) /\ 0 <= rule.max
      BY <1>2, <2>3, StoredValues DEF Takes
    <3> QED BY <3>1, ValueFields DEF KeepsBounds
  <2>4. CASE use \notin {"effectiveValue", "orZero"}
    <3>1. w \in {Absent, Null, v}
      BY <1>2, <2>1, <2>4, StoredValues
    <3> QED BY <2>1, <3>1, ValueFields DEF KeepsBounds
  <2> QED BY <2>2, <2>3, <2>4
<1>3. CASE ~IsNothing(v)
  <2>1. w = Null \/ w \in {v, TrimmedOf(v)}
    BY <1>1, <1>3, StoredSomething
  <2>2. CASE w = Null
    BY <2>2, ValueFields DEF KeepsBounds
  <2>3. CASE w # Null /\ v \in {Valid, Taken, WithNul}
    BY <1>1, <2>1, <2>3, ValueFields, TrimmedValues DEF KeepsBounds
  <2>4. CASE w # Null /\ v.is = "text" /\ IsWithin(rule, v)
    <3>1. w.is = "text" /\ w.size \in {v.size, v.trimmed} /\ v.size \in Nat
          /\ v.trimmed \in Nat /\ v.trimmed <= v.size
      BY <1>1, <2>1, <2>4, TrimmedValues, ValueCases
    <3> QED BY <1>1, <2>4, <3>1 DEF KeepsBounds, IsWithin, Accepted
  <2>5. CASE w # Null /\ v.is = "number" /\ IsWithin(rule, v)
    <3>1. w = v
      BY <1>1, <2>1, <2>5, TrimmedValues
    <3> QED BY <2>5, <3>1 DEF KeepsBounds, IsWithin
  <2>6. ~(v.is = "moment" /\ rule.kind = "moment")
    BY DEF Takes
  <2> QED BY <1>3, <2>1, <2>2, <2>3, <2>4, <2>5, <2>6, AcceptedCases
<1> QED BY <1>2, <1>3

-----------------------------------------------------------------------------
(* The operations. *)

\* Partial makes every field optional, and changes nothing else.
LEMMA PartialAgrees ==
  ASSUME NEW dto, NEW uses, NEW table, Agree(dto, uses, table)
  PROVE  Agree(Partial(dto), uses, table)
<1> SUFFICES ASSUME NEW f \in DOMAIN dto
             PROVE  Agrees(f, Partial(dto), uses, table)
  BY DEF Agree, Partial
<1>1. Partial(dto)[f] = Optional(dto[f])
  BY DEF Partial
<1>2. Agrees(f, dto, uses, table) /\ dto[f] \in Rules
  BY DEF Agree, Agrees, IsRule
<1> DEFINE r == dto[f]
           o == Optional(dto[f])
<1>3. /\ o \in Rules /\ o.kind = r.kind /\ o.min = r.min /\ o.max = r.max
      /\ o.trims = r.trims /\ o.optional /\ o.nullable = r.nullable /\ o.default = r.default
  BY <1>2, ChangedRules
<1>4. IsRule(o)
  BY <1>2, <1>3 DEF Agrees, IsRule
<1>5. ASSUME f \in DOMAIN table
      PROVE  Takes(f, o, UseIn(uses, f), table[f])
  <2>1. Takes(f, r, UseIn(uses, f), table[f])
    BY <1>2, <1>5 DEF Agrees
  <2> HIDE DEF o, r
  <2> QED BY <2>1, <1>3 DEF Takes
<1> QED BY <1>1, <1>2, <1>3, <1>4, <1>5 DEF Agrees

\* To leave fields out changes nothing about the others.
LEMMA RestrictedAgrees ==
  ASSUME NEW dto, NEW uses, NEW table, NEW S \in SUBSET DOMAIN dto, Agree(dto, uses, table)
  PROVE  Agree(Restrict(dto, S), uses, table)
BY DEF Agree, Agrees, Restrict

LEMMA OmittingAgrees ==
  ASSUME NEW dto, NEW uses, NEW table, NEW S, Agree(dto, uses, table)
  PROVE  Agree(Omitting(dto, S), uses, table)
BY RestrictedAgrees DEF Omitting

\* The two fields of the query of a list, and what they are when missing.
LEMMA PageRules ==
  ASSUME NEW m \in Int, NEW n \in Int, NEW k \in m .. n
  PROVE  LET r == Defaulted(Whole(m, n), Number(k))
         IN  /\ IsRule(r) /\ r.kind = "number" /\ ~r.nullable /\ ~r.trims
             /\ r.min = m /\ r.max = n /\ r.default = Number(k)
<1>1. /\ Whole(m, n) \in Rules /\ Whole(m, n).kind = "number" /\ ~Whole(m, n).nullable
      /\ ~Whole(m, n).trims
  BY RuleFields DEF HasFields
<1>2. Whole(m, n).min = m /\ Whole(m, n).max = n
  BY RuleFields DEF HasFields
<1>3. Number(k) \in [is : {"absent", "valid", "number"}, size : Int, trimmed : Int, lowered : Int]
  BY DEF Number, Value
<1>4. IsRule(Defaulted(Whole(m, n), Number(k)))
  BY DefaultedTake
<1> QED BY <1>1, <1>2, <1>3, <1>4, DefaultedRules

\* The queries of the lists ask for a page and a limit.
LEMMA PageFields ==
  ASSUME NEW dto \in {PageQueryDto, CatalogPageQueryDto}
  PROVE  /\ DOMAIN dto = {"page", "limit"}
         /\ dto["limit"] = Defaulted(Whole(1, 100), Number(20))
         /\ \E n \in Nat : /\ n >= 1
                           /\ dto["page"] = Defaulted(Whole(1, n), Number(1))
                           /\ dto = CatalogPageQueryDto => n = 10000
<1>1. /\ DOMAIN PageQueryDto = {"page", "limit"}
      /\ PageQueryDto["limit"] = Defaulted(Whole(1, 100), Number(20))
      /\ PageQueryDto["page"] = Defaulted(Whole(1, MaxNumber), Number(1))
  BY DEF PageQueryDto
<1>2. /\ DOMAIN CatalogPageQueryDto = {"page", "limit"}
      /\ CatalogPageQueryDto["limit"] = Defaulted(Whole(1, 100), Number(20))
      /\ CatalogPageQueryDto["page"] = Defaulted(Whole(1, 10000), Number(1))
  BY <1>1 DEF CatalogPageQueryDto
<1>3. CASE dto = CatalogPageQueryDto
  BY <1>2, <1>3
<1>4. CASE dto = PageQueryDto /\ dto # CatalogPageQueryDto
  BY <1>1, <1>4, Bounds
<1> QED BY <1>3, <1>4

\* The offset of a page of a catalog is below a million.
LEMMA PagesAgree ==
  ASSUME NEW dto \in {PageQueryDto, CatalogPageQueryDto}
  PROVE  Agree(dto, <<>>, ListWindow)
<1>1. "page" \notin DOMAIN ListWindow /\ "limit" \notin DOMAIN ListWindow
  BY DEF ListWindow
<1>2. IsRule(dto["limit"]) /\ ~dto["limit"].nullable
  BY PageFields, PageRules
<1>3. IsRule(dto["page"]) /\ ~dto["page"].nullable
  BY PageFields, PageRules
<1> QED BY <1>1, <1>2, <1>3, PageFields DEF Agree, Agrees

\* The uses that two of the documented exceptions come from.
Inherits(uses) == UseIn(uses, "durationMinutes") = "effectiveValue"
AsksReason(uses, table) ==
    UseIn(uses, "reason") = "trim" /\ "reason" \in DOMAIN table /\ ~table["reason"].blank

\* Of the uses of the services, these concern the duration and the reason.
LEMMA UsesOfSingles ==
  /\ UseIn(<<>>, "durationMinutes") = "keep" /\ UseIn(<<>>, "reason") = "keep"
  /\ UseIn(MutableData, "durationMinutes") = "keep" /\ UseIn(MutableData, "reason") = "keep"
  /\ UseIn(MediaData, "durationMinutes") = "keep" /\ UseIn(MediaData, "reason") = "keep"
  /\ UseIn(SessionData, "durationMinutes") = "effectiveValue" /\ UseIn(SessionData, "reason") = "keep"
  /\ UseIn(SessionChanges, "durationMinutes") = "orExisting" /\ UseIn(SessionChanges, "reason") = "keep"
  /\ UseIn(ScheduleData, "durationMinutes") = "effectiveValue" /\ UseIn(ScheduleData, "reason") = "keep"
  /\ UseIn(GenerateData, "durationMinutes") = "keep" /\ UseIn(GenerateData, "reason") = "keep"
  /\ UseIn(EmployerData, "durationMinutes") = "keep" /\ UseIn(EmployerData, "reason") = "keep"
  /\ UseIn(EmployeeData, "durationMinutes") = "keep" /\ UseIn(EmployeeData, "reason") = "keep"
  /\ UseIn(ProviderData, "durationMinutes") = "keep" /\ UseIn(ProviderData, "reason") = "keep"
  /\ UseIn(CategoryData, "durationMinutes") = "keep" /\ UseIn(CategoryData, "reason") = "keep"
  /\ UseIn(CategoryData ++ Uses({"displayOrder"}, "orZero"), "durationMinutes") = "keep" /\ UseIn(CategoryData ++ Uses({"displayOrder"}, "orZero"), "reason") = "keep"
  /\ UseIn(AllowanceData, "durationMinutes") = "keep" /\ UseIn(AllowanceData, "reason") = "trim"
<1>1. UseIn(MutableData, "durationMinutes") = "keep" /\ UseIn(MutableData, "reason") = "keep"
  BY UsesFields, MergedUses DEF MutableData
<1>2. UseIn(MediaData, "durationMinutes") = "keep" /\ UseIn(MediaData, "reason") = "keep"
  BY UsesFields, MergedUses DEF MediaData
<1>3. UseIn(SessionData, "durationMinutes") = "effectiveValue" /\ UseIn(SessionData, "reason") = "keep"
  BY UsesFields, MergedUses DEF SessionData
<1>4. UseIn(SessionChanges, "durationMinutes") = "orExisting" /\ UseIn(SessionChanges, "reason") = "keep"
  BY UsesFields, MergedUses DEF SessionChanges
<1>5. UseIn(ScheduleData, "durationMinutes") = "effectiveValue" /\ UseIn(ScheduleData, "reason") = "keep"
  BY UsesFields, MergedUses DEF ScheduleData
<1>6. UseIn(GenerateData, "durationMinutes") = "keep" /\ UseIn(GenerateData, "reason") = "keep"
  BY UsesFields, MergedUses DEF GenerateData
<1>7. UseIn(EmployerData, "durationMinutes") = "keep" /\ UseIn(EmployerData, "reason") = "keep"
  BY UsesFields, MergedUses DEF EmployerData
<1>8. UseIn(EmployeeData, "durationMinutes") = "keep" /\ UseIn(EmployeeData, "reason") = "keep"
  BY UsesFields, MergedUses DEF EmployeeData
<1>9. UseIn(ProviderData, "durationMinutes") = "keep" /\ UseIn(ProviderData, "reason") = "keep"
  BY UsesFields, MergedUses DEF ProviderData
<1>10. UseIn(CategoryData, "durationMinutes") = "keep" /\ UseIn(CategoryData, "reason") = "keep"
  BY UsesFields, MergedUses DEF CategoryData
<1>11. UseIn(CategoryData ++ Uses({"displayOrder"}, "orZero"), "durationMinutes") = "keep" /\ UseIn(CategoryData ++ Uses({"displayOrder"}, "orZero"), "reason") = "keep"
  BY UsesFields, MergedUses DEF CategoryData
<1>12. UseIn(AllowanceData, "durationMinutes") = "keep" /\ UseIn(AllowanceData, "reason") = "trim"
  BY UsesFields, MergedUses DEF AllowanceData
<1>13. UseIn(<<>>, "durationMinutes") = "keep" /\ UseIn(<<>>, "reason") = "keep"
  BY DEF UseIn
<1> QED BY <1>1, <1>2, <1>3, <1>4, <1>5, <1>6, <1>7, <1>8, <1>9, <1>10, <1>11, <1>12, <1>13

\* The reason is a column that takes blanks, but where an adjustment is audited.
LEMMA ReasonColumns == LedgerWithReason["reason"].blank /\ "reason" \notin DOMAIN Ledger
<1>1. LedgerWithReason["reason"] = Column(0, MaxNumber)
  BY LedgerTables DEF TextColumn
<1>2. MaxNumber \in Int
  BY Bounds
<1> QED BY <1>1, <1>2, ColumnFields DEF Ledger

\* The two ways to write an activity.
Edits == {"createActivity", "updateActivity"}

\* The layers of an operation agree, and only these operations have exceptions.
Fitting(o, dto, uses, table) ==
    /\ Agree(dto, uses, table)
    /\ "city" \in DOMAIN dto => o \in Edits
    /\ Inherits(uses) => o \in {"createSession", "createSchedule"}
    /\ AsksReason(uses, table) => o = "adjust"

FittingOp(o) ==
    LET op == Operations[o]
    IN  Fitting(o, op.dto, op.uses, op.table)

LEMMA OpFits ==
  ASSUME NEW o, NEW dto, NEW uses, NEW table, Operations[o] = Op(dto, uses, table),
         Fitting(o, dto, uses, table)
  PROVE  FittingOp(o)
BY DEF FittingOp, Op

\* The three layers agree about every operation.
LEMMA OperationsAgree ==
  ASSUME NEW o \in DOMAIN Operations
  PROVE  FittingOp(o)
<1>1. CASE o = "createActivity"
  <2>1. Operations[o] = Op(CreateActivityDto, MutableData, Activities)
    BY <1>1 DEF Operations
  <2>2. Agree(CreateActivityDto, MutableData, Activities)
    BY ActivitiesAgree
  <2> QED BY <1>1, <2>1, <2>2, UsesOfSingles, OpFits DEF Fitting, Inherits, AsksReason, Edits
<1>2. CASE o = "updateActivity"
  <2>1. Operations[o] = Op(Partial(CreateActivityDto), MutableData, Activities)
    BY <1>2 DEF Operations
  <2>2. Agree(Partial(CreateActivityDto), MutableData, Activities)
    BY ActivitiesAgree, PartialAgrees
  <2> QED BY <1>2, <2>1, <2>2, UsesOfSingles, OpFits DEF Fitting, Inherits, AsksReason, Edits
<1>3. CASE o = "addMedia"
  <2>1. Operations[o] = Op(ActivityMediaInputDto, MediaData, ActivityMedia)
    BY <1>3 DEF Operations
  <2>2. Agree(ActivityMediaInputDto, MediaData, ActivityMedia)
    BY MediaAgree
  <2>3. "city" \notin DOMAIN ActivityMediaInputDto
    BY DEF ActivityMediaInputDto
  <2> QED BY <1>3, <2>1, <2>2, <2>3, UsesOfSingles, OpFits DEF Fitting, Inherits, AsksReason
<1>4. CASE o = "createSession"
  <2>1. Operations[o] = Op(CreateOneTimeSessionDto, SessionData, ActivitySessions)
    BY <1>4 DEF Operations
  <2>2. Agree(CreateOneTimeSessionDto, SessionData, ActivitySessions)
    BY SessionsAgree
  <2>3. "city" \notin DOMAIN CreateOneTimeSessionDto
    BY DEF CreateOneTimeSessionDto
  <2> QED BY <1>4, <2>1, <2>2, <2>3, UsesOfSingles, OpFits DEF Fitting, Inherits, AsksReason
<1>5. CASE o = "updateSession"
  <2>1. Operations[o] = Op(Partial(CreateOneTimeSessionDto), SessionChanges, ActivitySessions)
    BY <1>5 DEF Operations
  <2>2. Agree(Partial(CreateOneTimeSessionDto), SessionChanges, ActivitySessions)
    BY ChangesAgree, PartialAgrees
  <2>3. "city" \notin DOMAIN Partial(CreateOneTimeSessionDto)
    BY DEF Partial, CreateOneTimeSessionDto
  <2> QED BY <1>5, <2>1, <2>2, <2>3, UsesOfSingles, OpFits DEF Fitting, Inherits, AsksReason
<1>6. CASE o = "cancelSession"
  <2>1. Operations[o] = Op(CancelSessionDto, <<>>, ActivitySessions)
    BY <1>6 DEF Operations
  <2>2. Agree(CancelSessionDto, <<>>, ActivitySessions)
    BY CancellationsAgree
  <2>3. "city" \notin DOMAIN CancelSessionDto
    BY DEF CancelSessionDto
  <2> QED BY <1>6, <2>1, <2>2, <2>3, UsesOfSingles, OpFits DEF Fitting, Inherits, AsksReason
<1>7. CASE o = "createSchedule"
  <2>1. Operations[o] = Op(CreateScheduleTemplateDto, ScheduleData, ScheduleTemplates)
    BY <1>7 DEF Operations
  <2>2. Agree(CreateScheduleTemplateDto, ScheduleData, ScheduleTemplates)
    BY SchedulesAgree
  <2>3. "city" \notin DOMAIN CreateScheduleTemplateDto
    BY DEF CreateScheduleTemplateDto
  <2> QED BY <1>7, <2>1, <2>2, <2>3, UsesOfSingles, OpFits DEF Fitting, Inherits, AsksReason
<1>8. CASE o = "generateSchedule"
  <2>1. Operations[o] = Op(GenerateScheduleDto, GenerateData, Instants)
    BY <1>8 DEF Operations
  <2>2. Agree(GenerateScheduleDto, GenerateData, Instants)
    BY GenerationsAgree
  <2>3. "city" \notin DOMAIN GenerateScheduleDto
    BY DEF GenerateScheduleDto
  <2> QED BY <1>8, <2>1, <2>2, <2>3, UsesOfSingles, OpFits DEF Fitting, Inherits, AsksReason
<1>9. CASE o = "createEmployer"
  <2>1. Operations[o] = Op(CreateEmployerDto, EmployerData, Employers)
    BY <1>9 DEF Operations
  <2>2. Agree(CreateEmployerDto, EmployerData, Employers)
    BY EmployersAgree
  <2>3. "city" \notin DOMAIN CreateEmployerDto
    BY DEF CreateEmployerDto
  <2> QED BY <1>9, <2>1, <2>2, <2>3, UsesOfSingles, OpFits DEF Fitting, Inherits, AsksReason
<1>10. CASE o = "updateEmployerAdmin"
  <2>1. Operations[o] = Op(Partial(Omitting(CreateEmployerDto, {"initialAdminUserId"})), EmployerData, Employers)
    BY <1>10 DEF Operations
  <2>2. Agree(Partial(Omitting(CreateEmployerDto, {"initialAdminUserId"})), EmployerData, Employers)
    BY EmployersAgree, PartialAgrees, OmittingAgrees
  <2>3. "city" \notin DOMAIN Partial(Omitting(CreateEmployerDto, {"initialAdminUserId"}))
    BY DEF Partial, Omitting, Restrict, CreateEmployerDto
  <2> QED BY <1>10, <2>1, <2>2, <2>3, UsesOfSingles, OpFits DEF Fitting, Inherits, AsksReason
<1>11. CASE o = "updateEmployerScoped"
  <2>1. Operations[o] = Op(TenantUpdateEmployerDto, EmployerData, Employers)
    BY <1>11 DEF Operations
  <2>2. Agree(TenantUpdateEmployerDto, EmployerData, Employers)
    BY EmployersAgree, PartialAgrees, RestrictedAgrees DEF TenantUpdateEmployerDto, CreateEmployerDto
  <2>3. "city" \notin DOMAIN TenantUpdateEmployerDto
    BY DEF TenantUpdateEmployerDto, Partial, Restrict, CreateEmployerDto
  <2> QED BY <1>11, <2>1, <2>2, <2>3, UsesOfSingles, OpFits DEF Fitting, Inherits, AsksReason
<1>12. CASE o = "updateSettings"
  <2>1. Operations[o] = Op(UpdateEmployerSettingsDto, EmployerData, Employers)
    BY <1>12 DEF Operations
  <2>2. Agree(UpdateEmployerSettingsDto, EmployerData, Employers)
    BY EmployersAgree, PartialAgrees, RestrictedAgrees DEF UpdateEmployerSettingsDto, CreateEmployerDto
  <2>3. "city" \notin DOMAIN UpdateEmployerSettingsDto
    BY DEF UpdateEmployerSettingsDto, Partial, Restrict, CreateEmployerDto
  <2> QED BY <1>12, <2>1, <2>2, <2>3, UsesOfSingles, OpFits DEF Fitting, Inherits, AsksReason
<1>13. CASE o = "createEmployee"
  <2>1. Operations[o] = Op(CreateEmployeeDto, EmployeeData, Employees)
    BY <1>13 DEF Operations
  <2>2. Agree(CreateEmployeeDto, EmployeeData, Employees)
    BY EmployeesAgree
  <2>3. "city" \notin DOMAIN CreateEmployeeDto
    BY DEF CreateEmployeeDto
  <2> QED BY <1>13, <2>1, <2>2, <2>3, UsesOfSingles, OpFits DEF Fitting, Inherits, AsksReason
<1>14. CASE o = "updateEmployee"
  <2>1. Operations[o] = Op(Partial(Omitting(CreateEmployeeDto, {"userId"})), EmployeeData, Employees)
    BY <1>14 DEF Operations
  <2>2. Agree(Partial(Omitting(CreateEmployeeDto, {"userId"})), EmployeeData, Employees)
    BY EmployeesAgree, PartialAgrees, OmittingAgrees
  <2>3. "city" \notin DOMAIN Partial(Omitting(CreateEmployeeDto, {"userId"}))
    BY DEF Partial, Omitting, Restrict, CreateEmployeeDto
  <2> QED BY <1>14, <2>1, <2>2, <2>3, UsesOfSingles, OpFits DEF Fitting, Inherits, AsksReason
<1>15. CASE o = "createProvider"
  <2>1. Operations[o] = Op(CreateProviderDto, ProviderData, Providers)
    BY <1>15 DEF Operations
  <2>2. Agree(CreateProviderDto, ProviderData, Providers)
    BY ProvidersAgree
  <2>3. "city" \notin DOMAIN CreateProviderDto
    BY DEF CreateProviderDto
  <2> QED BY <1>15, <2>1, <2>2, <2>3, UsesOfSingles, OpFits DEF Fitting, Inherits, AsksReason
<1>16. CASE o = "updateProviderAdmin"
  <2>1. Operations[o] = Op(Partial(Omitting(CreateProviderDto, {"initialAdminUserId"})), ProviderData, Providers)
    BY <1>16 DEF Operations
  <2>2. Agree(Partial(Omitting(CreateProviderDto, {"initialAdminUserId"})), ProviderData, Providers)
    BY ProvidersAgree, PartialAgrees, OmittingAgrees
  <2>3. "city" \notin DOMAIN Partial(Omitting(CreateProviderDto, {"initialAdminUserId"}))
    BY DEF Partial, Omitting, Restrict, CreateProviderDto
  <2> QED BY <1>16, <2>1, <2>2, <2>3, UsesOfSingles, OpFits DEF Fitting, Inherits, AsksReason
<1>17. CASE o = "updateProviderScoped"
  <2>1. Operations[o] = Op(Partial(Omitting(CreateProviderDto, {"initialAdminUserId", "commissionRateBps"})), ProviderData, Providers)
    BY <1>17 DEF Operations
  <2>2. Agree(Partial(Omitting(CreateProviderDto, {"initialAdminUserId", "commissionRateBps"})), ProviderData, Providers)
    BY ProvidersAgree, PartialAgrees, OmittingAgrees
  <2>3. "city" \notin DOMAIN Partial(Omitting(CreateProviderDto, {"initialAdminUserId", "commissionRateBps"}))
    BY DEF Partial, Omitting, Restrict, CreateProviderDto
  <2> QED BY <1>17, <2>1, <2>2, <2>3, UsesOfSingles, OpFits DEF Fitting, Inherits, AsksReason
<1>18. CASE o = "createCategory"
  <2>1. Operations[o] = Op(CreateCategoryDto, CategoryData ++ Uses({"displayOrder"}, "orZero"), Categories)
    BY <1>18 DEF Operations
  <2>2. Agree(CreateCategoryDto, CategoryData ++ Uses({"displayOrder"}, "orZero"), Categories)
    BY NewCategoriesAgree
  <2>3. "city" \notin DOMAIN CreateCategoryDto
    BY DEF CreateCategoryDto
  <2> QED BY <1>18, <2>1, <2>2, <2>3, UsesOfSingles, OpFits DEF Fitting, Inherits, AsksReason
<1>19. CASE o = "updateCategory"
  <2>1. Operations[o] = Op(Partial(CreateCategoryDto), CategoryData, Categories)
    BY <1>19 DEF Operations
  <2>2. Agree(Partial(CreateCategoryDto), CategoryData, Categories)
    BY CategoriesAgree, PartialAgrees
  <2>3. "city" \notin DOMAIN Partial(CreateCategoryDto)
    BY DEF Partial, CreateCategoryDto
  <2> QED BY <1>19, <2>1, <2>2, <2>3, UsesOfSingles, OpFits DEF Fitting, Inherits, AsksReason
<1>20. CASE o = "credit"
  <2>1. Operations[o] = Op(CreditDto, AllowanceData, Ledger)
    BY <1>20 DEF Operations
  <2>2. Agree(CreditDto, AllowanceData, Ledger)
    BY CreditsAgree
  <2>3. "city" \notin DOMAIN CreditDto
    BY DEF CreditDto
  <2> QED BY <1>20, <2>1, <2>2, <2>3, UsesOfSingles, ReasonColumns, OpFits DEF Fitting, Inherits, AsksReason
<1>21. CASE o = "adjust"
  <2>1. Operations[o] = Op(ManualAdjustmentDto, AllowanceData, AuditedLedger)
    BY <1>21 DEF Operations
  <2>2. Agree(ManualAdjustmentDto, AllowanceData, AuditedLedger)
    BY AdjustmentsAgree
  <2>3. "city" \notin DOMAIN ManualAdjustmentDto
    BY DEF ManualAdjustmentDto
  <2> QED BY <1>21, <2>1, <2>2, <2>3, UsesOfSingles, ReasonColumns, OpFits DEF Fitting, Inherits, AsksReason
<1>22. CASE o = "expire"
  <2>1. Operations[o] = Op(ExpireDto, AllowanceData, LedgerWithReason)
    BY <1>22 DEF Operations
  <2>2. Agree(ExpireDto, AllowanceData, LedgerWithReason)
    BY ExpiriesAgree
  <2>3. "city" \notin DOMAIN ExpireDto
    BY DEF ExpireDto
  <2> QED BY <1>22, <2>1, <2>2, <2>3, UsesOfSingles, ReasonColumns, OpFits DEF Fitting, Inherits, AsksReason
<1>23. CASE o = "list"
  <2>1. Operations[o] = Op(PageQueryDto, <<>>, ListWindow)
    BY <1>23 DEF Operations
  <2>2. Agree(PageQueryDto, <<>>, ListWindow)
    BY PagesAgree
  <2>3. "city" \notin DOMAIN PageQueryDto
    BY DEF PageQueryDto
  <2> QED BY <1>23, <2>1, <2>2, <2>3, UsesOfSingles, OpFits DEF Fitting, Inherits, AsksReason
<1>24. CASE o = "listCatalog"
  <2>1. Operations[o] = Op(CatalogPageQueryDto, <<>>, ListWindow)
    BY <1>24 DEF Operations
  <2>2. Agree(CatalogPageQueryDto, <<>>, ListWindow)
    BY PagesAgree
  <2>3. "city" \notin DOMAIN CatalogPageQueryDto
    BY DEF CatalogPageQueryDto, PageQueryDto
  <2> QED BY <1>24, <2>1, <2>2, <2>3, UsesOfSingles, OpFits DEF Fitting, Inherits, AsksReason
<1> QED
  BY <1>1, <1>2, <1>3, <1>4, <1>5, <1>6, <1>7, <1>8, <1>9, <1>10, <1>11, <1>12, <1>13, <1>14, <1>15, <1>16, <1>17, <1>18, <1>19, <1>20, <1>21, <1>22, <1>23, <1>24 DEF Operations

-----------------------------------------------------------------------------
(* The requests, and the pipe. *)

\* What a client sends is a value of the model, never null by expectation.
LEMMA CandidatesAreValues ==
  ASSUME NEW rule, IsRule(rule)
  PROVE  /\ \A v \in Candidates(rule) : IsValue(v)
         /\ IsValue(Expected(rule)) /\ Expected(rule) # Null
<1>1. rule.kind \in Kinds /\ rule.min \in Int /\ rule.max \in Int
  BY DEF IsRule, Rules
<1>2. \A n \in Int : IsValue(Number(n)) /\ Number(n) # Null
  BY ValueFields DEF IsValue, IsNumber
<1>3. Absent # Null /\ Valid # Null /\ IsValue(Absent) /\ IsValue(Valid)
  BY ValueFields DEF IsValue
<1>4. IsValue(Expected(rule)) /\ Expected(rule) # Null
  BY <1>1, <1>2, <1>3 DEF Expected
<1>5. ASSUME NEW v \in AtLimits(rule) PROVE IsValue(v)
  <2>1. CASE rule.kind \in {"format", "url"}
    BY <1>5, <2>1 DEF AtLimits
  <2>2. CASE rule.kind = "text"
    <3>1. rule.min \in Nat /\ rule.max \in Nat
      BY <1>1, <2>2 DEF IsRule
    <3>2. \A n, t \in Nat : t <= n => IsText(Text(n, t)) /\ IsText(Growing(n))
      BY DEF IsText, Text, Growing
    <3>3. \/ \E n \in Nat : v = Text(n, n)
          \/ v = Text(rule.max + 2, rule.max)
          \/ v = Text(rule.min + 1, 0)
          \/ v = Growing(rule.max)
          \/ \E n \in Nat : v = Text(n + 1, n)
      BY <1>5, <2>2 DEF AtLimits
    <3>4. IsText(v)
      BY <3>1, <3>2, <3>3
    <3> QED BY <3>4 DEF IsValue
  <2>3. CASE rule.kind \in {"number", "signed"}
    <3>1. \E n \in Int : v = Number(n)
      BY <1>1, <1>5, <2>3, Bounds DEF AtLimits
    <3> QED BY <1>2, <3>1
  <2>4. CASE rule.kind = "moment"
    <3>1. \E n \in Int : v = Moment(n)
      BY <1>5, <2>4, Bounds DEF AtLimits
    <3> QED BY <3>1 DEF IsValue, IsMoment
  <2> QED BY <1>1, <2>1, <2>2, <2>3, <2>4 DEF Kinds
<1> QED BY <1>4, <1>5 DEF Candidates, IsValue

\* The fields of a request are those of its DTO, and they hold values.
LEMMA SentAreValues ==
  ASSUME NEW o \in DOMAIN Operations, Send(o)
  PROVE  /\ DOMAIN input' = DOMAIN Operations[o].dto
         /\ \A f \in DOMAIN input' : IsValue(input'[f])
         /\ o \in Lists => \A f \in DOMAIN input' : input'[f] # Null
<1> DEFINE dto == Operations[o].dto
<1>1. PICK d \in Deviations(o) :
        \E given \in [d -> UNION {Candidates(dto[f]) : f \in d}] :
                /\ \A f \in d : given[f] \in Candidates(dto[f])
                /\ o \in Lists => \A f \in d : given[f] # Null
                /\ input' = given ++ [f \in DOMAIN dto |-> Expected(dto[f])]
  BY DEF Send
<1>2. PICK given \in [d -> UNION {Candidates(dto[f]) : f \in d}] :
                /\ \A f \in d : given[f] \in Candidates(dto[f])
                /\ o \in Lists => \A f \in d : given[f] # Null
                /\ input' = given ++ [f \in DOMAIN dto |-> Expected(dto[f])]
  BY <1>1
<1>3. d \subseteq DOMAIN dto
  BY <1>1 DEF Deviations
<1>4. \A f \in DOMAIN dto : IsRule(dto[f])
  BY OperationsAgree DEF FittingOp, Fitting, Agree, Agrees
<1>5. /\ DOMAIN input' = DOMAIN dto
      /\ \A f \in DOMAIN dto : input'[f] = IF f \in d THEN given[f] ELSE Expected(dto[f])
  BY <1>2, <1>3 DEF ++
<1>6. \A f \in DOMAIN dto : IsValue(input'[f])
  BY <1>2, <1>3, <1>4, <1>5, CandidatesAreValues
<1>7. o \in Lists => \A f \in DOMAIN dto : input'[f] # Null
  BY <1>2, <1>4, <1>5, CandidatesAreValues
<1> QED BY <1>5, <1>6, <1>7

\* The pipe trims and adds defaults: what it leaves is a value.
LEMMA TransformedValues ==
  ASSUME NEW rule, IsRule(rule), NEW v, IsValue(v)
  PROVE  LET w == Transformed(rule, v)
         IN  /\ IsValue(w)
             /\ rule.trims /\ w.is = "text" => w.size = w.trimmed
             /\ w = Absent => rule.default = Absent
             /\ w = Null => v = Null
<1> DEFINE w == Transformed(rule, v)
<1>1. CASE v = Absent
  <2>1. w = rule.default
    BY <1>1 DEF Transformed
  <2>2. w = Absent \/ w = Valid \/ \E n \in rule.min .. rule.max : w = Number(n)
    BY <2>1 DEF IsRule
  <2>3. rule.min \in Int /\ rule.max \in Int
    BY DEF IsRule, Rules
  <2>4. w = Absent \/ w = Valid \/ IsNumber(w)
    BY <2>2, <2>3 DEF IsNumber
  <2>5. w.is # "text" /\ w # Null /\ IsValue(w)
    BY <2>4, ValueFields DEF IsValue, IsNumber
  <2> QED BY <2>1, <2>5
<1>2. CASE v # Absent /\ rule.trims
  <2>1. w = TrimmedOf(v)
    BY <1>2 DEF Transformed
  <2>2. IsValue(w) /\ (w.is = "text" => w.size = w.trimmed)
    BY <2>1, TrimmedValues
  <2>3. w # Absent /\ (w = Null => v = Null)
    BY <1>2, <2>1, TrimmedValues, ValueFields
  <2> QED BY <2>2, <2>3
<1>3. CASE v # Absent /\ ~rule.trims
  <2>1. w = v
    BY <1>3 DEF Transformed
  <2> QED BY <1>3, <2>1
<1> QED BY <1>1, <1>2, <1>3

-----------------------------------------------------------------------------
(* The invariant *)

\* The columns of an activity that sessions and schedules fall back on.
Inherited == {"durationMinutes", "bookingCutoffMinutes", "minParticipants", "maxParticipants"}

\* What is stored of the activity is missing or within its columns.
ActivityInv ==
    /\ DOMAIN activity = Inherited
    /\ \A f \in Inherited : activity[f] = Null \/ IsInColumn(Activities[f], activity[f])

\* The request of an operation holds the fields of its DTO; a query has no null.
RequestInv ==
    /\ stage \in {"idle", "sent", "valid", "ready"} \cup Answers
    /\ stage = "idle" => operation = "none"
    /\ stage # "idle" =>
         /\ operation \in DOMAIN Operations
         /\ DOMAIN input = DOMAIN Dto
         /\ \A f \in DOMAIN input : IsValue(input[f])
         /\ operation \in Lists => \A f \in DOMAIN input : input[f] # Null

\* What has passed the pipe is what the rules accept.
PipeInv ==
    stage \in {"valid", "ready", "stored", "failed"} =>
        \A f \in DOMAIN input : /\ Accepted(Dto[f], input[f])
                                /\ input[f] = Absent => Dto[f].default = Absent

\* What has passed the service is neither refused nor in the wrong order.
ServiceInv ==
    stage = "ready" =>
        /\ row = WrittenRow
        /\ \A f \in DOMAIN input : ~Breaks(f) /\ ~Refuses(f)
        /\ ~IsInverted(row)
        /\ operation = "createSession" => ~CutoffPassed

\* The session or the schedule that a request names is one that may be stored.
PlanInv ==
    /\ plan \in Plans \cup {<<>>}
    /\ stage # "idle" => plan \in Named(operation)

\* The service writes columns of the table only.
RowInv == stage # "idle" => DOMAIN row \subseteq DOMAIN Table

\* The inductive invariant.
InputInv ==
    /\ ActivityInv /\ RequestInv /\ PipeInv /\ ServiceInv /\ PlanInv /\ RowInv
    /\ DocumentedRequestsDoNotFail /\ StoredKeepsBounds

\* What the DTO takes for such a column is what the column takes.
LEMMA ActivityColumns ==
    /\ \A f \in Inherited : f \in DOMAIN Activities /\ f \in DOMAIN CreateActivityDto
    /\ \A f \in Inherited \ {"bookingCutoffMinutes"} :
         /\ CreateActivityDto[f] = Nullable(Whole(1, 32767))
         /\ Activities[f].min = 1 /\ Activities[f].max = 32767
    /\ CreateActivityDto["bookingCutoffMinutes"] = Nullable(Whole(0, MaxInteger))
    /\ Activities["bookingCutoffMinutes"].min = 0 /\ Activities["bookingCutoffMinutes"].max = MaxInteger
    /\ \A f \in Inherited : CreateActivityDto[f].kind = "number" /\ UseIn(MutableData, f) = "keep"
<1>1. \A f \in Inherited : f \in DOMAIN Activities /\ f \in DOMAIN CreateActivityDto
  BY DEF Inherited, Activities, CreateActivityDto
<1>2. \A f \in Inherited \ {"bookingCutoffMinutes"} :
         CreateActivityDto[f] = Nullable(Whole(1, 32767)) /\ Activities[f] = OrNull(Column(1, 32767))
  BY DEF Inherited, Activities, CreateActivityDto, SmallInt
<1>3. /\ CreateActivityDto["bookingCutoffMinutes"] = Nullable(Whole(0, MaxInteger))
      /\ Activities["bookingCutoffMinutes"] = OrNull(Column(0, MaxInteger))
  BY DEF Activities, CreateActivityDto
<1>4. OrNull(Column(1, 32767)).min = 1 /\ OrNull(Column(1, 32767)).max = 32767
  BY TableColumns DEF HasColumn
<1>5. OrNull(Column(0, MaxInteger)).min = 0 /\ OrNull(Column(0, MaxInteger)).max = MaxInteger
  BY TableColumns, Bounds DEF HasColumn
<1>6. \A m, n \in Int : Nullable(Whole(m, n)).kind = "number"
  BY RuleFields, ChangedRules DEF HasFields
<1>7. \A f \in Inherited : CreateActivityDto[f].kind = "number"
  BY <1>2, <1>3, <1>6, Bounds
<1>8. \A f \in Inherited : UseIn(MutableData, f) = "keep"
  BY UsesFields, MergedUses DEF MutableData, Inherited
<1> QED BY <1>1, <1>2, <1>3, <1>4, <1>5, <1>7, <1>8

\* What the two operations that write an activity have in common.
LEMMA EditOperations ==
  ASSUME operation \in Edits
  PROVE  /\ operation \in DOMAIN Operations /\ operation \notin Lists
         /\ DOMAIN Dto = DOMAIN CreateActivityDto
         /\ \A f \in DOMAIN CreateActivityDto : Dto[f].kind = CreateActivityDto[f].kind
         /\ Operations[operation].uses = MutableData
         /\ Table = Activities
<1>1. operation \in DOMAIN Operations /\ operation \notin Lists
  BY DEF Edits, Operations, Lists
<1>2. /\ Operations[operation].uses = MutableData /\ Table = Activities
      /\ Dto \in {CreateActivityDto, Partial(CreateActivityDto)}
  BY DEF Edits, Operations, Table, Dto, Op
<1>3. \A f \in DOMAIN CreateActivityDto : CreateActivityDto[f] \in Rules
  BY ActivitiesAgree DEF Agree, Agrees, IsRule
<1>4. \A f \in DOMAIN CreateActivityDto :
        Partial(CreateActivityDto)[f].kind = CreateActivityDto[f].kind
  BY <1>3, ChangedRules DEF Partial
<1> QED BY <1>1, <1>2, <1>4 DEF Partial

\* What is known of a field that has passed the pipe, and of its column.
LEMMA FieldFacts ==
  ASSUME RequestInv, PipeInv, stage \in {"valid", "ready", "stored", "failed"}, NEW f \in DOMAIN input
  PROVE  LET op == Operations[operation]
             use == UseIn(op.uses, f)
         IN  /\ Fitting(operation, op.dto, op.uses, op.table)
             /\ f \in DOMAIN Dto /\ IsRule(Dto[f]) /\ Dto[f] \in Rules
             /\ Accepted(Dto[f], input[f])
             /\ Use(f) = use /\ Stored(f) = StoredAs(use, input[f], activity[f])
             /\ f \in DOMAIN Table => Takes(f, Dto[f], use, Table[f])
             /\ f \notin DOMAIN Table => ~Dto[f].nullable
<1>1. operation \in DOMAIN Operations /\ DOMAIN input = DOMAIN Dto
  BY DEF RequestInv
<1>2. Agree(Operations[operation].dto, Operations[operation].uses, Operations[operation].table)
  BY <1>1, OperationsAgree DEF FittingOp, Fitting
<1>3. Agrees(f, Operations[operation].dto, Operations[operation].uses, Operations[operation].table)
  BY <1>1, <1>2 DEF Agree, Dto
<1>4. Fitting(operation, Operations[operation].dto, Operations[operation].uses, Operations[operation].table)
  BY <1>1, OperationsAgree DEF FittingOp
<1>5. Accepted(Dto[f], input[f])
  BY DEF PipeInv
<1>6. Use(f) = UseIn(Operations[operation].uses, f)
  BY DEF Use, UseIn
<1> QED BY <1>1, <1>3, <1>4, <1>5, <1>6, StoredIsStoredAs DEF Agrees, IsRule, Dto, Table

\* The operations that write the instants of a session.
Schedulings == {"createSession", "updateSession", "generateSchedule"}

LEMMA InstantColumns ==
  ASSUME NEW c \in WrittenInstants
  PROVE  /\ operation \in Schedulings /\ operation \in DOMAIN Operations
         /\ operation \notin Lists /\ operation \notin Edits
         /\ c \in DOMAIN Instants /\ c \in DOMAIN Table /\ Table[c] = Instants[c]
         /\ c \notin DOMAIN Dto
<1>1. operation \in Schedulings /\ c \in {"startsAt", "endsAt", "bookingCutoffAt"}
  BY DEF WrittenInstants, Schedulings
<1>2. operation \in DOMAIN Operations /\ operation \notin Lists /\ operation \notin Edits
  BY <1>1 DEF Schedulings, Operations, Lists, Edits
<1>3. /\ operation = "generateSchedule" => Dto = GenerateScheduleDto /\ Table = Instants
      /\ operation = "createSession" => Dto = CreateOneTimeSessionDto /\ Table = ActivitySessions
      /\ operation = "updateSession" => /\ Dto = Partial(CreateOneTimeSessionDto)
                                        /\ Table = ActivitySessions
  BY DEF Dto, Table, Operations, Op
<1>4. c \in DOMAIN Instants /\ c \in DOMAIN Table /\ Table[c] = Instants[c]
  BY <1>1, <1>3, SessionTable DEF Schedulings
<1>5. c \notin DOMAIN Dto
  BY <1>1, <1>3 DEF Schedulings, GenerateScheduleDto, Partial, CreateOneTimeSessionDto
<1> QED BY <1>1, <1>2, <1>4, <1>5

\* A row has the columns of the fields, that of the city in lower case, and
\* the instants of a session.
LEMMA RowFields ==
  ASSUME RequestInv, stage # "idle", operation \notin Lists, NEW c \in DOMAIN WrittenRow
  PROVE  \/ /\ c \in DOMAIN input /\ c \in DOMAIN Table
            /\ WrittenRow[c] = Stored(c) /\ Stored(c) # Absent
         \/ /\ c = "normalizedCity" /\ operation \in Edits
            /\ "city" \in DOMAIN input /\ "city" \in DOMAIN Table
            /\ WrittenRow[c] = LowerCase(Stored("city")) /\ Stored("city") # Absent
         \/ /\ c \in WrittenInstants /\ c \notin DOMAIN input
            /\ WrittenRow[c] = InstantOf(c)
<1> DEFINE given == {f \in DOMAIN input \cap DOMAIN Table : Stored(f) # Absent}
           a == [f \in given |-> Stored(f)]
           b == [x \in {x \in {"normalizedCity"} : "city" \in given} |-> LowerCase(Stored("city"))]
           t == [x \in WrittenInstants |-> InstantOf(x)]
<1>1. WrittenRow = (a ++ b) ++ t
  BY DEF WrittenRow
<1>2. /\ DOMAIN a = given /\ DOMAIN b = {x \in {"normalizedCity"} : "city" \in given}
      /\ DOMAIN t = WrittenInstants
  OBVIOUS
<1>3. /\ DOMAIN WrittenRow = (DOMAIN a \cup DOMAIN b) \cup DOMAIN t
      /\ WrittenRow[c] = IF c \in DOMAIN a THEN a[c] ELSE IF c \in DOMAIN b THEN b[c] ELSE t[c]
  <2> HIDE DEF given, a, b, t
  <2>1. /\ DOMAIN (a ++ b) = DOMAIN a \cup DOMAIN b
        /\ \A x \in DOMAIN a \cup DOMAIN b :
              (a ++ b)[x] = IF x \in DOMAIN a THEN a[x] ELSE b[x]
    BY DEF ++
  <2> DEFINE ab == a ++ b
  <2>2. WrittenRow = ab ++ t
    BY <1>1
  <2> HIDE DEF ab
  <2>3. /\ DOMAIN (ab ++ t) = DOMAIN ab \cup DOMAIN t
        /\ \A x \in DOMAIN ab \cup DOMAIN t :
              (ab ++ t)[x] = IF x \in DOMAIN ab THEN ab[x] ELSE t[x]
    BY DEF ++
  <2>4. c \in DOMAIN ab \cup DOMAIN t
    BY <2>2, <2>3
  <2>5. WrittenRow[c] = IF c \in DOMAIN ab THEN ab[c] ELSE t[c]
    BY <2>2, <2>3, <2>4
  <2>6. DOMAIN ab = DOMAIN a \cup DOMAIN b
    BY <2>1 DEF ab
  <2>7. c \in DOMAIN ab => ab[c] = IF c \in DOMAIN a THEN a[c] ELSE b[c]
    BY <2>1, <2>6 DEF ab
  <2> QED BY <2>2, <2>3, <2>5, <2>6, <2>7
<1>4. CASE c \in given
  <2>1. WrittenRow[c] = Stored(c)
    BY <1>2, <1>3, <1>4
  <2> QED BY <1>4, <2>1
<1>5. CASE c \notin given /\ c \in DOMAIN b
  <2>1. c = "normalizedCity" /\ "city" \in given
    BY <1>2, <1>5
  <2>2. WrittenRow[c] = LowerCase(Stored("city"))
    BY <1>2, <1>3, <1>5, <2>1
  <2>3. operation \in Edits
    <3>1. "city" \in DOMAIN Operations[operation].dto /\ operation \in DOMAIN Operations
      BY <2>1 DEF RequestInv, Dto
    <3> QED BY <3>1, OperationsAgree DEF FittingOp, Fitting
  <2> QED BY <2>1, <2>2, <2>3
<1>6. CASE c \notin given /\ c \notin DOMAIN b
  <2>1. c \in WrittenInstants /\ WrittenRow[c] = InstantOf(c)
    BY <1>2, <1>3, <1>6
  <2>2. c \notin DOMAIN input
    BY <2>1, InstantColumns DEF RequestInv
  <2> QED BY <2>1, <2>2
<1> QED BY <1>4, <1>5, <1>6

\* A documented field that was served fits its column, but in three cases.
LEMMA ServedFieldFits ==
  ASSUME ActivityInv, RequestInv, PipeInv, ServiceInv, stage = "ready", IsDocumented,
         ~InheritsLongDuration, ~BlankReason, ~HoldsNul,
         NEW f \in DOMAIN input, f \in DOMAIN Table, Stored(f) # Absent
  PROVE  Fits(Table[f], Stored(f))
<1> DEFINE op == Operations[operation]
           use == UseIn(op.uses, f)
           rule == Dto[f]
           c == Table[f]
           v == input[f]
           a == activity[f]
<1>1. /\ Fitting(operation, op.dto, op.uses, op.table)
      /\ rule \in Rules /\ Accepted(rule, v) /\ Use(f) = use
      /\ Stored(f) = StoredAs(use, v, a) /\ Takes(f, rule, use, c)
  BY FieldFacts
<1>2. ~Breaks(f) /\ ~Refuses(f)
  BY DEF ServiceInv
<1>3. v = Null => rule.nullable
  BY DEF IsDocumented, RequestInv
<1>4. use = "requiredText" /\ v.is = "text" => v.trimmed # 0
  BY <1>1, <1>2 DEF Refuses
<1>5. use = "parseMinorUnits" /\ v.is = "number" => v.size \in -MaxBigint .. MaxBigint
  BY <1>1, <1>2 DEF Refuses
<1>6. f = "reason" /\ use = "trim" /\ ~c.blank => v.trimmed # 0
  <2> SUFFICES ASSUME f = "reason", use = "trim", ~c.blank
               PROVE  v.trimmed # 0
    OBVIOUS
  <2>1. AsksReason(op.uses, op.table)
    BY DEF AsksReason, Table
  <2>2. operation = "adjust"
    BY <1>1, <2>1 DEF Fitting
  <2> QED BY <2>2 DEF BlankReason
<1>7. use = "effectiveValue" /\ IsNothing(v) => IsInColumn(c, a)
  <2> SUFFICES ASSUME use = "effectiveValue", IsNothing(v)
               PROVE  IsInColumn(c, a)
    OBVIOUS
  <2>1. a # Null
    BY <1>1, <1>2 DEF Refuses
  <2>2. f \in Inherited /\ f \in {"durationMinutes", "bookingCutoffMinutes"}
    BY <1>1 DEF Takes, Inherited
  <2>3. PICK n \in Int : a = Number(n) /\ Activities[f].min <= n /\ n <= Activities[f].max
    BY <2>1, <2>2 DEF ActivityInv, IsInColumn
  <2>4. v = Absent
    BY <1>1, <1>3 DEF Takes, IsNothing
  <2>5. c.min \in Int /\ c.max \in Int
    BY <1>1 DEF Takes, Columns
  <2>6. CASE f = "durationMinutes"
    <3>1. c.min <= 1 /\ 1440 <= c.max
      BY <1>1, <2>6 DEF Takes
    <3>2. operation \in {"createSession", "createSchedule"}
      BY <1>1, <2>6 DEF Fitting, Inherits
    <3>3. activity.durationMinutes.size = n
      BY <2>3, <2>6, ValueFields
    <3>4. n <= 1440
      BY <2>4, <2>6, <3>2, <3>3 DEF InheritsLongDuration
    <3>5. 1 <= n
      BY <2>3, <2>6, ActivityColumns DEF Inherited
    <3> QED BY <2>3, <2>5, <3>1, <3>4, <3>5 DEF IsInColumn
  <2>7. CASE f = "bookingCutoffMinutes"
    <3>1. c.min <= 0 /\ MaxInteger <= c.max
      BY <1>1, <2>7 DEF Takes
    <3>2. 0 <= n /\ n <= MaxInteger
      BY <2>3, <2>7, ActivityColumns
    <3> QED BY <2>3, <2>5, <3>1, <3>2, Bounds DEF IsInColumn
  <2> QED BY <2>2, <2>6, <2>7
<1>8. StoredAs(use, v, a) # Absent
  BY <1>1
<1>10. v # WithNul
  BY DEF HoldsNul
<1>9. Fits(c, StoredAs(use, v, a))
  <2> HIDE DEF op, use, rule, c, v, a
  <2> QED BY <1>1, <1>3, <1>4, <1>5, <1>6, <1>7, <1>8, <1>10, FieldFits
<1> QED BY <1>1, <1>9

\* The city in lower case fits its column, but where it grows.
LEMMA CityFits ==
  ASSUME RequestInv, PipeInv, stage = "ready", operation \in Edits,
         "city" \in DOMAIN input, ~CityGrows, ~HoldsNul
  PROVE  Fits(Table["normalizedCity"], LowerCase(Stored("city")))
<1> DEFINE v == input["city"]
           w == Stored("city")
           c == Table["normalizedCity"]
<1>1. Table = Activities /\ Operations[operation].uses = MutableData
  BY EditOperations
<1>2. c = OrNull(Column(0, 120))
  BY <1>1 DEF Activities, VarChar
<1>3. c.min = 0 /\ c.max = 120 /\ c.null /\ c.blank
  <2>1. /\ Column(0, 120) \in Columns /\ Column(0, 120).min = 0 /\ Column(0, 120).max = 120
        /\ Column(0, 120).blank
    BY ColumnFields
  <2> QED BY <1>2, <2>1, ColumnFields
<1>4. UseIn(MutableData, "city") = "optionalText"
  BY UsesFields, MergedUses DEF MutableData
<1>5. IsValue(v) /\ w = StoredAs("optionalText", v, activity["city"])
  BY <1>1, <1>4, FieldFacts DEF Accepted
<1>6. w = Null \/ w = TrimmedOf(v)
  BY <1>5, StoredValues
<1>7. CASE v.is = "text"
  <2>1. LowerCase(v).size = v.lowered /\ v.lowered \in Nat
    <3>1. PICK n \in Nat, t \in Nat, l \in Nat : t <= n /\ v = Value("text", n, t, l)
      BY <1>5, <1>7, ValueCases DEF IsText
    <3> QED BY <1>7, <3>1 DEF LowerCase, Value
  <2>2. v.lowered <= 120
    BY <2>1 DEF CityGrows, Edits
  <2>3. CASE w = TrimmedOf(v)
    <3>1. IsText(w) /\ w.is = "text" /\ w.lowered = v.lowered
      BY <1>5, <1>7, <2>3, TrimmedValues, ValueCases
    <3>2. PICK n \in Nat, t \in Nat, l \in Nat : t <= n /\ w = Value("text", n, t, l)
      BY <3>1 DEF IsText
    <3>3. LowerCase(w).is = "text" /\ LowerCase(w).size = v.lowered
      BY <3>1, <3>2 DEF LowerCase, Value
    <3> QED BY <1>3, <2>1, <2>2, <3>3, ValueFields DEF Fits
  <2>4. CASE w = Null
    BY <1>3, <2>4, ValueFields DEF Fits, LowerCase
  <2> QED BY <1>6, <2>3, <2>4
<1>8. CASE v.is # "text"
  <2>1. w = Null \/ w = v
    BY <1>5, <1>6, <1>8, TrimmedValues
  <2>2. v.is \notin {"number", "moment"}
    <3>1. Dto["city"].kind = "text"
      <4>1. CreateActivityDto["city"] = Nullable(Trimmed(0, 120))
        BY DEF CreateActivityDto
      <4>2. CreateActivityDto["city"].kind = "text"
        BY <4>1, RuleFields, ChangedRules DEF HasFields
      <4>3. "city" \in DOMAIN CreateActivityDto
        BY DEF CreateActivityDto
      <4> QED BY <4>2, <4>3, EditOperations
    <3>2. Accepted(Dto["city"], v)
      BY FieldFacts
    <3> QED BY <3>1, <3>2, AcceptedCases, ValueFields DEF IsNothing
  <2>3. LowerCase(w) = w /\ w.is \notin {"text", "number", "moment"}
    BY <1>8, <2>1, <2>2, ValueFields DEF LowerCase
  <2>4. w # WithNul
    BY <2>1, ValueFields DEF HoldsNul
  <2> QED BY <1>3, <2>3, <2>4 DEF Fits
<1> QED BY <1>7, <1>8

LEMMA Pages ==
  ASSUME NEW p \in Nat, NEW l \in 1 .. 100
  PROVE  /\ (p - 1) * l \in Int
         /\ p >= 1 => 0 <= (p - 1) * l
         /\ p >= 1 /\ p <= 10000 => (p - 1) * l <= 999900
<1>1. ASSUME NEW q \in Nat
      PROVE  q * l \in Nat /\ q * l <= q * 100
  OBVIOUS
<1>2. ASSUME NEW q \in 0 .. 9999
      PROVE  q * 100 <= 999900
  OBVIOUS
<1>3. (p - 1) * l \in Int
  OBVIOUS
<1>4. CASE p >= 1
  <2>1. PICK q \in Nat : q = p - 1
    BY <1>4
  <2>2. q * l \in Nat /\ q * l <= q * 100
    BY <1>1
  <2>3. ASSUME p <= 10000 PROVE q * l <= 999900
    <3>1. q \in 0 .. 9999 /\ q * 100 \in Nat
      BY <2>1, <2>3
    <3>2. q * 100 <= 999900
      BY <1>2, <3>1
    <3> DEFINE x == q * l
               y == q * 100
    <3>3. x \in Nat /\ y \in Nat /\ x <= y /\ y <= 999900
      BY <2>2, <3>1, <3>2
    <3> HIDE DEF x, y
    <3>4. x <= 999900
      BY <3>3
    <3> QED BY <3>4 DEF x
  <2> QED BY <1>3, <2>1, <2>2, <2>3
<1> QED BY <1>3, <1>4

\* The window of a list begins within the offsets, but for a page too far.
LEMMA WindowFits ==
  ASSUME RequestInv, PipeInv, stage = "ready", operation \in Lists, ~PageTooFar
  PROVE  /\ DOMAIN WrittenRow = {"skip"} /\ DOMAIN Table = {"skip"}
         /\ Fits(Table["skip"], WrittenRow["skip"])
<1>1. /\ Table = ListWindow
      /\ operation = "list" => Dto = PageQueryDto
      /\ operation = "listCatalog" => Dto = CatalogPageQueryDto
  BY DEF Table, Dto, Lists, Operations, Op
<1>2. DOMAIN input = {"page", "limit"}
  BY <1>1, PageFields DEF RequestInv, Lists
<1>3. ASSUME NEW f \in {"page", "limit"}, Dto[f].kind = "number", Dto[f].min = 1,
             Dto[f].max \in Int, Dto[f].default # Absent
      PROVE  input[f].size \in 1 .. Dto[f].max
  <2>1. /\ Accepted(Dto[f], input[f]) /\ (input[f] = Absent => Dto[f].default = Absent)
        /\ input[f] # Null
    BY <1>2 DEF PipeInv, RequestInv, Lists
  <2>2. input[f].is = "number" /\ IsWithin(Dto[f], input[f])
    BY <1>3, <2>1 DEF Accepted, Conforms
  <2>3. input[f].size \in Int
    BY <2>1, <2>2, ValueCases DEF Accepted
  <2> QED BY <1>3, <2>2, <2>3 DEF IsWithin
<1>4. /\ \A f \in {"page", "limit"} :
           Dto[f].kind = "number" /\ Dto[f].min = 1 /\ Dto[f].max \in Int /\ Dto[f].default # Absent
      /\ Dto["limit"].max = 100
      /\ operation = "listCatalog" => Dto["page"].max = 10000
  <2>1. Dto \in {PageQueryDto, CatalogPageQueryDto}
    BY <1>1 DEF Lists
  <2>2. \A k : Number(k) # Absent
    BY ValueFields
  <2>3. Dto["limit"] = Defaulted(Whole(1, 100), Number(20))
    BY <2>1, PageFields
  <2>4. /\ Dto["limit"].kind = "number" /\ Dto["limit"].min = 1 /\ Dto["limit"].max = 100
        /\ Dto["limit"].default = Number(20)
    BY <2>3, PageRules
  <2>5. PICK n \in Nat : /\ n >= 1 /\ Dto["page"] = Defaulted(Whole(1, n), Number(1))
                         /\ Dto = CatalogPageQueryDto => n = 10000
    BY <2>1, PageFields
  <2>6. /\ Dto["page"].kind = "number" /\ Dto["page"].min = 1 /\ Dto["page"].max = n
        /\ Dto["page"].default = Number(1)
    BY <2>5, PageRules
  <2> QED BY <1>1, <2>2, <2>4, <2>5, <2>6
<1> DEFINE p == input.page.size
           l == input.limit.size
           s == (p - 1) * l
<1>5. /\ l \in 1 .. 100
      /\ p \in Nat /\ p >= 1
      /\ operation = "listCatalog" => p <= 10000
  BY <1>3, <1>4
<1>7. /\ s \in Int /\ 0 <= s
      /\ operation = "listCatalog" => s <= 999900
  <2> HIDE DEF p, l
  <2> QED BY <1>5, Pages
<1>8. s <= MaxOffset
  <2>1. CASE operation = "list"
    <3>1. ~(s > MaxOffset)
      BY <2>1 DEF PageTooFar
    <3> HIDE DEF s
    <3> QED BY <1>7, <3>1, Bounds
  <2>2. CASE operation = "listCatalog"
    <3> HIDE DEF s
    <3> QED BY <1>7, <2>2, Bounds
  <2> QED BY <2>1, <2>2 DEF Lists
<1>9. /\ WrittenRow = [skip |-> Number(s)] /\ Table["skip"] = Column(0, MaxOffset)
      /\ DOMAIN Table = {"skip"}
  BY <1>1 DEF WrittenRow, ListWindow
<1>10. Table["skip"].min = 0 /\ Table["skip"].max = MaxOffset
  BY <1>9, ColumnFields, Bounds
<1>11. Fits(Table["skip"], Number(s))
  <2> HIDE DEF s
  <2> QED BY <1>7, <1>8, <1>10, ValueFields DEF Fits
<1> QED BY <1>9, <1>11

\* The fields that the instants of a session are computed from.
LEMMA SessionFields ==
  ASSUME RequestInv, stage # "idle", operation \in {"createSession", "updateSession"},
         NEW f \in {"localStartsAt", "durationMinutes", "bookingCutoffMinutes"}
  PROVE  /\ f \in DOMAIN input /\ f \in DOMAIN Dto
         /\ f = "localStartsAt" =>
              /\ Dto[f].kind = "moment"
              /\ operation = "createSession" => ~Dto[f].optional
              /\ UseIn(Operations[operation].uses, f) = "resolveLocalDateTime"
         /\ f # "localStartsAt" =>
              /\ Dto[f].kind = "number" /\ Dto[f].min \in Nat
              /\ UseIn(Operations[operation].uses, f) =
                    IF operation = "createSession" THEN "effectiveValue" ELSE "orExisting"
<1> DEFINE dto == CreateOneTimeSessionDto
<1>1. /\ operation = "createSession" => /\ Operations[operation] = Op(dto, SessionData, ActivitySessions)
      /\ operation = "updateSession" =>
            /\ Operations[operation] = Op(Partial(dto), SessionChanges, ActivitySessions)
  BY DEF Operations
<1>2. /\ operation = "createSession" => Dto = dto /\ Operations[operation].uses = SessionData
      /\ operation = "updateSession" => Dto = Partial(dto) /\ Operations[operation].uses = SessionChanges
  <2> HIDE DEF dto
  <2> QED BY <1>1 DEF Op, Dto
<1>3. f \in DOMAIN dto /\ dto[f] \in Rules
  <2>1. f \in DOMAIN dto
    BY DEF CreateOneTimeSessionDto
  <2> QED BY <2>1, SessionsAgree DEF Agree, Agrees, IsRule
<1>4. /\ f = "localStartsAt" => dto[f] = LocalTime
      /\ f = "durationMinutes" => dto[f] = Optional(Whole(1, 1440))
      /\ f = "bookingCutoffMinutes" => dto[f] = Optional(Whole(0, MaxInteger))
  BY DEF CreateOneTimeSessionDto
<1>5. /\ LocalTime.kind = "moment" /\ ~LocalTime.optional
      /\ \A m, n \in Int : Optional(Whole(m, n)).kind = "number" /\ Optional(Whole(m, n)).min = m
  BY RuleFields, ChangedRules DEF HasFields
<1>6. /\ UseIn(SessionData, "localStartsAt") = "resolveLocalDateTime"
      /\ UseIn(SessionChanges, "localStartsAt") = "resolveLocalDateTime"
      /\ \A g \in {"durationMinutes", "bookingCutoffMinutes"} :
            UseIn(SessionData, g) = "effectiveValue" /\ UseIn(SessionChanges, g) = "orExisting"
  BY UsesFields, MergedUses DEF SessionData, SessionChanges
<1>7. /\ f = "localStartsAt" => dto[f].kind = "moment" /\ ~dto[f].optional
      /\ f # "localStartsAt" => dto[f].kind = "number" /\ dto[f].min \in Nat
  <2> HIDE DEF dto
  <2> QED BY <1>4, <1>5, Bounds
<1>8. f \in DOMAIN Dto /\ Dto[f].kind = dto[f].kind /\ Dto[f].min = dto[f].min
  <2> HIDE DEF dto
  <2>1. CASE operation = "createSession"
    BY <1>2, <1>3, <2>1
  <2>2. CASE operation = "updateSession"
    <3>1. DOMAIN Partial(dto) = DOMAIN dto /\ Partial(dto)[f] = Optional(dto[f])
      BY <1>3 DEF Partial
    <3> QED BY <1>2, <1>3, <2>2, <3>1, ChangedRules
  <2> QED BY <2>1, <2>2
<1>9. f \in DOMAIN input
  BY <1>8 DEF RequestInv
<1>10. operation = "createSession" => Dto[f].optional = dto[f].optional
  <2> HIDE DEF dto
  <2> QED BY <1>2
<1> HIDE DEF dto
<1> QED BY <1>2, <1>6, <1>7, <1>8, <1>9, <1>10

\* What is named was stored.
LEMMA NamedPlans ==
  ASSUME PlanInv, stage # "idle"
  PROVE  /\ operation \in {"updateSession", "generateSchedule"} =>
              plan.localStartsAt \in Nat /\ plan.durationMinutes \in Nat /\ plan.bookingCutoffMinutes \in Nat
         /\ operation = "updateSession" => Now < plan.localStartsAt
         /\ operation \in {"updateSession", "generateSchedule"} =>
              {"localStartsAt", "durationMinutes", "bookingCutoffMinutes"} \subseteq DOMAIN plan
         /\ operation = "createSession" => DOMAIN plan = {}
<1>1. operation \in {"updateSession", "generateSchedule"} => plan \in Plans
  BY DEF PlanInv, Named, Sessions
<1>2. operation = "updateSession" => Now < plan.localStartsAt
  BY DEF PlanInv, Named, Sessions
<1>3. ASSUME NEW p \in Plans
      PROVE  /\ p.localStartsAt \in Nat /\ p.durationMinutes \in Nat /\ p.bookingCutoffMinutes \in Nat
             /\ {"localStartsAt", "durationMinutes", "bookingCutoffMinutes"} \subseteq DOMAIN p
  <2>1. p \in ScheduledPlans
    BY PlansAssumption
  <2>2. p.localStartsAt \in Nat
    BY <2>1 DEF ScheduledPlans
  <2>3. p.durationMinutes \in 1 .. 1440
    BY <2>1 DEF ScheduledPlans
  <2>4. p.bookingCutoffMinutes \in 0 .. MaxInteger
    BY <2>1 DEF ScheduledPlans
  <2>5. p.durationMinutes \in Nat
    <3> DEFINE d == p.durationMinutes
    <3>1. d \in 1 .. 1440
      BY <2>3
    <3> HIDE DEF d
    <3>2. d \in Nat
      BY <3>1
    <3> QED BY <3>2 DEF d
  <2>6. p.bookingCutoffMinutes \in Nat
    BY <2>4, Bounds
  <2>7. {"localStartsAt", "durationMinutes", "bookingCutoffMinutes"} \subseteq DOMAIN p
    BY <2>1 DEF ScheduledPlans
  <2> QED BY <2>2, <2>5, <2>6, <2>7
<1>4. operation = "createSession" => DOMAIN plan = {}
  BY DEF PlanInv, Named, Sessions
<1> QED BY <1>1, <1>2, <1>3, <1>4

\* The start of a session is a moment, and it is to come where it is asked for.
LEMMA StartFacts ==
  ASSUME RequestInv, PipeInv, ServiceInv, PlanInv, stage = "ready", operation \in Schedulings
  PROVE  LET p == Planned("localStartsAt")
         IN  /\ StartMinute \in Int
             /\ operation # "generateSchedule" => Now < StartMinute
             /\ p # WithNul /\ p # Null /\ p.is # "text"
             /\ p.is \in {"number", "moment"} => p.size = StartMinute
<1> DEFINE p == Planned("localStartsAt")
           v == input["localStartsAt"]
<1>1. StartMinute = MinuteOf(p)
  BY DEF StartMinute
<1>2. ASSUME NEW n \in Int, p = Number(n)
      PROVE  MinuteOf(p) = n /\ p # WithNul /\ p # Null /\ p.is = "number" /\ p.size = n
  <2>1. /\ Number(n).is = "number" /\ Number(n).size = n
        /\ Number(n) # WithNul /\ Number(n) # Null /\ Number(n) \notin {Valid, Taken}
    BY ValueFields
  <2>2. MinuteOf(Number(n)) = n
    BY <2>1 DEF MinuteOf
  <2> QED BY <1>2, <2>1, <2>2
<1>3. CASE operation = "generateSchedule"
  <2>1. "localStartsAt" \notin DOMAIN input
    BY <1>3 DEF RequestInv, Dto, Operations, Op, GenerateScheduleDto
  <2>2. plan["localStartsAt"] \in Int /\ "localStartsAt" \in DOMAIN plan
    BY <1>3, NamedPlans
  <2>3. p = Number(plan["localStartsAt"])
    BY <2>1, <2>2 DEF Planned
  <2> QED BY <1>1, <1>2, <1>3, <2>2, <2>3
<1>4. CASE operation \in {"createSession", "updateSession"}
  <2>1. /\ "localStartsAt" \in DOMAIN input
        /\ Accepted(Dto["localStartsAt"], v)
        /\ Dto["localStartsAt"].kind = "moment"
        /\ operation = "createSession" => ~Dto["localStartsAt"].optional
        /\ Use("localStartsAt") = "resolveLocalDateTime" /\ Stored("localStartsAt") = v
    <3>1. /\ "localStartsAt" \in DOMAIN input
          /\ Dto["localStartsAt"].kind = "moment"
          /\ operation = "createSession" => ~Dto["localStartsAt"].optional
          /\ UseIn(Operations[operation].uses, "localStartsAt") = "resolveLocalDateTime"
      BY <1>4, SessionFields
    <3>2. /\ Accepted(Dto["localStartsAt"], v)
          /\ Use("localStartsAt") = "resolveLocalDateTime"
          /\ Stored("localStartsAt") = StoredAs("resolveLocalDateTime", v, activity["localStartsAt"])
      BY <3>1, FieldFacts
    <3> QED BY <3>1, <3>2, StoredValues
  <2>2. ~Breaks("localStartsAt") /\ ~Refuses("localStartsAt")
    BY <2>1 DEF ServiceInv
  <2>3. CASE v = Absent
    <3>1. operation = "updateSession"
      BY <1>4, <2>1, <2>3, ValueFields DEF Accepted, Conforms
    <3>2. /\ plan["localStartsAt"] \in Int /\ Now < plan["localStartsAt"]
          /\ "localStartsAt" \in DOMAIN plan
      BY <3>1, NamedPlans
    <3>3. p = Number(plan["localStartsAt"])
      BY <2>3, <3>2 DEF Planned, IsNothing
    <3> QED BY <1>1, <1>2, <3>2, <3>3
  <2>4. CASE v # Absent
    <3>1. v # Null
      BY <2>1, <2>2 DEF Breaks
    <3>2. p = v
      BY <2>1, <2>4, <3>1 DEF Planned, IsNothing
    <3>3. Now < MinuteOf(v)
      <4>1. ~(MinuteOf(v) <= Now)
        BY <2>1, <2>2, <2>4, <3>1 DEF Refuses, IsNothing
      <4>2. MinuteOf(v) \in Int
        BY <2>1, <2>4, <3>1, ValueCases, Bounds DEF MinuteOf, Accepted, Conforms
      <4> QED BY <4>1, <4>2, Bounds
    <3>4. v \in {Valid, Taken} \/ v.is = "moment"
      BY <2>1, <2>4, <3>1, ValueFields DEF Accepted, Conforms
    <3>5. MinuteOf(v) \in Int /\ (v.is = "moment" => MinuteOf(v) = v.size)
      BY <2>1, <3>4, ValueCases, ValueFields, Bounds DEF MinuteOf, Accepted
    <3>6. v # WithNul /\ v.is # "text" /\ v.is # "number"
      BY <3>4, ValueFields
    <3> QED BY <1>1, <3>1, <3>2, <3>3, <3>4, <3>5, <3>6
  <2> QED BY <2>3, <2>4
<1> QED BY <1>3, <1>4 DEF Schedulings

\* Its duration and its cutoff are numbers of minutes.
LEMMA MinutesFacts ==
  ASSUME ActivityInv, RequestInv, PipeInv, ServiceInv, PlanInv, stage = "ready",
         operation \in Schedulings, NEW f \in {"durationMinutes", "bookingCutoffMinutes"}
  PROVE  Planned(f).size \in Nat
<1> DEFINE p == Planned(f)
           v == input[f]
<1>1. ASSUME operation \in {"updateSession", "generateSchedule"}, p = Number(plan[f])
      PROVE  p.size \in Nat
  BY <1>1, NamedPlans, ValueFields
<1>2. CASE operation = "generateSchedule"
  <2>1. f \notin DOMAIN input
    BY <1>2 DEF RequestInv, Dto, Operations, Op, GenerateScheduleDto
  <2>2. p = Number(plan[f])
    BY <1>2, <2>1, NamedPlans DEF Planned
  <2> QED BY <1>1, <1>2, <2>2
<1>3. CASE operation \in {"createSession", "updateSession"}
  <2> DEFINE use == IF operation = "createSession" THEN "effectiveValue" ELSE "orExisting"
  <2>1. /\ f \in DOMAIN input /\ Accepted(Dto[f], v) /\ Dto[f].kind = "number" /\ Dto[f].min \in Nat
        /\ Use(f) = use /\ Stored(f) = StoredAs(use, v, activity[f])
    <3>1. /\ f \in DOMAIN input /\ Dto[f].kind = "number" /\ Dto[f].min \in Nat
          /\ UseIn(Operations[operation].uses, f) = use
      BY <1>3, SessionFields
    <3> QED BY <3>1, FieldFacts
  <2>2. ~Refuses(f)
    BY <2>1 DEF ServiceInv
  <2>3. CASE ~IsNothing(v)
    <3>1. v.is = "number" /\ v.size \in Int /\ Dto[f].min <= v.size
      BY <2>1, <2>3, ValueCases, ValueFields DEF Accepted, Conforms, IsNothing, IsWithin
    <3>2. Stored(f) = v /\ v # Absent
      BY <2>1, <2>3, StoredValues DEF IsNothing
    <3>3. p = v
      BY <2>1, <2>3, <3>2 DEF Planned
    <3> QED BY <2>1, <3>1, <3>3
  <2>4. CASE IsNothing(v) /\ operation = "createSession"
    <3>1. Stored(f) = activity[f] /\ activity[f] # Null
      BY <2>1, <2>2, <2>4, StoredValues DEF Refuses
    <3>2. f \in Inherited /\ Activities[f].min \in Nat
      <4>1. f \in Inherited
        BY DEF Inherited
      <4>2. CASE f = "durationMinutes"
        <5>1. f \in Inherited \ {"bookingCutoffMinutes"}
          BY <4>2 DEF Inherited
        <5>2. Activities[f].min = 1
          BY <5>1, ActivityColumns
        <5> QED BY <4>1, <5>2
      <4>3. CASE f = "bookingCutoffMinutes"
        BY <4>1, <4>3, ActivityColumns
      <4> QED BY <4>2, <4>3
    <3>3. PICK n \in Int : activity[f] = Number(n) /\ Activities[f].min <= n
      BY <3>1, <3>2 DEF ActivityInv, IsInColumn
    <3>4. p = Number(n)
      BY <2>4, <3>1, <3>3, NamedPlans DEF Planned
    <3> QED BY <3>2, <3>3, <3>4, ValueFields
  <2>5. CASE IsNothing(v) /\ operation = "updateSession"
    <3>1. f \in DOMAIN plan
      BY <2>5, NamedPlans
    <3>2. p = Number(plan[f])
      BY <2>5, <3>1 DEF Planned
    <3> QED BY <1>1, <2>5, <3>2
  <2> QED BY <1>3, <2>3, <2>4, <2>5
<1> QED BY <1>2, <1>3 DEF Schedulings

\* The instants of a session fit their columns, but at the ends of the calendar.
LEMMA InstantFits ==
  ASSUME ActivityInv, RequestInv, PipeInv, ServiceInv, PlanInv, stage = "ready",
         ~EndsAfterCalendar, ~CutoffBeforeCalendar, NEW c \in WrittenInstants
  PROVE  Fits(Table[c], InstantOf(c))
<1>1. /\ operation \in Schedulings /\ c \in DOMAIN Instants /\ Table[c] = Instants[c]
  BY InstantColumns
<1> DEFINE p == Planned("localStartsAt")
           s == StartMinute
           d == Planned("durationMinutes").size
           b == Planned("bookingCutoffMinutes").size
<1>2. /\ s \in Int /\ p # WithNul /\ p # Null /\ p.is # "text"
      /\ p.is \in {"number", "moment"} => p.size = s
      /\ operation # "generateSchedule" => Now < s
  BY <1>1, StartFacts
<1>3. d \in Nat /\ b \in Nat
  BY <1>1, MinutesFacts
<1>4. EndMinute = s + d /\ CutoffMinute = s - b
  BY DEF EndMinute, CutoffMinute
<1>5. operation \in {"createSession", "generateSchedule"} => Now < s /\ Now < s - b
  <2>1. operation \in {"createSession", "generateSchedule"} => ~CutoffPassed
    BY DEF ServiceInv, WrittenInstants
  <2>2. CutoffPassed <=> s <= Now \/ s - b <= Now
    BY <1>4 DEF CutoffPassed
  <2> HIDE DEF s, b
  <2> QED BY <1>2, <1>3, <2>1, <2>2, Bounds
<1>6. s + d <= LastMinute
  <2>1. ~(s + d > LastMinute)
    BY <1>1, <1>4 DEF EndsAfterCalendar, Schedulings
  <2> HIDE DEF s, d
  <2> QED BY <1>2, <1>3, <2>1, Bounds
<1>7. 1 <= s - b
  <2>1. operation = "updateSession" => ~(s - b < 1)
    BY <1>4 DEF CutoffBeforeCalendar
  <2> HIDE DEF s, b
  <2> QED BY <1>1, <1>2, <1>3, <1>5, <2>1, Bounds DEF Schedulings
<1>8. \A n \in {s, s + d, s - b} : n \in Int /\ 1 <= n /\ n <= LastMinute
  <2> HIDE DEF s, d, b
  <2> QED BY <1>2, <1>3, <1>6, <1>7, Bounds
<1>9. Instants[c].min = 1 /\ Instants[c].max = LastMinute
  <2>1. Instants[c] \in {Unique(Column(1, LastMinute)), Column(1, LastMinute)}
    BY <1>1, SessionTable DEF Instants, Instant
  <2> QED BY <2>1, ColumnFields, Bounds
<1>10. InstantOf(c) \in {p, Moment(s), Moment(s + d), Moment(s - b)}
  BY <1>4 DEF InstantOf
<1>11. InstantOf(c) # Null /\ InstantOf(c) # WithNul /\ InstantOf(c).is # "text"
  <2> HIDE DEF p, s, d, b
  <2> QED BY <1>2, <1>10, ValueFields
<1>12. InstantOf(c).is \in {"number", "moment"} => InstantOf(c).size \in {s, s + d, s - b}
  <2> HIDE DEF p, s, d, b
  <2> QED BY <1>2, <1>10, ValueFields
<1> HIDE DEF p, s, d, b
<1> QED BY <1>1, <1>8, <1>9, <1>11, <1>12 DEF Fits

-----------------------------------------------------------------------------
(* The steps *)

LEMMA InvInit == InputInit => InputInv
<1> SUFFICES ASSUME InputInit PROVE InputInv
  OBVIOUS
<1>1. ActivityInv
  BY DEF InputInit, ActivityInv, Inherited
<1>2. /\ RequestInv /\ PipeInv /\ ServiceInv /\ PlanInv /\ RowInv
      /\ DocumentedRequestsDoNotFail /\ StoredKeepsBounds
  BY DEF InputInit, RequestInv, RowInv, PipeInv, ServiceInv, PlanInv,
         DocumentedRequestsDoNotFail, StoredKeepsBounds
<1> QED BY <1>1, <1>2 DEF InputInv

\* What an operation may name depends on nothing else.
LEMMA SameNames == operation' = operation => Named(operation)' = Named(operation)
BY DEF Named, Sessions

LEMMA SendStep ==
  ASSUME InputInv, NEW o \in DOMAIN Operations, Send(o)
  PROVE  InputInv'
<1>1. stage' = "sent" /\ operation' = o /\ activity' = activity
  BY DEF Send
<1>2. ActivityInv'
  BY <1>1 DEF InputInv, ActivityInv
<1>3. RequestInv'
  BY <1>1, SentAreValues DEF RequestInv, Dto
<1>4. RowInv'
  BY DEF Send, RowInv
<1>5. PlanInv'
  BY <1>1 DEF Send, PlanInv, Named, Sessions
<1> QED BY <1>1, <1>2, <1>3, <1>4, <1>5 DEF InputInv, PipeInv, ServiceInv, DocumentedRequestsDoNotFail, StoredKeepsBounds

LEMMA ValidateStep ==
  ASSUME InputInv, Validate
  PROVE  InputInv'
<1>1. /\ stage = "sent" /\ stage' \in {"valid", "refused"} /\ operation' = operation
      /\ activity' = activity /\ Dto' = Dto /\ plan' = plan
  BY DEF Validate, Dto
<1>2. /\ operation \in DOMAIN Operations /\ DOMAIN input = DOMAIN Dto
      /\ \A f \in DOMAIN input : IsValue(input[f])
      /\ operation \in Lists => \A f \in DOMAIN input : input[f] # Null
  BY <1>1 DEF InputInv, RequestInv
<1>3. \A f \in DOMAIN Dto : IsRule(Dto[f])
  BY <1>2, OperationsAgree DEF FittingOp, Fitting, Agree, Agrees, Dto
<1>4. /\ DOMAIN input' = DOMAIN input
      /\ \A f \in DOMAIN input : input'[f] = Transformed(Dto[f], input[f])
  BY DEF Validate
<1>5. \A f \in DOMAIN input :
         /\ IsValue(input'[f])
         /\ Dto[f].trims /\ input'[f].is = "text" => input'[f].size = input'[f].trimmed
         /\ input'[f] = Absent => Dto[f].default = Absent
         /\ input'[f] = Null => input[f] = Null
  BY <1>2, <1>3, <1>4, TransformedValues
<1>6. ActivityInv'
  BY <1>1 DEF InputInv, ActivityInv
<1>7. RequestInv'
  BY <1>1, <1>2, <1>4, <1>5 DEF RequestInv, Answers
<1>8. PipeInv'
  <2> SUFFICES ASSUME stage' = "valid", NEW f \in DOMAIN input
               PROVE  Accepted(Dto[f], input'[f]) /\ (input'[f] = Absent => Dto[f].default = Absent)
    BY <1>1, <1>4 DEF PipeInv
  <2>1. Conforms(Dto[f], input'[f])
    BY DEF Validate
  <2> QED BY <1>5, <2>1 DEF Accepted
<1>9. RowInv'
  BY <1>1 DEF Validate, InputInv, RowInv, Table
<1>10. PlanInv'
  BY <1>1, SameNames DEF InputInv, PlanInv
<1> QED
  BY <1>1, <1>6, <1>7, <1>8, <1>9, <1>10 DEF InputInv, ServiceInv, DocumentedRequestsDoNotFail, StoredKeepsBounds

\* A step that leaves the request, the activity and the plan alone.
LEMMA SameRequest ==
  ASSUME operation' = operation, input' = input, activity' = activity, plan' = plan
  PROVE  /\ Dto' = Dto /\ Table' = Table /\ WrittenRow' = WrittenRow
         /\ IsDocumented' = IsDocumented /\ CutoffPassed' = CutoffPassed
         /\ \A f : Breaks(f)' = Breaks(f) /\ Refuses(f)' = Refuses(f)
         /\ \A r : IsInverted(r)' = IsInverted(r)
         /\ InheritsLongDuration' = InheritsLongDuration /\ CityGrows' = CityGrows
         /\ PageTooFar' = PageTooFar /\ BlankReason' = BlankReason /\ HoldsNul' = HoldsNul
         /\ EndsAfterCalendar' = EndsAfterCalendar /\ CutoffBeforeCalendar' = CutoffBeforeCalendar
<1>1. Dto' = Dto /\ Table' = Table /\ \A f : Use(f)' = Use(f)
  BY DEF Dto, Table, Use
<1>2. \A f : Stored(f)' = Stored(f)
  BY <1>1 DEF Stored
<1>3. \A f : Planned(f)' = Planned(f)
  BY <1>2 DEF Planned, IsNothing
<1>4. StartMinute' = StartMinute
  BY <1>3 DEF StartMinute, MinuteOf
<1>5. EndMinute' = EndMinute /\ CutoffMinute' = CutoffMinute
  BY <1>3, <1>4 DEF EndMinute, CutoffMinute
<1>6. /\ CutoffPassed' = CutoffPassed
      /\ EndsAfterCalendar' = EndsAfterCalendar /\ CutoffBeforeCalendar' = CutoffBeforeCalendar
  BY <1>4, <1>5 DEF CutoffPassed, EndsAfterCalendar, CutoffBeforeCalendar
<1>7. WrittenInstants' = WrittenInstants
  BY <1>6 DEF WrittenInstants
<1>8. \A c : InstantOf(c)' = InstantOf(c)
  BY <1>3, <1>4, <1>5 DEF InstantOf
<1>9. WrittenRow' = WrittenRow
  BY <1>1, <1>2, <1>7, <1>8 DEF WrittenRow
<1>10. \A f : Breaks(f)' = Breaks(f) /\ Refuses(f)' = Refuses(f)
  BY <1>1 DEF Breaks, Refuses, MinuteOf
<1>11. \A r : IsInverted(r)' = IsInverted(r)
  BY DEF IsInverted, Merged
<1> QED
  BY <1>1, <1>6, <1>9, <1>10, <1>11
     DEF IsDocumented, InheritsLongDuration, CityGrows, PageTooFar, BlankReason, HoldsNul

LEMMA ServeStep ==
  ASSUME InputInv, Serve
  PROVE  InputInv'
<1>1. /\ stage = "valid" /\ stage' \in {"failed", "refused", "ready"} /\ row' = WrittenRow
      /\ operation' = operation /\ input' = input /\ activity' = activity /\ plan' = plan
  BY DEF Serve
<1>2. ActivityInv'
  BY <1>1 DEF InputInv, ActivityInv
<1>3. RequestInv'
  BY <1>1, SameRequest DEF InputInv, RequestInv, Answers
<1>4. PipeInv'
  BY <1>1, SameRequest DEF InputInv, PipeInv
<1>5. ServiceInv'
  <2> SUFFICES ASSUME stage' = "ready"
               PROVE  /\ row' = WrittenRow'
                      /\ \A f \in DOMAIN input : ~Breaks(f)' /\ ~Refuses(f)'
                      /\ ~IsInverted(row)'
                      /\ operation' = "createSession" => ~CutoffPassed'
    BY <1>1 DEF ServiceInv
  <2>1. /\ \A f \in DOMAIN input : ~Breaks(f) /\ ~Refuses(f)
        /\ ~IsInverted(WrittenRow)
        /\ operation = "createSession" => ~CutoffPassed
    BY <1>1 DEF Serve, IsRefused, AssertParticipantRange
  <2>2. IsInverted(row)' = IsInverted(row')
    BY <1>1 DEF IsInverted, Merged
  <2> QED BY <1>1, <2>1, <2>2, SameRequest
<1>6. DocumentedRequestsDoNotFail'
  <2> SUFFICES ASSUME stage' = "failed", IsDocumented'
               PROVE  FALSE
    BY DEF DocumentedRequestsDoNotFail
  <2>1. PICK f \in DOMAIN input : Breaks(f)
    BY DEF Serve
  <2>2. IsDocumented
    BY <1>1, SameRequest
  <2>3. input[f] = Null /\ Dto[f].nullable
    BY <2>1, <2>2 DEF Breaks, IsDocumented
  <2>4. RequestInv /\ PipeInv
    BY DEF InputInv
  <2>5. f \in DOMAIN Table /\ Takes(f, Dto[f], Use(f), Table[f])
    BY <1>1, <2>3, <2>4, FieldFacts
  <2> QED BY <2>1, <2>3, <2>5 DEF Breaks, Takes
<1>7. StoredKeepsBounds'
  BY <1>1 DEF StoredKeepsBounds
<1>8. RowInv'
  <2> SUFFICES ASSUME NEW c \in DOMAIN WrittenRow PROVE c \in DOMAIN Table
    BY <1>1, SameRequest DEF RowInv
  <2>1. CASE operation \in Lists
    BY <2>1 DEF Lists, Operations, Op, Table, ListWindow, WrittenRow
  <2>2. CASE c = "normalizedCity" /\ operation \in Edits
    BY <2>2, EditOperations DEF Activities
  <2>3. RequestInv /\ stage # "idle"
    BY <1>1 DEF InputInv
  <2>4. CASE c \in WrittenInstants
    BY <2>4, InstantColumns
  <2> QED BY <2>1, <2>2, <2>3, <2>4, RowFields
<1>9. PlanInv'
  BY <1>1, SameNames DEF InputInv, PlanInv
<1> QED BY <1>2, <1>3, <1>4, <1>5, <1>6, <1>7, <1>8, <1>9 DEF InputInv

LEMMA AnswerStep ==
  ASSUME InputInv, Answer
  PROVE  InputInv'
<1>1. stage' = "idle" /\ operation' = "none" /\ activity' = activity /\ plan' = <<>>
  BY DEF Answer
<1>2. ActivityInv'
  BY <1>1 DEF InputInv, ActivityInv
<1> QED
  BY <1>1, <1>2 DEF InputInv, RequestInv, PipeInv, ServiceInv, PlanInv, RowInv,
                    DocumentedRequestsDoNotFail, StoredKeepsBounds

\* What is stored of an activity is within its columns again.
LEMMA StoredActivity ==
  ASSUME InputInv, stage = "ready", operation \in Edits,
         \A c \in DOMAIN row : Fits(Table[c], row[c]), NEW f \in Inherited
  PROVE  Merged(row, f) = Null \/ IsInColumn(Activities[f], Merged(row, f))
<1>1. /\ Table = Activities /\ Operations[operation].uses = MutableData /\ operation \notin Lists
      /\ DOMAIN Dto = DOMAIN CreateActivityDto
      /\ Dto[f].kind = "number" /\ f \in DOMAIN Activities /\ UseIn(MutableData, f) = "keep"
  BY EditOperations, ActivityColumns
<1>2. CASE f \in DOMAIN row
  <2>1. row = WrittenRow /\ RequestInv /\ PipeInv
    BY DEF InputInv, ServiceInv
  <2>2. f # "normalizedCity"
    BY DEF Inherited
  <2>3. f \in DOMAIN input /\ row[f] = Stored(f) /\ Stored(f) # Absent
    <3>1. f \notin WrittenInstants
      BY InstantColumns
    <3> QED BY <1>1, <1>2, <2>1, <2>2, <3>1, RowFields
  <2>4. Accepted(Dto[f], input[f]) /\ Stored(f) = StoredAs("keep", input[f], activity[f])
    BY <1>1, <2>1, <2>3, FieldFacts
  <2>5. row[f] = input[f]
    BY <2>3, <2>4, StoredValues
  <2>6. row[f] = Null \/ row[f].is = "number"
    BY <1>1, <2>3, <2>4, <2>5 DEF Accepted, Conforms
  <2>7. row[f].is = "number" => IsNumber(row[f])
    BY <2>4, <2>5, ValueCases DEF Accepted
  <2>8. row[f].is = "number" => Activities[f].min <= row[f].size /\ row[f].size <= Activities[f].max
    BY <1>1, <1>2 DEF Fits
  <2>9. row[f].is = "number" => IsInColumn(Activities[f], row[f])
    BY <2>7, <2>8, ValueFields DEF IsInColumn, IsNumber
  <2> QED BY <1>2, <2>6, <2>9 DEF Merged
<1>3. CASE f \notin DOMAIN row
  <2>1. Merged(row, f) \in {Null, activity[f]}
    BY <1>3 DEF Merged
  <2> QED BY <2>1 DEF InputInv, ActivityInv
<1> QED BY <1>2, <1>3

\* A row that the table takes keeps the bounds of its DTO.
LEMMA RowKeepsBounds ==
  ASSUME InputInv, stage = "ready", \A c \in DOMAIN row : Fits(Table[c], row[c]),
         NEW f \in DOMAIN row, f \in DOMAIN Dto
  PROVE  KeepsBounds(Dto[f], input[f], row[f])
<1>1. row = WrittenRow /\ RequestInv /\ PipeInv
  BY DEF InputInv, ServiceInv
<1>2. operation \notin Lists
  <2> SUFFICES ASSUME operation \in Lists PROVE FALSE
    OBVIOUS
  <2>1. DOMAIN WrittenRow = {"skip"}
    BY DEF WrittenRow
  <2>2. Dto \in {PageQueryDto, CatalogPageQueryDto}
    BY DEF Dto, Lists, Operations, Op
  <2> QED BY <1>1, <2>1, <2>2, PageFields
<1>3. f \in DOMAIN input /\ f \in DOMAIN Table /\ row[f] = Stored(f)
  <2>1. CASE f = "normalizedCity" /\ operation \in Edits
    <3>1. f \in DOMAIN CreateActivityDto
      BY <2>1, EditOperations
    <3> QED BY <2>1, <3>1 DEF CreateActivityDto
  <2>2. f \notin WrittenInstants
    BY InstantColumns
  <2> QED BY <1>1, <1>2, <2>1, <2>2, RowFields
<1> DEFINE use == UseIn(Operations[operation].uses, f)
<1>4. /\ Dto[f] \in Rules /\ Accepted(Dto[f], input[f]) /\ Takes(f, Dto[f], use, Table[f])
      /\ row[f] = StoredAs(use, input[f], activity[f])
  BY <1>1, <1>3, FieldFacts
<1>5. use = "effectiveValue" => activity[f] = Null \/ IsNumber(activity[f])
  <2> SUFFICES ASSUME use = "effectiveValue" PROVE activity[f] = Null \/ IsNumber(activity[f])
    OBVIOUS
  <2>1. f \in Inherited
    BY <1>4 DEF Takes, Inherited
  <2> QED BY <2>1 DEF InputInv, ActivityInv, IsInColumn, IsNumber
<1>6. Fits(Table[f], row[f])
  OBVIOUS
<1> HIDE DEF use
<1> QED BY <1>4, <1>5, <1>6, FieldKeepsBounds

\* Only the seven exceptions keep a documented row from its table.
LEMMA RowFits ==
  ASSUME InputInv, stage = "ready", IsDocumented,
         ~InheritsLongDuration, ~EndsAfterCalendar, ~CutoffBeforeCalendar, ~CityGrows,
         ~PageTooFar, ~BlankReason, ~HoldsNul,
         NEW c \in DOMAIN row
  PROVE  Fits(Table[c], row[c])
<1>1. ActivityInv /\ RequestInv /\ PipeInv /\ ServiceInv /\ PlanInv /\ row = WrittenRow
  BY DEF InputInv, ServiceInv
<1>2. CASE operation \in Lists
  BY <1>1, <1>2, WindowFits
<1>3. CASE operation \notin Lists
  <2>1. CASE /\ c \in DOMAIN input /\ c \in DOMAIN Table
             /\ WrittenRow[c] = Stored(c) /\ Stored(c) # Absent
    BY <1>1, <2>1, ServedFieldFits
  <2>2. CASE /\ c = "normalizedCity" /\ operation \in Edits
             /\ "city" \in DOMAIN input /\ WrittenRow[c] = LowerCase(Stored("city"))
    BY <1>1, <2>2, CityFits
  <2>3. CASE c \in WrittenInstants /\ WrittenRow[c] = InstantOf(c)
    BY <1>1, <2>3, InstantFits
  <2> QED BY <1>1, <1>3, <2>1, <2>2, <2>3, RowFields
<1> QED BY <1>2, <1>3

LEMMA StoreStep ==
  ASSUME InputInv, Store
  PROVE  InputInv'
<1>1. /\ stage = "ready" /\ stage' \in Answers
      /\ operation' = operation /\ input' = input /\ row' = row /\ Dto' = Dto /\ plan' = plan
  BY DEF Store, Answers, Dto
<1>2. stage' # "failed" => \A c \in DOMAIN row : Fits(Table[c], row[c])
  BY DEF Store
<1>3. ActivityInv'
  <2>1. CASE activity' = activity
    BY <2>1 DEF InputInv, ActivityInv
  <2>2. CASE activity' # activity
    <3>1. /\ stage' = "stored" /\ operation \in Edits
          /\ activity' = [f \in DOMAIN activity |-> Merged(row, f)]
      BY <2>2 DEF Store, Edits
    <3>2. DOMAIN activity = Inherited
      BY DEF InputInv, ActivityInv
    <3>3. \A f \in Inherited : activity'[f] = Null \/ IsInColumn(Activities[f], activity'[f])
      BY <1>1, <1>2, <3>1, <3>2, StoredActivity
    <3> QED BY <3>1, <3>2, <3>3 DEF ActivityInv
  <2> QED BY <2>1, <2>2
<1>4. RequestInv'
  BY <1>1 DEF InputInv, RequestInv, Answers
<1>5. PipeInv' /\ ServiceInv'
  BY <1>1 DEF InputInv, PipeInv, ServiceInv, Answers
<1>6. DocumentedRequestsDoNotFail'
  <2> SUFFICES ASSUME stage' = "failed", IsDocumented',
                      ~InheritsLongDuration', ~EndsAfterCalendar', ~CutoffBeforeCalendar',
                      ~CityGrows', ~PageTooFar', ~BlankReason', ~HoldsNul'
               PROVE  FALSE
    BY DEF DocumentedRequestsDoNotFail
  <2>1. activity' = activity
    BY DEF Store
  <2>2. /\ IsDocumented' = IsDocumented
        /\ InheritsLongDuration' = InheritsLongDuration /\ CityGrows' = CityGrows
        /\ PageTooFar' = PageTooFar /\ BlankReason' = BlankReason /\ HoldsNul' = HoldsNul
        /\ EndsAfterCalendar' = EndsAfterCalendar /\ CutoffBeforeCalendar' = CutoffBeforeCalendar
    BY <1>1, <2>1, SameRequest
  <2>3. \A c \in DOMAIN row : Fits(Table[c], row[c])
    BY <1>1, <2>2, RowFits
  <2>4. ~IsInverted(row)
    BY <1>1 DEF InputInv, ServiceInv
  <2>5. IsInverted(row) \/ \E c \in DOMAIN row : ~Fits(Table[c], row[c])
    BY DEF Store
  <2> QED BY <2>3, <2>4, <2>5
<1>7. StoredKeepsBounds'
  <2> SUFFICES ASSUME stage' = "stored"
               PROVE  \A f \in DOMAIN row \cap DOMAIN Dto : KeepsBounds(Dto[f], input[f], row[f])
    BY <1>1 DEF StoredKeepsBounds, KeepsBounds
  <2>1. \A c \in DOMAIN row : Fits(Table[c], row[c])
    BY <1>2
  <2> QED BY <1>1, <2>1, RowKeepsBounds
<1>8. RowInv'
  BY <1>1 DEF InputInv, RowInv, Table, Answers
<1>9. PlanInv'
  BY <1>1, SameNames DEF InputInv, PlanInv, Answers
<1> QED BY <1>3, <1>4, <1>5, <1>6, <1>7, <1>8, <1>9 DEF InputInv

LEMMA InvStep == InputInv /\ [InputNext]_inputVars => InputInv'
<1> SUFFICES ASSUME InputInv, [InputNext]_inputVars PROVE InputInv'
  OBVIOUS
<1>1. CASE InputNext
  BY <1>1, SendStep, ValidateStep, ServeStep, StoreStep, AnswerStep DEF InputNext
<1>2. CASE UNCHANGED inputVars
  <2>1. /\ operation' = operation /\ input' = input /\ activity' = activity
        /\ stage' = stage /\ row' = row /\ plan' = plan
    BY <1>2 DEF inputVars
  <2>2. ActivityInv' /\ RequestInv' /\ PipeInv'
    BY <2>1, SameRequest DEF InputInv, ActivityInv, RequestInv, PipeInv
  <2>3. IsInverted(row)' = IsInverted(row)
    BY <2>1 DEF IsInverted, Merged
  <2>4. ServiceInv'
    <3>1. /\ WrittenRow' = WrittenRow /\ CutoffPassed' = CutoffPassed
          /\ \A f : Breaks(f)' = Breaks(f) /\ Refuses(f)' = Refuses(f)
      BY <2>1, SameRequest
    <3>2. ServiceInv
      BY DEF InputInv
    <3> QED BY <2>1, <2>3, <3>1, <3>2 DEF ServiceInv
  <2>5. DocumentedRequestsDoNotFail'
    BY <2>1, SameRequest DEF InputInv, DocumentedRequestsDoNotFail
  <2>6. StoredKeepsBounds'
    BY <2>1, SameRequest DEF InputInv, StoredKeepsBounds
  <2>7. RowInv'
    BY <2>1, SameRequest DEF InputInv, RowInv
  <2>8. PlanInv'
    BY <2>1, SameNames DEF InputInv, PlanInv
  <2> QED BY <2>2, <2>4, <2>5, <2>6, <2>7, <2>8 DEF InputInv
<1> QED BY <1>1, <1>2

\* The inductive invariant holds in every reachable state.
THEOREM InputsStayTrue == InputSpec => []InputInv
BY InvInit, InvStep, PTL DEF InputSpec

\* The types follow from it.
LEMMA InvTypes == InputInv => InputTypeOK
<1> SUFFICES ASSUME InputInv PROVE InputTypeOK
  OBVIOUS
<1>1. \A f \in DOMAIN activity : activity[f] = Null \/ activity[f].is = "number"
  BY ValueFields DEF InputInv, ActivityInv, IsInColumn
<1>2. operation # "none" => DOMAIN input = DOMAIN Dto /\ DOMAIN row \subseteq DOMAIN Table
  BY DEF InputInv, RequestInv, RowInv
<1>3. operation \in DOMAIN Operations \cup {"none"}
  BY DEF InputInv, RequestInv
<1>4. stage \in {"idle", "sent", "valid", "ready"} \cup Answers
  BY DEF InputInv, RequestInv
<1>5. plan \in Plans \cup {<<>>}
  BY DEF InputInv, PlanInv
<1> QED BY <1>1, <1>2, <1>3, <1>4, <1>5 DEF InputTypeOK

\* The fields of a request, its row and the stored activity keep their types.
THEOREM InputTypes == InputSpec => []InputTypeOK
BY InvTypes, InputsStayTrue, PTL

\* Whatever the bounds of the columns are, a request within the documented API
\* ends in an internal error only for the seven kinds of request that the property
\* names: validation, service and table agree about everything else.
THEOREM DocumentedRequestsSucceed == InputSpec => []DocumentedRequestsDoNotFail
<1>1. InputInv => DocumentedRequestsDoNotFail
  BY DEF InputInv
<1> QED BY <1>1, InputsStayTrue, PTL

\* What a service stores is within the bounds that its DTO states.
THEOREM BoundsAreStored == InputSpec => []StoredKeepsBounds
<1>1. InputInv => StoredKeepsBounds
  BY DEF InputInv
<1> QED BY <1>1, InputsStayTrue, PTL

-----------------------------------------------------------------------------
(* The tokens. *)

Used == {t \in Tokens : tokens[t] = "used"}

(* A request that presents a token has one that was issued.  If it saw the  *)
(* account await verification, no operator has come between, and its token  *)
(* can still be used, then the account still awaits verification: only the  *)
(* use of a token changes that, and there is no other.                      *)
Presents(p) ==
  pc[p] \in {"resolve", "verify"} => token[p] \in Tokens /\ tokens[token[p]] # "none"

SawTheStatus(p) ==
  At(p, "verify") /\ seen[p] = "PENDING_VERIFICATION" /\ ~raced[p]
    /\ tokens[token[p]] = "active" => status = "PENDING_VERIFICATION"

IInv ==
  /\ TypeOK
  /\ OneLiveToken
  /\ IsFiniteSet(Used) /\ verified = Cardinality(Used)
  /\ \A p \in Requests : Presents(p) /\ SawTheStatus(p)

USE DEF Tokens, Statuses

LEMMA InitHolds == Init => IInv
<1> SUFFICES ASSUME Init PROVE IInv
  OBVIOUS
<1>1. TypeOK /\ OneLiveToken
  BY NamesAssumption DEF Init, TypeOK, OneLiveToken
<1>2. Used = {}
  BY DEF Init, Used
<1>3. IsFiniteSet(Used) /\ verified = Cardinality(Used)
  BY <1>2, FS_EmptySet DEF Init
<1>4. \A p \in Requests : Presents(p) /\ SawTheStatus(p)
  BY DEF Init, Presents, SawTheStatus, At
<1> QED
  BY <1>1, <1>3, <1>4 DEF IInv

(* Steps that touch neither the account nor the tokens: what they change of *)
(* p alone has to be right.                                                 *)
LEMMA QuietStep ==
  ASSUME IInv, TypeOK', UNCHANGED <<account, tokens>>,
         \A p \in Requests : Presents(p)' /\ SawTheStatus(p)'
  PROVE  IInv'
<1>1. UNCHANGED Used /\ OneLiveToken'
  BY DEF IInv, Used, OneLiveToken, account
<1> QED
  BY <1>1 DEF IInv, account

LEMMA IssueStep ==
  ASSUME IInv, NEW p \in Requests, Issue(p)
  PROVE  IInv'
<1> USE DEF Issue, End, Goto, At, account
<1>1. TypeOK'
  BY DEF IInv, TypeOK
<1>2. OneLiveToken'
  BY DEF IInv, TypeOK, OneLiveToken
<1>3. UNCHANGED Used
  <2>1. tokens[p] # "used"
    BY DEF IInv, TypeOK
  <2>2. \A t \in Tokens : tokens'[t] = "used" <=> tokens[t] = "used"
    BY <2>1 DEF IInv, TypeOK
  <2> QED
    BY <2>2 DEF Used
<1>4. ASSUME NEW q \in Requests
      PROVE  Presents(q)' /\ SawTheStatus(q)'
  <2>1. CASE q = p
    BY <2>1 DEF IInv, TypeOK, Presents, SawTheStatus
  <2>2. CASE q # p
    <3>1. pc'[q] = pc[q] /\ token'[q] = token[q]
      BY <2>2 DEF IInv, TypeOK
    <3>2. ASSUME pc[q] \in {"resolve", "verify"}
          PROVE  /\ token[q] \in Tokens /\ token[q] # p
                 /\ tokens'[token[q]] \notin {"none", "active"}
      <4>1. token[q] \in Tokens /\ tokens[token[q]] # "none" /\ tokens[p] = "none"
        BY <3>2 DEF IInv, TypeOK, Presents
      <4> QED
        BY <4>1 DEF IInv, TypeOK
    <3> QED
      BY <3>1, <3>2 DEF Presents, SawTheStatus
  <2> QED
    BY <2>1, <2>2
<1> QED
  BY <1>1, <1>2, <1>3, <1>4 DEF IInv

LEMMA VerifyStep ==
  ASSUME IInv, NEW p \in Requests, Verify(p)
  PROVE  IInv'
<1> USE DEF Verify, Refuse, End, Goto, At, account
<1> DEFINE t == token[p]
<1>1. t \in Tokens /\ tokens[t] # "none"
  BY DEF IInv, Presents
<1>2. TypeOK'
  BY <1>1 DEF IInv, TypeOK, Consumes, Activates
<1>3. CASE UNCHANGED <<account, tokens>>
  <2>1. \A q \in Requests : Presents(q)' /\ SawTheStatus(q)'
    BY <1>3 DEF IInv, TypeOK, Presents, SawTheStatus
  <2> QED
    BY <1>2, <1>3, <2>1, QuietStep
<1>4. CASE /\ Consumes(p)
           /\ tokens' = [tokens EXCEPT ![t] = "used"]
           /\ verified' = verified + 1
  <2>1. \A u \in Tokens : tokens'[u] # "active"
    BY <1>1, <1>4 DEF IInv, TypeOK, OneLiveToken, Consumes
  <2>2. OneLiveToken'
    BY <2>1 DEF OneLiveToken
  <2>3. t \notin Used /\ Used' = Used \cup {t}
    BY <1>1, <1>4 DEF IInv, TypeOK, Used, Consumes
  <2>4. IsFiniteSet(Used') /\ Cardinality(Used') = Cardinality(Used) + 1
    BY <2>3, FS_AddElement DEF IInv
  <2>5. verified' = Cardinality(Used')
    BY <1>4, <2>4 DEF IInv
  <2>6. ASSUME NEW q \in Requests
        PROVE  Presents(q)' /\ SawTheStatus(q)'
    <3>1. pc'[q] \in {"resolve", "verify"} => pc'[q] = pc[q]
      BY DEF IInv, TypeOK
    <3>2. ASSUME pc'[q] \in {"resolve", "verify"}
          PROVE  /\ token'[q] \in Tokens
                 /\ tokens'[token'[q]] \notin {"none", "active"}
      BY <1>1, <1>4, <2>1, <3>1, <3>2 DEF IInv, TypeOK, Presents
    <3> QED
      BY <3>2 DEF Presents, SawTheStatus
  <2> QED
    BY <1>2, <2>2, <2>4, <2>5, <2>6 DEF IInv
<1> QED
  BY <1>3, <1>4

LEMMA OperateStep ==
  ASSUME IInv, NEW s \in Statuses, Operate(s)
  PROVE  IInv'
<1>1. TypeOK'
  BY DEF IInv, TypeOK, Operate
<1>2. UNCHANGED Used /\ OneLiveToken'
  BY DEF IInv, Operate, Used, OneLiveToken
<1>3. \A q \in Requests : Presents(q)' /\ SawTheStatus(q)'
  BY DEF IInv, TypeOK, Operate, Presents, SawTheStatus, At
<1> QED
  BY <1>1, <1>2, <1>3 DEF IInv, Operate

LEMMA QuietSteps ==
  ASSUME IInv, NEW p \in Requests,
         AskForToken(p) \/ FindUser(p) \/ Resolve(p) \/ Abort(p)
  PROVE  IInv'
<1> USE DEF AskForToken, FindUser, Resolve, Abort, Refuse, End, Goto, At, account
<1>1. TypeOK'
  <2>1. CASE AskForToken(p)
    BY <2>1 DEF IInv, TypeOK
  <2>2. CASE FindUser(p)
    BY <2>2 DEF IInv, TypeOK
  <2>3. CASE Resolve(p)
    BY <2>3 DEF IInv, TypeOK
  <2>4. CASE Abort(p)
    BY <2>4 DEF IInv, TypeOK
  <2> QED
    BY <2>1, <2>2, <2>3, <2>4
<1>2. UNCHANGED <<account, tokens>>
  OBVIOUS
<1>3. ASSUME NEW q \in Requests
      PROVE  Presents(q)' /\ SawTheStatus(q)'
  <2>1. Presents(q)'
    BY DEF IInv, TypeOK, Presents
  <2>2. SawTheStatus(q)'
    BY DEF IInv, TypeOK, Presents, SawTheStatus
  <2> QED
    BY <2>1, <2>2
<1> QED
  BY <1>1, <1>2, <1>3, QuietStep

LEMMA PresentStep ==
  ASSUME IInv, NEW p \in Requests, NEW t \in Tokens, Present(p, t)
  PROVE  IInv'
<1> USE DEF Present, Goto, At, account
<1>1. TypeOK'
  BY DEF IInv, TypeOK
<1>2. \A q \in Requests : Presents(q)' /\ SawTheStatus(q)'
  BY DEF IInv, TypeOK, Presents, SawTheStatus
<1> QED
  BY <1>1, <1>2, QuietStep

LEMMA InvariantStep == IInv /\ [Next]_vars => IInv'
<1> SUFFICES ASSUME IInv, [Next]_vars PROVE IInv'
  OBVIOUS
<1>1. ASSUME NEW p \in Requests, Issue(p) PROVE IInv'
  BY <1>1, IssueStep
<1>2. ASSUME NEW p \in Requests, Verify(p) PROVE IInv'
  BY <1>2, VerifyStep
<1>3. ASSUME NEW s \in Statuses, Operate(s) PROVE IInv'
  BY <1>3, OperateStep
<1>4. ASSUME NEW p \in Requests,
             AskForToken(p) \/ FindUser(p) \/ Resolve(p) \/ Abort(p)
      PROVE  IInv'
  BY <1>4, QuietSteps
<1>5. ASSUME NEW p \in Requests, NEW t \in Tokens, Present(p, t) PROVE IInv'
  BY <1>5, PresentStep
<1>6. ASSUME NEW t \in Tokens, Expire(t) PROVE IInv'
  <2>1. TypeOK'
    BY <1>6 DEF IInv, TypeOK, Expire, account
  <2>2. \A q \in Requests : Presents(q)' /\ SawTheStatus(q)'
    BY <1>6 DEF IInv, Expire, account, Presents, SawTheStatus, At
  <2> QED
    BY <1>6, <2>1, <2>2, QuietStep DEF Expire
<1>7. CASE UNCHANGED vars
  <2>1. UNCHANGED Used
    BY <1>7 DEF vars, Used
  <2> QED
    BY <1>7, <2>1 DEF IInv, TypeOK, OneLiveToken, Presents, SawTheStatus, At, vars, account
<1> QED
  BY <1>1, <1>2, <1>3, <1>4, <1>5, <1>6, <1>7 DEF Next

(* IInv is inductive.                                                       *)
THEOREM VerificationInvariantHolds == Spec => []IInv
BY InitHolds, InvariantStep, PTL DEF Spec

(* However many requests ask for tokens, one of them at most can be used.   *)
THEOREM TokensSucceedEachOther == Spec => []OneLiveToken
<1>1. IInv => OneLiveToken
  BY DEF IInv
<1> QED
  BY <1>1, VerificationInvariantHolds, PTL

(* The account is verified once for every token that was used.              *)
THEOREM TokensAreUsedOnce == Spec => []UsedOnce
<1>1. IInv => UsedOnce
  BY DEF IInv, UsedOnce, Used
<1> QED
  BY <1>1, VerificationInvariantHolds, PTL

(* Only an account that awaits verification, or did when an operator came   *)
(* between, is activated by a request.                                      *)
THEOREM RequestsRespectOperators == Spec => OperatorsDecide
<1> DEFINE Respects ==
      \A p \in Requests :
        At(p, "verify") /\ pc'[p] = "done" /\ status' # status =>
          /\ status' = "ACTIVE"
          /\ status # "DEACTIVATED"
          /\ status = "PENDING_VERIFICATION" \/ raced[p]
<1>1. ASSUME IInv, [Next]_vars, NEW p \in Requests,
             At(p, "verify"), pc'[p] = "done", status' # status
      PROVE  /\ status' = "ACTIVE"
             /\ status # "DEACTIVATED"
             /\ status = "PENDING_VERIFICATION" \/ raced[p]
  <2>1. \E q \in Requests : Verify(q)
    BY <1>1 DEF Next, vars, account, AskForToken, FindUser, Issue, Present, Resolve, Abort, Refuse,
               End, Goto, At, Operate, Expire, IInv, TypeOK
  <2>2. PICK q \in Requests : Verify(q)
    BY <2>1
  <2>3. q = p
    BY <1>1, <2>2 DEF Verify, Refuse, End, Goto, At, IInv, TypeOK
  <2>4. /\ status # "DEACTIVATED" /\ Consumes(p)
        /\ status' = IF Activates(p) THEN "ACTIVE" ELSE status
    BY <1>1, <2>2, <2>3 DEF Verify, Refuse, account
  <2>5. status = "PENDING_VERIFICATION" \/ raced[p]
    BY <1>1, <2>4 DEF IInv, SawTheStatus, Consumes, Activates
  <2> QED
    BY <1>1, <2>4, <2>5
<1>2. IInv /\ [Next]_vars => [Respects]_vars
  BY <1>1
<1> QED
  BY <1>2, VerificationInvariantHolds, PTL DEF Spec, OperatorsDecide

=============================================================================
