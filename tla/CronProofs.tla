----------------------------- MODULE CronProofs -----------------------------
(***************************************************************************)
(* Theorems about Cron for every length of the minute, the hour and the    *)
(* day, the real ones among them, every expression, every instant and      *)
(* every offset.                                                           *)
(***************************************************************************)
EXTENDS Cron, WellFoundedInduction, TLAPS

-----------------------------------------------------------------------------
(* Division, and least elements. *)

LEMMA DivisionIs ==
  ASSUME NEW b \in Nat \ {0}, NEW a \in Int
  PROVE  a \div b \in Int /\ a % b \in 0 .. b - 1 /\ a = (a \div b) * b + (a % b)
OBVIOUS

LEMMA Quotient ==
  ASSUME NEW b \in Nat \ {0}, NEW q \in Int, NEW r \in 0 .. b - 1, NEW a, a = q * b + r
  PROVE  a \div b = q /\ a % b = r
OBVIOUS

LEMMA DivisionGrows ==
  ASSUME NEW b \in Nat \ {0}, NEW a \in Int, NEW c \in Int, a <= c
  PROVE  a \div b <= c \div b
OBVIOUS

LEMMA LeastNatural ==
  ASSUME NEW S \in SUBSET Nat, S # {}
  PROVE  \E n \in S : \A m \in S : n <= m
<1> DEFINE R == OpToRel(<, Nat)
<1>1. IsWellFoundedOn(R, Nat)
  BY NatLessThanWellFounded
<1>2. \A x, y \in Nat : <<y, x>> \in R <=> y < x
  BY DEF OpToRel
<1> HIDE DEF R
<1>3. PICK x \in S : \A y \in S : ~(<<y, x>> \in R)
  BY <1>1, WFMin
<1>4. ASSUME NEW m \in S
      PROVE  x <= m
  <2>1. ~(m < x)
    BY <1>2, <1>3
  <2> QED
    BY <2>1
<1> QED
  BY <1>4

(* A set of integers that is bounded below has a least element. *)
LEMMA LeastInteger ==
  ASSUME NEW S \in SUBSET Int, S # {}, NEW b \in Int, \A s \in S : b <= s
  PROVE  \E n \in S : \A m \in S : n <= m
<1> DEFINE T == {n \in Nat : b + n \in S}
<1>1. T # {}
  <2>1. PICK s \in S : TRUE
    OBVIOUS
  <2>2. s - b \in Nat /\ b + (s - b) = s
    BY <2>1
  <2> QED
    BY <2>2
<1>2. PICK n \in T : \A m \in T : n <= m
  BY <1>1, LeastNatural
<1>3. ASSUME NEW m \in S
      PROVE  b + n <= m
  <2>1. m - b \in Nat /\ b + (m - b) = m
    OBVIOUS
  <2>2. n <= m - b
    BY <1>2, <2>1
  <2> QED
    BY <1>2, <2>1, <2>2
<1> QED
  BY <1>2, <1>3

LEMMA MinIs ==
  ASSUME NEW S \in SUBSET Int, S # {}, NEW b \in Int, \A s \in S : b <= s
  PROVE  Min(S) \in S /\ \A s \in S : Min(S) <= s
<1>1. \E n \in S : \A m \in S : n <= m
  BY LeastInteger
<1> QED
  BY <1>1 DEF Min

-----------------------------------------------------------------------------
(* The calendar. *)

LEMMA YearHolds ==
  ASSUME NEW n \in Int, 0 <= n, n <= 146096
  PROVE  LET y == (n - n \div 1460 + n \div 36524 - n \div 146096) \div 365
         IN  /\ 0 <= n - (365 * y + y \div 4 - y \div 100)
             /\ n - (365 * y + y \div 4 - y \div 100) <= 365
BY SMTT(60)

LEMMA DayOfYearIs ==
  ASSUME NEW day \in Int
  PROVE  DayOfYear(day) \in 0 .. 365
<1>1. DayOfEra(day) \in Int /\ 0 <= DayOfEra(day) /\ DayOfEra(day) <= 146096
  BY DivisionIs DEF DayOfEra
<1>2. /\ 0 <= DayOfYear(day)
      /\ DayOfYear(day) <= 365
  BY <1>1, YearHolds DEF DayOfYear, YearOfEra
<1>3. DayOfYear(day) \in Int
  BY <1>1 DEF DayOfYear, YearOfEra
<1> QED
  BY <1>2, <1>3

LEMMA DateIs ==
  ASSUME NEW day \in Int
  PROVE  /\ getUTCMonth(day) \in 1 .. 12
         /\ getUTCDate(day) \in 1 .. 31
         /\ getUTCDay(day) \in 0 .. 6
<1>1. PICK d \in 0 .. 365 : d = DayOfYear(day)
  BY DayOfYearIs
<1>2. March(day) = (5 * d + 2) \div 153
  BY <1>1 DEF March
<1>3. March(day) \in 0 .. 11
  BY <1>2
<1>4. d - (153 * ((5 * d + 2) \div 153) + 2) \div 5 + 1 \in 1 .. 31
  OBVIOUS
<1>5. getUTCDate(day) \in 1 .. 31
  BY <1>1, <1>2, <1>4 DEF getUTCDate
<1> QED
  BY <1>3, <1>5 DEF getUTCMonth, getUTCDay

-----------------------------------------------------------------------------
(* The clock. *)

LEMMA SizesAre ==
  ASSUME CronAssumption
  PROVE  /\ Hours \in Nat \ {0} /\ Minutes \in Nat \ {0} /\ Seconds \in Nat \ {0}
         /\ Hour \in Nat \ {0} /\ Day \in Nat \ {0}
<1>1. Hours \in Nat \ {0} /\ Minutes \in Nat \ {0} /\ Seconds \in Nat \ {0}
  BY DEF CronAssumption
<1>2. Hour \in Nat \ {0}
  BY <1>1 DEF Hour
<1>3. Day \in Nat \ {0}
  BY <1>1, <1>2 DEF Day
<1> QED
  BY <1>1, <1>2, <1>3

(* The parts of an instant are those it is made of ... *)
LEMMA ClockReads ==
  ASSUME CronAssumption, NEW day \in Int,
         NEW h \in 0 .. Hours - 1, NEW m \in 0 .. Minutes - 1, NEW s \in 0 .. Seconds - 1,
         NEW t, t = day * Day + h * Hour + m * Seconds + s
  PROVE  /\ t \in Int
         /\ t \div Day = day /\ (t \div Hour) % Hours = h
         /\ (t \div Seconds) % Minutes = m /\ t % Seconds = s
<1>1. /\ Hours \in Nat \ {0} /\ Minutes \in Nat \ {0} /\ Seconds \in Nat \ {0}
      /\ Hour \in Nat \ {0} /\ Day \in Nat \ {0}
  BY SizesAre
<1>2. Hour = Minutes * Seconds /\ Day = Hours * Hour
  BY DEF Hour, Day
<1>3. m * Seconds + s \in 0 .. Hour - 1
  <2>1. m * Seconds <= (Minutes - 1) * Seconds /\ 0 <= m * Seconds /\ m * Seconds \in Int
    BY <1>1
  <2>2. (Minutes - 1) * Seconds = Hour - Seconds
    BY <1>1, <1>2
  <2> QED
    BY <1>1, <2>1, <2>2
<1>4. h * Hour + (m * Seconds + s) \in 0 .. Day - 1
  <2>1. h * Hour <= (Hours - 1) * Hour /\ 0 <= h * Hour /\ h * Hour \in Int
    BY <1>1
  <2>2. (Hours - 1) * Hour = Day - Hour
    BY <1>1, <1>2
  <2> QED
    BY <1>1, <1>3, <2>1, <2>2
<1>5. t = day * Day + (h * Hour + (m * Seconds + s))
  BY <1>1
<1>6. t \div Day = day
  BY <1>1, <1>4, <1>5, Quotient
<1>7. PICK r \in 0 .. Hour - 1, v \in Int : r = m * Seconds + s /\ v = day * Hours + h
  BY <1>1, <1>3
<1>8. t \div Hour = v /\ v % Hours = h
  <2>1. t = v * Hour + r
    BY <1>1, <1>2, <1>5, <1>7
  <2>2. t \div Hour = v
    BY <1>1, <2>1, Quotient
  <2>3. v % Hours = h
    BY <1>1, <1>7, Quotient
  <2> QED
    BY <2>2, <2>3
<1>9. PICK u \in Int : u = v * Minutes + m
  BY <1>1
<1>10. t \div Seconds = u /\ t % Seconds = s /\ u % Minutes = m
  <2>1. v * Hour = (v * Minutes) * Seconds
    BY <1>1, <1>2
  <2>2. t = u * Seconds + s
    BY <1>1, <1>2, <1>5, <1>7, <1>9, <2>1
  <2>3. t \div Seconds = u /\ t % Seconds = s
    BY <1>1, <2>2, Quotient
  <2>4. u % Minutes = m
    BY <1>1, <1>9, Quotient
  <2> QED
    BY <2>3, <2>4
<1> QED
  BY <1>1, <1>5, <1>6, <1>8, <1>10

(* ... and make it up again. *)
LEMMA ClockMakes ==
  ASSUME CronAssumption, NEW t \in Int
  PROVE  /\ t \div Day \in Int /\ (t \div Hour) % Hours \in 0 .. Hours - 1
         /\ (t \div Seconds) % Minutes \in 0 .. Minutes - 1 /\ t % Seconds \in 0 .. Seconds - 1
         /\ t = (t \div Day) * Day + ((t \div Hour) % Hours) * Hour
                  + ((t \div Seconds) % Minutes) * Seconds + (t % Seconds)
<1>1. /\ Hours \in Nat \ {0} /\ Minutes \in Nat \ {0} /\ Seconds \in Nat \ {0}
      /\ Hour \in Nat \ {0} /\ Day \in Nat \ {0}
  BY SizesAre
<1>2. PICK s \in 0 .. Seconds - 1, u \in Int : t = u * Seconds + s
  BY <1>1, DivisionIs
<1>3. PICK m \in 0 .. Minutes - 1, v \in Int : u = v * Minutes + m
  BY <1>1, DivisionIs
<1>4. PICK h \in 0 .. Hours - 1, d \in Int : v = d * Hours + h
  BY <1>1, DivisionIs
<1>5. t = d * Day + h * Hour + m * Seconds + s
  BY <1>1, <1>2, <1>3, <1>4 DEF Hour, Day
<1>6. /\ t \div Day = d /\ (t \div Hour) % Hours = h
      /\ (t \div Seconds) % Minutes = m /\ t % Seconds = s
  BY <1>5, ClockReads
<1> QED
  BY <1>5, <1>6

-----------------------------------------------------------------------------
(* Fields. *)

LEMMA SpecsAre ==
  ASSUME CronAssumption
  PROVE  /\ Fields = {"seconds", "minutes", "hours", "dom", "month", "dow"}
         /\ \A field \in Fields : FIELD_SPECS[field].min \in Nat /\ FIELD_SPECS[field].max \in Int
         /\ FIELD_SPECS["seconds"].min = 0 /\ FIELD_SPECS["seconds"].max = Seconds - 1
         /\ FIELD_SPECS["minutes"].min = 0 /\ FIELD_SPECS["minutes"].max = Minutes - 1
         /\ FIELD_SPECS["hours"].min = 0 /\ FIELD_SPECS["hours"].max = Hours - 1
         /\ FIELD_SPECS["dom"].min = 1 /\ FIELD_SPECS["dom"].max = 31
         /\ FIELD_SPECS["month"].min = 1 /\ FIELD_SPECS["month"].max = 12
         /\ FIELD_SPECS["dow"].min = 0 /\ FIELD_SPECS["dow"].max = 7
<1>1. Fields = {"seconds", "minutes", "hours", "dom", "month", "dow"}
  BY DEF Fields, FIELD_SPECS
<1>2. /\ FIELD_SPECS["seconds"].min = 0 /\ FIELD_SPECS["seconds"].max = Seconds - 1
      /\ FIELD_SPECS["minutes"].min = 0 /\ FIELD_SPECS["minutes"].max = Minutes - 1
      /\ FIELD_SPECS["hours"].min = 0 /\ FIELD_SPECS["hours"].max = Hours - 1
      /\ FIELD_SPECS["dom"].min = 1 /\ FIELD_SPECS["dom"].max = 31
      /\ FIELD_SPECS["month"].min = 1 /\ FIELD_SPECS["month"].max = 12
      /\ FIELD_SPECS["dow"].min = 0 /\ FIELD_SPECS["dow"].max = 7
  BY DEF FIELD_SPECS
<1>3. Seconds - 1 \in Int /\ Minutes - 1 \in Int /\ Hours - 1 \in Int
  BY SizesAre
<1> QED
  BY <1>1, <1>2, <1>3

(* The values of an accepted field are those the field names. *)
LEMMA FieldHolds ==
  ASSUME CronAssumption, NEW e \in Accepted, NEW field \in Fields, NEW v,
         v \in FIELD_SPECS[field].min .. FIELD_SPECS[field].max
  PROVE  v \in parseField(e, field) <=> Names(e, field, v)
<1>1. PICK spec : spec = FIELD_SPECS[field]
  OBVIOUS
<1>2. spec.min \in Nat /\ spec.max \in Int /\ v \in spec.min .. spec.max
  BY <1>1, SpecsAre
<1>3. \A part \in e[field] : part \in Part
  BY DEF CronAssumption, Accepted
<1>4. \A part \in e[field] :
        part.range = "*" \/ (spec.min <= part.lo /\ part.lo <= part.hi /\ part.hi <= spec.max)
  BY <1>1 DEF Accepted
<1>5. ASSUME NEW part \in e[field]
      PROVE  v \in expandPart(part, spec) <=>
               LET first == IF part.range = "*" THEN spec.min ELSE part.lo
                   open  == part.range = "*" \/ (part.range = "one" /\ part.step # NoStep)
               IN  /\ v >= first
                   /\ open \/ v <= part.hi
                   /\ part.step = NoStep \/ (v - first) % part.step = 0
  <2>1. part.lo \in Nat /\ part.hi \in Nat /\ part.step \in Nat
    BY <1>3 DEF Part
  <2>2. PICK first \in Nat : first = IF part.range = "*" THEN spec.min ELSE part.lo
    BY <1>2, <2>1
  <2>3. (v - first) % 1 = 0
    BY <1>2
  <2> QED
    BY <1>2, <1>4, <2>1, <2>2, <2>3 DEF expandPart, NoStep
<1> QED
  BY <1>1, <1>5 DEF parseField, Names

(* Nothing else is in it. *)
LEMMA FieldWithin ==
  ASSUME CronAssumption, NEW e \in Accepted, NEW field \in Fields
  PROVE  parseField(e, field) \subseteq FIELD_SPECS[field].min .. FIELD_SPECS[field].max
<1>1. PICK spec : spec = FIELD_SPECS[field]
  OBVIOUS
<1>2. spec.min \in Nat /\ spec.max \in Int
  BY <1>1, SpecsAre
<1>3. \A part \in e[field] : part \in Part
  BY DEF CronAssumption, Accepted
<1>4. \A part \in e[field] :
        part.range = "*" \/ (spec.min <= part.lo /\ part.lo <= part.hi /\ part.hi <= spec.max)
  BY <1>1 DEF Accepted
<1>5. ASSUME NEW part \in e[field]
      PROVE  expandPart(part, spec) \subseteq spec.min .. spec.max
  <2>1. part.lo \in Nat /\ part.hi \in Nat
    BY <1>3 DEF Part
  <2> QED
    BY <1>2, <1>4, <2>1 DEF expandPart
<1> QED
  BY <1>1, <1>5 DEF parseField

-----------------------------------------------------------------------------
(* The instants of a day. *)

(* What the parsed expression holds, in the ranges the clock and the calendar have. *)
LEMMA ParsedTimes ==
  ASSUME CronAssumption, NEW e \in Accepted
  PROVE  /\ parseCron(e).hours \subseteq 0 .. Hours - 1
         /\ parseCron(e).minutes \subseteq 0 .. Minutes - 1
         /\ parseCron(e).seconds \subseteq 0 .. Seconds - 1
         /\ \A v \in 0 .. Hours - 1 : v \in parseCron(e).hours <=> Names(e, "hours", v)
         /\ \A v \in 0 .. Minutes - 1 : v \in parseCron(e).minutes <=> Names(e, "minutes", v)
         /\ \A v \in 0 .. Seconds - 1 : v \in parseCron(e).seconds <=> Names(e, "seconds", v)
<1>1. /\ parseCron(e).hours = parseField(e, "hours")
      /\ parseCron(e).minutes = parseField(e, "minutes")
      /\ parseCron(e).seconds = parseField(e, "seconds")
  BY DEF parseCron
<1>2. "hours" \in Fields /\ "minutes" \in Fields /\ "seconds" \in Fields
  BY SpecsAre
<1>3. /\ 0 .. Hours - 1 = FIELD_SPECS["hours"].min .. FIELD_SPECS["hours"].max
      /\ 0 .. Minutes - 1 = FIELD_SPECS["minutes"].min .. FIELD_SPECS["minutes"].max
      /\ 0 .. Seconds - 1 = FIELD_SPECS["seconds"].min .. FIELD_SPECS["seconds"].max
  BY SpecsAre
<1>4. /\ parseField(e, "hours") \subseteq 0 .. Hours - 1
      /\ parseField(e, "minutes") \subseteq 0 .. Minutes - 1
      /\ parseField(e, "seconds") \subseteq 0 .. Seconds - 1
  BY <1>2, <1>3, FieldWithin
<1>5. \A v \in 0 .. Hours - 1 : v \in parseField(e, "hours") <=> Names(e, "hours", v)
  BY <1>2, <1>3, FieldHolds
<1>6. \A v \in 0 .. Minutes - 1 : v \in parseField(e, "minutes") <=> Names(e, "minutes", v)
  BY <1>2, <1>3, FieldHolds
<1>7. \A v \in 0 .. Seconds - 1 : v \in parseField(e, "seconds") <=> Names(e, "seconds", v)
  BY <1>2, <1>3, FieldHolds
<1> QED
  BY <1>1, <1>4, <1>5, <1>6, <1>7

(* A day matches when the expression names its date or its day of the week. *)
LEMMA ParsedDay ==
  ASSUME CronAssumption, NEW e \in Accepted, NEW day \in Int
  PROVE  /\ getUTCMonth(day) \in parseCron(e).months <=> Names(e, "month", getUTCMonth(day))
         /\ matchesDay(parseCron(e), day) <=> NamesDay(e, day)
<1>1. PICK month \in 1 .. 12, date \in 1 .. 31, weekday \in 0 .. 6 :
        month = getUTCMonth(day) /\ date = getUTCDate(day) /\ weekday = getUTCDay(day)
  BY DateIs
<1>2. "month" \in Fields /\ "dom" \in Fields /\ "dow" \in Fields
  BY SpecsAre
<1>3. /\ 1 .. 12 = FIELD_SPECS["month"].min .. FIELD_SPECS["month"].max
      /\ 1 .. 31 = FIELD_SPECS["dom"].min .. FIELD_SPECS["dom"].max
      /\ 0 .. 7 = FIELD_SPECS["dow"].min .. FIELD_SPECS["dow"].max
  BY SpecsAre
<1>4. month \in parseField(e, "month") <=> Names(e, "month", month)
  BY <1>2, <1>3, FieldHolds
<1>5. date \in parseField(e, "dom") <=> Names(e, "dom", date)
  BY <1>2, <1>3, FieldHolds
<1>6. \A v \in 0 .. 7 : v \in parseField(e, "dow") <=> Names(e, "dow", v)
  BY <1>2, <1>3, FieldHolds
<1>7. weekday \in {d % 7 : d \in parseField(e, "dow")} <=>
        Names(e, "dow", weekday) \/ (weekday = 0 /\ Names(e, "dow", 7))
  <2>1. parseField(e, "dow") \subseteq 0 .. 7
    BY <1>2, <1>3, FieldWithin
  <2>2. \A d \in 0 .. 7 : weekday = d % 7 <=> d = weekday \/ (weekday = 0 /\ d = 7)
    OBVIOUS
  <2>3. weekday \in 0 .. 7 /\ 7 \in 0 .. 7
    OBVIOUS
  <2>4. weekday \in {d % 7 : d \in parseField(e, "dow")} <=>
          weekday \in parseField(e, "dow") \/ (weekday = 0 /\ 7 \in parseField(e, "dow"))
    BY <2>1, <2>2, <2>3
  <2> QED
    BY <1>6, <2>3, <2>4
<1>8. Star \in {e.dom, e.dow} <=> e.dom = Star \/ e.dow = Star
  OBVIOUS
<1>9. e.dom = Star => Names(e, "dom", date)
  <2>1. e.dom = e["dom"]
    OBVIOUS
  <2> QED
    BY <1>3, <2>1, SpecsAre DEF Names, Star, NoStep
<1>10. e.dow = Star => Names(e, "dow", weekday)
  <2>1. e.dow = e["dow"]
    OBVIOUS
  <2> QED
    BY <1>3, <2>1, SpecsAre DEF Names, Star, NoStep
<1> QED
  BY <1>1, <1>4, <1>5, <1>7, <1>8, <1>9, <1>10 DEF parseCron, matchesDay, NamesDay

(* The instants of a day in the parsed expression are those at which the   *)
(* expression fires on that day.                                           *)
LEMMA DayFires ==
  ASSUME CronAssumption, NEW e \in Accepted, NEW offset \in Int, NEW day \in Int, NEW t
  PROVE  t \in OnDay(parseCron(e), day, offset) <=>
           t \in Int /\ (t + offset) \div Day = day /\ Fires(e, t, offset)
<1>1. ASSUME t \in OnDay(parseCron(e), day, offset)
      PROVE  t \in Int /\ (t + offset) \div Day = day /\ Fires(e, t, offset)
  <2>1. PICK h \in parseCron(e).hours, m \in parseCron(e).minutes, s \in parseCron(e).seconds :
          t = day * Day + h * Hour + m * Seconds + s - offset
    BY <1>1 DEF OnDay
  <2>2. getUTCMonth(day) \in parseCron(e).months /\ matchesDay(parseCron(e), day)
    BY <1>1 DEF OnDay
  <2>3. h \in 0 .. Hours - 1 /\ m \in 0 .. Minutes - 1 /\ s \in 0 .. Seconds - 1
    BY ParsedTimes
  <2>4. PICK local \in Int : local = day * Day + h * Hour + m * Seconds + s
    BY <2>3, SizesAre
  <2>5. t \in Int /\ t + offset = local
    <3>1. PICK x \in Int : x = day * Day + h * Hour + m * Seconds
      BY <2>3, SizesAre
    <3>2. t = x + (s - offset) /\ local = x + s
      BY <2>1, <2>4, <3>1
    <3> QED
      BY <2>3, <3>1, <3>2
  <2>6. /\ local \div Day = day /\ (local \div Hour) % Hours = h
        /\ (local \div Seconds) % Minutes = m /\ local % Seconds = s
    BY <2>3, <2>4, ClockReads
  <2>7. Names(e, "seconds", s) /\ Names(e, "minutes", m) /\ Names(e, "hours", h)
    BY <2>3, ParsedTimes
  <2>8. Names(e, "month", getUTCMonth(day)) /\ NamesDay(e, day)
    BY <2>2, ParsedDay
  <2> QED
    BY <2>5, <2>6, <2>7, <2>8 DEF Fires
<1>2. ASSUME t \in Int, (t + offset) \div Day = day, Fires(e, t, offset)
      PROVE  t \in OnDay(parseCron(e), day, offset)
  <2>1. PICK local \in Int : local = t + offset
    BY <1>2
  <2>2. PICK h \in 0 .. Hours - 1, m \in 0 .. Minutes - 1, s \in 0 .. Seconds - 1 :
          /\ h = (local \div Hour) % Hours /\ m = (local \div Seconds) % Minutes /\ s = local % Seconds
          /\ local = day * Day + h * Hour + m * Seconds + s
    <3>1. local \div Day = day
      BY <1>2, <2>1
    <3> QED
      BY <3>1, ClockMakes
  <2>3. /\ Names(e, "seconds", s) /\ Names(e, "minutes", m) /\ Names(e, "hours", h)
        /\ Names(e, "month", getUTCMonth(day)) /\ NamesDay(e, day)
    BY <1>2, <2>1, <2>2 DEF Fires
  <2>4. h \in parseCron(e).hours /\ m \in parseCron(e).minutes /\ s \in parseCron(e).seconds
    BY <2>3, ParsedTimes
  <2>5. getUTCMonth(day) \in parseCron(e).months /\ matchesDay(parseCron(e), day)
    BY <2>3, ParsedDay
  <2>6. t = day * Day + h * Hour + m * Seconds + s - offset
    <3>1. PICK x \in Int : x = day * Day + h * Hour + m * Seconds
      BY <2>2, SizesAre
    <3>2. local = x + s /\ t = x + (s - offset)
      BY <1>2, <2>1, <2>2, <3>1
    <3> QED
      BY <3>1, <3>2
  <2> QED
    BY <2>4, <2>5, <2>6 DEF OnDay
<1> QED
  BY <1>1, <1>2

-----------------------------------------------------------------------------
(* The search. *)

LaterOn(e, from, offset, day) == {t \in OnDay(parseCron(e), day, offset) : t > from}

(* The search stops at the first day that has an instant left, and takes   *)
(* the least one.                                                          *)
LEMMA SearchIs ==
  ASSUME CronAssumption, NEW e \in Accepted, NEW from \in Int, NEW offset \in Int,
         StartDay(from, offset) \in Int
  PROVE  LET first == StartDay(from, offset)
             days  == first .. first + MAX_SEARCH_DAYS
         IN  \/ /\ nextFireTime(parseCron(e), from, offset) = Never
                /\ \A day \in days : LaterOn(e, from, offset, day) = {}
             \/ \E day \in days :
                  /\ nextFireTime(parseCron(e), from, offset) = Min(LaterOn(e, from, offset, day))
                  /\ LaterOn(e, from, offset, day) # {}
                  /\ \A d \in first .. day - 1 : LaterOn(e, from, offset, d) = {}
<1> DEFINE first == StartDay(from, offset)
           found(day) == LaterOn(e, from, offset, day) # {}
           days == first .. first + MAX_SEARCH_DAYS
           stop == CHOOSE day \in days : found(day) /\ \A d \in first .. day - 1 : ~found(d)
<1>1. nextFireTime(parseCron(e), from, offset) =
        IF \E day \in days : found(day) THEN Min(LaterOn(e, from, offset, stop)) ELSE Never
  BY Zenon DEF nextFireTime, LaterOn
<1>2. CASE ~\E day \in days : found(day)
  BY <1>1, <1>2
<1>3. CASE \E day \in days : found(day)
  <2>1. MAX_SEARCH_DAYS \in Nat
    BY DEF MAX_SEARCH_DAYS
  <2>2. PICK day \in {d \in days : found(d)} : \A d \in {x \in days : found(x)} : day <= d
    <3>1. {d \in days : found(d)} \in SUBSET Int /\ {d \in days : found(d)} # {}
      BY <1>3
    <3>2. \A d \in {x \in days : found(x)} : first <= d
      BY <2>1
    <3> HIDE DEF found
    <3> QED
      BY <3>1, <3>2, LeastInteger
  <2>3. \A d \in first .. day - 1 : ~found(d)
    <3>1. ASSUME NEW d \in first .. day - 1
          PROVE  d \in days /\ ~(day <= d)
      BY <2>1
    <3> HIDE DEF found
    <3> QED
      BY <2>2, <3>1
  <2>4. stop \in days /\ found(stop) /\ \A d \in first .. stop - 1 : ~found(d)
    <3> HIDE DEF found
    <3> QED
      BY <2>2, <2>3
  <2> QED
    BY <1>1, <1>3, <2>4
<1> QED
  BY <1>2, <1>3

(* Every next fire time is the first instant after `from` at which the     *)
(* expression fires: on the real clock and calendar, in every offset, at   *)
(* the end of every hour, day, month and leap year.                        *)
THEOREM NextFireTimeIsFirst ==
  ASSUME CronAssumption
  PROVE  NextIsFirst
<1> SUFFICES ASSUME NEW e \in Accepted, NEW from \in Instants, NEW offset \in Offsets, NEW next,
                    next = nextFireTime(parseCron(e), from, offset), next # Never
             PROVE  /\ next > from /\ Fires(e, next, offset)
                    /\ \A t \in from + 1 .. next - 1 : ~Fires(e, t, offset)
  BY DEF NextIsFirst
<1>1. from \in Int /\ offset \in Int /\ Day \in Nat \ {0}
  BY SizesAre DEF CronAssumption
<1>2. PICK first \in Int : first = StartDay(from, offset)
  BY <1>1 DEF StartDay
<1>3. PICK day \in first .. first + MAX_SEARCH_DAYS :
        /\ next = Min(LaterOn(e, from, offset, day))
        /\ LaterOn(e, from, offset, day) # {}
        /\ \A d \in first .. day - 1 : LaterOn(e, from, offset, d) = {}
  BY <1>1, <1>2, SearchIs
<1>4. day \in Int
  BY DEF MAX_SEARCH_DAYS
<1>5. \A d \in Int : \A t : t \in LaterOn(e, from, offset, d) <=>
        t \in Int /\ t > from /\ (t + offset) \div Day = d /\ Fires(e, t, offset)
  BY <1>1, DayFires DEF LaterOn
<1>6. next \in LaterOn(e, from, offset, day) /\ \A t \in LaterOn(e, from, offset, day) : next <= t
  <2>1. LaterOn(e, from, offset, day) \in SUBSET Int /\ \A t \in LaterOn(e, from, offset, day) : from <= t
    BY <1>1, <1>4, <1>5
  <2> QED
    BY <1>1, <1>3, <2>1, MinIs
<1>7. ASSUME NEW t \in from + 1 .. next - 1, Fires(e, t, offset)
      PROVE  FALSE
  <2>1. next \in Int /\ t \in Int /\ t > from /\ t < next
    BY <1>1, <1>4, <1>5, <1>6
  <2>2. PICK d \in Int : d = (t + offset) \div Day
    BY <1>1, <2>1
  <2>3. first <= d /\ d <= day
    <3>1. from + offset <= t + offset /\ t + offset <= next + offset
      BY <1>1, <2>1
    <3>2. first = (from + offset) \div Day /\ day = (next + offset) \div Day
      BY <1>2, <1>4, <1>5, <1>6 DEF StartDay
    <3> QED
      BY <1>1, <2>1, <2>2, <3>1, <3>2, DivisionGrows
  <2>4. t \in LaterOn(e, from, offset, d)
    BY <1>5, <1>7, <2>1, <2>2
  <2>5. CASE d = day
    BY <1>6, <2>1, <2>4, <2>5
  <2>6. CASE d # day
    BY <1>3, <1>4, <2>3, <2>4, <2>6
  <2> QED
    BY <2>5, <2>6
<1> QED
  BY <1>1, <1>4, <1>5, <1>6, <1>7

-----------------------------------------------------------------------------
(* The calendar from the other side: every date comes, and when.  Years    *)
(* begin in March here, so that a leap day is the last of its year.        *)

YearStart(y)  == 365 * y + (y \div 4) - (y \div 100) + (y \div 400)
HasLeapDay(y) == (y + 1) % 4 = 0 /\ ((y + 1) % 100 # 0 \/ (y + 1) % 400 = 0)

LEMMA YearOfDay ==
  ASSUME NEW y \in Int, 0 <= y, y <= 399, NEW k \in Int, 0 <= k, k <= 365,
         NEW l \in Int, NEW c \in Int, 4 * l <= y, y < 4 * l + 4, 100 * c <= y, y < 100 * c + 100,
         k < 365 \/ (y + 1 = 4 * l + 4 /\ (y + 1 # 100 * c + 100 \/ y = 399)),
         NEW n \in Int, n = 365 * y + l - c + k
  PROVE  0 <= n /\ n <= 146096 /\ (n - n \div 1460 + n \div 36524 - n \div 146096) \div 365 = y
BY SMTT(60)

LEMMA YearOfEraIs ==
  ASSUME NEW day, NEW n \in Int, DayOfEra(day) = n, NEW y \in Int,
         \A x \in Int : x = n => (x - x \div 1460 + x \div 36524 - x \div 146096) \div 365 = y
  PROVE  YearOfEra(day) = y
BY DEF YearOfEra

LEMMA DayIs ==
  ASSUME NEW year \in Int, NEW k \in 0 .. 365, k < 365 \/ HasLeapDay(year), NEW day, day = YearStart(year) + k
  PROVE  DayOfYear(day) = k
<1>1. PICK era \in Int, y \in Int : year = era * 400 + y /\ 0 <= y /\ y <= 399
  <2>1. /\ year \div 400 \in Int /\ year % 400 \in Int /\ 0 <= year % 400 /\ year % 400 <= 399
        /\ year = (year \div 400) * 400 + (year % 400)
    OBVIOUS
  <2> QED
    BY <2>1, Zenon
<1>2. PICK l \in Int, c \in Int : l = y \div 4 /\ c = y \div 100
  BY <1>1
<1>3. 4 * l <= y /\ y < 4 * l + 4 /\ 100 * c <= y /\ y < 100 * c + 100
  BY <1>2
<1>4. PICK n \in Int : n = 365 * y + l - c + k
  BY <1>2
<1>5. year \div 4 = 100 * era + l /\ year \div 100 = 4 * era + c /\ year \div 400 = era
  BY <1>1, <1>2
<1>6. day = era * 146097 + n
  BY <1>1, <1>4, <1>5 DEF YearStart
<1>7. k < 365 \/ (y + 1 = 4 * l + 4 /\ (y + 1 # 100 * c + 100 \/ y = 399))
  BY <1>1, <1>2, <1>3 DEF HasLeapDay
<1>8. 0 <= n /\ n <= 146096 /\ (n - n \div 1460 + n \div 36524 - n \div 146096) \div 365 = y
  <2>1. 0 <= k /\ k <= 365 /\ k \in Int
    OBVIOUS
  <2> QED
    BY <1>1, <1>3, <1>4, <1>7, <2>1, YearOfDay
<1>9. DayOfEra(day) = n
  BY <1>6, <1>8 DEF DayOfEra
<1>10. YearOfEra(day) = y
  <2>1. \A x \in Int : x = n => (x - x \div 1460 + x \div 36524 - x \div 146096) \div 365 = y
    BY <1>8
  <2> QED
    BY <1>9, <2>1, YearOfEraIs
<1> QED
  BY <1>2, <1>4, <1>9, <1>10 DEF DayOfYear

(* Every day is one of a year. *)
LEMMA YearOf ==
  ASSUME NEW day \in Int
  PROVE  \E year \in Int, k \in 0 .. 365 : day = YearStart(year) + k
<1>1. PICK era, n \in Int : 0 <= n /\ n <= 146096 /\ day = era * 146097 + n
  <2>1. /\ day \div 146097 \in Int /\ day % 146097 \in Int /\ 0 <= day % 146097 /\ day % 146097 <= 146096
        /\ day = (day \div 146097) * 146097 + (day % 146097)
    OBVIOUS
  <2> QED
    BY <2>1, SMT
<1>2. PICK y \in Int : y = (n - n \div 1460 + n \div 36524 - n \div 146096) \div 365
  BY <1>1
<1>3. 0 <= y /\ y <= 399
  BY <1>1, <1>2
<1>4. PICK k \in 0 .. 365 : k = n - (365 * y + y \div 4 - y \div 100)
  BY <1>1, <1>2, <1>3, YearHolds
<1>5. PICK year \in Int : year = era * 400 + y
  BY <1>1
<1>6. year \div 4 = 100 * era + (y \div 4) /\ year \div 100 = 4 * era + (y \div 100) /\ year \div 400 = era
  BY <1>3, <1>5
<1>7. day = YearStart(year) + k
  BY <1>1, <1>4, <1>5, <1>6 DEF YearStart
<1> QED
  BY <1>7

(* The days of a year are counted from 0; day 365 is there in a leap year. *)
YearDays == 0 .. 365
InYear(year, k) == k < 365 \/ HasLeapDay(year)

(* k is the number of a date in its year. *)
MonthNumber(month) == IF month >= 3 THEN month - 3 ELSE month + 9
Numbers(k, month, date) ==
  LET m == MonthNumber(month)
  IN  (5 * k + 2) \div 153 = m /\ k = (153 * m + 2) \div 5 + date - 1

LEMMA NumberIs ==
  ASSUME NEW month \in 1 .. 12, NEW date \in 1 .. Lengths[month]
  PROVE  date \in Int /\ \E k \in YearDays : Numbers(k, month, date)
<1>1. /\ Lengths[1] = 31 /\ Lengths[2] = 29 /\ Lengths[3] = 31 /\ Lengths[4] = 30
      /\ Lengths[5] = 31 /\ Lengths[6] = 30 /\ Lengths[7] = 31 /\ Lengths[8] = 31
      /\ Lengths[9] = 30 /\ Lengths[10] = 31 /\ Lengths[11] = 30 /\ Lengths[12] = 31
  BY DEF Lengths
<1>2. \/ month = 1 \/ month = 2 \/ month = 3 \/ month = 4 \/ month = 5 \/ month = 6
      \/ month = 7 \/ month = 8 \/ month = 9 \/ month = 10 \/ month = 11 \/ month = 12
  OBVIOUS
<1>3. PICK d \in Int : d = date /\ 1 <= d
  BY <1>1, <1>2
<1>4. PICK m \in 0 .. 11 : m = MonthNumber(month) /\ m = IF month >= 3 THEN month - 3 ELSE month + 9
  BY DEF MonthNumber
<1>5. PICK k \in Int : k = (153 * m + 2) \div 5 + d - 1
  BY <1>3, <1>4
<1>6. k \in 0 .. 365 /\ (5 * k + 2) \div 153 = m
  BY <1>1, <1>2, <1>3, <1>4, <1>5
<1>7. Numbers(k, month, date)
  BY <1>3, <1>4, <1>5, <1>6 DEF Numbers
<1> QED
  BY <1>3, <1>6, <1>7 DEF YearDays

LEMMA DateOf ==
  ASSUME NEW day, NEW k \in Int, DayOfYear(day) = k, NEW m \in Int, March(day) = m
  PROVE  getUTCDate(day) = k - (153 * m + 2) \div 5 + 1
BY SMT DEF getUTCDate

(* A date of a year falls on the day of that number. *)
LEMMA DateFalls ==
  ASSUME NEW year \in Int, NEW month \in 1 .. 12, NEW date \in Int, NEW k \in YearDays,
         Numbers(k, month, date), InYear(year, k), NEW day, day = YearStart(year) + k
  PROVE  getUTCMonth(day) = month /\ getUTCDate(day) = date
<1>1. PICK m \in 0 .. 11 : m = MonthNumber(month)
  BY DEF MonthNumber
<1>2. PICK q \in Int : q = (153 * m + 2) \div 5
  BY <1>1
<1>3. k \in 0 .. 365 /\ k \in Int /\ (k < 365 \/ HasLeapDay(year))
  BY DEF YearDays, InYear
<1>4. (5 * k + 2) \div 153 = m /\ k = q + date - 1
  BY <1>1, <1>2 DEF Numbers
<1>5. DayOfYear(day) = k
  BY <1>3, DayIs
<1>6. March(day) = m
  BY <1>3, <1>4, <1>5 DEF March
<1>7. getUTCDate(day) = k - (153 * m + 2) \div 5 + 1
  BY <1>3, <1>5, <1>6, DateOf
<1>8. k - q + 1 = date
  BY <1>2, <1>3, <1>4
<1>9. getUTCMonth(day) = month
  BY <1>1, <1>6 DEF getUTCMonth, MonthNumber
<1> QED
  BY <1>2, <1>7, <1>8, <1>9

(* One of eight years in a row has a leap day. *)
LEMMA LeapDayComes ==
  ASSUME NEW year \in Int
  PROVE  \E z \in Int : year <= z /\ z <= year + 7 /\ HasLeapDay(z)
<1>1. PICK z \in Int : year <= z /\ z <= year + 3 /\ (z + 1) % 4 = 0
  <2>1. year - (year % 4) + 3 \in Int /\ year <= year - (year % 4) + 3 /\ year - (year % 4) + 3 <= year + 3
    OBVIOUS
  <2>2. (year - (year % 4) + 3 + 1) % 4 = 0
    OBVIOUS
  <2> QED
    BY <2>1, <2>2
<1>2. CASE HasLeapDay(z)
  BY <1>1, <1>2
<1>3. CASE ~HasLeapDay(z)
  <2>1. (z + 1) % 100 = 0
    BY <1>1, <1>3 DEF HasLeapDay
  <2>2. PICK w \in Int : w = z + 4
    BY <1>1
  <2>3. (w + 1) % 4 = 0 /\ (w + 1) % 100 # 0
    BY <1>1, <2>1, <2>2
  <2>4. HasLeapDay(w)
    BY <2>3 DEF HasLeapDay
  <2> QED
    BY <1>1, <2>2, <2>4
<1> QED
  BY <1>2, <1>3

LEMMA YearsLast ==
  ASSUME NEW y \in Int, NEW z \in Int, y <= z, z <= y + 8
  PROVE  \E s, r \in Int : /\ s = YearStart(y) /\ r = YearStart(z)
                          /\ 365 * (z - y) <= r - s + 1 /\ r - s <= 365 * (z - y) + 3
<1>1. PICK a, b, c \in Int : a = y \div 4 /\ b = y \div 100 /\ c = y \div 400
  OBVIOUS
<1>2. PICK d, e, f \in Int : d = z \div 4 /\ e = z \div 100 /\ f = z \div 400
  OBVIOUS
<1>3. a <= d /\ d <= a + 2 /\ b <= e /\ e <= b + 1 /\ c <= f /\ f <= c + 1
  BY <1>1, <1>2
<1>4. PICK s, r \in Int : s = 365 * y + a - b + c /\ r = 365 * z + d - e + f
  OBVIOUS
<1>5. s = YearStart(y) /\ r = YearStart(z)
  BY <1>1, <1>2, <1>4 DEF YearStart
<1> QED
  BY <1>3, <1>4, <1>5

(* From any day on, every date comes within the days that are searched, and *)
(* but for the leap day within two years, in each of which it comes.        *)
LEMMA DateComes ==
  ASSUME NEW first \in Int
  PROVE  /\ \E year \in Int : \A k \in 0 .. 364 :
              YearStart(year) + k \in first + 1 .. first + MAX_SEARCH_DAYS
         /\ \E year \in Int :
              HasLeapDay(year) /\ YearStart(year) + 365 \in first + 1 .. first + MAX_SEARCH_DAYS
<1>1. PICK y \in Int, kf \in 0 .. 365 : first = YearStart(y) + kf
  BY YearOf
<1>2. \E year \in Int : \A k \in 0 .. 364 :
        YearStart(year) + k \in first + 1 .. first + MAX_SEARCH_DAYS
  <2>1. PICK z \in Int : z = y + 2
    OBVIOUS
  <2>2. y <= z /\ z <= y + 8 /\ 365 * (z - y) = 730
    BY <2>1
  <2>3. PICK s, r \in Int : /\ s = YearStart(y) /\ r = YearStart(z)
                           /\ 365 * (z - y) <= r - s + 1 /\ r - s <= 365 * (z - y) + 3
    BY <2>2, YearsLast, Zenon
  <2>4. \A k \in 0 .. 364 : r + k \in first + 1 .. first + MAX_SEARCH_DAYS
    BY <1>1, <2>2, <2>3 DEF MAX_SEARCH_DAYS
  <2> QED
    BY <2>3, <2>4
<1>3. \E year \in Int :
        HasLeapDay(year) /\ YearStart(year) + 365 \in first + 1 .. first + MAX_SEARCH_DAYS
  <2>1. PICK b \in Int : b = IF kf < 365 THEN y ELSE y + 1
    OBVIOUS
  <2>2. PICK z \in Int : b <= z /\ z <= b + 7 /\ HasLeapDay(z)
    BY LeapDayComes
  <2>3. y <= z /\ z <= y + 8 /\ (z = y \/ y + 1 <= z) /\ (kf = 365 => y + 1 <= z) /\ (kf < 365 => z <= y + 7)
    BY <2>1, <2>2
  <2>4. PICK s, r \in Int : /\ s = YearStart(y) /\ r = YearStart(z)
                           /\ 365 * (z - y) <= r - s + 1 /\ r - s <= 365 * (z - y) + 3
    BY <2>3, YearsLast, Zenon
  <2>5. z = y => r = s
    BY <2>4
  <2>6. r + 365 \in first + 1 .. first + MAX_SEARCH_DAYS
    <3>1. first + 1 <= r + 365 /\ r + 365 <= first + 2928 /\ first = s + kf
      BY <1>1, <2>3, <2>4, <2>5
    <3> QED
      BY <3>1 DEF MAX_SEARCH_DAYS
  <2> QED
    BY <2>2, <2>4, <2>6
<1> QED
  BY <1>2, <1>3

-----------------------------------------------------------------------------
(* An expression that can fire has a day within those that are searched. *)

(* No field is empty. *)
LEMMA FieldNamesOne ==
  ASSUME CronAssumption, NEW e \in Accepted, NEW field \in Fields
  PROVE  \E v \in FIELD_SPECS[field].min .. FIELD_SPECS[field].max :
           v \in parseField(e, field) /\ Names(e, field, v)
<1>1. PICK spec : spec = FIELD_SPECS[field]
  OBVIOUS
<1>2. spec.min \in Nat /\ spec.max \in Int /\ spec.min <= spec.max
  BY <1>1, SpecsAre, SizesAre
<1>3. PICK part \in e[field] : part \in Part
  BY DEF CronAssumption, Accepted
<1>4. part.range = "*" \/ (spec.min <= part.lo /\ part.lo <= part.hi /\ part.hi <= spec.max)
  BY <1>1 DEF Accepted
<1>5. PICK v \in Nat : v = IF part.range = "*" THEN spec.min ELSE part.lo
  BY <1>2, <1>3 DEF Part
<1>6. v \in spec.min .. spec.max
  BY <1>2, <1>3, <1>4, <1>5 DEF Part
<1>7. Names(e, field, v)
  <2>1. part.step \in Nat /\ part.hi \in Nat
    BY <1>3 DEF Part
  <2>2. part.step = NoStep \/ (v - v) % part.step = 0
    BY <1>5, <2>1 DEF NoStep
  <2> QED
    BY <1>1, <1>4, <1>5, <2>1, <2>2 DEF Names
<1> QED
  BY <1>1, <1>6, <1>7, FieldHolds

(* No month is longer than its length. *)
LEMMA DateFits ==
  ASSUME NEW day \in Int
  PROVE  getUTCMonth(day) \in 1 .. 12 /\ getUTCDate(day) \in 1 .. Lengths[getUTCMonth(day)]
<1>1. /\ Lengths[1] = 31 /\ Lengths[2] = 29 /\ Lengths[3] = 31 /\ Lengths[4] = 30
      /\ Lengths[5] = 31 /\ Lengths[6] = 30 /\ Lengths[7] = 31 /\ Lengths[8] = 31
      /\ Lengths[9] = 30 /\ Lengths[10] = 31 /\ Lengths[11] = 30 /\ Lengths[12] = 31
  BY DEF Lengths
<1>2. PICK k \in 0 .. 365 : k = DayOfYear(day)
  BY DayOfYearIs
<1>3. PICK m \in 0 .. 11 : m = (5 * k + 2) \div 153
  OBVIOUS
<1>4. March(day) = m
  BY <1>2, <1>3 DEF March
<1>5. PICK date \in 1 .. 31 : date = k - (153 * m + 2) \div 5 + 1
  BY <1>3
<1>6. getUTCDate(day) = date
  BY <1>2, <1>4, <1>5 DEF getUTCDate
<1>7. PICK month \in 1 .. 12 : month = IF m < 10 THEN m + 3 ELSE m - 9
  OBVIOUS
<1>8. getUTCMonth(day) = month
  BY <1>4, <1>7 DEF getUTCMonth
<1>9. /\ month = 2 => date <= 29
      /\ month = 4 \/ month = 6 \/ month = 9 \/ month = 11 => date <= 30
  BY <1>3, <1>5, <1>7
<1>10. \/ month = 1 \/ month = 2 \/ month = 3 \/ month = 4 \/ month = 5 \/ month = 6
       \/ month = 7 \/ month = 8 \/ month = 9 \/ month = 10 \/ month = 11 \/ month = 12
  OBVIOUS
<1>11. date \in 1 .. Lengths[month]
  BY <1>1, <1>9, <1>10
<1> QED
  BY <1>6, <1>8, <1>11

(* Every day of the year comes within the days that are searched. *)
LEMMA NumberComes ==
  ASSUME NEW first \in Int, NEW k \in YearDays
  PROVE  \E year, day \in Int :
           InYear(year, k) /\ day = YearStart(year) + k /\ first + 1 <= day /\ day <= first + MAX_SEARCH_DAYS
<1>1. k \in 0 .. 365
  BY DEF YearDays
<1>2. CASE k < 365
  <2>1. PICK year \in Int : \A n \in 0 .. 364 : YearStart(year) + n \in first + 1 .. first + MAX_SEARCH_DAYS
    BY DateComes
  <2>2. YearStart(year) + k \in first + 1 .. first + MAX_SEARCH_DAYS
    BY <1>1, <1>2, <2>1
  <2> QED
    BY <1>2, <2>2 DEF MAX_SEARCH_DAYS, InYear
<1>3. CASE k = 365
  <2>1. PICK year \in Int :
          HasLeapDay(year) /\ YearStart(year) + 365 \in first + 1 .. first + MAX_SEARCH_DAYS
    BY DateComes
  <2> QED
    BY <1>3, <2>1 DEF MAX_SEARCH_DAYS, InYear
<1> QED
  BY <1>1, <1>2, <1>3

(* A date that the expression names is one of them ... *)
LEMMA NamedDateComes ==
  ASSUME NEW first \in Int, NEW month \in 1 .. 12, NEW date \in 1 .. Lengths[month]
  PROVE  \E day \in Int : /\ first + 1 <= day /\ day <= first + MAX_SEARCH_DAYS
                          /\ getUTCMonth(day) = month /\ getUTCDate(day) = date
<1>1. date \in Int
  BY NumberIs, Zenon
<1>2. PICK k \in YearDays : Numbers(k, month, date)
  BY NumberIs, Zenon
<1>3. PICK year, day \in Int :
        InYear(year, k) /\ day = YearStart(year) + k /\ first + 1 <= day /\ day <= first + MAX_SEARCH_DAYS
  BY NumberComes, Zenon
<1>4. getUTCMonth(day) = month /\ getUTCDate(day) = date
  <2>1. InYear(year, k) /\ day = YearStart(year) + k
    BY <1>3, Zenon
  <2>2. getUTCMonth(day) = month
    BY <1>1, <1>2, <2>1, DateFalls, Zenon
  <2>3. getUTCDate(day) = date
    BY <1>1, <1>2, <2>1, DateFalls, SMT
  <2> QED
    BY <2>2, <2>3
<1> QED
  BY <1>3, <1>4, Zenon

(* ... and so does every weekday of a month, in the first week of the month. *)
LEMMA WeekdayComes ==
  ASSUME NEW first \in Int, NEW month \in 1 .. 12, NEW weekday \in 0 .. 6
  PROVE  \E day \in Int : /\ first + 1 <= day /\ day <= first + MAX_SEARCH_DAYS
                          /\ getUTCMonth(day) = month /\ getUTCDay(day) = weekday
<1>1. PICK year \in Int : \A k \in 0 .. 364 : YearStart(year) + k \in first + 1 .. first + MAX_SEARCH_DAYS
  BY DateComes
<1>2. PICK m \in 0 .. 11 : m = MonthNumber(month)
  BY DEF MonthNumber
<1>3. PICK b \in 0 .. 337 : b = (153 * m + 2) \div 5
  OBVIOUS
<1>4. PICK start \in Int : start = YearStart(year) + b
  <2>1. YearStart(year) \in Int
    BY DEF YearStart
  <2> QED
    BY <2>1
<1>5. PICK date \in 1 .. 7 : (start + date - 1 + 3) % 7 = weekday
  <2>1. PICK r \in 0 .. 6, q \in Int : start + 3 = 7 * q + r
    <3>1. (start + 3) % 7 \in 0 .. 6 /\ (start + 3) \div 7 \in Int
          /\ start + 3 = 7 * ((start + 3) \div 7) + ((start + 3) % 7)
      OBVIOUS
    <3> QED
      BY <3>1
  <2>2. CASE r <= weekday
    <3>1. (start + (weekday - r + 1) - 1 + 3) % 7 = weekday /\ weekday - r + 1 \in 1 .. 7
      BY <2>1, <2>2
    <3> QED
      BY <3>1
  <2>3. CASE weekday < r
    <3>1. (start + (weekday - r + 8) - 1 + 3) % 7 = weekday /\ weekday - r + 8 \in 1 .. 7
      BY <2>1, <2>3
    <3> QED
      BY <3>1
  <2> QED
    BY <2>2, <2>3
<1>6. PICK k \in 0 .. 364 : k = b + date - 1
  BY <1>3
<1>7. PICK day \in Int : day = YearStart(year) + k /\ first + 1 <= day /\ day <= first + MAX_SEARCH_DAYS
  BY <1>1 DEF MAX_SEARCH_DAYS
<1>8. day = start + date - 1
  BY <1>4, <1>6, <1>7 DEF YearStart
<1>9. getUTCDay(day) = weekday
  BY <1>5, <1>8 DEF getUTCDay
<1>10. Numbers(k, month, date)
  <2>1. (5 * k + 2) \div 153 = m /\ k = (153 * m + 2) \div 5 + date - 1
    BY <1>3, <1>6
  <2> QED
    BY <1>2, <2>1, Zenon DEF Numbers
<1>11. getUTCMonth(day) = month
  <2>1. k \in YearDays /\ InYear(year, k) /\ date \in Int
    BY DEF YearDays, InYear
  <2>2. day = YearStart(year) + k
    BY <1>7
  <2> QED
    BY <1>10, <2>1, <2>2, DateFalls, Zenon
<1> QED
  BY <1>7, <1>9, <1>11

-----------------------------------------------------------------------------
(* A day that the expression names has instants, and the search finds it. *)

LEMMA DayHasInstants ==
  ASSUME CronAssumption, NEW e \in Accepted, NEW offset \in Int, NEW day \in Int,
         Names(e, "month", getUTCMonth(day)), NamesDay(e, day)
  PROVE  OnDay(parseCron(e), day, offset) # {}
<1>1. "hours" \in Fields /\ "minutes" \in Fields /\ "seconds" \in Fields
  BY SpecsAre
<1>2. /\ 0 .. Hours - 1 = FIELD_SPECS["hours"].min .. FIELD_SPECS["hours"].max
      /\ 0 .. Minutes - 1 = FIELD_SPECS["minutes"].min .. FIELD_SPECS["minutes"].max
      /\ 0 .. Seconds - 1 = FIELD_SPECS["seconds"].min .. FIELD_SPECS["seconds"].max
  BY SpecsAre
<1>3. PICK h \in 0 .. Hours - 1 : Names(e, "hours", h)
  BY <1>1, <1>2, FieldNamesOne
<1>4. PICK m \in 0 .. Minutes - 1 : Names(e, "minutes", m)
  BY <1>1, <1>2, FieldNamesOne
<1>5. PICK s \in 0 .. Seconds - 1 : Names(e, "seconds", s)
  BY <1>1, <1>2, FieldNamesOne
<1>6. PICK local \in Int : local = day * Day + h * Hour + m * Seconds + s
  BY SizesAre
<1>7. /\ local \div Day = day /\ (local \div Hour) % Hours = h
      /\ (local \div Seconds) % Minutes = m /\ local % Seconds = s
  BY <1>6, ClockReads
<1>8. PICK t \in Int : t + offset = local
  <2>1. local - offset \in Int /\ (local - offset) + offset = local
    OBVIOUS
  <2> QED
    BY <2>1
<1>9. (t + offset) \div Day = day /\ Fires(e, t, offset)
  BY <1>3, <1>4, <1>5, <1>7, <1>8 DEF Fires
<1> QED
  BY <1>9, DayFires

LEMMA StarNames ==
  ASSUME CronAssumption, NEW e \in Accepted
  PROVE  /\ e.dom = Star => \A date \in 1 .. 31 : Names(e, "dom", date)
         /\ e.dow = Star => \A weekday \in 0 .. 6 : Names(e, "dow", weekday)
<1>1. /\ FIELD_SPECS["dom"].min = 1 /\ FIELD_SPECS["dow"].min = 0
  BY SpecsAre
<1>2. ASSUME e.dom = Star, NEW date \in 1 .. 31
      PROVE  Names(e, "dom", date)
  <2>1. e["dom"] = Star
    BY <1>2
  <2> QED
    BY <1>1, <2>1 DEF Names, Star, NoStep
<1>3. ASSUME e.dow = Star, NEW weekday \in 0 .. 6
      PROVE  Names(e, "dow", weekday)
  <2>1. e["dow"] = Star
    BY <1>3
  <2> QED
    BY <1>1, <2>1 DEF Names, Star, NoStep
<1> QED
  BY <1>2, <1>3

LEMMA CanFireComes ==
  ASSUME CronAssumption, NEW e \in Accepted, CanFire(e), NEW first \in Int
  PROVE  \E day \in Int : /\ first + 1 <= day /\ day <= first + MAX_SEARCH_DAYS
                          /\ Names(e, "month", getUTCMonth(day)) /\ NamesDay(e, day)
<1>1. "month" \in Fields /\ "dom" \in Fields /\ "dow" \in Fields
  BY SpecsAre
<1>2. /\ 1 .. 12 = FIELD_SPECS["month"].min .. FIELD_SPECS["month"].max
      /\ 1 .. 31 = FIELD_SPECS["dom"].min .. FIELD_SPECS["dom"].max
      /\ 0 .. 7 = FIELD_SPECS["dow"].min .. FIELD_SPECS["dow"].max
  BY SpecsAre
<1>3. CASE e.dow = Star
  <2>1. PICK month \in 1 .. 12 :
          Names(e, "month", month) /\ \E d \in 1 .. Lengths[month] : Names(e, "dom", d)
    BY <1>3 DEF CanFire
  <2>2. PICK date \in 1 .. Lengths[month] : Names(e, "dom", date)
    BY <2>1
  <2>3. PICK day \in Int : /\ first + 1 <= day /\ day <= first + MAX_SEARCH_DAYS
                           /\ getUTCMonth(day) = month /\ getUTCDate(day) = date
    BY NamedDateComes, Zenon
  <2>4. Names(e, "dow", getUTCDay(day))
    BY <1>3, StarNames, DateIs
  <2>5. NamesDay(e, day)
    BY <2>2, <2>3, <2>4, Zenon DEF NamesDay
  <2> QED
    BY <2>1, <2>3, <2>5
<1>4. CASE e.dow # Star
  <2>1. PICK month \in 1 .. 12 : Names(e, "month", month)
    BY <1>1, <1>2, FieldNamesOne
  <2>2. PICK v \in 0 .. 7 : Names(e, "dow", v)
    BY <1>1, <1>2, FieldNamesOne
  <2>3. PICK weekday \in 0 .. 6 : v = weekday \/ (v = 7 /\ weekday = 0)
    OBVIOUS
  <2>4. PICK day \in Int : /\ first + 1 <= day /\ day <= first + MAX_SEARCH_DAYS
                           /\ getUTCMonth(day) = month /\ getUTCDay(day) = weekday
    BY WeekdayComes, Zenon
  <2>5. Names(e, "dow", getUTCDay(day)) \/ (getUTCDay(day) = 0 /\ Names(e, "dow", 7))
    BY <2>2, <2>3, <2>4
  <2>6. e.dom = Star => Names(e, "dom", getUTCDate(day))
    BY StarNames, DateIs
  <2>7. Star \in {e.dom, e.dow} => e.dom = Star
    BY <1>4
  <2>8. NamesDay(e, day)
    BY <2>5, <2>6, <2>7, Zenon DEF NamesDay
  <2> QED
    BY <2>1, <2>4, <2>8
<1> QED
  BY <1>3, <1>4

(* Whether there is a next fire time does not depend on the instant, the   *)
(* offset or the clock: the search never gives up on an expression that    *)
(* fires, not even on 29 February across the year 2100, and never finds    *)
(* an instant for one that names no day of any year, such as 30 February.  *)
THEOREM NeverIsNever ==
  ASSUME CronAssumption
  PROVE  NeverMeansNever
<1> SUFFICES ASSUME NEW e \in Accepted, NEW from \in Instants, NEW offset \in Offsets
             PROVE  nextFireTime(parseCron(e), from, offset) = Never <=> ~CanFire(e)
  BY DEF NeverMeansNever
<1>1. from \in Nat /\ offset \in Int /\ Day \in Nat \ {0}
  BY SizesAre DEF CronAssumption
<1>2. PICK first \in Int : first = StartDay(from, offset) /\ first = (from + offset) \div Day
  BY <1>1 DEF StartDay
<1>3. \A d \in Int : \A t : t \in LaterOn(e, from, offset, d) <=>
        t \in Int /\ t > from /\ (t + offset) \div Day = d /\ Fires(e, t, offset)
  BY <1>1, DayFires DEF LaterOn
<1>4. \/ /\ nextFireTime(parseCron(e), from, offset) = Never
         /\ \A day \in first .. first + MAX_SEARCH_DAYS : LaterOn(e, from, offset, day) = {}
      \/ \E day \in Int : nextFireTime(parseCron(e), from, offset) \in LaterOn(e, from, offset, day)
  <2>1. \/ /\ nextFireTime(parseCron(e), from, offset) = Never
           /\ \A day \in first .. first + MAX_SEARCH_DAYS : LaterOn(e, from, offset, day) = {}
        \/ \E day \in first .. first + MAX_SEARCH_DAYS :
             /\ nextFireTime(parseCron(e), from, offset) = Min(LaterOn(e, from, offset, day))
             /\ LaterOn(e, from, offset, day) # {}
    <3>1. from \in Int /\ StartDay(from, offset) \in Int
      BY <1>1, <1>2
    <3>2. PICK start : start = StartDay(from, offset)
      OBVIOUS
    <3>3. \/ /\ nextFireTime(parseCron(e), from, offset) = Never
             /\ \A day \in start .. start + MAX_SEARCH_DAYS : LaterOn(e, from, offset, day) = {}
          \/ \E day \in start .. start + MAX_SEARCH_DAYS :
               /\ nextFireTime(parseCron(e), from, offset) = Min(LaterOn(e, from, offset, day))
               /\ LaterOn(e, from, offset, day) # {}
      BY <1>1, <3>1, <3>2, SearchIs
    <3> QED
      BY <1>2, <3>2, <3>3
  <2>2. ASSUME NEW day \in first .. first + MAX_SEARCH_DAYS, LaterOn(e, from, offset, day) # {}
        PROVE  day \in Int /\ Min(LaterOn(e, from, offset, day)) \in LaterOn(e, from, offset, day)
    <3>1. day \in Int
      BY DEF MAX_SEARCH_DAYS
    <3>2. /\ LaterOn(e, from, offset, day) \in SUBSET Int
          /\ \A t \in LaterOn(e, from, offset, day) : from <= t
      BY <1>1, <1>3, <3>1
    <3> QED
      BY <1>1, <2>2, <3>1, <3>2, MinIs
  <2> QED
    BY <2>1, <2>2
<1>5. ASSUME CanFire(e)
      PROVE  nextFireTime(parseCron(e), from, offset) # Never
  <2>1. PICK day \in Int : /\ first + 1 <= day /\ day <= first + MAX_SEARCH_DAYS
                           /\ Names(e, "month", getUTCMonth(day)) /\ NamesDay(e, day)
    BY <1>5, CanFireComes
  <2>2. PICK t : t \in OnDay(parseCron(e), day, offset)
    BY <1>1, <2>1, DayHasInstants
  <2>3. t \in Int /\ (t + offset) \div Day = day
    BY <1>1, <2>2, DayFires
  <2>4. t > from
    <3>1. ASSUME t <= from
          PROVE  FALSE
      <4>1. t + offset \in Int /\ from + offset \in Int /\ t + offset <= from + offset
        BY <1>1, <2>3, <3>1
      <4>2. (t + offset) \div Day <= (from + offset) \div Day
        BY <1>1, <4>1, DivisionGrows
      <4> QED
        BY <1>2, <2>1, <2>3, <4>2
    <3> QED
      BY <1>1, <2>3, <3>1
  <2>5. t \in LaterOn(e, from, offset, day)
    BY <2>2, <2>4 DEF LaterOn
  <2>6. day \in first .. first + MAX_SEARCH_DAYS
    BY <2>1 DEF MAX_SEARCH_DAYS
  <2>7. PICK d \in Int : nextFireTime(parseCron(e), from, offset) \in LaterOn(e, from, offset, d)
    BY <1>4, <2>5, <2>6
  <2>8. \A x \in LaterOn(e, from, offset, d) : x \in Int /\ x > from
    BY <1>3, <2>7
  <2> QED
    BY <1>1, <2>7, <2>8 DEF Never
<1>6. ASSUME nextFireTime(parseCron(e), from, offset) # Never
      PROVE  CanFire(e)
  <2>1. PICK next : next = nextFireTime(parseCron(e), from, offset)
    OBVIOUS
  <2>2. Fires(e, next, offset)
    BY <1>6, <2>1, NextFireTimeIsFirst DEF NextIsFirst
  <2>3. next \in Int
    BY <1>3, <1>4, <1>6, <2>1
  <2>4. PICK day \in Int : day = (next + offset) \div Day
    BY <1>1, <2>3
  <2>5. Names(e, "month", getUTCMonth(day)) /\ NamesDay(e, day)
    BY <2>2, <2>4 DEF Fires
  <2>6. getUTCMonth(day) \in 1 .. 12 /\ getUTCDate(day) \in 1 .. Lengths[getUTCMonth(day)]
    BY DateFits
  <2>7. e.dow = Star => Names(e, "dom", getUTCDate(day))
    BY <2>5, Zenon DEF NamesDay
  <2> QED
    BY <2>5, <2>6, <2>7, Zenon DEF CanFire
<1> QED
  BY <1>5, <1>6
=============================================================================
