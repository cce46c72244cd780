-------------------------------- MODULE Cron --------------------------------
(***************************************************************************)
(* Cron expressions and their next fire time (scheduler/cron.ts).  The     *)
(* calendar is the real one, counted in days from Wednesday, 1 March 2000; *)
(* the clock is scaled: Seconds to a minute, Minutes to an hour, Hours to  *)
(* a day.  An instant is a number of seconds, an offset too.               *)
(***************************************************************************)
EXTENDS Integers, FiniteSetsExt

CONSTANTS Hours, Minutes, Seconds,
          Expressions,  \* the expressions, instants and offsets the
          Instants,     \* properties range over
          Offsets

Hour == Minutes * Seconds
Day  == Hours * Hour
Never == -1

-----------------------------------------------------------------------------
(* The calendar: Date.UTC() and the getters of Date.                       *)

DayOfEra(day)  == day % 146097
YearOfEra(day) == LET n == DayOfEra(day)
                  IN  (n - n \div 1460 + n \div 36524 - n \div 146096) \div 365
DayOfYear(day) == LET y == YearOfEra(day) IN DayOfEra(day) - (365 * y + y \div 4 - y \div 100)
March(day)     == (5 * DayOfYear(day) + 2) \div 153   \* months since March
getUTCMonth(day) == IF March(day) < 10 THEN March(day) + 3 ELSE March(day) - 9   \* from 1
getUTCDate(day)  == DayOfYear(day) - (153 * March(day) + 2) \div 5 + 1
getUTCDay(day)   == (day + 3) % 7                       \* 0 is Sunday

-----------------------------------------------------------------------------
(* Parsing.  An expression is a record of fields, a field a set of parts, and
   a part "*" or one value or a span, lo .. hi, each with or without a step.  *)

NoStep == 0
Star == {[range |-> "*", lo |-> 0, hi |-> 0, step |-> NoStep]}

FIELD_SPECS == [seconds |-> [min |-> 0, max |-> Seconds - 1],
                minutes |-> [min |-> 0, max |-> Minutes - 1],
                hours   |-> [min |-> 0, max |-> Hours - 1],
                dom     |-> [min |-> 1, max |-> 31],
                month   |-> [min |-> 1, max |-> 12],
                dow     |-> [min |-> 0, max |-> 7]]
Fields == DOMAIN FIELD_SPECS

(* A single value with a step runs to the end of the field. *)
expandPart(part, spec) ==
  LET start == IF part.range = "*" THEN spec.min ELSE part.lo
      end   == IF part.range = "*" \/ (part.range = "one" /\ part.step # NoStep) THEN spec.max ELSE part.hi
      step  == IF part.step = NoStep THEN 1 ELSE part.step
  IN  {v \in start .. end : (v - start) % step = 0}

parseField(e, field) == UNION {expandPart(part, FIELD_SPECS[field]) : part \in e[field]}

(* What the syntax gives: a field has a part, and numbers are not signed. *)
Part == [range : {"*", "one", "span"}, lo : Nat, hi : Nat, step : Nat]

(* The real clock has 24 * 60 * 60 seconds; instants are those since the epoch. *)
CronAssumption ==
  /\ {Hours, Minutes, Seconds} \subseteq Nat \ {0}
  /\ Expressions \subseteq [Fields -> (SUBSET Part) \ {{}}]
  /\ Instants \subseteq Nat
  /\ Offsets \subseteq Int

(* The parser refuses reversed ranges and values out of range. *)
Accepted ==
  {e \in Expressions : \A field \in Fields : \A part \in e[field] :
     \/ part.range = "*"
     \/ FIELD_SPECS[field].min <= part.lo /\ part.lo <= part.hi /\ part.hi <= FIELD_SPECS[field].max}

(* Sundays are 0 and 7; only a lone "*" is a wildcard. *)
parseCron(e) ==
  [seconds |-> parseField(e, "seconds"),
   minutes |-> parseField(e, "minutes"),
   hours   |-> parseField(e, "hours"),
   daysOfMonth |-> parseField(e, "dom"),
   months      |-> parseField(e, "month"),
   daysOfWeek  |-> {d % 7 : d \in parseField(e, "dow")},
   daysOfMonthWildcard |-> e.dom = Star,
   daysOfWeekWildcard  |-> e.dow = Star]

-----------------------------------------------------------------------------
(* Searching. *)

(* Mutant: as far as the next leap year, as a rule. *)
ToNextLeapYear == 366 * 4
MAX_SEARCH_DAYS == 366 * 8

(* Mutant: a day must match both. *)
matchesDayBoth(parsed, day) ==
  getUTCDate(day) \in parsed.daysOfMonth /\ getUTCDay(day) \in parsed.daysOfWeek

matchesDay(parsed, day) ==
  LET domMatch == getUTCDate(day) \in parsed.daysOfMonth
      dowMatch == getUTCDay(day) \in parsed.daysOfWeek
  IN  CASE parsed.daysOfMonthWildcard /\ parsed.daysOfWeekWildcard -> TRUE
        [] parsed.daysOfMonthWildcard /\ ~parsed.daysOfWeekWildcard -> dowMatch
        [] ~parsed.daysOfMonthWildcard /\ parsed.daysOfWeekWildcard -> domMatch
        [] OTHER -> domMatch \/ dowMatch

(* The instants of a local day at which the expression fires. *)
OnDay(parsed, day, offset) ==
  IF getUTCMonth(day) \in parsed.months /\ matchesDay(parsed, day)
  THEN {day * Day + h * Hour + m * Seconds + s - offset :
          h \in parsed.hours, m \in parsed.minutes, s \in parsed.seconds}
  ELSE {}

(* Mutant: the search begins with the day in UTC. *)
StartDayUTC(from, offset) == from \div Day
StartDay(from, offset) == (from + offset) \div Day

(* The loops go up, so that the first match is the least; Never is the error. *)
nextFireTime(parsed, from, offset) ==
  LET first == StartDay(from, offset)
      Later(day) == {t \in OnDay(parsed, day, offset) : t > from}
      Found(day) == Later(day) # {}
      days  == first .. first + MAX_SEARCH_DAYS
  IN  IF \E day \in days : Found(day)
      THEN Min(Later(CHOOSE day \in days : Found(day) /\ \A e \in first .. day - 1 : ~Found(e)))
      ELSE Never

-----------------------------------------------------------------------------
(* Properties. *)

(* What an expression says, value by value: Names is v in the field, Fires is
   the instant t on the clock of the offset. *)
Names(e, field, v) ==
  \E part \in e[field] :
    LET first == IF part.range = "*" THEN FIELD_SPECS[field].min ELSE part.lo
        open  == part.range = "*" \/ (part.range = "one" /\ part.step # NoStep)
    IN  /\ v >= first
        /\ open \/ v <= part.hi
        /\ part.step = NoStep \/ (v - first) % part.step = 0

NamesDay(e, day) ==
  LET onDom == Names(e, "dom", getUTCDate(day))
      onDow == Names(e, "dow", getUTCDay(day)) \/ (getUTCDay(day) = 0 /\ Names(e, "dow", 7))
  IN  IF Star \in {e.dom, e.dow} THEN onDom /\ onDow ELSE onDom \/ onDow

Fires(e, t, offset) ==
  LET local == t + offset
      day   == local \div Day
  IN  /\ Names(e, "seconds", local % Seconds)
      /\ Names(e, "minutes", (local \div Seconds) % Minutes)
      /\ Names(e, "hours", (local \div Hour) % Hours)
      /\ Names(e, "month", getUTCMonth(day))
      /\ NamesDay(e, day)

(* The next fire time is the first instant strictly after the given one at
   which the expression fires on the clock of its offset, be that in another
   day, month or year there (nextFireTime, cron.ts).                         *)
NextIsFirst ==
  \A e \in Accepted, from \in Instants, offset \in Offsets :
    LET next == nextFireTime(parseCron(e), from, offset)
    IN  next # Never =>
          /\ next > from /\ Fires(e, next, offset)
          /\ \A t \in from + 1 .. next - 1 : ~Fires(e, t, offset)

(* "No fire time" is said of the expressions that name no day of any year, and
   of no other: the bound on the search spans a February of a leap year also
   where the century leaves one out (MAX_SEARCH_DAYS, cron.ts).              *)
Lengths == <<31, 29, 31, 30, 31, 30, 31, 31, 30, 31, 30, 31>>
CanFire(e) ==
  \/ e.dow # Star
  \/ \E m \in 1 .. 12 : Names(e, "month", m) /\ \E d \in 1 .. Lengths[m] : Names(e, "dom", d)
NeverMeansNever ==
  \A e \in Accepted, from \in Instants, offset \in Offsets :
    nextFireTime(parseCron(e), from, offset) = Never <=> ~CanFire(e)
=============================================================================
