----------------------------- MODULE MCScheduler -----------------------------
(* Small instances of Scheduler and of Cron for TLC. *)
EXTENDS Scheduler, Integers

EveryUnit   == {1}
UnitOrTwo   == {1, 2}
EveryThree  == {3}

-----------------------------------------------------------------------------
(* Cron on a day of 3 * 2 * 2 seconds.  Days are counted from 1 March 2000. *)

CronDay == 3 * 2 * 2

(* The ends of 30 June 2026, of 2025, of February 2026, and of the February
   after which there is no 29th for eight years, and the day that follows it. *)
CronDays == {9617, 9436, 9495, 35063, 35064}
CronInstants == {day * CronDay + s : day \in CronDays, s \in {0, CronDay - 1}}
CronOffsets  == {0, 5, -7}

Any          == [range |-> "*", lo |-> 0, hi |-> 0, step |-> 0]
Every(s)     == [Any EXCEPT !.step = s]
At(v)        == [range |-> "one", lo |-> v, hi |-> v, step |-> 0]
From(v, s)   == [At(v) EXCEPT !.step = s]
Upto(a, b)   == [range |-> "span", lo |-> a, hi |-> b, step |-> 0]

CronTimes == { <<{At(0)}, {At(0)}, {At(0)}>>, <<{At(1)}, {Any}, {From(1, 1)}>>, <<{Any}, {At(1)}, {Every(2)}>>,
               <<{Upto(1, 0)}, {Any}, {Any}>> }   \* the last is refused

(* Day of the month, month and day of the week. *)
CommonDates == { <<{Any}, {Any}, {Any}>>, <<{At(31)}, {Any}, {Any}>>, <<{Any}, {Any}, {Upto(1, 5)}>>,
                 <<{Any}, {Any}, {At(7)}>>, <<{At(1), At(15)}, {Any}, {At(5)}>>, <<{Every(7)}, {Any}, {Any}>>,
                 <<{[Upto(10, 20) EXCEPT !.step = 5]}, {Any}, {Any}>> }
RareDates   == { <<{At(1)}, {At(1)}, {Any}>>, <<{At(29)}, {At(2)}, {Any}>>, <<{At(30)}, {At(2)}, {Any}>> }

CronExpression(clock, date) ==
  [seconds |-> clock[1], minutes |-> clock[2], hours |-> clock[3], dom |-> date[1], month |-> date[2], dow |-> date[3]]

CronExpressions ==
  {CronExpression(clock, date) : clock \in CronTimes, date \in CommonDates}
  \cup {CronExpression(<<{At(0)}, {At(1)}, {At(2)}>>, date) : date \in RareDates}

Cron == INSTANCE Cron WITH Hours <- 3, Minutes <- 2, Seconds <- 2, Expressions <- CronExpressions,
                           Instants <- CronInstants, Offsets <- CronOffsets

(* The instance satisfies what the theorems about Cron assume. *)
ASSUME CronFits == Cron!CronAssumption

(* What Cron states has no variables; the run asks it once, as its clock starts. *)

(* The next fire time is the first one after the given instant (nextFireTime). *)
NextIsFirst == now = 1 => Cron!NextIsFirst

(* "No fire time" is said only of the expressions that never fire (nextFireTime). *)
NeverMeansNever == now = 1 => Cron!NeverMeansNever
=============================================================================
