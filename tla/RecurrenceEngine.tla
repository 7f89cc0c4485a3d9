--------------------------- MODULE RecurrenceEngine ---------------------------
(***************************************************************************)
(* The calendar engine of common/utils/recurrence.ts: pure functions from  *)
(* a rule and a calendar day to the next occurrence.  A day is the number  *)
(* of days since 1970-01-01 (the source's day number); the engine's        *)
(* 'YYYY-MM-DD' keys are records of year, month and day, ordered as the    *)
(* zero-padded strings are.                                                *)
(***************************************************************************)
EXTENDS RecurrenceEnd, Sequences, FiniteSetsExt

IsLeapYear(y) == (y % 4 = 0 /\ y % 100 # 0) \/ y % 400 = 0

DaysInMonth(y, m) ==
  CASE m = 2                -> IF IsLeapYear(y) THEN 29 ELSE 28
    [] m \in {4, 6, 9, 11}  -> 30
    [] OTHER                -> 31

----------------------------------------------------------------------------
(* Day keys and day numbers. *)

(* Days from 1970-01-01 to January 1st of year y. *)
NewYear(y) == LET p == y - 1 IN 365 * p + p \div 4 - p \div 100 + p \div 400 - 719162

(* Days of year y before its month m. *)
DaysBefore(y, m) ==
  <<0, 31, 59, 90, 120, 151, 181, 212, 243, 273, 304, 334>>[m]
    + (IF m > 2 /\ IsLeapYear(y) THEN 1 ELSE 0)

KeyToDayNumber(key) == NewYear(key.y) + DaysBefore(key.y, key.m) + key.d - 1

DayNumberToKey(n) ==
  LET y == CHOOSE y \in (1969 + n \div 366)..(1971 + n \div 365) : NewYear(y) <= n /\ n < NewYear(y + 1)
      r == n - NewYear(y)
      m == CHOOSE m \in 1..12 : DaysBefore(y, m) <= r /\ r < DaysBefore(y, m) + DaysInMonth(y, m)
  IN  [y |-> y, m |-> m, d |-> r - DaysBefore(y, m) + 1]

(* 0 is Sunday; day 0 was a Thursday. *)
Weekday(n) == (n + 4) % 7

WeekStart(n) == n - Weekday(n)

Least(a, b) == IF a <= b THEN a ELSE b

(* Add months, clamping the wanted day to the length of the target month. *)
AddMonthsClamped(key, months, want) ==
  LET total == key.y * 12 + (key.m - 1) + months
      y     == total \div 12
      m     == (total % 12) + 1
  IN  KeyToDayNumber([y |-> y, m |-> m, d |-> Least(want, DaysInMonth(y, m))])

(* Mutant: February 29 becomes March 1 in common years. *)
AddYearsOverflowing(key, years) == KeyToDayNumber([key EXCEPT !.y = @ + years])

AddYearsClamped(key, years) ==
  LET y == key.y + years
  IN  KeyToDayNumber([y |-> y, m |-> key.m, d |-> Least(key.d, DaysInMonth(y, key.m))])

----------------------------------------------------------------------------
(* The next occurrence. *)

EffectiveFrequency(rule) ==
  IF rule.frequency # "custom" THEN rule.frequency
  ELSE IF rule.daysOfWeek # {}   THEN "weekly"
  ELSE IF rule.dayOfMonth # Null THEN "monthly"
  ELSE "daily"

(* The least of a set of candidate days, Null when there is none. *)
Earliest(days) == IF days = {} THEN Null ELSE Min(days)

NextDaily(rule, anchor, from) ==
  anchor + ((from - anchor) \div rule.interval + 1) * rule.interval

(* Mutant: weeks are counted from the anchor's day, not from its Sunday. *)
NextWeeklyFromAnchor(rule, anchor, from) ==
  LET wanted == IF rule.daysOfWeek = {} THEN {Weekday(anchor)} ELSE rule.daysOfWeek
  IN  Earliest({ n \in (from + 1)..(from + 7 * (rule.interval + 1)) :
                   Weekday(n) \in wanted /\ ((n - anchor) \div 7) % rule.interval = 0 })

NextWeekly(rule, anchor, from) ==
  LET wanted == IF rule.daysOfWeek = {} THEN {Weekday(anchor)} ELSE rule.daysOfWeek
      onWeek(n) == ((n - WeekStart(anchor)) \div 7) % rule.interval = 0
  IN  Earliest({ n \in (from + 1)..(from + 7 * (rule.interval + 1)) :
                   Weekday(n) \in wanted /\ onWeek(n) })

(* Four tries from one interval before the month (or year) of "from". *)
FirstTry(distance, interval) ==
  LET k == distance \div interval - 1 IN IF k < 0 THEN 0 ELSE k

Tries(distance, interval) ==
  FirstTry(distance, interval)..(FirstTry(distance, interval) + 3)

NextMonthly(rule, anchor, from) ==
  LET a == DayNumberToKey(anchor)
      f == DayNumberToKey(from)
      dom == IF rule.dayOfMonth # Null THEN rule.dayOfMonth ELSE a.d
      candidate(k) == AddMonthsClamped([a EXCEPT !.d = 1], k * rule.interval, dom)
      distance == (f.y - a.y) * 12 + (f.m - a.m)
  IN  Earliest({ c \in { candidate(k) : k \in Tries(distance, rule.interval) } : c > from })

NextYearly(rule, anchor, from) ==
  LET a == DayNumberToKey(anchor)
      f == DayNumberToKey(from)
      candidate(k) == AddYearsClamped(a, k * rule.interval)
  IN  Earliest({ c \in { candidate(k) : k \in Tries(f.y - a.y, rule.interval) } : c > from })

(* nextScheduled: the first occurrence strictly after "after", none before
   the anchor, end conditions ignored. *)
NextScheduled(rule, anchor, after) ==
  LET from == IF after < anchor THEN anchor ELSE after
  IN  CASE EffectiveFrequency(rule) = "daily"   -> NextDaily(rule, anchor, from)
        [] EffectiveFrequency(rule) = "weekly"  -> NextWeekly(rule, anchor, from)
        [] EffectiveFrequency(rule) = "monthly" -> NextMonthly(rule, anchor, from)
        [] EffectiveFrequency(rule) = "yearly"  -> NextYearly(rule, anchor, from)

(* The step of a repeat-after-completion rule: its own delay when it has one,
   one interval of its frequency otherwise. *)
DelayStep(rule) ==
  IF rule.delayValue # Null /\ rule.delayUnit # Null
  THEN [unit |-> rule.delayUnit, value |-> rule.delayValue]
  ELSE [unit  |-> CASE EffectiveFrequency(rule) = "daily"   -> "days"
                    [] EffectiveFrequency(rule) = "weekly"  -> "weeks"
                    [] EffectiveFrequency(rule) = "monthly" -> "months"
                    [] EffectiveFrequency(rule) = "yearly"  -> "years",
        value |-> rule.interval]

NextAfterCompletion(rule, completedOn) ==
  LET step == DelayStep(rule)
      key  == DayNumberToKey(completedOn)
  IN  CASE step.unit = "days"   -> completedOn + step.value
        [] step.unit = "weeks"  -> completedOn + 7 * step.value
        [] step.unit = "months" -> AddMonthsClamped(key, step.value, key.d)
        [] step.unit = "years"  -> AddYearsClamped(key, step.value)

NextOccurrence(rule, anchor, generated, after) ==
  ApplyEnd(rule, generated,
           IF rule.repeatAfterCompletion THEN NextAfterCompletion(rule, after)
                                         ELSE NextScheduled(rule, anchor, after))
=============================================================================
