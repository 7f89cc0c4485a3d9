---------------------------- MODULE RecurrenceWalk ----------------------------
(***************************************************************************)
(* One rule followed through its occurrences, as computeNextFromRule       *)
(* starts it and as the generator's loop advances it: every occurrence is  *)
(* generated before the next one is computed.  The behaviours of this      *)
(* module are compared with a declarative reading of the rule.             *)
(***************************************************************************)
EXTENDS RecurrenceEngine

CONSTANTS
  Starts,     \* the rules followed: each with its source's day and the day it is created
  Delays,     \* how many days after its own day, or before it, an occurrence may be completed
  MaxSteps    \* bound on the occurrences of a rule that never ends

(* What create() and update() store of a rule: the bounds of the DTO, and an end that is
   given when the rule ends.  Days are counted from 1970 on. *)
Rules ==
  { r \in [frequency : {"daily", "weekly", "monthly", "yearly", "custom"}, interval : Nat \ {0},
           daysOfWeek : SUBSET (0..6), dayOfMonth : 1..31 \cup {Null}, repeatAfterCompletion : BOOLEAN,
           delayValue : Nat \cup {Null}, delayUnit : {"days", "weeks", "months", "years", Null},
           endType : {"never", "after_count", "on_date"}, endCount : (Nat \ {0}) \cup {Null},
           endDate : Int \cup {Null}] :
      /\ r.endType = "after_count" => r.endCount # Null
      /\ r.endType = "on_date" => r.endDate # Null }

ASSUME StartsAreRules ==
  \A s \in Starts : s.rule \in Rules /\ s.anchor \in Nat /\ s.today \in Nat
ASSUME DelaysAreDays == Delays \subseteq Int

VARIABLES
  rule,       \* the rule, fixed in the initial state
  anchor,     \* the day of its source task
  last,       \* the day the latest step counted from
  generated,  \* occurrences generated so far
  next        \* the stored next occurrence, Null once exhausted

vars == <<rule, anchor, last, generated, next>>

(* computeNextFromRule: a schedule starts after both its anchor and today; a
   repeat-after-completion rule starts from the completion of its source. *)
FirstOccurrence(r, a, today) ==
  NextOccurrence(r, a, 0,
    IF ~r.repeatAfterCompletion /\ a > today THEN a ELSE today)

Init ==
  /\ \E s \in Starts : rule = s.rule /\ anchor = s.anchor /\ last = s.today
  /\ generated = 0
  /\ next = FirstOccurrence(rule, anchor, last)

(* The occurrence is generated; the next one is computed from its day, or from
   the day it is completed on. *)
Advance ==
  /\ next # Null
  /\ rule.endType = "never" => generated < MaxSteps
  /\ generated' = generated + 1
  /\ \/ /\ ~rule.repeatAfterCompletion
        /\ last' = next
     \/ /\ rule.repeatAfterCompletion
        /\ \E late \in Delays : next + late \in Nat /\ last' = next + late
  /\ next' = NextOccurrence(rule, anchor, generated', last')
  /\ UNCHANGED <<rule, anchor>>

Next == Advance

Spec == Init /\ [][Next]_vars

----------------------------------------------------------------------------
(* The declarative reading of a rule: which days are on its schedule. *)

MonthsFromAnchor(key) ==
  LET a == DayNumberToKey(anchor) IN (key.y - a.y) * 12 + (key.m - a.m)

Scheduled(n) ==
  LET key == DayNumberToKey(n)
      a   == DayNumberToKey(anchor)
      dom == IF rule.dayOfMonth # Null THEN rule.dayOfMonth ELSE a.d
      f   == EffectiveFrequency(rule)
  IN  /\ n > anchor
      /\ f = "daily" => (n - anchor) % rule.interval = 0
      /\ f = "weekly" =>
           /\ Weekday(n) \in IF rule.daysOfWeek = {} THEN {Weekday(anchor)} ELSE rule.daysOfWeek
           /\ \E k \in 0..((n - WeekStart(anchor)) \div 7) : WeekStart(n) = WeekStart(anchor) + 7 * rule.interval * k
      /\ f = "monthly" =>
           /\ MonthsFromAnchor(key) % rule.interval = 0
           /\ key.d = dom \/ (key.d < dom /\ key.d = DaysInMonth(key.y, key.m))
      /\ f = "yearly" =>
           /\ key.m = a.m
           /\ (key.y - a.y) % rule.interval = 0
           /\ key.d = a.d \/ (key.d < a.d /\ key.d = DaysInMonth(key.y, key.m))

Allowed(n, count) ==
  /\ rule.endType = "on_date" => n <= rule.endDate
  /\ rule.endType = "after_count" => count < rule.endCount - 1

(* The next occurrence of a schedule is the EARLIEST scheduled day after the
   one it counts from: no occurrence is skipped and none is invented, whatever
   the frequency, the interval, the clamping of short months or how far "today"
   is from the anchor (nextScheduled's closed forms and bounded scans).  After a clamped
   short month a monthly rule is back on its own day (Jan 31, Feb 28, Mar 31). *)
NextIsEarliestScheduled ==
  (next # Null /\ ~rule.repeatAfterCompletion) =>
    /\ next > last
    /\ Scheduled(next)
    /\ \A n \in (last + 1)..(next - 1) : ~Scheduled(n)

(* A schedule stops exactly at its end condition: when it is exhausted, the
   occurrence that would have followed was either past the inclusive last day or
   beyond the count, which includes the source task ("after 3" generates 2). *)
StopsExactlyAtTheEnd ==
  /\ next # Null => Allowed(next, generated)
  /\ next = Null =>
       /\ rule.endType # "never"
       /\ rule.endType = "after_count" => generated = rule.endCount - 1
       /\ (rule.endType = "on_date" /\ ~rule.repeatAfterCompletion) =>
            \A n \in (last + 1)..rule.endDate : ~Scheduled(n)

(* A repeat-after-completion rule counts from the completion day: the delay is
   never shortened by more than the clamping of a month's end, and a delay of
   months or years never spills into the following month. *)
DelayCountsFromCompletion ==
  (rule.repeatAfterCompletion /\ next # Null) =>
    LET step == DelayStep(rule)
        from == DayNumberToKey(last)
        to   == DayNumberToKey(next)
        months == (to.y - from.y) * 12 + (to.m - from.m)
    IN  /\ next >= last
        /\ step.unit = "days"   => next - last = step.value
        /\ step.unit = "weeks"  => (next - last) \div 7 = step.value /\ Weekday(next) = Weekday(last)
        /\ step.unit = "months" => months = step.value
        /\ step.unit = "years"  => months = 12 * step.value
        /\ step.unit \in {"months", "years"} => to.d = from.d \/ to.d = DaysInMonth(to.y, to.m)
=============================================================================
