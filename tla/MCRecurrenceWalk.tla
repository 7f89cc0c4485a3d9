--------------------------- MODULE MCRecurrenceWalk ---------------------------
(* Rules, anchors and creation days for following the calendar engine with
   TLC: leap and common years, a century that is not a leap year, month ends,
   Sunday-start weeks, intervals that do not divide a year. *)
EXTENDS RecurrenceWalk

Plain == [ frequency |-> "daily", interval |-> 1, daysOfWeek |-> {}, dayOfMonth |-> Null,
           repeatAfterCompletion |-> FALSE, delayValue |-> Null, delayUnit |-> Null,
           endType |-> "never", endCount |-> Null, endDate |-> Null ]

Day(y, m, d) == KeyToDayNumber([y |-> y, m |-> m, d |-> d])

Intervals == {1, 2, 3, 13}

MCFrequencyRules ==
  { [Plain EXCEPT !.frequency = f, !.interval = i] : f \in {"daily", "weekly", "monthly", "yearly"}, i \in Intervals }
    \cup { [Plain EXCEPT !.frequency = f, !.daysOfWeek = w, !.interval = i] :
             f \in {"weekly", "custom"}, w \in {{0}, {1, 3}, {0, 6}}, i \in Intervals }
    \cup { [Plain EXCEPT !.frequency = f, !.dayOfMonth = d, !.interval = i] :
             f \in {"monthly", "custom"}, d \in {1, 29, 30, 31}, i \in Intervals }
    \cup { [Plain EXCEPT !.frequency = "custom", !.interval = i] : i \in Intervals }

MCEndedRules ==
  { [r EXCEPT !.endType = "after_count", !.endCount = c] :
      r \in { q \in MCFrequencyRules : q.interval \in {1, 2} }, c \in {1, 2, 4} }
    \cup { [r EXCEPT !.endType = "on_date", !.endDate = e] :
             r \in { q \in MCFrequencyRules : q.interval = 2 /\ q.frequency \in {"weekly", "monthly"} },
             e \in {Day(2028, 2, 28), Day(2028, 3, 31)} }

MCDelayRules ==
  { [Plain EXCEPT !.repeatAfterCompletion = TRUE, !.delayValue = v, !.delayUnit = u] :
      v \in {0, 1, 14}, u \in {"days", "weeks", "months", "years"} }
    \cup { [Plain EXCEPT !.repeatAfterCompletion = TRUE, !.frequency = f, !.interval = i] :
             f \in {"daily", "weekly", "monthly", "yearly"}, i \in {1, 2} }
    \cup { [Plain EXCEPT !.repeatAfterCompletion = TRUE, !.endType = "after_count", !.endCount = c] : c \in {1, 3} }

(* An occurrence is completed a week early, in time, or late. *)
MCDelays == {-7, 0, 1, 30}

Started(rules, anchors, lags) ==
  { [rule |-> r, anchor |-> a, today |-> a + l] : r \in rules, a \in anchors, l \in lags }

Anchors == { Day(2028, 1, 31), Day(2028, 2, 29), Day(2099, 12, 31), Day(2027, 5, 16) }

MCStarts ==
  Started(MCFrequencyRules, Anchors, {-5, 0, 1, 29, 400})
    \cup Started(MCEndedRules, { Day(2028, 1, 31), Day(2027, 12, 30) }, {-2, 0, 20})
    \cup Started(MCDelayRules, Anchors, {0, 3})
=============================================================================
