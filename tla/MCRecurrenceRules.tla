-------------------------- MODULE MCRecurrenceRules --------------------------
(* Small calendars for RecurrenceRules: the real engine, tabulated. *)
EXTENDS RecurrenceRules, TLC

E == INSTANCE RecurrenceEngine

Plain == [ frequency |-> "daily", interval |-> 1, daysOfWeek |-> {}, dayOfMonth |-> Null,
           repeatAfterCompletion |-> FALSE, delayValue |-> Null, delayUnit |-> Null,
           endType |-> "never", endCount |-> Null, endDate |-> Null ]

EveryDay      == Plain
EveryOtherDay == [Plain EXCEPT !.interval = 2]
AfterCount(n) == [Plain EXCEPT !.endType = "after_count", !.endCount = n]
UntilDay(d)   == [Plain EXCEPT !.interval = 2, !.endType = "on_date", !.endDate = d]
AfterDone(n)  == [Plain EXCEPT !.repeatAfterCompletion = TRUE, !.delayValue = n, !.delayUnit = "days"]

MCScheduleConfigs == {EveryDay, EveryOtherDay, AfterCount(3), UntilDay(3)}
MCSlowDelays      == {AfterDone(3), [AfterDone(3) EXCEPT !.endType = "after_count", !.endCount = 2]}
MCDeployedConfigs == MCScheduleConfigs \cup MCSlowDelays
MCMixedConfigs    == {EveryOtherDay, AfterCount(2), AfterDone(0)}
MCQuickDelays     == {AfterDone(1)}

(* A bound: a rule that waits for completions is not replaced by one that does not, nor
   the other way round. *)
KindStays ==
  \A c \in Clients : request'[c] # Idle /\ log # Null =>
    request'[c].row.cfg.repeatAfterCompletion = log.cfg.repeatAfterCompletion

\* the clock, and the days a cursor can reach from it
Days == 0..16

Symmetry == Permutations(Workers)

Schedule == [c \in Configs, a \in Days, d \in Days |-> E!NextScheduled(c, a, d)]
MCNextOnSchedule(c, a, d) == Schedule[c, a, d]

Delayed == [c \in Configs, d \in Days |-> E!NextAfterCompletion(c, d)]
MCNextFromCompletion(c, d) == Delayed[c, d]
=============================================================================
