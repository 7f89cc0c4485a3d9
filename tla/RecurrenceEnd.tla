---------------------------- MODULE RecurrenceEnd ----------------------------
(***************************************************************************)
(* The end conditions of a recurrence rule (common/utils/recurrence.ts).   *)
(* They are shared by the calendar engine, which enumerates a schedule,    *)
(* and by the generator, which persists it.  Days are numbers here: every  *)
(* comparison of day keys in the source is the comparison of the days.     *)
(***************************************************************************)
EXTENDS Integers

CONSTANT Null   \* the absent day, count or unit of a nullable column

(* A conversion of the model's integers and Null never confuses the two. *)
ASSUME NullIsNoNumber == Null \notin Int

(* Mutant: the source task is not counted. *)
CountExhaustedWithoutSource(rule, generated) ==
  rule.endType = "after_count" /\ rule.endCount # Null /\ generated >= rule.endCount

(* endCount counts the source task, so a rule "after 3" allows two instances. *)
CountExhausted(rule, generated) ==
  /\ rule.endType = "after_count"
  /\ rule.endCount # Null
  /\ rule.endCount >= 1
  /\ generated >= rule.endCount - 1

PastEndDate(rule, day) ==
  /\ rule.endType = "on_date"
  /\ rule.endDate # Null
  /\ day > rule.endDate

(* applyEnd: a candidate occurrence, or Null once the rule is exhausted. *)
ApplyEnd(rule, generated, candidate) ==
  IF \/ candidate = Null
     \/ CountExhausted(rule, generated)
     \/ PastEndDate(rule, candidate)
  THEN Null
  ELSE candidate
=============================================================================
