---------------------------- MODULE OccurrenceLog ----------------------------
(***************************************************************************)
(* What a recurrence rule promises, without ticks, cursors or rows: from   *)
(* the moment a rule is stored its occurrences appear one by one, each     *)
(* once, none after its end; those of a schedule-based rule in the order   *)
(* of its schedule, none skipped.  RecurrenceRules implements it           *)
(* (LogIsFaithful there).                                                  *)
(***************************************************************************)
EXTENDS RecurrenceEnd, FiniteSets

CONSTANTS
  Configs,                    \* the settings a rule may be stored with
  NextOnSchedule(_, _, _)      \* the calendar: (settings, anchor, after)

VARIABLE log   \* Null, or the stored rule and the days it has covered

LogInit == log = Null

(* A request stores a rule: its occurrences are counted anew. *)
Adopt ==
  /\ log' # Null
  /\ log'.cfg \in Configs
  /\ log'.covered = {}

(* The day a rule owes: its first, then the one after its latest. *)
Owed ==
  IF log.covered = {} THEN log.first
  ELSE LET latest == CHOOSE d \in log.covered : \A e \in log.covered : e <= d
       IN  ApplyEnd(log.cfg, Cardinality(log.covered),
                    NextOnSchedule(log.cfg, log.anchor, latest))

Emit ==
  /\ log # Null /\ ~log.cfg.repeatAfterCompletion
  /\ Owed # Null
  /\ log' = [log EXCEPT !.covered = @ \cup {Owed}]

(* A rule that waits for completions goes on to a later day, within its count. *)
EmitAfterCompletion ==
  /\ log # Null /\ log.cfg.repeatAfterCompletion
  /\ log.cfg.endType = "after_count" => Cardinality(log.covered) < log.cfg.endCount - 1
  /\ \E d \in log'.covered :
       /\ \A e \in log.covered : e < d
       /\ log' = [log EXCEPT !.covered = @ \cup {d}]

LogNext == Adopt \/ Emit \/ EmitAfterCompletion

LogSpec == LogInit /\ [][LogNext]_log
=============================================================================
