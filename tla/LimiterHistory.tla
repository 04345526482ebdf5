--------------------------- MODULE LimiterHistory ---------------------------
(***************************************************************************)
(* One OccurrenceLimiter in use: occurrences of any diagnostics, in any    *)
(* order and at any pace, with the history of what it let through.         *)
(***************************************************************************)
EXTENDS OccurrenceLimiter

CONSTANT MaxRecords   \* occurrences; bounds the model

ASSUME HistoryAssumption == MaxRecords \in Nat

VARIABLES
  limiter,
  records,   \* occurrences so far
  run,       \* occurrences of the current key since it last changed
  logged,    \* of those, how many were logged
  reported   \* of those, how many the log lines said were suppressed

vars == << limiter, records, run, logged, reported >>

TypeOK ==
  /\ limiter \in Limiter
  /\ records \in Nat /\ run \in Nat /\ logged \in Nat /\ reported \in Nat

Init ==
  /\ limiter = NewLimiter
  /\ records = 0 /\ run = 0 /\ logged = 0 /\ reported = 0

(* One call of record. *)
Record(key) ==
  LET same == limiter.last_key = key
      before == IF same THEN logged ELSE 0
      told == IF same THEN reported ELSE 0
  IN /\ records < MaxRecords
     /\ records' = records + 1
     /\ limiter' = Recorded(limiter, key)
     /\ run' = IF same THEN run + 1 ELSE 1
     /\ IF Emits(limiter, key)
        THEN logged' = before + 1 /\ reported' = told + Suppressed(limiter, key)
        ELSE logged' = before /\ reported' = told

(* min_gap passes since the last line was logged. *)
Pause ==
  /\ limiter' = Rested(limiter)
  /\ UNCHANGED << records, run, logged, reported >>

Next == (\E key \in Keys : Record(key)) \/ Pause

Spec == Init /\ [][Next]_vars
-----------------------------------------------------------------------------
(* Properties                                                              *)

(* The log is complete: of one diagnostic in a row, the lines logged and   *)
(* the numbers they report account for every occurrence up to the last     *)
(* line, and the first is always logged (record's suppressed count).       *)
LogComplete ==
  /\ logged + reported = limiter.emitted
  /\ run = limiter.occurrences
  /\ run > 0 => logged > 0

(* The log is not flooded: Interval occurrences of one diagnostic in a row *)
(* cannot be logged more than once, whatever the pauses (count_due).       *)
NoFlood == logged > 0 => Interval * (logged - 1) < run
=============================================================================
