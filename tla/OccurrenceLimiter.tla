-------------------------- MODULE OccurrenceLimiter --------------------------
(***************************************************************************)
(* The rate limiter of the tick loop's diagnostics (daemon.rs): one value  *)
(* per diagnostic site, told of every occurrence, which answers whether    *)
(* this one is logged and how many were held back since the last that was. *)
(*                                                                         *)
(* A key is the hash of the message; `rested' says that nothing was logged *)
(* for the key yet or that min_gap has passed since.  Occurrences are not  *)
(* counted up to u64::MAX in any run of the daemon, so the saturating      *)
(* additions are plain ones.                                               *)
(***************************************************************************)
EXTENDS Integers

CONSTANTS Keys,      \* identities of diagnostics
          NoKey,     \* the None of last_key
          Interval   \* DIAGNOSTIC_INTERVAL

ASSUME LimiterAssumption == NoKey \notin Keys /\ Interval \in Nat \ {0}

Limiter == [occurrences : Nat, emitted : Nat, last_key : Keys \cup {NoKey},
            rested : BOOLEAN]

(* OccurrenceLimiter::new *)
NewLimiter == [occurrences |-> 0, emitted |-> 0, last_key |-> NoKey,
               rested |-> TRUE]

(* The counts of the previous key are kept. *)
MutKeyed(l, key) == [l EXCEPT !.last_key = key]

(* A key change starts over. *)
Keyed(l, key) ==
  IF l.last_key = key THEN l ELSE [NewLimiter EXCEPT !.last_key = key]

(* Time alone decides. *)
MutEmits(l, key) ==
  LET k == Keyed(l, key)
      n == k.occurrences + 1
  IN n = 1 \/ k.rested

(* record returns Some: the first of its key, or one that is due by count  *)
(* and by time.                                                            *)
Emits(l, key) ==
  LET k == Keyed(l, key)
      n == k.occurrences + 1
  IN n = 1 \/ ((n - 1) % Interval = 0 /\ k.rested)

(* ... and what it returns. *)
Suppressed(l, key) == Keyed(l, key).occurrences - Keyed(l, key).emitted

(* The limiter afterwards. *)
Recorded(l, key) ==
  LET k == Keyed(l, key)
      n == k.occurrences + 1
  IN IF Emits(l, key)
     THEN [k EXCEPT !.occurrences = n, !.emitted = n, !.rested = FALSE]
     ELSE [k EXCEPT !.occurrences = n]

(* min_gap passes. *)
Rested(l) == [l EXCEPT !.rested = TRUE]
=============================================================================
