------------------------ MODULE LimiterHistoryProofs ------------------------
(* The diagnostics limiter, for any interval and any set of keys.          *)
EXTENDS LimiterHistory, TLAPS

(* The fields of a limiter. *)
LEMMA LimiterFields ==
  ASSUME NEW l \in Limiter
  PROVE  /\ l.occurrences \in Nat /\ l.emitted \in Nat
         /\ l.last_key \in Keys \cup {NoKey} /\ l.rested \in BOOLEAN
  BY DEF Limiter

(* A limiter that has seen a key is a limiter again. *)
LEMMA KeyedType ==
  ASSUME NEW l \in Limiter, NEW key \in Keys
  PROVE  /\ Keyed(l, key) \in Limiter
         /\ Keyed(l, key).last_key = key
         /\ l.last_key = key => Keyed(l, key) = l
         /\ l.last_key # key => /\ Keyed(l, key).occurrences = 0
                                /\ Keyed(l, key).emitted = 0
  <1>1. NewLimiter \in Limiter
    BY DEF NewLimiter, Limiter
  <1>2. [NewLimiter EXCEPT !.last_key = key] \in Limiter
    BY <1>1, Zenon DEF NewLimiter, Limiter
  <1> QED BY <1>2, Zenon DEF Keyed, NewLimiter, Limiter

(* What recording an occurrence does to the counts. *)
LEMMA RecordedType ==
  ASSUME NEW l \in Limiter, NEW key \in Keys
  PROVE  LET k == Keyed(l, key)
             r == Recorded(l, key)
         IN /\ r \in Limiter
            /\ r.occurrences = k.occurrences + 1
            /\ r.emitted = IF Emits(l, key) THEN k.occurrences + 1
                                            ELSE k.emitted
  <1> DEFINE k == Keyed(l, key)
  <1>1. k \in Limiter
    BY KeyedType
  <1>2. k.occurrences + 1 \in Nat
    BY <1>1, LimiterFields
  <1>3. CASE Emits(l, key)
    <2>1. Recorded(l, key) = [k EXCEPT !.occurrences = k.occurrences + 1,
                                       !.emitted = k.occurrences + 1,
                                       !.rested = FALSE]
      BY <1>3 DEF Recorded
    <2> HIDE DEF k
    <2> QED BY <1>1, <1>2, <1>3, <2>1, Zenon DEF Limiter, k
  <1>4. CASE ~Emits(l, key)
    <2>1. Recorded(l, key) = [k EXCEPT !.occurrences = k.occurrences + 1]
      BY <1>4 DEF Recorded
    <2> HIDE DEF k
    <2> QED BY <1>1, <1>2, <1>4, <2>1, Zenon DEF Limiter, k
  <1> QED BY <1>3, <1>4

(* Products with the interval are ordered as their factors are. *)
LEMMA Multiples ==
  ASSUME NEW N \in Nat \ {0}, NEW a \in Nat, NEW b \in Nat
  PROVE  /\ a <= b => N * a <= N * b
         /\ N * a < N * b => a < b
  BY SMT

(* A number due by count is a multiple of the interval. *)
LEMMA WholeIntervals ==
  ASSUME NEW N \in Nat \ {0}, NEW x \in Nat, x % N = 0
  PROVE  x \div N \in Nat /\ x = N * (x \div N)
  BY SMT
-----------------------------------------------------------------------------
(* The last line logged was at the first occurrence or a whole number of   *)
(* intervals later, at least one for each line before it.                  *)
Spaced ==
  limiter.emitted > 0 =>
    \E a \in Nat : limiter.emitted - 1 = Interval * a /\ logged <= a + 1

(* The inductive invariant. *)
LimiterInv ==
  /\ TypeOK
  /\ LogComplete
  /\ limiter.emitted <= limiter.occurrences
  /\ Spaced

(* A new limiter satisfies the invariant. *)
LEMMA InitInv == Init => LimiterInv
  <1> SUFFICES ASSUME Init PROVE LimiterInv
    OBVIOUS
  <1>1. limiter \in Limiter
    BY DEF Init, NewLimiter, Limiter
  <1>2. limiter.occurrences = 0 /\ limiter.emitted = 0
    BY DEF Init, NewLimiter
  <1> QED BY <1>1, <1>2 DEF Init, LimiterInv, TypeOK, LogComplete, Spaced

(* One call of record keeps it, logged or suppressed. *)
LEMMA RecordInv ==
  ASSUME LimiterInv, NEW key \in Keys, Record(key)
  PROVE  LimiterInv'
  <1> DEFINE k == Keyed(limiter, key)
             same == limiter.last_key = key
             before == IF same THEN logged ELSE 0
             told == IF same THEN reported ELSE 0
  <1>1. limiter \in Limiter /\ run \in Nat /\ logged \in Nat /\ reported \in Nat
    BY DEF LimiterInv, TypeOK
  <1>2. /\ limiter' \in Limiter
        /\ limiter'.occurrences = k.occurrences + 1
        /\ limiter'.emitted = IF Emits(limiter, key) THEN k.occurrences + 1
                                                     ELSE k.emitted
    BY <1>1, RecordedType DEF Record
  <1>3. k \in Limiter /\ k.occurrences \in Nat /\ k.emitted \in Nat
    BY <1>1, KeyedType, LimiterFields
  (* The history of the run the key is in, before this occurrence. *)
  <1>4. /\ before \in Nat /\ told \in Nat
        /\ before + told = k.emitted
        /\ k.emitted <= k.occurrences
        /\ k.occurrences > 0 => before > 0
    <2>1. CASE same
      BY <1>1, <2>1, KeyedType DEF LimiterInv, LogComplete
    <2>2. CASE ~same
      BY <1>1, <2>2, KeyedType
    <2> QED BY <2>1, <2>2
  <1>5. k.emitted > 0 =>
          \E a \in Nat : k.emitted - 1 = Interval * a /\ before <= a + 1
    <2>1. CASE same
      BY <1>1, <2>1, KeyedType DEF LimiterInv, Spaced
    <2>2. CASE ~same
      BY <1>1, <2>2, KeyedType
    <2> QED BY <2>1, <2>2
  <1>6. run' = k.occurrences + 1
    <2>1. CASE same
      BY <1>1, <2>1, KeyedType DEF LimiterInv, LogComplete, Record
    <2>2. CASE ~same
      BY <1>1, <2>2, KeyedType DEF Record
    <2> QED BY <2>1, <2>2
  <1>7. Emits(limiter, key) =>
          /\ logged' = before + 1
          /\ reported' = told + (k.occurrences - k.emitted)
    BY DEF Record, Suppressed
  <1>8. ~Emits(limiter, key) => logged' = before /\ reported' = told
    BY DEF Record
  <1>9. Emits(limiter, key) <=>
          k.occurrences = 0 \/ (k.occurrences % Interval = 0 /\ k.rested)
    BY <1>3, LimiterAssumption DEF Emits
  <1>10. records' \in Nat
    BY DEF LimiterInv, TypeOK, Record
  <1> HIDE DEF k, same, before, told
  <1>11. TypeOK'
    BY <1>2, <1>3, <1>4, <1>6, <1>7, <1>8, <1>10 DEF TypeOK
  <1>12. LogComplete' /\ limiter'.emitted <= limiter'.occurrences
    BY <1>2, <1>3, <1>4, <1>6, <1>7, <1>8, <1>9 DEF LogComplete
  <1>13. Spaced'
    <2>1. CASE ~Emits(limiter, key)
      BY <1>2, <1>5, <1>8, <2>1 DEF Spaced
    <2>2. CASE Emits(limiter, key) /\ k.occurrences = 0
      <3>1. limiter'.emitted - 1 = Interval * 0 /\ logged' <= 0 + 1
        BY <1>2, <1>3, <1>4, <1>7, <2>2, LimiterAssumption
      <3> QED BY <3>1 DEF Spaced
    <2>3. CASE Emits(limiter, key) /\ k.occurrences > 0
      <3> DEFINE b == k.occurrences \div Interval
      <3>1. k.occurrences % Interval = 0
        BY <1>3, <1>9, <2>3
      <3>2. b \in Nat /\ k.occurrences = Interval * b
        BY <1>3, <3>1, LimiterAssumption, WholeIntervals
      <3> HIDE DEF b
      <3>3. limiter'.emitted - 1 = Interval * b
        BY <1>2, <1>3, <2>3, <3>2
      <3>4. PICK a \in Nat : k.emitted - 1 = Interval * a /\ before <= a + 1
        BY <1>3, <1>4, <1>5, <2>3
      <3>5. Interval * a < Interval * b
        BY <1>3, <1>4, <3>2, <3>4, LimiterAssumption
      <3>6. a < b
        BY <3>2, <3>5, LimiterAssumption, Multiples
      <3>7. logged' <= b + 1
        BY <1>4, <1>7, <2>3, <3>2, <3>4, <3>6
      <3> QED BY <3>2, <3>3, <3>7 DEF Spaced
    <2> QED BY <1>3, <2>1, <2>2, <2>3
  <1> QED BY <1>11, <1>12, <1>13 DEF LimiterInv

(* Every step keeps it. *)
LEMMA StepInv == LimiterInv /\ [Next]_vars => LimiterInv'
  <1> SUFFICES ASSUME LimiterInv, [Next]_vars PROVE LimiterInv'
    OBVIOUS
  <1>1. CASE \E key \in Keys : Record(key)
    BY <1>1, RecordInv
  <1>2. CASE Pause
    <2>1. limiter \in Limiter
      BY DEF LimiterInv, TypeOK
    <2>2. /\ limiter' \in Limiter
          /\ limiter'.occurrences = limiter.occurrences
          /\ limiter'.emitted = limiter.emitted
      BY <1>2, <2>1, Zenon DEF Pause, Rested, Limiter
    <2> QED BY <1>2, <2>2
            DEF LimiterInv, TypeOK, LogComplete, Spaced, Pause
  <1>3. CASE UNCHANGED vars
    BY <1>3 DEF vars, LimiterInv, TypeOK, LogComplete, Spaced
  <1> QED BY <1>1, <1>2, <1>3 DEF Next

(* In every run of the limiter its invariant holds. *)
THEOREM LimiterInvariant == Spec => []LimiterInv
  BY InitInv, StepInv, PTL DEF Spec

(* Nothing is held back without being reported by the next line. *)
THEOREM LogIsComplete == Spec => []LogComplete
  <1>1. LimiterInv => LogComplete
    BY DEF LimiterInv
  <1> QED BY <1>1, LimiterInvariant, PTL

(* However the occurrences are paced, one diagnostic in a row is logged at *)
(* most once per interval.                                                 *)
THEOREM LogIsNotFlooded == Spec => []NoFlood
  <1>1. LimiterInv => NoFlood
    <2> SUFFICES ASSUME LimiterInv, logged > 0
                 PROVE  Interval * (logged - 1) < run
      BY DEF NoFlood
    <2>1. /\ limiter.emitted \in Nat /\ limiter.occurrences \in Nat
          /\ run \in Nat /\ logged \in Nat /\ reported \in Nat
      BY LimiterFields DEF LimiterInv, TypeOK
    <2>2. limiter.emitted > 0 /\ limiter.emitted <= run
      BY <2>1 DEF LimiterInv, LogComplete
    <2>3. PICK a \in Nat : limiter.emitted - 1 = Interval * a /\ logged <= a + 1
      BY <2>2 DEF LimiterInv, Spaced
    <2>4. logged - 1 \in Nat /\ logged - 1 <= a
      BY <2>1, <2>3
    <2>5. Interval * (logged - 1) <= Interval * a
      BY <2>4, LimiterAssumption, Multiples
    <2>6. Interval * (logged - 1) \in Int
      BY <2>4, LimiterAssumption
    <2> QED BY <2>1, <2>2, <2>3, <2>5, <2>6
  <1> QED BY <1>1, LimiterInvariant, PTL
=============================================================================
