------------------------ MODULE RuntimeHarnessProofs ------------------------
(***************************************************************************)
(* Theorems about RuntimeHarness, for every width of the counters, every   *)
(* step limit, every seeded store and every script.                        *)
(***************************************************************************)
EXTENDS HarnessHistory, FiniteSetTheorems, WellFoundedInduction, TLAPS

(* A fresh durable state is one, and valid. *)
LEMMA FreshState ==
  /\ NoInflight \in Inflight /\ Fresh \in DurableState
  /\ Validate(Fresh)
  <1>1. 0 \in U64
    BY HarnessAssumption DEF U64
  <1>2. NoInflight \in Inflight
    BY <1>1, Zenon DEF NoInflight, Inflight
  <1>3. Fresh \in DurableState
    BY <1>1, <1>2, Zenon DEF Fresh, DurableState
  <1>4. Validate(Fresh)
    BY DEF Validate, ValidSession, ValidInflight, Fresh
  <1> QED BY <1>2, <1>3, <1>4

(* The components of a durable state. *)
LEMMA StateFields ==
  ASSUME NEW s \in DurableState
  PROVE  /\ s.last_session_id \in U64 /\ s.committed_tick_seq \in U64
         /\ s.committed_ingress_seq \in U64 /\ s.inflight \in Inflight
  BY DEF DurableState

(* A u64 is a natural number. *)
LEMMA U64Nat == ASSUME NEW n \in U64 PROVE n \in Nat /\ n + 1 # 0
  BY DEF U64

(* The components of a logged output. *)
LEMMA LogFields ==
  ASSUME NEW l \in Seq(Output), NEW i \in 1 .. Len(l)
  PROVE  l[i].session \in Nat /\ l[i].tick \in Nat /\ l[i].ingress \in Nat
  <1>1. l[i] \in Output
    OBVIOUS
  <1>2. l[i].session \in U64 /\ l[i].tick \in U64 /\ l[i].ingress \in U64
    BY <1>1, Zenon DEF Output
  <1> QED BY <1>2, U64Nat

(* One more, below the maximum, is still a u64. *)
LEMMA NextNumber ==
  ASSUME NEW n \in U64, n < U64Max PROVE n + 1 \in U64 /\ n + 1 > n /\ n + 1 # 0
  BY HarnessAssumption DEF U64

(* What recovery writes: the next session, no marker, the same marks. *)
LEMMA RecoveredState ==
  ASSUME NEW s \in DurableState, s.last_session_id < U64Max
  PROVE  /\ Recovered(s) \in DurableState
         /\ Recovered(s).last_session_id = s.last_session_id + 1
         /\ Recovered(s).committed_tick_seq = s.committed_tick_seq
         /\ Recovered(s).committed_ingress_seq = s.committed_ingress_seq
         /\ Recovered(s).inflight = NoInflight
         /\ Validate(Recovered(s))
  <1>1. s.last_session_id + 1 \in U64 /\ s.last_session_id + 1 # 0
    BY StateFields, NextNumber
  <1> DEFINE r == Recovered(s)
  <1>2. /\ r.last_session_id = s.last_session_id + 1
        /\ r.committed_tick_seq = s.committed_tick_seq
        /\ r.committed_ingress_seq = s.committed_ingress_seq
        /\ r.inflight = NoInflight
    BY Zenon DEF Recovered, DurableState
  <1>3. r \in DurableState
    BY <1>1, FreshState, Zenon DEF Recovered, DurableState
  <1> HIDE DEF r
  <1>4. Validate(r)
    BY <1>1, <1>2, Zenon DEF Validate, ValidSession, ValidInflight
  <1> QED BY <1>2, <1>3, <1>4 DEF r

(* The first session's state, written over an empty store. *)
LEMMA FirstState ==
  LET f == [Fresh EXCEPT !.last_session_id = 1]
  IN /\ f \in DurableState
     /\ f.last_session_id = Fresh.last_session_id + 1
     /\ f.committed_tick_seq = Fresh.committed_tick_seq
     /\ f.committed_ingress_seq = Fresh.committed_ingress_seq
     /\ f.inflight = NoInflight
     /\ Validate(f)
  <1> DEFINE f == [Fresh EXCEPT !.last_session_id = 1]
  <1>1. 0 \in U64 /\ 1 \in U64
    BY HarnessAssumption DEF U64
  <1>2. f = [last_session_id |-> 1, committed_tick_seq |-> 0,
             committed_ingress_seq |-> 0, inflight |-> NoInflight]
    BY DEF Fresh
  <1>3. /\ f.last_session_id = 1 /\ f.committed_tick_seq = 0
        /\ f.committed_ingress_seq = 0 /\ f.inflight = NoInflight
    BY <1>2
  <1>4. f \in DurableState
    BY <1>1, <1>2, FreshState, Zenon DEF DurableState
  <1>5. Validate(f)
    BY <1>3 DEF Validate, ValidSession, ValidInflight
  <1>6. /\ Fresh.last_session_id = 0 /\ Fresh.committed_tick_seq = 0
        /\ Fresh.committed_ingress_seq = 0
    BY DEF Fresh
  <1> QED BY <1>3, <1>4, <1>5, <1>6

(* The state with the marker of a tick. *)
LEMMA MarkedState ==
  ASSUME NEW seq \in U64, durable \in DurableState, session_id \in U64,
         durable.committed_tick_seq < U64Max,
         seq > durable.committed_ingress_seq,
         session_id = durable.last_session_id, session_id # 0
  PROVE  /\ Marked(seq) \in DurableState
         /\ Marked(seq).last_session_id = durable.last_session_id
         /\ Marked(seq).committed_tick_seq = durable.committed_tick_seq
         /\ Marked(seq).committed_ingress_seq = durable.committed_ingress_seq
         /\ Marked(seq).inflight # NoInflight
         /\ Marked(seq).inflight.ingress_seq = seq
         /\ Validate(Marked(seq))
  <1> DEFINE inf == [session_id |-> session_id,
                     tick_seq |-> durable.committed_tick_seq + 1,
                     ingress_seq |-> seq]
             m == Marked(seq)
  <1>1. durable.committed_tick_seq + 1 \in U64
    BY StateFields, NextNumber
  <1>2. inf \in Inflight
    BY <1>1, Zenon DEF Inflight
  <1>3. m = [last_session_id |-> durable.last_session_id,
             committed_tick_seq |-> durable.committed_tick_seq,
             committed_ingress_seq |-> durable.committed_ingress_seq,
             inflight |-> inf]
    BY DEF Marked, DurableState
  <1>4. /\ m.last_session_id = durable.last_session_id
        /\ m.committed_tick_seq = durable.committed_tick_seq
        /\ m.committed_ingress_seq = durable.committed_ingress_seq
        /\ m.inflight = inf
    BY <1>3
  <1>5. m \in DurableState
    BY <1>2, <1>3, StateFields, Zenon DEF DurableState
  <1>6. inf # NoInflight /\ inf.ingress_seq = seq
    BY DEF NoInflight
  <1>7. Validate(m)
    BY <1>4, <1>6 DEF Validate, ValidSession, ValidInflight
  <1> QED BY <1>4, <1>5, <1>6, <1>7

(* The state after a publication. *)
LEMMA CommittedState ==
  ASSUME NEW seq \in U64, durable \in DurableState,
         durable.committed_tick_seq < U64Max, durable.last_session_id # 0
  PROVE  /\ Committed(seq) \in DurableState
         /\ Committed(seq).last_session_id = durable.last_session_id
         /\ Committed(seq).committed_tick_seq = durable.committed_tick_seq + 1
         /\ Committed(seq).committed_ingress_seq = seq
         /\ Committed(seq).inflight = NoInflight
         /\ Validate(Committed(seq))
  <1> DEFINE c == Committed(seq)
  <1>1. durable.committed_tick_seq + 1 \in U64
    BY StateFields, NextNumber
  <1>2. /\ c.last_session_id = durable.last_session_id
        /\ c.committed_tick_seq = durable.committed_tick_seq + 1
        /\ c.committed_ingress_seq = seq
        /\ c.inflight = NoInflight
    BY Zenon DEF Committed, DurableState
  <1>3. c \in DurableState
    BY <1>1, FreshState, Zenon DEF Committed, DurableState
  <1> HIDE DEF c
  <1>4. Validate(c)
    BY <1>2, Zenon DEF Validate, ValidSession, ValidInflight
  <1> QED BY <1>2, <1>3, <1>4 DEF c
-----------------------------------------------------------------------------
(* Type correctness                                                        *)

(* Every fault point has a health, and recording it keeps the history's    *)
(* type.                                                                   *)
LEMMA FaultTypes ==
  ASSUME NEW point \in FaultPoint, died_of \in FaultPoint \cup {"none"}
  PROVE  /\ injected_terminal_health(point) \in Health
         /\ injected_terminal_health(point) # "live"
         /\ FirstFault(point) \in FaultPoint \cup {"none"}
  <1>1. /\ injected_terminal_health(point) \in Health
        /\ injected_terminal_health(point) # "live"
    BY DEF injected_terminal_health, Health
  <1>2. FirstFault(point) \in FaultPoint \cup {"none"}
    BY Zenon DEF FirstFault
  <1> QED BY <1>1, <1>2

(* A script is a sequence of u64. *)
LEMMA ScriptType ==
  ASSUME NEW a \in Int, NEW b \in Int, a >= 1, b >= a - 1, b <= U64Max
  PROVE  Script(a, b) \in Seq(U64)
  <1>1. \A i \in 1 .. b - a + 1 : a + i - 1 \in U64
    BY HarnessAssumption DEF U64
  <1>2. b - a + 1 \in Nat
    OBVIOUS
  <1> QED BY <1>1, <1>2, SMT DEF Script

(* What a fetched packet is. *)
LEMMA TailType ==
  ASSUME NEW T, NEW s \in Seq(T), s # << >> PROVE Tail(s) \in Seq(T)
  OBVIOUS

(* The part of the state a process keeps in memory has its type. *)
Volatile ==
  /\ source \in Seq(U64)
  /\ published \in Seq(Output)
  /\ health \in Health
  /\ session_id \in U64
  /\ live \in BOOLEAN /\ live_loop_entered \in BOOLEAN /\ channel_open \in BOOLEAN
  /\ restart_outcome \in {"none", "fresh_start", "recovered_clean",
                          "recovered_incomplete", "rejected_invalid"}
  /\ steps_taken \in 0 .. MAX_STEPS + 1

Kept ==
  /\ store \in {"empty", "malformed", "state"}
  /\ stored \in DurableState /\ durable \in DurableState
  /\ log \in Seq(Output)
  /\ base \in [tick : U64, ingress : U64]
  /\ died_of \in FaultPoint \cup {"none"}

(* The two halves are the type invariant. *)
LEMMA Halves == TypeOK <=> Volatile /\ Kept
  BY Zenon DEF TypeOK, Volatile, Kept

(* Every counter step stays within the limit. *)
LEMMA StepTypes ==
  ASSUME steps_taken \in 0 .. MAX_STEPS + 1, Ticking
  PROVE  steps_taken' \in 0 .. MAX_STEPS + 1
  BY HarnessAssumption DEF Ticking

(* What the initial state looks like. *)
LEMMA InitTypes == Init => TypeOK
  <1> SUFFICES ASSUME Init PROVE Volatile /\ Kept
    BY Halves
  <1>1. 0 \in U64 /\ 0 \in 0 .. MAX_STEPS + 1
    BY HarnessAssumption DEF U64
  <1>2. stored \in DurableState
    BY HarnessAssumption, FreshState, Zenon DEF Init
  <1>3. base \in [tick : U64, ingress : U64]
    BY <1>2, StateFields, Zenon DEF Init
  <1>4. source \in Seq(U64) /\ published \in Seq(Output) /\ log \in Seq(Output)
    BY DEF Init
  <1>5. /\ health \in Health /\ session_id \in U64
        /\ restart_outcome \in {"none", "fresh_start", "recovered_clean",
                                "recovered_incomplete", "rejected_invalid"}
        /\ live \in BOOLEAN /\ live_loop_entered \in BOOLEAN
        /\ channel_open \in BOOLEAN
        /\ steps_taken \in 0 .. MAX_STEPS + 1
    BY <1>1, Zenon DEF Init, Health
  <1>6. /\ store \in {"empty", "malformed", "state"}
        /\ durable \in DurableState
        /\ died_of \in FaultPoint \cup {"none"}
    BY FreshState, Zenon DEF Init
  <1> QED BY <1>2, <1>3, <1>4, <1>5, <1>6, Zenon DEF Volatile, Kept

(* A restart keeps the types. *)
LEMMA RestartTypes == ASSUME TypeOK, Restart PROVE TypeOK'
  <1>1. 0 \in U64 /\ 0 \in 0 .. MAX_STEPS + 1
    BY HarnessAssumption DEF U64
  <1>2. source' \in Seq(U64)
    <2>1. PICK a \in 1 .. stored.committed_ingress_seq + 1 :
            \E b \in a - 1 .. U64Max : source' = Script(a, b)
      BY DEF Restart
    <2>2. PICK b \in a - 1 .. U64Max : source' = Script(a, b)
      BY <2>1
    <2>3. stored.committed_ingress_seq \in Int /\ U64Max \in Int
      BY HarnessAssumption DEF TypeOK, DurableState, U64
    <2>4. a \in Int /\ b \in Int /\ a >= 1 /\ b >= a - 1 /\ b <= U64Max
      BY <2>3
    <2> QED BY <2>2, <2>4, ScriptType
  <1>3. published' \in Seq(Output)
    BY DEF Restart
  <1>4. Volatile'
    BY <1>1, <1>2, <1>3, Zenon DEF Restart, Volatile, Health
  <1>5. Kept'
    BY FreshState, Zenon DEF Restart, Kept, TypeOK, disk, history
  <1> QED BY <1>4, <1>5, Zenon DEF TypeOK, Volatile, Kept

(* A boot keeps the types, wherever it ends. *)
LEMMA BootTypes == ASSUME TypeOK, Boot PROVE TypeOK'
  <1>1. CASE \E point \in BootFaults : BootFailsInitialize(point)
    <2>1. PICK point \in BootFaults : BootFailsInitialize(point)
      BY <1>1
    <2>2. point \in FaultPoint
      BY Zenon DEF FaultPoint
    <2>3. published' \in Seq(Output)
      <3>1. published' = published \/ published' = << >>
        BY <2>1, Zenon DEF BootFailsInitialize
      <3>2. published \in Seq(Output) /\ << >> \in Seq(Output)
        BY DEF TypeOK
      <3> QED BY <3>1, <3>2, Zenon
    <2>4. health' \in Health /\ died_of' \in FaultPoint \cup {"none"}
      BY <2>1, <2>2, FaultTypes, Zenon DEF BootFailsInitialize, Fault, TypeOK
    <2>5. channel_open' \in BOOLEAN /\ live' \in BOOLEAN
      BY <2>1, Zenon DEF BootFailsInitialize, Fault, TypeOK
    <2> QED
      BY <2>1, <2>3, <2>4, <2>5, Zenon DEF BootFailsInitialize, Fault, TypeOK, disk
  <1>2. CASE BootPoisonsStore
    <2>1. "malformed_checkpoint" \in FaultPoint
      BY DEF FaultPoint, BootFaults
    <2>2. health' \in Health /\ died_of' \in FaultPoint \cup {"none"}
      BY <1>2, <2>1, FaultTypes, Zenon DEF BootPoisonsStore, Fault, TypeOK
    <2>3. published' \in Seq(Output)
      BY <1>2 DEF BootPoisonsStore
    <2> QED
      BY <1>2, <2>2, <2>3, Zenon DEF BootPoisonsStore, Fault, TypeOK
  <1>3. CASE BootRejects
    <2>1. published' \in Seq(Output)
      BY <1>3 DEF BootRejects
    <2> QED
      BY <1>3, <2>1, Zenon DEF BootRejects, TypeOK, Health, disk, history
  <1>4. CASE BootValidates
    <2>1. /\ store' = "state" /\ stored' = durable'
          /\ durable' \in DurableState
      <3>1. CASE Persist([Fresh EXCEPT !.last_session_id = 1])
        BY <3>1, FirstState, Zenon DEF Persist
      <3>2. CASE stored.last_session_id < U64Max /\ Persist(Recovered(stored))
        BY <3>2, RecoveredState, Zenon DEF Persist, TypeOK
      <3> QED BY <1>4, <3>1, <3>2, Zenon DEF BootValidates
    <2>2. session_id' \in U64
      BY <1>4, <2>1, StateFields, Zenon DEF BootValidates
    <2>3. published' \in Seq(Output)
      BY <1>4 DEF BootValidates
    <2>4. "after_checkpoint_validation" \in FaultPoint
      BY DEF FaultPoint, BootFaults
    <2>5. /\ health' \in Health /\ died_of' \in FaultPoint \cup {"none"}
          /\ live' \in BOOLEAN /\ live_loop_entered' \in BOOLEAN
      BY <1>4, <2>4, FaultTypes, Zenon DEF BootValidates, TypeOK, Health
    <2>6. restart_outcome' \in {"none", "fresh_start", "recovered_clean",
                                "recovered_incomplete", "rejected_invalid"}
      BY <1>4, Zenon DEF BootValidates
    <2> QED
      BY <1>4, <2>1, <2>2, <2>3, <2>5, <2>6, Zenon DEF BootValidates, TypeOK
  <1> QED BY <1>1, <1>2, <1>3, <1>4, Zenon DEF Boot

(* The types of what a tick fetched. *)
LEMMA FetchTypes ==
  ASSUME TypeOK, NEW seq \in U64, Fetched(seq)
  PROVE  source' \in Seq(U64) /\ steps_taken' \in 0 .. MAX_STEPS + 1
  <1>1. source' \in Seq(U64)
    BY DEF Fetched, TypeOK
  <1>2. steps_taken' \in 0 .. MAX_STEPS + 1
    BY StepTypes, Zenon DEF Fetched, TypeOK
  <1> QED BY <1>1, <1>2

(* A tick keeps the types, wherever it ends.  Marking and committing use   *)
(* the session's number and the next tick's.                               *)
LEMMA TickTypes ==
  ASSUME TypeOK, RunTick,
         live => session_id = durable.last_session_id /\ session_id # 0
  PROVE  TypeOK'
  <1>1. CASE TickOverLimit
    <2>1. steps_taken' \in 0 .. MAX_STEPS + 1
      BY <1>1, HarnessAssumption DEF TickOverLimit
    <2> QED
      BY <1>1, <2>1, Zenon DEF TickOverLimit, TypeOK, disk, session, history
  <1>2. CASE NoIngress
    <2>1. steps_taken' \in 0 .. MAX_STEPS + 1
      BY <1>2, StepTypes, Zenon DEF NoIngress, TypeOK
    <2> QED BY <1>2, <2>1, Zenon DEF NoIngress, TypeOK, disk, session, history
  <1>3. CASE SkippedReplay
    <2>1. source' \in Seq(U64) /\ steps_taken' \in 0 .. MAX_STEPS + 1
      BY <1>3, FetchTypes, Zenon DEF SkippedReplay
    <2> QED BY <1>3, <2>1, Zenon DEF SkippedReplay, TypeOK, disk, session, history
  <1>4. CASE TickFailsUnmarked
    <2>1. source' \in Seq(U64) /\ steps_taken' \in 0 .. MAX_STEPS + 1
      BY <1>4, FetchTypes, Zenon DEF TickFailsUnmarked
    <2>2. "before_tick_execute" \in FaultPoint
      BY DEF FaultPoint, TickFaults
    <2>3. /\ health' \in Health /\ died_of' \in FaultPoint \cup {"none"}
          /\ live' \in BOOLEAN /\ log' = log /\ base' = base
      BY <1>4, <2>2, FaultTypes, Zenon
      DEF TickFailsUnmarked, Fault, TypeOK, Health, history
    <2> QED
      BY <1>4, <2>1, <2>3, Zenon DEF TickFailsUnmarked, TypeOK, disk, session
  <1>5. CASE \E point \in FaultPoint : TickFailsIngress(point)
    <2>1. PICK point \in FaultPoint : TickFailsIngress(point)
      BY <1>5
    <2>2. source' \in Seq(U64)
      BY <2>1 DEF TickFailsIngress, TypeOK
    <2>3. steps_taken' \in 0 .. MAX_STEPS + 1
      BY <2>1, StepTypes, Zenon DEF TickFailsIngress, TypeOK
    <2>4. /\ health' \in Health /\ died_of' \in FaultPoint \cup {"none"}
          /\ live' \in BOOLEAN
      BY <2>1, FaultTypes, Zenon DEF TickFailsIngress, Fault, TypeOK
    <2> QED
      BY <2>1, <2>2, <2>3, <2>4, Zenon
      DEF TickFailsIngress, Fault, TypeOK, disk, session
  <1>6. CASE \E point \in FaultPoint : TickFailsMarked(point)
    <2>1. PICK point \in FaultPoint : TickFailsMarked(point)
      BY <1>6
    <2>2. PICK seq \in U64 : /\ Fetched(seq) /\ ~IsReplay(seq)
                             /\ durable.committed_tick_seq < U64Max
                             /\ Persist(Marked(seq))
      BY <2>1, Zenon DEF TickFailsMarked
    <2>3. source' \in Seq(U64) /\ steps_taken' \in 0 .. MAX_STEPS + 1
      BY <2>2, FetchTypes, Zenon
    <2>4. seq > durable.committed_ingress_seq
      BY <2>2 DEF IsReplay, TypeOK, DurableState, U64
    <2>5. live
      BY <2>2, Zenon DEF Fetched, Ticking
    <2>6. Marked(seq) \in DurableState
      BY <2>2, <2>4, <2>5, MarkedState, Zenon DEF TypeOK
    <2>7. store' = "state" /\ stored' \in DurableState /\ durable' \in DurableState
      BY <2>2, <2>6, Zenon DEF Persist
    <2>8. /\ health' \in Health /\ died_of' \in FaultPoint \cup {"none"}
          /\ live' \in BOOLEAN
      BY <2>1, FaultTypes, Zenon DEF TickFailsMarked, Fault, TypeOK
    <2> QED
      BY <2>1, <2>3, <2>7, <2>8, Zenon DEF TickFailsMarked, Fault, TypeOK, session
  <1>7. CASE TickPublishes
    <2> DEFINE out(seq) == [session |-> session_id,
                            tick |-> durable.committed_tick_seq + 1,
                            ingress |-> seq]
    <2>1. PICK seq \in U64 : /\ Fetched(seq) /\ ~IsReplay(seq)
                             /\ durable.committed_tick_seq < U64Max
                             /\ Persist(Committed(seq))
                             /\ published' = Append(published, out(seq))
                             /\ log' = Append(log, out(seq))
      BY <1>7, Zenon DEF TickPublishes
    <2>2. source' \in Seq(U64) /\ steps_taken' \in 0 .. MAX_STEPS + 1
      BY <2>1, FetchTypes, Zenon
    <2>3. live
      BY <2>1, Zenon DEF Fetched, Ticking
    <2>4. Committed(seq) \in DurableState
      BY <2>1, <2>3, CommittedState, Zenon DEF TypeOK
    <2>5. store' = "state" /\ stored' \in DurableState /\ durable' \in DurableState
      BY <2>1, <2>4, Zenon DEF Persist
    <2>6. durable.committed_tick_seq + 1 \in U64
      BY <2>1, StateFields, NextNumber DEF TypeOK
    <2>7. out(seq) \in Output
      BY <2>6, Zenon DEF Output, TypeOK
    <2> HIDE DEF out
    <2>8. published' \in Seq(Output) /\ log' \in Seq(Output)
      BY <2>1, <2>7 DEF TypeOK
    <2>9. "after_metric_publish" \in FaultPoint
      BY DEF FaultPoint, PublishFaults
    <2>10. /\ health' \in Health /\ died_of' \in FaultPoint \cup {"none"}
           /\ live' \in BOOLEAN
      BY <1>7, <2>9, FaultTypes, Zenon DEF TickPublishes, TypeOK
    <2> QED
      BY <1>7, <2>2, <2>5, <2>8, <2>10, Zenon DEF TickPublishes, TypeOK, session
  <1> QED BY <1>1, <1>2, <1>3, <1>4, <1>5, <1>6, <1>7, Zenon DEF RunTick

(* A shutdown keeps the types. *)
LEMMA ShutdownTypes == ASSUME TypeOK, Shutdown PROVE TypeOK'
  <1>1. /\ "before_shutdown" \in FaultPoint /\ "interrupted_shutdown" \in FaultPoint
        /\ "after_shutdown" \in FaultPoint
    BY DEF FaultPoint, ShutdownFaults
  <1>2. /\ health' \in Health /\ died_of' \in FaultPoint \cup {"none"}
        /\ live' \in BOOLEAN /\ channel_open' \in BOOLEAN
        /\ log' = log /\ base' = base
    BY <1>1, FaultTypes, Zenon DEF Shutdown, Fault, TypeOK, Health, history
  <1> QED BY <1>2, Zenon DEF Shutdown, TypeOK, disk, session

(* Upstream's pushes keep the types. *)
LEMMA PushTypes == ASSUME TypeOK, PushIngress \/ PushIngressFront PROVE TypeOK'
  <1>1. \A n : \A m \in 0 .. n : m <= U64Max => m \in U64
    BY HarnessAssumption DEF U64
  <1>2. source' \in Seq(U64)
    <2>1. CASE PushIngress
      <3>1. PICK m : m \in U64 /\ source' = Append(source, m)
        BY <1>1, <2>1, Zenon DEF PushIngress
      <3> QED BY <3>1 DEF TypeOK
    <2>2. CASE PushIngressFront
      <3>1. PICK m : m \in U64 /\ source' = << m >> \o source
        BY <1>1, <2>2, Zenon DEF PushIngressFront
      <3>2. << m >> \in Seq(U64)
        BY <3>1
      <3> QED BY <3>1, <3>2 DEF TypeOK
    <2> QED BY <2>1, <2>2
  <1> QED
    BY <1>2, Zenon
    DEF PushIngress, PushIngressFront, TypeOK, disk, session, history
-----------------------------------------------------------------------------
(* The inductive invariant                                                 *)

OnDisk == Validate(stored) /\ (store = "empty" => stored = Fresh)

Alive ==
  live => /\ store = "state" /\ durable = stored
          /\ session_id = stored.last_session_id /\ session_id # 0
          /\ stored.inflight = NoInflight
          /\ channel_open /\ health = "live" /\ died_of = "none"

SessionsBelow == \A i \in 1 .. Len(log) : log[i].session <= stored.last_session_id

Core == /\ OnDisk /\ Alive /\ InflightMatchesFault
        /\ LogOrdered /\ MarksAgree /\ OwnOutputs /\ SessionsBelow

HarnessInv == TypeOK /\ Core

(* Steps that leave what is stored and what was published alone. *)
Quiet ==
  /\ UNCHANGED << stored, log, base >>
  /\ store' \in {store, "malformed"}
  /\ \/ live' = FALSE
     \/ UNCHANGED << live, store, durable, session_id, channel_open, health, died_of >>
  /\ \/ died_of' = died_of
     \/ died_of = "none" /\ died_of' \notin incomplete_tick
  /\ \/ published' = << >>
     \/ UNCHANGED << published, session_id >>

(* A boot that validates: the next session, nothing in flight. *)
Opens ==
  /\ UNCHANGED << log, base >>
  /\ store' = "state" /\ durable' = stored'
  /\ stored'.last_session_id = stored.last_session_id + 1
  /\ stored'.committed_tick_seq = stored.committed_tick_seq
  /\ stored'.committed_ingress_seq = stored.committed_ingress_seq
  /\ stored'.inflight = NoInflight
  /\ Validate(stored')
  /\ session_id' = stored'.last_session_id
  /\ channel_open' /\ published' = << >>
  /\ \/ live' = TRUE /\ health' = "live" /\ died_of' = "none"
     \/ live' = FALSE /\ died_of' = "after_checkpoint_validation"

(* A tick that dies with its marker on disk. *)
Marks ==
  /\ UNCHANGED << log, base, published, session_id >>
  /\ store' = "state" /\ live /\ live' = FALSE
  /\ stored'.last_session_id = stored.last_session_id
  /\ stored'.committed_tick_seq = stored.committed_tick_seq
  /\ stored'.committed_ingress_seq = stored.committed_ingress_seq
  /\ stored'.inflight # NoInflight
  /\ stored'.inflight.ingress_seq \in U64
  /\ stored'.inflight.ingress_seq > stored.committed_ingress_seq
  /\ Validate(stored')
  /\ died_of' \in incomplete_tick

(* A tick that publishes seq. *)
Published(seq) ==
  LET output == [session |-> session_id, tick |-> stored.committed_tick_seq + 1,
                 ingress |-> seq]
  IN /\ base' = base /\ session_id' = session_id
     /\ store' = "state" /\ live
     /\ durable' = stored'
     /\ seq > stored.committed_ingress_seq
     /\ stored'.last_session_id = stored.last_session_id
     /\ stored'.committed_tick_seq = stored.committed_tick_seq + 1
     /\ stored'.committed_ingress_seq = seq
     /\ stored'.inflight = NoInflight
     /\ Validate(stored')
     /\ output \in Output
     /\ log' = Append(log, output) /\ published' = Append(published, output)
     /\ channel_open' = channel_open
     /\ \/ UNCHANGED << health, live, died_of >>
        \/ live' = FALSE /\ died_of' \notin incomplete_tick

(* The fault points outside the oracle's incomplete ticks. *)
LEMMA CompletePoints ==
  /\ BootFaults \cap incomplete_tick = {}
  /\ IngressFaults \cap incomplete_tick = {}
  /\ ShutdownFaults \cap incomplete_tick = {}
  /\ {"before_tick_execute", "after_metric_publish", "none"} \cap incomplete_tick = {}
  BY DEF BootFaults, IngressFaults, ShutdownFaults, incomplete_tick

(* A fault that touches neither store nor log is a quiet step's. *)
LEMMA QuietFault ==
  ASSUME NEW point, point \notin incomplete_tick, Fault(point)
  PROVE  /\ UNCHANGED << log, base >> /\ live' = FALSE
         /\ \/ died_of' = died_of
            \/ died_of = "none" /\ died_of' \notin incomplete_tick
  BY Zenon DEF Fault, FirstFault
-----------------------------------------------------------------------------
(* Each action is a step of one of those four kinds.                       *)

(* Boots are quiet until they validate. *)
LEMMA BootKinds ==
  ASSUME TypeOK, Core, Boot PROVE Quiet \/ Opens
  <1>1. CASE \E point \in BootFaults : BootFailsInitialize(point)
    <2>1. PICK point \in BootFaults : BootFailsInitialize(point)
      BY <1>1
    <2>2. point \notin incomplete_tick
      BY CompletePoints, Zenon
    <2>3. \/ published' = << >>
          \/ UNCHANGED << published, session_id >>
      BY <2>1, Zenon DEF BootFailsInitialize
    <2>4. Fault(point) /\ UNCHANGED disk
      BY <2>1, Zenon DEF BootFailsInitialize
    <2> QED BY <2>2, <2>3, <2>4, QuietFault, Zenon DEF Quiet, disk
  <1>2. CASE BootPoisonsStore
    <2>1. "malformed_checkpoint" \notin incomplete_tick
      BY DEF incomplete_tick
    <2>2. Fault("malformed_checkpoint")
      BY <1>2, Zenon DEF BootPoisonsStore
    <2> QED BY <1>2, <2>1, <2>2, QuietFault, Zenon DEF Quiet, BootPoisonsStore
  <1>3. CASE BootRejects
    BY <1>3, Zenon DEF BootRejects, Quiet, disk, history
  <1>4. CASE BootValidates
    <2>1. /\ store' = "state" /\ durable' = stored'
          /\ stored'.last_session_id = stored.last_session_id + 1
          /\ stored'.committed_tick_seq = stored.committed_tick_seq
          /\ stored'.committed_ingress_seq = stored.committed_ingress_seq
          /\ stored'.inflight = NoInflight
          /\ Validate(stored')
      <3>1. CASE store = "empty" /\ Persist([Fresh EXCEPT !.last_session_id = 1])
        <4>1. stored = Fresh
          BY <3>1, Zenon DEF Core, OnDisk
        <4> DEFINE f == [Fresh EXCEPT !.last_session_id = 1]
        <4>2. /\ f.last_session_id = Fresh.last_session_id + 1
              /\ f.committed_tick_seq = Fresh.committed_tick_seq
              /\ f.committed_ingress_seq = Fresh.committed_ingress_seq
              /\ f.inflight = NoInflight
              /\ Validate(f)
          BY FirstState, Zenon
        <4>3. store' = "state" /\ stored' = f /\ durable' = f
          BY <3>1, Zenon DEF Persist
        <4> HIDE DEF f
        <4> QED BY <4>1, <4>2, <4>3, Zenon
      <3>2. CASE stored.last_session_id < U64Max /\ Persist(Recovered(stored))
        <4>1. /\ Recovered(stored).last_session_id = stored.last_session_id + 1
              /\ Recovered(stored).committed_tick_seq = stored.committed_tick_seq
              /\ Recovered(stored).committed_ingress_seq = stored.committed_ingress_seq
              /\ Recovered(stored).inflight = NoInflight
              /\ Validate(Recovered(stored))
          BY <3>2, RecoveredState, Zenon DEF TypeOK
        <4>2. store' = "state" /\ stored' = Recovered(stored)
                /\ durable' = Recovered(stored)
          BY <3>2, Zenon DEF Persist
        <4> QED BY <4>1, <4>2, Zenon
      <3> QED BY <1>4, <3>1, <3>2, Zenon DEF BootValidates
    <2>2. session_id' = stored'.last_session_id
      BY <1>4, <2>1, Zenon DEF BootValidates
    <2>3. /\ UNCHANGED << log, base >> /\ channel_open' /\ published' = << >>
          /\ \/ live' = TRUE /\ health' = "live" /\ died_of' = "none"
             \/ live' = FALSE /\ died_of' = "after_checkpoint_validation"
      BY <1>4, Zenon DEF BootValidates
    <2> QED BY <2>1, <2>2, <2>3, Zenon DEF Opens
  <1> QED BY <1>1, <1>2, <1>3, <1>4, Zenon DEF Boot

(* Ticks are quiet, die marked, or publish. *)
LEMMA TickKinds ==
  ASSUME TypeOK, Core, RunTick
  PROVE  Quiet \/ Marks \/ \E seq \in U64 : Published(seq)
  <1>1. CASE TickOverLimit \/ NoIngress \/ SkippedReplay
    BY <1>1, Zenon
    DEF TickOverLimit, NoIngress, SkippedReplay, Quiet, disk, session, history
  <1>2. CASE TickFailsUnmarked
    <2>1. "before_tick_execute" \notin incomplete_tick
      BY DEF incomplete_tick
    <2>2. /\ UNCHANGED << log, base >> /\ live' = FALSE
          /\ \/ died_of' = died_of
             \/ died_of = "none" /\ died_of' \notin incomplete_tick
      BY <1>2, <2>1, QuietFault, Zenon DEF TickFailsUnmarked, history
    <2> QED
      BY <1>2, <2>2, Zenon DEF TickFailsUnmarked, Quiet, disk, session
  <1>3. CASE \E point \in FaultPoint : TickFailsIngress(point)
    <2>1. PICK point \in FaultPoint : TickFailsIngress(point)
      BY <1>3
    <2>2. point \notin incomplete_tick
      BY <2>1, CompletePoints, Zenon DEF TickFailsIngress
    <2> QED
      BY <2>1, <2>2, QuietFault, Zenon DEF TickFailsIngress, Quiet, disk, session
  <1>4. CASE \E point \in FaultPoint : TickFailsMarked(point)
    <2>1. PICK point \in FaultPoint : TickFailsMarked(point)
      BY <1>4
    <2>2. PICK seq \in U64 : /\ Fetched(seq) /\ ~IsReplay(seq)
                             /\ durable.committed_tick_seq < U64Max
                             /\ Persist(Marked(seq))
      BY <2>1, Zenon DEF TickFailsMarked
    <2>3. seq > durable.committed_ingress_seq
      BY <2>2 DEF IsReplay, TypeOK, DurableState, U64
    <2>4. live
      BY <2>2, Zenon DEF Fetched, Ticking
    <2>5. /\ durable = stored /\ session_id = durable.last_session_id
          /\ session_id # 0 /\ died_of = "none"
      BY <2>4, Zenon DEF Core, Alive
    <2>6. /\ Marked(seq).last_session_id = durable.last_session_id
          /\ Marked(seq).committed_tick_seq = durable.committed_tick_seq
          /\ Marked(seq).committed_ingress_seq = durable.committed_ingress_seq
          /\ Marked(seq).inflight # NoInflight
          /\ Marked(seq).inflight.ingress_seq = seq
          /\ Validate(Marked(seq))
      BY <2>2, <2>3, <2>5, MarkedState, Zenon DEF TypeOK
    <2>7. store' = "state" /\ stored' = Marked(seq)
      BY <2>2, Zenon DEF Persist
    <2>8. died_of' \in incomplete_tick
      BY <2>1, <2>5 DEF TickFailsMarked, Fault, FirstFault, incomplete_tick
    <2>9. live' = FALSE /\ UNCHANGED << log, base, published, session_id >>
      BY <2>1, Zenon DEF TickFailsMarked, Fault, session
    <2> QED
      BY <2>3, <2>4, <2>5, <2>6, <2>7, <2>8, <2>9, Zenon DEF Marks
  <1>5. CASE TickPublishes
    <2> DEFINE out(seq) == [session |-> session_id,
                            tick |-> durable.committed_tick_seq + 1,
                            ingress |-> seq]
    <2>1. PICK seq \in U64 : /\ Fetched(seq) /\ ~IsReplay(seq)
                             /\ durable.committed_tick_seq < U64Max
                             /\ Persist(Committed(seq))
                             /\ published' = Append(published, out(seq))
                             /\ log' = Append(log, out(seq))
      BY <1>5, Zenon DEF TickPublishes
    <2>2. live
      BY <2>1, Zenon DEF Fetched, Ticking
    <2>3. /\ durable = stored /\ session_id = durable.last_session_id
          /\ session_id # 0
      BY <2>2, Zenon DEF Core, Alive
    <2>4. /\ Committed(seq).last_session_id = durable.last_session_id
          /\ Committed(seq).committed_tick_seq = durable.committed_tick_seq + 1
          /\ Committed(seq).committed_ingress_seq = seq
          /\ Committed(seq).inflight = NoInflight
          /\ Validate(Committed(seq))
      BY <2>1, <2>3, CommittedState, Zenon DEF TypeOK
    <2>5. store' = "state" /\ stored' = Committed(seq) /\ durable' = Committed(seq)
      BY <2>1, Zenon DEF Persist
    <2>6. seq > durable.committed_ingress_seq
      BY <2>1 DEF IsReplay, TypeOK, DurableState, U64
    <2>7. durable.committed_tick_seq + 1 \in U64
      BY <2>1, StateFields, NextNumber DEF TypeOK
    <2>8. out(seq) \in Output
      BY <2>7, Zenon DEF Output, TypeOK
    <2>9. "after_metric_publish" \notin incomplete_tick /\ "none" \notin incomplete_tick
      BY DEF incomplete_tick
    <2>10. \/ UNCHANGED << health, live, died_of >>
           \/ live' = FALSE /\ died_of' \notin incomplete_tick
      <3>1. died_of = "none"
        BY <2>2, Zenon DEF Core, Alive
      <3> QED BY <1>5, <2>9, <3>1, Zenon DEF TickPublishes, FirstFault
    <2>11. base' = base /\ session_id' = session_id /\ channel_open' = channel_open
      BY <1>5, Zenon DEF TickPublishes, session
    <2>12. Published(seq)
      BY <2>1, <2>2, <2>3, <2>4, <2>5, <2>6, <2>8, <2>10, <2>11, Zenon DEF Published
    <2> QED BY <2>12, Zenon
  <1> QED BY <1>1, <1>2, <1>3, <1>4, <1>5, Zenon DEF RunTick

(* Every step is of one of the four kinds. *)
LEMMA StepKinds ==
  ASSUME HarnessInv, [Next]_vars
  PROVE  Quiet \/ Opens \/ Marks \/ \E seq \in U64 : Published(seq)
  <1>1. CASE Restart
    BY <1>1, Zenon DEF Restart, Quiet, disk, history
  <1>2. CASE Boot
    BY <1>2, BootKinds DEF HarnessInv
  <1>3. CASE RunTick
    BY <1>3, TickKinds, Zenon DEF HarnessInv
  <1>4. CASE Shutdown
    <2>1. /\ "before_shutdown" \notin incomplete_tick
          /\ "interrupted_shutdown" \notin incomplete_tick
          /\ "after_shutdown" \notin incomplete_tick
      BY DEF incomplete_tick
    <2>2. /\ UNCHANGED << log, base >> /\ live' = FALSE
          /\ \/ died_of' = died_of
             \/ died_of = "none" /\ died_of' \notin incomplete_tick
      BY <1>4, <2>1, QuietFault, Zenon DEF Shutdown, history
    <2> QED BY <1>4, <2>2, Zenon DEF Shutdown, Quiet, disk, session
  <1>5. CASE PushIngress \/ PushIngressFront \/ UNCHANGED vars
    BY <1>5, Zenon
    DEF PushIngress, PushIngressFront, vars, Quiet, disk, session, history
  <1> QED BY <1>1, <1>2, <1>3, <1>4, <1>5, Zenon DEF Next
-----------------------------------------------------------------------------
(* Each kind of step keeps the invariant.                                  *)

(* Quiet steps. *)
LEMMA QuietKeeps == ASSUME TypeOK, Core, Quiet PROVE Core'
  <1>1. OnDisk'
    <2>1. store' = "empty" => store = "empty"
      BY DEF Quiet
    <2> QED BY <2>1, Zenon DEF Quiet, Core, OnDisk
  <1>2. Alive'
    <2>1. CASE live' = FALSE
      BY <2>1 DEF Alive
    <2>2. CASE UNCHANGED << live, store, durable, session_id, channel_open, health,
                            died_of >>
      BY <2>2, Zenon DEF Quiet, Core, Alive
    <2> QED BY <2>1, <2>2, Zenon DEF Quiet
  <1>3. InflightMatchesFault'
    <2>1. "none" \notin incomplete_tick
      BY DEF incomplete_tick
    <2> QED BY <2>1, Zenon DEF Quiet, Core, InflightMatchesFault
  <1>4. OwnOutputs'
    <2>1. CASE published' = << >>
      <3>1. Len(log') \in Nat /\ Len(published') = 0
        BY <2>1 DEF Quiet, TypeOK
      <3> QED BY <3>1 DEF OwnOutputs
    <2>2. CASE UNCHANGED << published, session_id >>
      BY <2>2, Zenon DEF Quiet, Core, OwnOutputs
    <2> QED BY <2>1, <2>2, Zenon DEF Quiet
  <1>5. LogOrdered' /\ MarksAgree' /\ SessionsBelow'
    BY Zenon DEF Quiet, Core, LogOrdered, MarksAgree, SessionsBelow
  <1> QED BY <1>1, <1>2, <1>3, <1>4, <1>5, Zenon DEF Core

(* Opening a session. *)
LEMMA OpensKeeps == ASSUME TypeOK, TypeOK', Core, Opens PROVE Core'
  <1>0. stored.last_session_id \in Nat /\ stored.last_session_id + 1 # 0
    BY StateFields, U64Nat DEF TypeOK
  <1>1. OnDisk'
    BY DEF Opens, OnDisk
  <1>2. Alive'
    BY <1>0, Zenon DEF Opens, Alive
  <1>3. InflightMatchesFault'
    BY DEF Opens, InflightMatchesFault, incomplete_tick
  <1>4. OwnOutputs'
    <2>1. Len(log') \in Nat /\ Len(published') = 0
      BY DEF Opens, TypeOK
    <2> QED BY <2>1 DEF OwnOutputs
  <1>5. LogOrdered' /\ MarksAgree'
    BY Zenon DEF Opens, Core, LogOrdered, MarksAgree
  <1>6. SessionsBelow'
    <2> SUFFICES ASSUME NEW i \in 1 .. Len(log)
                 PROVE  log[i].session <= stored.last_session_id + 1
      BY Zenon DEF Opens, SessionsBelow
    <2>1. log[i].session <= stored.last_session_id
      BY Zenon DEF Core, SessionsBelow
    <2>2. log[i].session \in Nat
      BY LogFields DEF TypeOK
    <2> QED BY <1>0, <2>1, <2>2
  <1> QED BY <1>1, <1>2, <1>3, <1>4, <1>5, <1>6, Zenon DEF Core

(* Dying with a marker. *)
LEMMA MarksKeeps == ASSUME TypeOK, Core, Marks PROVE Core'
  <1>1. OnDisk'
    BY DEF Marks, OnDisk
  <1>2. Alive'
    BY DEF Marks, Alive
  <1>3. InflightMatchesFault'
    BY Zenon DEF Marks, InflightMatchesFault
  <1>4. OwnOutputs' /\ LogOrdered' /\ MarksAgree' /\ SessionsBelow'
    BY Zenon DEF Marks, Core, OwnOutputs, LogOrdered, MarksAgree, SessionsBelow
  <1> QED BY <1>1, <1>2, <1>3, <1>4, Zenon DEF Core

(* The last packet published is the highest. *)
LEMMA LastIsHighest ==
  ASSUME TypeOK, Core, NEW i \in 1 .. Len(log)
  PROVE  log[i].ingress <= stored.committed_ingress_seq
  <1>1. Len(log) \in Nat /\ i \in Int /\ 1 <= i /\ i <= Len(log)
    BY DEF TypeOK
  <1>2. log # << >>
    BY <1>1
  <1>3. stored.committed_ingress_seq = log[Len(log)].ingress
    BY <1>2, Zenon DEF Core, MarksAgree
  <1>4. Len(log) \in 1 .. Len(log)
    BY <1>1
  <1>5. log[i].ingress \in Nat /\ log[Len(log)].ingress \in Nat
    BY <1>4, LogFields, Zenon DEF TypeOK
  <1>6. i < Len(log) => log[i].ingress < log[Len(log)].ingress
    BY <1>4, Zenon DEF Core, LogOrdered
  <1> QED BY <1>1, <1>3, <1>5, <1>6

(* Publishing. *)
LEMMA PublishedKeeps ==
  ASSUME TypeOK, Core, NEW seq \in U64, Published(seq) PROVE Core'
  <1> DEFINE n == Len(log)
             o == [session |-> session_id, tick |-> stored.committed_tick_seq + 1,
                   ingress |-> seq]
  <1>0. /\ log' = Append(log, o) /\ published' = Append(published, o)
        /\ o \in Output /\ base' = base /\ session_id' = session_id
    BY Zenon DEF Published
  <1>1. /\ o.session = session_id /\ o.tick = stored.committed_tick_seq + 1
        /\ o.ingress = seq
    OBVIOUS
  <1> HIDE DEF o
  <1>2. n \in Nat /\ Len(log') = n + 1 /\ log'[n + 1] = o
        /\ \A i \in 1 .. n : log'[i] = log[i]
    BY <1>0 DEF TypeOK
  <1>3. session_id = stored.last_session_id
    BY Zenon DEF Published, Core, Alive
  <1>4. /\ seq > stored.committed_ingress_seq /\ seq \in Int
        /\ stored.committed_ingress_seq \in Int
        /\ stored.committed_tick_seq \in Int /\ base.tick \in Int
        /\ stored.last_session_id \in Int
    BY DEF Published, TypeOK, DurableState, U64
  <1>5. \A i \in 1 .. n : /\ log[i].ingress \in Nat /\ log[i].session \in Nat
                          /\ log[i].tick \in Nat
    BY LogFields, Zenon DEF TypeOK
  <1>6. stored.committed_tick_seq = base.tick + n
    BY Zenon DEF Core, MarksAgree
  <1>7. \A i \in 1 .. n : /\ log[i].ingress < seq
                          /\ log[i].session <= stored.last_session_id
                          /\ log[i].tick = base.tick + i
    <2> SUFFICES ASSUME NEW i \in 1 .. n
                 PROVE  /\ log[i].ingress < seq
                        /\ log[i].session <= stored.last_session_id
                        /\ log[i].tick = base.tick + i
      OBVIOUS
    <2>1. log[i].ingress <= stored.committed_ingress_seq
      BY LastIsHighest
    <2>2. log[i].ingress < seq
      BY <1>4, <1>5, <2>1
    <2> QED BY <2>2, Zenon DEF Core, SessionsBelow, LogOrdered
  <1> HIDE DEF n
  <1>8. \A i \in 1 .. n + 1 : i \in 1 .. n \/ i = n + 1
    BY <1>2
  <1>9. LogOrdered'
    <2>1. \A i \in 1 .. n + 1 : log'[i].tick = base.tick + i
      <3>1. \A i \in 1 .. n : log'[i].tick = base.tick + i
        BY <1>2, <1>7, Zenon
      <3>2. stored.committed_tick_seq + 1 = base.tick + (n + 1)
        BY <1>2, <1>4, <1>6
      <3>3. log'[n + 1].tick = base.tick + (n + 1)
        BY <1>1, <1>2, <3>2, Zenon
      <3> QED BY <1>8, <3>1, <3>3, Zenon
    <2>2. ASSUME NEW i \in 1 .. n + 1, NEW j \in 1 .. n + 1, i < j
          PROVE  log'[i].ingress < log'[j].ingress /\ log'[i].session <= log'[j].session
      <3>1. i \in 1 .. n
        BY <1>2, <2>2
      <3>2. CASE j \in 1 .. n
        BY <1>2, <2>2, <3>1, <3>2 DEF Core, LogOrdered, n
      <3>3. CASE j = n + 1
        BY <1>1, <1>2, <1>3, <1>7, <3>1, <3>3
      <3> QED BY <1>8, <3>2, <3>3, Zenon
    <2> QED BY <1>0, <1>2, <2>1, <2>2, Zenon DEF LogOrdered
  <1>10. MarksAgree'
    <2>1. stored'.committed_tick_seq = base'.tick + Len(log')
      <3>1. stored'.committed_tick_seq = stored.committed_tick_seq + 1
        BY Zenon DEF Published
      <3>2. stored.committed_tick_seq + 1 = base.tick + (n + 1)
        BY <1>2, <1>4, <1>6
      <3> QED BY <1>0, <1>2, <3>1, <3>2, Zenon
    <2>2. log' # << >>
      BY <1>2
    <2>3. stored'.committed_ingress_seq = log'[Len(log')].ingress
      BY <1>1, <1>2, Zenon DEF Published
    <2> QED BY <2>1, <2>2, <2>3, Zenon DEF MarksAgree
  <1>11. OwnOutputs'
    <2> DEFINE m == Len(published)
    <2>1. /\ m \in Nat /\ Len(published') = m + 1 /\ published'[m + 1] = o
          /\ \A i \in 1 .. m : published'[i] = published[i]
      BY <1>0 DEF TypeOK
    <2>2. /\ m <= n
          /\ \A i \in 1 .. m : /\ published[i] = log[n - m + i]
                               /\ published[i].session = session_id
      BY Zenon DEF Core, OwnOutputs, n
    <2> HIDE DEF m
    <2>3. ASSUME NEW i \in 1 .. m + 1
          PROVE  /\ published'[i] = log'[(n + 1) - (m + 1) + i]
                 /\ published'[i].session = session_id
      <3>1. CASE i = m + 1
        BY <1>1, <1>2, <2>1, <3>1
      <3>2. CASE i \in 1 .. m
        <4>1. n - m + i \in 1 .. n /\ (n + 1) - (m + 1) + i = n - m + i
          BY <1>2, <2>1, <2>2, <3>2
        <4> QED BY <1>2, <2>1, <2>2, <3>2, <4>1
      <3> QED BY <2>1, <3>1, <3>2
    <2>4. m + 1 <= n + 1
      BY <1>2, <2>1, <2>2
    <2> QED BY <1>0, <1>2, <2>1, <2>3, <2>4, Zenon DEF OwnOutputs
  <1>12. SessionsBelow'
    <2>1. stored'.last_session_id = stored.last_session_id
      BY Zenon DEF Published
    <2>2. \A i \in 1 .. n + 1 : log'[i].session <= stored.last_session_id
      BY <1>1, <1>2, <1>3, <1>4, <1>7, <1>8
    <2> QED BY <1>2, <2>1, <2>2, Zenon DEF SessionsBelow
  <1>13. OnDisk'
    BY DEF Published, OnDisk
  <1>14. InflightMatchesFault'
    <2>1. died_of \notin incomplete_tick
      BY DEF Published, Core, Alive, incomplete_tick
    <2> QED BY <2>1, Zenon DEF Published, InflightMatchesFault
  <1>15. Alive'
    <2>1. CASE live' = FALSE
      BY <2>1 DEF Alive
    <2>2. CASE UNCHANGED << health, live, died_of >>
      BY <2>2, Zenon DEF Published, Core, Alive
    <2> QED BY <2>1, <2>2, Zenon DEF Published
  <1> QED
    BY <1>9, <1>10, <1>11, <1>12, <1>13, <1>14, <1>15, Zenon DEF Core
-----------------------------------------------------------------------------
(* The initial state satisfies the invariant. *)
LEMMA InitCore == Init => HarnessInv
  <1> SUFFICES ASSUME Init PROVE TypeOK /\ Core
    BY DEF HarnessInv
  <1>1. TypeOK
    BY InitTypes
  <1>2. Validate(stored) /\ stored.inflight = NoInflight
    <2>1. CASE stored = Fresh
      <3>1. Fresh.inflight = NoInflight
        BY DEF Fresh
      <3> QED BY <2>1, <3>1, FreshState, Zenon
    <2>2. CASE stored \in Seeds
      BY <2>2, HarnessAssumption, Zenon
    <2> QED BY <2>1, <2>2, Zenon DEF Init
  <1>3. OnDisk
    BY <1>2 DEF Init, OnDisk
  <1>4. Alive
    BY DEF Init, Alive
  <1>5. InflightMatchesFault
    BY <1>2 DEF Init, InflightMatchesFault, incomplete_tick
  <1>6. Len(log) = 0 /\ Len(published) = 0 /\ log = << >>
    BY DEF Init
  <1>7. LogOrdered /\ OwnOutputs /\ SessionsBelow
    BY <1>6 DEF LogOrdered, OwnOutputs, SessionsBelow
  <1>8. MarksAgree
    <2>1. /\ base.tick = stored.committed_tick_seq
          /\ base.ingress = stored.committed_ingress_seq
      BY DEF Init
    <2>2. stored.committed_tick_seq \in Int
      BY <1>1 DEF TypeOK, DurableState, U64
    <2> QED BY <1>6, <2>1, <2>2 DEF MarksAgree
  <1> QED BY <1>1, <1>3, <1>4, <1>5, <1>7, <1>8, Zenon DEF Core

(* Every step keeps it. *)
LEMMA HarnessStep == HarnessInv /\ [Next]_vars => HarnessInv'
  <1> SUFFICES ASSUME HarnessInv, [Next]_vars PROVE HarnessInv'
    OBVIOUS
  <1>0. live => session_id = durable.last_session_id /\ session_id # 0
    BY Zenon DEF HarnessInv, Core, Alive
  <1>1. TypeOK'
    <2>1. CASE UNCHANGED vars
      BY <2>1, Zenon DEF HarnessInv, TypeOK, vars, disk, history
    <2> QED
      BY <1>0, <2>1, RestartTypes, BootTypes, TickTypes, ShutdownTypes, PushTypes,
         Zenon DEF Next, HarnessInv
  <1>2. Core'
    BY <1>1, StepKinds, QuietKeeps, OpensKeeps, MarksKeeps, PublishedKeeps, Zenon
    DEF HarnessInv
  <1> QED BY <1>1, <1>2 DEF HarnessInv

(* The inductive invariant of the harness: what is stored validates, a     *)
(* live session mirrors it, and log, marks and markers agree.              *)
THEOREM HarnessInvariant == Spec => []HarnessInv
  BY InitCore, HarnessStep, PTL DEF Spec

(* Whatever faults and restarts happen, the store always validates and a   *)
(* live session's state is what is stored.                                 *)
THEOREM StoreAlwaysValid == Spec => []StoreValid
  <1>1. HarnessInv => StoreValid
    BY Zenon DEF HarnessInv, Core, OnDisk, Alive, StoreValid
  <1> QED BY <1>1, HarnessInvariant, PTL

(* Whatever faults and restarts happen, ticks are numbered without gap, no *)
(* packet is published twice, and the store's marks are the last output's. *)
THEOREM OutputsAgree == Spec => []Agreement
  <1>1. HarnessInv => Agreement
    BY Zenon DEF HarnessInv, Core, Agreement
  <1> QED BY <1>1, HarnessInvariant, PTL

(* An unfinished tick is on disk exactly when the last valid session died  *)
(* of one of the oracle's incomplete-tick faults.                          *)
THEOREM InflightExplained == Spec => []InflightMatchesFault
  <1>1. HarnessInv => InflightMatchesFault
    BY Zenon DEF HarnessInv, Core
  <1> QED BY <1>1, HarnessInvariant, PTL
-----------------------------------------------------------------------------
(* Session numbers only grow, and a boot that goes live gets one above     *)
(* every session that has published.                                       *)
THEOREM SessionNumbersGrow == Spec => SessionsGrow
  <1> DEFINE Grow ==
        /\ stored'.last_session_id >= stored.last_session_id
        /\ live' /\ ~live => /\ session_id' > stored.last_session_id
                             /\ \A i \in 1 .. Len(log) : log[i].session < session_id'
  <1>1. HarnessInv /\ [Next]_vars => Grow
    <2> SUFFICES ASSUME HarnessInv, [Next]_vars PROVE Grow
      OBVIOUS
    <2>0. stored.last_session_id \in Nat
      BY StateFields, U64Nat DEF HarnessInv, TypeOK
    <2>1. CASE Quiet
      BY <2>0, <2>1 DEF Quiet
    <2>2. CASE Opens
      <3>1. session_id' = stored.last_session_id + 1
        BY <2>2, Zenon DEF Opens
      <3>2. ASSUME NEW i \in 1 .. Len(log) PROVE log[i].session < session_id'
        <4>1. log[i].session \in Nat
          BY LogFields DEF HarnessInv, TypeOK
        <4>2. log[i].session <= stored.last_session_id
          BY Zenon DEF HarnessInv, Core, SessionsBelow
        <4> QED BY <2>0, <3>1, <4>1, <4>2
      <3>3. /\ stored'.last_session_id >= stored.last_session_id
            /\ session_id' > stored.last_session_id
        BY <2>0, <2>2, <3>1 DEF Opens
      <3> QED BY <3>2, <3>3
    <2>3. CASE Marks \/ \E seq \in U64 : Published(seq)
      <3>1. live /\ stored'.last_session_id = stored.last_session_id
        BY <2>3, Zenon DEF Marks, Published
      <3> QED BY <2>0, <3>1
    <2> QED BY <2>1, <2>2, <2>3, StepKinds, Zenon
  <1>2. HarnessInv /\ [Next]_vars => [Grow]_vars
    BY <1>1
  <1> QED BY <1>2, HarnessInvariant, PTL DEF Spec, SessionsGrow

(* The oracle's health column is the harness's, point by point. *)
LEMMA TablesAgree ==
  ASSUME NEW point \in FaultPoint
  PROVE  injected_terminal_health(point) = expected_health(point)
  BY DEF FaultPoint, BootFaults, IngressFaults, TickFaults, PublishFaults,
         ShutdownFaults, injected_terminal_health, expected_health

(* A fault leaves the health the oracle expects of its point. *)
THEOREM FaultsLeaveExpectedHealth == Spec => FaultHealth
  <1> DEFINE Expected == died_of' # died_of /\ died_of' # "none" =>
                           health' = expected_health(died_of')
  <1>1. ASSUME NEW point \in FaultPoint, Fault(point) PROVE Expected
    BY <1>1, TablesAgree, Zenon DEF Fault, FirstFault
  <1>2. ASSUME HarnessInv, [Next]_vars PROVE Expected
    <2>1. CASE UNCHANGED history
      BY <2>1, Zenon DEF history
    <2>2. CASE Boot
      <3>1. CASE \E point \in BootFaults : BootFailsInitialize(point)
        <4>1. PICK point \in BootFaults : Fault(point)
          BY <3>1, Zenon DEF BootFailsInitialize
        <4>2. point \in FaultPoint
          BY Zenon DEF FaultPoint
        <4> QED BY <1>1, <4>1, <4>2, Zenon
      <3>2. CASE BootPoisonsStore
        <4>1. "malformed_checkpoint" \in FaultPoint
          BY DEF FaultPoint, BootFaults
        <4> QED BY <1>1, <3>2, <4>1, Zenon DEF BootPoisonsStore
      <3>3. CASE BootRejects
        BY <2>1, <3>3, Zenon DEF BootRejects
      <3>4. CASE BootValidates
        <4>1. "after_checkpoint_validation" \in FaultPoint
          BY DEF FaultPoint, BootFaults
        <4> QED BY <3>4, <4>1, TablesAgree, Zenon DEF BootValidates
      <3> QED BY <2>2, <3>1, <3>2, <3>3, <3>4, Zenon DEF Boot
    <2>3. CASE RunTick
      <3>1. CASE TickOverLimit \/ NoIngress \/ SkippedReplay
        BY <2>1, <3>1, Zenon DEF TickOverLimit, NoIngress, SkippedReplay
      <3>2. CASE TickFailsUnmarked
        <4>1. "before_tick_execute" \in FaultPoint
          BY DEF FaultPoint, TickFaults
        <4> QED BY <1>1, <2>1, <3>2, <4>1, Zenon DEF TickFailsUnmarked
      <3>3. CASE \E point \in FaultPoint :
                   TickFailsIngress(point) \/ TickFailsMarked(point)
        BY <1>1, <3>3, Zenon DEF TickFailsIngress, TickFailsMarked
      <3>4. CASE TickPublishes
        <4>1. "after_metric_publish" \in FaultPoint
          BY DEF FaultPoint, PublishFaults
        <4> QED BY <3>4, <4>1, TablesAgree, Zenon DEF TickPublishes, FirstFault
      <3> QED BY <2>3, <3>1, <3>2, <3>3, <3>4, Zenon DEF RunTick
    <2>4. CASE Shutdown
      <3>1. /\ "before_shutdown" \in FaultPoint
            /\ "interrupted_shutdown" \in FaultPoint
            /\ "after_shutdown" \in FaultPoint
        BY DEF FaultPoint, ShutdownFaults
      <3>2. CASE \E point \in FaultPoint : Fault(point)
        BY <1>1, <3>2, Zenon
      <3> QED BY <2>1, <2>4, <3>1, <3>2, Zenon DEF Shutdown
    <2> QED
      BY <1>2, <2>1, <2>2, <2>3, <2>4, Zenon
      DEF Next, vars, Restart, PushIngress, PushIngressFront
  <1>3. HarnessInv /\ [Next]_vars => [Expected]_vars
    BY <1>2
  <1> QED BY <1>3, HarnessInvariant, PTL DEF Spec, FaultHealth
-----------------------------------------------------------------------------
(* With faults at every injection point and restarts at any time, the      *)
(* harness implements the contract: sessions that publish fresh packets,   *)
(* each once and under the next tick number, or abandon them.              *)
THEOREM HarnessImplementsContract == Spec => ImplementsContract
  <1>1. Init => Contract!LInit
    <2> SUFFICES ASSUME Init PROVE Contract!LInit
      OBVIOUS
    <2>1. TypeOK
      BY InitTypes
    <2>2. stored.inflight = NoInflight
      BY HarnessAssumption DEF Init, Fresh
    <2>3. stored.inflight.ingress_seq = 0
      BY <2>2 DEF NoInflight
    <2>4. stored.last_session_id \in U64
      BY <2>1, StateFields, Zenon DEF TypeOK
    <2>5. log = << >> /\ base \in [tick : U64, ingress : U64]
      BY <2>1, Zenon DEF Init, TypeOK
    <2> QED BY <2>3, <2>4, <2>5, Zenon DEF Contract!LInit
  <1>2. HarnessInv /\ [Next]_vars => [Contract!LNext]_(Contract!lvars)
    <2> SUFFICES ASSUME HarnessInv, [Next]_vars
                 PROVE  [Contract!LNext]_(Contract!lvars)
      OBVIOUS
    <2>0. Contract!LastIngress = stored.committed_ingress_seq
      BY Zenon DEF Contract!LastIngress, HarnessInv, Core, MarksAgree
    <2>1. CASE Quiet
      BY <2>1, Zenon DEF Quiet, Contract!lvars
    <2>2. CASE Opens
      <3>1. stored'.inflight.ingress_seq = 0
        BY <2>2 DEF Opens, NoInflight
      <3>2. Contract!Open
        BY <2>2, <3>1, Zenon DEF Opens, Contract!Open
      <3> QED BY <3>2, Zenon DEF Contract!LNext
    <2>3. CASE Marks
      <3>1. stored.inflight.ingress_seq = 0
        BY <2>3 DEF Marks, HarnessInv, Core, Alive, NoInflight
      <3>2. Contract!Take
        BY <2>0, <2>3, <3>1, Zenon DEF Marks, Contract!Take
      <3> QED BY <3>2, Zenon DEF Contract!LNext
    <2>4. CASE \E seq \in U64 : Published(seq)
      <3>1. PICK seq \in U64 : Published(seq)
        BY <2>4
      <3>2. stored.inflight.ingress_seq = 0 /\ stored'.inflight.ingress_seq = 0
        BY <3>1 DEF Published, HarnessInv, Core, Alive, NoInflight
      <3>3. session_id = stored.last_session_id
        BY <3>1, Zenon DEF Published, HarnessInv, Core, Alive
      <3>4. stored.committed_tick_seq = base.tick + Len(log)
        BY Zenon DEF HarnessInv, Core, MarksAgree
      <3>5. log' = Append(log, Contract!Output(seq))
        BY <3>1, <3>3, <3>4, Zenon DEF Published, Contract!Output
      <3>6. seq > Contract!LastIngress
        BY <2>0, <3>1, Zenon DEF Published
      <3>7. UNCHANGED << base, stored.last_session_id >>
        BY <3>1, Zenon DEF Published
      <3>8. Contract!Publish
        BY <3>2, <3>5, <3>6, <3>7, Zenon DEF Contract!Publish
      <3> QED BY <3>8, Zenon DEF Contract!LNext
    <2> QED BY <2>1, <2>2, <2>3, <2>4, StepKinds, Zenon
  <1> QED
    BY <1>1, <1>2, HarnessInvariant, PTL
    DEF Spec, ImplementsContract, Contract!LSpec
-----------------------------------------------------------------------------
(* No packet is lost                                                       *)

(* A set of u64 that is not empty has a greatest element. *)
LEMMA Greatest ==
  ASSUME NEW S \in SUBSET U64, S # {} PROVE \E n \in S : \A m \in S : n >= m
  <1> DEFINE from(n) == {m \in S : m >= n}
             T == {from(n) : n \in S}
  <1>0. \A n \in S : n \in Int
    BY DEF U64
  <1>1. IsFiniteSet(S)
    <2>1. IsFiniteSet(0 .. U64Max)
      BY HarnessAssumption, FS_Interval
    <2> QED BY <2>1, FS_Subset DEF U64
  <1>2. T \subseteq FiniteSubsetsOf(S) /\ T # {}
    <2>1. \A n \in S : from(n) \in SUBSET S
      OBVIOUS
    <2>2. \A X \in SUBSET S : IsFiniteSet(X)
      BY <1>1, FS_Subset
    <2> HIDE DEF from
    <2> QED BY <2>1, <2>2 DEF FiniteSubsetsOf
  <1>3. PICK x \in T : \A y \in T : ~(<< y, x >> \in StrictSubsetOrdering(S))
    BY <1>2, FS_StrictSubsetOrderingWellFounded, WFMin
  <1>4. PICK n \in S : x = from(n)
    BY <1>3
  <1>5. ASSUME NEW m \in S, ~(n >= m) PROVE FALSE
    <2>1. from(m) \in T
      OBVIOUS
    <2>2. from(m) \subseteq from(n) /\ n \in from(n) /\ n \notin from(m)
      BY <1>0, <1>5
    <2>3. from(m) \in SUBSET S /\ from(n) \in SUBSET S
      OBVIOUS
    <2> HIDE DEF from
    <2>4. << from(m), from(n) >> \in StrictSubsetOrdering(S)
      BY <2>2, <2>3 DEF StrictSubsetOrdering
    <2> QED BY <1>3, <1>4, <2>1, <2>4
  <1> QED BY <1>5

(* The highest number upstream has sent is one of those. *)
LEMMA HighestIsOne ==
  ASSUME TypeOK
  PROVE  \/ Highest = durable.committed_ingress_seq
         \/ \E j \in 1 .. Len(source) : Highest = source[j]
  <1> DEFINE S == {source[i] : i \in DOMAIN source}
                    \cup {durable.committed_ingress_seq}
  <1>1. DOMAIN source = 1 .. Len(source) /\ \A i \in 1 .. Len(source) : source[i] \in U64
    BY DEF TypeOK
  <1>2. durable.committed_ingress_seq \in U64
    BY StateFields DEF TypeOK
  <1>3. S \in SUBSET U64 /\ S # {}
    BY <1>1, <1>2
  <1>4. Highest = CHOOSE n \in S : \A m \in S : n >= m
    BY DEF Highest
  <1>5. \E n \in S : \A m \in S : n >= m
    BY <1>3, Greatest
  <1>6. Highest \in S
    <2> HIDE DEF S
    <2> QED BY <1>4, <1>5
  <1> QED BY <1>1, <1>6

(* A source from which no number above the mark is missing: a packet has   *)
(* its predecessor at or below the mark, or a number as high before it.    *)
Gapless(s, mark) ==
  \A i \in 1 .. Len(s) : \/ s[i] <= mark + 1
                         \/ \E j \in 1 .. i - 1 : s[i] <= s[j] + 1

(* The script of a restart has no gap. *)
LEMMA GaplessScript ==
  ASSUME NEW mark \in Nat, NEW a \in 1 .. mark + 1, NEW b \in Int, b >= a - 1
  PROVE  Gapless(Script(a, b), mark)
  <1>1. b - a + 1 \in Nat
    OBVIOUS
  <1>2. /\ Len(Script(a, b)) = b - a + 1
        /\ \A i \in 1 .. b - a + 1 : Script(a, b)[i] = a + i - 1
    BY <1>1 DEF Script
  <1> SUFFICES ASSUME NEW i \in 1 .. b - a + 1
               PROVE  \/ a + i - 1 <= mark + 1
                      \/ \E j \in 1 .. i - 1 : a + i - 1 <= Script(a, b)[j] + 1
    BY <1>2 DEF Gapless
  <1>3. CASE i = 1
    BY <1>3
  <1>4. CASE i > 1
    <2>1. i - 1 \in 1 .. i - 1 /\ i - 1 \in 1 .. b - a + 1
      BY <1>4
    <2>2. Script(a, b)[i - 1] = a + (i - 1) - 1
      BY <1>2, <2>1
    <2>3. a + i - 1 <= Script(a, b)[i - 1] + 1
      BY <2>2
    <2> QED BY <2>1, <2>3
  <1> QED BY <1>3, <1>4

(* Upstream sends its next packet or an earlier one. *)
LEMMA GaplessAppend ==
  ASSUME NEW mark \in Nat, NEW s \in Seq(U64), NEW e \in U64, Gapless(s, mark),
         e <= mark + 1 \/ \E j \in 1 .. Len(s) : e <= s[j] + 1
  PROVE  Gapless(Append(s, e), mark)
  <1> DEFINE t == Append(s, e)
             n == Len(s)
  <1>1. /\ n \in Nat /\ Len(t) = n + 1 /\ t[n + 1] = e
        /\ \A i \in 1 .. n : t[i] = s[i]
    OBVIOUS
  <1> HIDE DEF t
  <1>2. ASSUME NEW i \in 1 .. n + 1
        PROVE  t[i] <= mark + 1 \/ \E j \in 1 .. i - 1 : t[i] <= t[j] + 1
    <2>1. CASE i \in 1 .. n
      <3>1. s[i] <= mark + 1 \/ \E j \in 1 .. i - 1 : s[i] <= s[j] + 1
        BY <2>1 DEF Gapless
      <3>2. \A j \in 1 .. i - 1 : t[j] = s[j]
        BY <1>1, <2>1
      <3>3. t[i] = s[i]
        BY <1>1, <2>1
      <3> QED BY <3>1, <3>2, <3>3
    <2>2. CASE i = n + 1
      <3>1. (1 .. i - 1) = 1 .. n
        BY <1>1, <2>2
      <3>2. t[i] = e /\ \A j \in 1 .. n : t[j] = s[j]
        BY <1>1, <2>2
      <3> HIDE DEF n
      <3> QED BY <3>1, <3>2 DEF n
    <2> QED BY <1>1, <2>1, <2>2
  <1> QED BY <1>1, <1>2 DEF Gapless, t

(* A replay, or a retry, put before the others. *)
LEMMA GaplessFront ==
  ASSUME NEW mark \in Nat, NEW s \in Seq(U64), NEW e \in U64, Gapless(s, mark),
         e <= mark + 1
  PROVE  Gapless(<< e >> \o s, mark)
  <1> DEFINE t == << e >> \o s
             n == Len(s)
  <1>1. /\ n \in Nat /\ Len(t) = n + 1 /\ t[1] = e
        /\ \A i \in 1 .. n : t[i + 1] = s[i]
    OBVIOUS
  <1> HIDE DEF t
  <1>2. ASSUME NEW i \in 1 .. n + 1
        PROVE  t[i] <= mark + 1 \/ \E j \in 1 .. i - 1 : t[i] <= t[j] + 1
    <2>1. CASE i = 1
      BY <1>1, <2>1
    <2>2. CASE i # 1
      <3>1. i - 1 \in 1 .. n /\ (i - 1) + 1 = i
        BY <1>1, <2>2
      <3>2. t[i] = s[i - 1]
        BY <1>1, <3>1
      <3>3. s[i - 1] <= mark + 1 \/ \E j \in 1 .. (i - 1) - 1 : s[i - 1] <= s[j] + 1
        BY <3>1 DEF Gapless
      <3>4. ASSUME NEW j \in 1 .. (i - 1) - 1, s[i - 1] <= s[j] + 1
            PROVE  \E k \in 1 .. i - 1 : t[i] <= t[k] + 1
        <4>1. j \in 1 .. n /\ j + 1 \in 1 .. i - 1
          BY <1>1, <3>1
        <4>2. t[j + 1] = s[j]
          BY <1>1, <4>1
        <4> QED BY <3>2, <3>4, <4>1, <4>2
      <3> QED BY <3>2, <3>3, <3>4
    <2> QED BY <2>1, <2>2
  <1> QED BY <1>1, <1>2 DEF Gapless, t

(* A packet is taken: it is at most one above the mark, and what follows   *)
(* has no gap above a mark at least as high as it.                         *)
LEMMA GaplessTail ==
  ASSUME NEW mark \in Nat, NEW s \in Seq(U64), s # << >>, Gapless(s, mark),
         NEW next \in Nat, next >= mark, next >= Head(s)
  PROVE  Head(s) <= mark + 1 /\ Gapless(Tail(s), next)
  <1> DEFINE t == Tail(s)
             n == Len(s)
  <1>1. /\ n \in Nat /\ n >= 1 /\ Len(t) = n - 1 /\ Head(s) = s[1]
        /\ \A i \in 1 .. n - 1 : t[i] = s[i + 1]
        /\ \A i \in 1 .. n : s[i] \in U64
    OBVIOUS
  <1> HIDE DEF t
  <1>2. \A i \in 1 .. n : s[i] \in Nat
    BY <1>1, U64Nat
  <1>3. Head(s) <= mark + 1
    <2>1. 1 \in 1 .. n /\ 1 .. 1 - 1 = {}
      BY <1>1
    <2> QED BY <1>1, <2>1 DEF Gapless
  <1>4. ASSUME NEW i \in 1 .. n - 1
        PROVE  t[i] <= next + 1 \/ \E j \in 1 .. i - 1 : t[i] <= t[j] + 1
    <2>1. i + 1 \in 1 .. n /\ 1 \in 1 .. n
      BY <1>1
    <2>2. t[i] = s[i + 1] /\ s[i + 1] \in Nat /\ s[1] \in Nat
      BY <1>1, <1>2, <2>1
    <2>3. s[i + 1] <= mark + 1 \/ \E j \in 1 .. (i + 1) - 1 : s[i + 1] <= s[j] + 1
      BY <2>1 DEF Gapless
    <2>4. CASE s[i + 1] <= mark + 1
      BY <2>2, <2>4
    <2>5. ASSUME NEW j \in 1 .. (i + 1) - 1, s[i + 1] <= s[j] + 1
          PROVE  t[i] <= next + 1 \/ \E k \in 1 .. i - 1 : t[i] <= t[k] + 1
      <3>1. CASE j = 1
        BY <1>1, <2>2, <2>5, <3>1
      <3>2. CASE j # 1
        <4>1. j - 1 \in 1 .. i - 1 /\ j - 1 \in 1 .. n - 1 /\ (j - 1) + 1 = j
          BY <1>1, <3>2
        <4>2. t[j - 1] = s[j]
          BY <1>1, <4>1
        <4> QED BY <2>2, <2>5, <4>1, <4>2
      <3> QED BY <3>1, <3>2
    <2> QED BY <2>3, <2>4, <2>5
  <1> QED BY <1>1, <1>3, <1>4 DEF Gapless, t

(* The mark of the session's copy is never above the stored one. *)
CopyBehind == durable.committed_ingress_seq <= stored.committed_ingress_seq

(* Until a boot fails or the session dies the source has no gap; a dead    *)
(* session publishes nothing, and the restart brings a new script.         *)
Unbroken ==
  ~rebooted /\ (live \/ Untouched) => Gapless(source, stored.committed_ingress_seq)

GapInv == HarnessInv /\ CopyBehind /\ Unbroken /\ NoGap

(* A step with the history is a step without it. *)
LEMMA HistoryStep == [HNext]_hvars => [Next]_vars
  BY Zenon DEF HNext, Next, hvars

(* A fault never looks like a session that has not begun. *)
LEMMA FaultStarts ==
  ASSUME NEW point PROVE injected_terminal_health(point) # "starting"
  BY DEF injected_terminal_health

(* The session's copy is what was stored, or fresh, or is left alone. *)
LEMMA CopyStep == ASSUME HarnessInv, CopyBehind, [Next]_vars PROVE CopyBehind'
  <1>1. /\ stored.committed_ingress_seq \in Nat
        /\ stored'.committed_ingress_seq \in Nat
    BY HarnessStep, StateFields, U64Nat DEF HarnessInv, TypeOK
  <1>2. \/ durable' = stored'
        \/ durable' = Fresh
        \/ UNCHANGED << durable, stored >>
    <2>1. CASE Boot
      BY <2>1, Zenon DEF Boot, BootFailsInitialize, BootPoisonsStore, BootRejects,
         BootValidates, Persist, disk
    <2>2. CASE RunTick
      BY <2>2, Zenon DEF RunTick, TickOverLimit, NoIngress, SkippedReplay,
         TickFailsUnmarked, TickFailsIngress, TickFailsMarked, TickPublishes,
         Persist, disk
    <2>3. CASE Restart \/ Shutdown \/ PushIngress \/ PushIngressFront
      BY <2>3, Zenon DEF Restart, Shutdown, PushIngress, PushIngressFront, disk
    <2>4. CASE UNCHANGED vars
      BY <2>4, Zenon DEF vars, disk
    <2> QED BY <2>1, <2>2, <2>3, <2>4, Zenon DEF Next
  <1>3. Fresh.committed_ingress_seq = 0
    BY DEF Fresh
  <1> QED BY <1>1, <1>2, <1>3 DEF CopyBehind

(* What was logged and the marks, with no gap so far. *)
LEMMA MarkIsNext ==
  ASSUME HarnessInv, NoGap, ~rebooted
  PROVE  /\ \A i \in 1 .. Len(log) : log[i].ingress = base.ingress + i
         /\ stored.committed_ingress_seq = base.ingress + Len(log)
  <1>1. \A i \in 1 .. Len(log) : log[i].ingress = base.ingress + i
    BY Zenon DEF NoGap
  <1>2. Len(log) \in Nat /\ base.ingress \in Nat
    BY U64Nat DEF HarnessInv, TypeOK
  <1>3. stored.committed_ingress_seq =
          IF log = << >> THEN base.ingress ELSE log[Len(log)].ingress
    BY Zenon DEF HarnessInv, Core, MarksAgree
  <1>4. CASE log = << >>
    <2>1. Len(log) = 0
      BY <1>4
    <2> QED BY <1>1, <1>2, <1>3, <1>4, <2>1
  <1>5. CASE log # << >>
    <2>1. Len(log) \in 1 .. Len(log)
      BY <1>2, <1>5 DEF HarnessInv, TypeOK
    <2> QED BY <1>1, <1>3, <1>5, <2>1
  <1> QED BY <1>4, <1>5

(* A packet is published: the next number, and the source goes on from it. *)
LEMMA PublishGap ==
  ASSUME GapInv, TickPublishes, UNCHANGED rebooted PROVE Unbroken' /\ NoGap'
  <1> SUFFICES ASSUME ~rebooted PROVE Unbroken' /\ NoGap'
    BY Zenon DEF Unbroken, NoGap
  <1> DEFINE out(seq) == [session |-> session_id,
                          tick |-> durable.committed_tick_seq + 1,
                          ingress |-> seq]
             mark == stored.committed_ingress_seq
  <1>1. PICK seq \in U64 : /\ Fetched(seq) /\ ~IsReplay(seq)
                           /\ Persist(Committed(seq)) /\ log' = Append(log, out(seq))
    BY Zenon DEF TickPublishes
  <1>2. live /\ durable = stored
    BY <1>1, Zenon DEF Fetched, Ticking, GapInv, HarnessInv, Core, Alive
  <1>3. /\ source # << >> /\ seq = Head(source) /\ source' = Tail(source)
        /\ source \in Seq(U64) /\ log \in Seq(Output) /\ base' = base
    BY <1>1, Zenon DEF Fetched, GapInv, HarnessInv, TypeOK, TickPublishes
  <1>4. mark \in Nat /\ seq \in Nat /\ base.ingress \in Nat /\ Len(log) \in Nat
    BY StateFields, U64Nat DEF GapInv, HarnessInv, TypeOK
  <1>5. seq > mark
    BY <1>1, <1>2, <1>4 DEF IsReplay
  <1>6. stored'.committed_ingress_seq = seq
    BY <1>1, Zenon DEF Persist, Committed, GapInv, HarnessInv, TypeOK, DurableState
  <1>7. Gapless(source, mark)
    BY <1>2, Zenon DEF GapInv, Unbroken
  <1>8. seq <= mark + 1 /\ Gapless(source', seq)
    <2> HIDE DEF mark
    <2>1. seq >= mark /\ seq >= Head(source)
      BY <1>3, <1>4, <1>5
    <2> QED BY <1>3, <1>4, <1>7, <2>1, GaplessTail
  <1>9. Unbroken'
    BY <1>6, <1>8, Zenon DEF Unbroken
  <1>10. /\ \A i \in 1 .. Len(log) : log[i].ingress = base.ingress + i
         /\ mark = base.ingress + Len(log)
    BY MarkIsNext DEF GapInv
  <1>11. /\ Len(log') = Len(log) + 1
         /\ \A i \in 1 .. Len(log) : log'[i] = log[i]
         /\ log'[Len(log) + 1] = out(seq)
    <2> HIDE DEF out
    <2>1. \A l \in Seq(Output) : \A e :
            /\ Len(Append(l, e)) = Len(l) + 1
            /\ \A i \in 1 .. Len(l) : Append(l, e)[i] = l[i]
            /\ Append(l, e)[Len(l) + 1] = e
      OBVIOUS
    <2> QED BY <1>1, <1>3, <2>1
  <1>12. seq = base.ingress + (Len(log) + 1) /\ out(seq).ingress = seq
    <2>1. out(seq).ingress = seq
      OBVIOUS
    <2> HIDE DEF out, mark
    <2>2. seq = mark + 1
      BY <1>4, <1>5, <1>8
    <2>3. mark = base.ingress + Len(log)
      BY <1>10
    <2>4. seq = base.ingress + (Len(log) + 1)
      BY <1>4, <2>2, <2>3
    <2> QED BY <2>1, <2>4
  <1>13. \A i \in 1 .. Len(log) + 1 : i \in 1 .. Len(log) \/ i = Len(log) + 1
    BY <1>4
  <1> HIDE DEF out, mark
  <1>14. \A i \in 1 .. Len(log') : log'[i].ingress = base'.ingress + i
    BY <1>3, <1>10, <1>11, <1>12, <1>13, Zenon
  <1> QED BY <1>9, <1>14, Zenon DEF NoGap

(* What is published stays published. *)
LEMMA GapKept ==
  ASSUME NoGap, UNCHANGED << log, base >>, rebooted => rebooted' PROVE NoGap'
  BY Zenon DEF NoGap

(* A session that ends, or a boot that fails, leaves nothing to show. *)
LEMMA EndedUnbroken ==
  ASSUME ~live' /\ ~Untouched' PROVE Unbroken'
  BY Zenon DEF Unbroken

(* A boot: of an untouched instance, over the source it was given. *)
LEMMA BootGap ==
  ASSUME GapInv, Boot, rebooted' = (rebooted \/ ~Untouched)
  PROVE  Unbroken' /\ NoGap'
  <1>1. UNCHANGED << log, base, source >>
    BY Zenon DEF Boot, BootFailsInitialize, BootPoisonsStore, BootRejects,
       BootValidates, Fault, history
  <1>2. NoGap'
    BY <1>1, GapKept, Zenon DEF GapInv
  <1>3. stored'.committed_ingress_seq = stored.committed_ingress_seq
    BY BootKinds, Zenon DEF Quiet, Opens, GapInv, HarnessInv
  <1>4. Unbroken'
    <2>1. CASE rebooted'
      BY <2>1, Zenon DEF Unbroken
    <2>2. CASE ~rebooted'
      <3>1. ~rebooted /\ Untouched
        BY <2>2, Zenon
      <3>2. Gapless(source, stored.committed_ingress_seq)
        BY <3>1, Zenon DEF GapInv, Unbroken
      <3> QED BY <1>1, <1>3, <3>2, Zenon DEF Unbroken
    <2> QED BY <2>1, <2>2
  <1> QED BY <1>2, <1>4

(* Any other tick. *)
LEMMA TickGap ==
  ASSUME GapInv, RunTick, UNCHANGED rebooted PROVE Unbroken' /\ NoGap'
  <1> DEFINE mark == stored.committed_ingress_seq
  <1>1. CASE TickPublishes
    BY <1>1, PublishGap
  <1>2. CASE TickOverLimit \/ NoIngress
    <2>1. UNCHANGED << log, base, source, stored, live, health, restart_outcome >>
      BY <1>2, Zenon DEF TickOverLimit, NoIngress, history, disk, session
    <2> QED BY <2>1, GapKept, Zenon DEF GapInv, Unbroken, Untouched
  <1>3. CASE SkippedReplay
    <2>1. PICK seq \in U64 : Fetched(seq) /\ IsReplay(seq)
      BY <1>3, Zenon DEF SkippedReplay
    <2>2. UNCHANGED << log, base, stored, live >>
      BY <1>3, Zenon DEF SkippedReplay, history, disk
    <2>3. live /\ durable = stored
      BY <2>1, Zenon DEF Fetched, Ticking, GapInv, HarnessInv, Core, Alive
    <2>4. /\ source # << >> /\ seq = Head(source) /\ source' = Tail(source)
          /\ source \in Seq(U64)
      BY <2>1, Zenon DEF Fetched, GapInv, HarnessInv, TypeOK
    <2>5. mark \in Nat /\ seq \in Nat
      BY StateFields, U64Nat DEF GapInv, HarnessInv, TypeOK
    <2>6. mark >= seq
      BY <2>1, <2>3, <2>5 DEF IsReplay
    <2>7. ASSUME ~rebooted PROVE Gapless(source', mark)
      <3>1. Gapless(source, mark)
        BY <2>3, <2>7, Zenon DEF GapInv, Unbroken
      <3>2. mark >= mark
        BY <2>5
      <3> HIDE DEF mark
      <3> QED BY <2>4, <2>5, <2>6, <3>1, <3>2, GaplessTail
    <2>8. Unbroken'
      BY <2>2, <2>7, Zenon DEF Unbroken
    <2> QED BY <2>2, <2>8, GapKept, Zenon DEF GapInv
  <1>4. CASE \/ TickFailsUnmarked
             \/ \E point \in FaultPoint : TickFailsIngress(point) \/ TickFailsMarked(point)
    <2>1. UNCHANGED << log, base >> /\ live' = FALSE
      BY <1>4, Zenon DEF TickFailsUnmarked, TickFailsIngress, TickFailsMarked, Fault,
         history
    <2>2. health' = "faulted" \/ \E point : health' = injected_terminal_health(point)
      BY <1>4, Zenon DEF TickFailsUnmarked, TickFailsIngress, TickFailsMarked, Fault
    <2>3. health' # "starting"
      BY <2>2, FaultStarts
    <2>4. ~live' /\ ~Untouched'
      BY <2>1, <2>3, Zenon DEF Untouched
    <2> QED BY <2>1, <2>4, EndedUnbroken, GapKept, Zenon DEF GapInv
  <1> QED BY <1>1, <1>2, <1>3, <1>4, Zenon DEF RunTick

(* Restarts, shutdowns and what upstream sends. *)
LEMMA OtherGap ==
  ASSUME GapInv, Restart \/ Shutdown \/ PushIngress \/ PushIngressFront,
         UNCHANGED rebooted
  PROVE  Unbroken' /\ NoGap'
  <1> DEFINE mark == stored.committed_ingress_seq
             copy == durable.committed_ingress_seq
  <1>0. /\ mark \in Nat /\ copy \in Nat /\ copy <= mark
        /\ source \in Seq(U64)
    BY StateFields, U64Nat DEF GapInv, HarnessInv, TypeOK, CopyBehind
  <1>1. UNCHANGED << log, base, stored >>
    BY Zenon DEF Restart, Shutdown, PushIngress, PushIngressFront, Fault, history, disk
  <1>2. NoGap'
    BY <1>1, GapKept, Zenon DEF GapInv
  <1>3. CASE Restart
    <2>1. PICK a \in 1 .. mark + 1 : \E b \in a - 1 .. U64Max : source' = Script(a, b)
      BY <1>3, Zenon DEF Restart
    <2>2. PICK b \in a - 1 .. U64Max : source' = Script(a, b)
      BY <2>1
    <2>3. b \in Int /\ b >= a - 1
      BY <1>0, HarnessAssumption
    <2>4. Gapless(source', mark)
      <3> HIDE DEF mark
      <3> QED BY <1>0, <2>2, <2>3, GaplessScript
    <2> QED BY <1>1, <1>2, <2>4, Zenon DEF Unbroken
  <1>4. CASE Shutdown
    <2>1. live' = FALSE /\ (health' = "stopped"
                            \/ \E point : health' = injected_terminal_health(point))
      BY <1>4, Zenon DEF Shutdown, Fault
    <2>2. health' # "starting"
      BY <2>1, FaultStarts
    <2>3. ~live' /\ ~Untouched'
      BY <2>1, <2>2, Zenon DEF Untouched
    <2> QED BY <1>2, <2>3, EndedUnbroken
  <1>5. ASSUME PushIngress \/ PushIngressFront,
               Gapless(source, mark) => Gapless(source', mark)
        PROVE  Unbroken'
    <2>1. UNCHANGED << live, health, restart_outcome >>
      BY <1>5, Zenon DEF PushIngress, PushIngressFront, session
    <2> QED BY <1>1, <1>5, <2>1, Zenon DEF GapInv, Unbroken, Untouched
  <1>6. CASE PushIngress
    <2>1. PICK seq \in 0 .. Highest + 1 : seq <= U64Max /\ source' = Append(source, seq)
      BY <1>6, Zenon DEF PushIngress
    <2>2. \/ Highest = copy
          \/ \E j \in 1 .. Len(source) : Highest = source[j]
      BY HighestIsOne DEF GapInv, HarnessInv
    <2>3. \A j \in 1 .. Len(source) : source[j] \in Nat
      BY <1>0, U64Nat
    <2>4. Highest \in Int
      BY <1>0, <2>2, <2>3
    <2>5. seq \in U64 /\ seq <= Highest + 1
      BY <2>1, <2>4, HarnessAssumption DEF U64
    <2>6. seq \in Nat
      BY <2>5, U64Nat
    <2>7. seq <= mark + 1 \/ \E j \in 1 .. Len(source) : seq <= source[j] + 1
      <3>1. CASE Highest = copy
        BY <1>0, <2>5, <2>6, <3>1
      <3>2. CASE \E j \in 1 .. Len(source) : Highest = source[j]
        BY <2>5, <3>2
      <3> QED BY <2>2, <3>1, <3>2
    <2>8. Gapless(source, mark) => Gapless(source', mark)
      <3> HIDE DEF mark
      <3> QED BY <1>0, <2>1, <2>5, <2>7, GaplessAppend
    <2> QED BY <1>2, <1>5, <1>6, <2>8
  <1>7. CASE PushIngressFront
    <2>1. PICK seq \in 0 .. copy + 1 : seq <= U64Max /\ source' = << seq >> \o source
      BY <1>7, Zenon DEF PushIngressFront
    <2>2. seq \in U64 /\ seq <= mark + 1
      BY <1>0, <2>1, HarnessAssumption DEF U64
    <2>3. Gapless(source, mark) => Gapless(source', mark)
      <3> HIDE DEF mark
      <3> QED BY <1>0, <2>1, <2>2, GaplessFront
    <2> QED BY <1>2, <1>5, <1>7, <2>3
  <1> QED BY <1>3, <1>4, <1>6, <1>7

(* It holds at first and every step keeps it. *)
LEMMA GapStep ==
  /\ HInit => GapInv
  /\ GapInv /\ [HNext]_hvars => GapInv'
  <1>1. ASSUME HInit PROVE GapInv
    <2>1. HarnessInv
      BY <1>1, InitCore DEF HInit
    <2>2. source = << >> /\ log = << >> /\ durable = Fresh
      BY <1>1, Zenon DEF HInit, Init
    <2>3. Len(source) = 0 /\ Len(log) = 0
      BY <2>2
    <2>4. 1 .. Len(source) = {} /\ 1 .. Len(log) = {}
      BY <2>3
    <2>5. Unbroken /\ NoGap
      BY <2>4, Zenon DEF Unbroken, Gapless, NoGap
    <2>6. stored.committed_ingress_seq \in Nat
      BY <2>1, StateFields, U64Nat DEF HarnessInv, TypeOK
    <2>7. CopyBehind
      BY <2>2, <2>6 DEF CopyBehind, Fresh
    <2> QED BY <2>1, <2>5, <2>7, Zenon DEF GapInv
  <1>2. ASSUME GapInv, [HNext]_hvars PROVE GapInv'
    <2>1. [Next]_vars
      BY <1>2, HistoryStep
    <2>2. HarnessInv'
      BY <1>2, <2>1, HarnessStep DEF GapInv
    <2>3. CopyBehind'
      BY <1>2, <2>1, CopyStep DEF GapInv
    <2>4. Unbroken' /\ NoGap'
      <3>1. CASE UNCHANGED hvars
        BY <1>2, <3>1, Zenon
        DEF GapInv, hvars, vars, history, disk, Unbroken, Untouched, NoGap
      <3>2. CASE HNext
        BY <1>2, <3>2, BootGap, TickGap, OtherGap, Zenon DEF HNext
      <3> QED BY <1>2, <3>1, <3>2
    <2> QED BY <2>2, <2>3, <2>4, Zenon DEF GapInv
  <1> QED BY <1>1, <1>2

(* As long as faults are recovered from by restarts only, the packets      *)
(* published since the seeded store are numbered without a gap: none is    *)
(* lost, whatever a fault discarded and whatever upstream sent again.      *)
THEOREM NoPacketLost == HSpec => []NoGap
  <1>1. GapInv => NoGap
    BY Zenon DEF GapInv
  <1> QED BY <1>1, GapStep, PTL DEF HSpec
=============================================================================
