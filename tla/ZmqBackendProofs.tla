-------------------------- MODULE ZmqBackendProofs --------------------------
(***************************************************************************)
(* Proofs about ZmqBackend, for any frames, any high-water mark and cap    *)
(* with RcvHwm <= MAX_DRAIN_PER_TICK, any width and freshness window.      *)
(* First what each step does to the frames that arrived and to the         *)
(* verdicts on them, then the invariants of the source and of the sink.    *)
(***************************************************************************)
EXTENDS ZmqBackend, FiniteSetTheorems, SequenceTheorems, TLAPS

-----------------------------------------------------------------------------
(* Frames                                                                  *)

(* A frame gets one of three verdicts, "batch" only if it holds stimuli    *)
(* and "modulation" only if it holds modulators.                           *)
LEMMA Verdicts ==
  ASSUME NEW f \in Frame
  PROVE  /\ Verdict(f) \in {"batch", "modulation", "rejected"}
         /\ Verdict(f) = "batch" => f.kind = "stimuli"
         /\ Verdict(f) = "modulation" => f.kind = "modulators"
  <1>1. CASE f.kind = "modulators"
    BY <1>1 DEF Verdict
  <1>2. CASE f.kind = "stimuli"
    BY <1>2 DEF Verdict
  <1>3. CASE f.kind # "modulators" /\ f.kind # "stimuli"
    BY <1>3 DEF Verdict
  <1> QED BY <1>1, <1>2, <1>3

(* A frame that ages stays a frame of its kind. *)
LEMMA OlderFrame ==
  ASSUME NEW f \in Frame
  PROVE  Older(f) \in Frame /\ Older(f).kind = f.kind
  <1>1. f.age \in Age
    BY DEF Frame
  <1>2. f.age # MaxAge + 1 => f.age + 1 \in Age
    BY <1>1, ZmqAssumption DEF Age
  <1>3. \A a \in Age : [f EXCEPT !.age = a] \in Frame /\ [f EXCEPT !.age = a].kind = f.kind
    BY Zenon DEF Frame
  <1> QED BY <1>2, <1>3, Zenon DEF Older

(* What consuming a frame does to the queue and to the list of verdicts. *)
LEMMA Consumed ==
  ASSUME TypeOK, Consume
  PROVE  /\ NextFrame = queue[1] /\ NextFrame \in Entry
         /\ Len(queue) \in Nat /\ Len(queue) >= 1 /\ Len(queue') = Len(queue) - 1
         /\ queue' \in Seq(Entry)
         /\ \A i \in 1 .. Len(queue) - 1 : queue'[i] = queue[i + 1]
         /\ consumed' \in Seq(Judgement)
         /\ Len(consumed) \in Nat /\ Len(consumed') = Len(consumed) + 1
         /\ \A i \in 1 .. Len(consumed) : consumed'[i] = consumed[i]
         /\ consumed'[Len(consumed) + 1]
              = [n |-> NextFrame.n, verdict |-> Verdict(NextFrame.frame)]
  <1> DEFINE e == [n |-> NextFrame.n, verdict |-> Verdict(NextFrame.frame)]
  <1>1. queue \in Seq(Entry) /\ consumed \in Seq(Judgement) /\ queue # << >>
    BY DEF TypeOK, Consume
  <1>2. NextFrame = queue[1] /\ NextFrame \in Entry /\ Len(queue) \in Nat /\ Len(queue) >= 1
    BY <1>1 DEF NextFrame
  <1>3. queue' = Tail(queue) /\ consumed' = Append(consumed, e)
    BY DEF Consume
  <1>4. e \in Judgement
    <2>1. NextFrame.n \in Number /\ NextFrame.frame \in Frame
      BY <1>2 DEF Entry
    <2> QED BY <2>1, Verdicts DEF Judgement
  <1> HIDE DEF e
  <1>5. /\ queue' \in Seq(Entry) /\ Len(queue') = Len(queue) - 1
        /\ \A i \in 1 .. Len(queue) - 1 : queue'[i] = queue[i + 1]
    BY <1>1, <1>3
  <1>6. /\ consumed' \in Seq(Judgement) /\ Len(consumed) \in Nat
        /\ Len(consumed') = Len(consumed) + 1
        /\ \A i \in 1 .. Len(consumed) : consumed'[i] = consumed[i]
        /\ consumed'[Len(consumed) + 1] = e
    BY <1>1, <1>3, <1>4
  <1> QED BY <1>2, <1>5, <1>6 DEF e

(* Consuming moves a frame from the queue to the verdicts: what has        *)
(* arrived stays the same.                                                 *)
LEMMA ConsumedArrived == ASSUME TypeOK, Consume PROVE Arrived' = Arrived
  <1> DEFINE l == Len(consumed)
             k == Len(queue)
             at(i) == IF i <= l THEN consumed[i].n ELSE queue[i - l].n
             next(i) == IF i <= Len(consumed') THEN consumed'[i].n
                        ELSE queue'[i - Len(consumed')].n
  <1>1. /\ NextFrame = queue[1]
        /\ k \in Nat /\ k >= 1 /\ Len(queue') = k - 1
        /\ \A i \in 1 .. k - 1 : queue'[i] = queue[i + 1]
        /\ l \in Nat /\ Len(consumed') = l + 1
        /\ \A i \in 1 .. l : consumed'[i] = consumed[i]
        /\ consumed'[l + 1].n = NextFrame.n
    BY Consumed
  <1>2. Arrived = [i \in 1 .. l + k |-> at(i)]
    BY DEF Arrived
  <1>3. Arrived' = [i \in 1 .. Len(consumed') + Len(queue') |-> next(i)]
    BY DEF Arrived
  <1>4. 1 .. Len(consumed') + Len(queue') = 1 .. l + k
    BY <1>1
  <1>5. ASSUME NEW i \in 1 .. l + k PROVE next(i) = at(i)
    <2> HIDE DEF l, k
    <2>1. CASE i <= l
      <3>1. i \in 1 .. l /\ i <= Len(consumed')
        BY <1>1, <2>1
      <3> QED BY <1>1, <2>1, <3>1
    <2>2. CASE i = l + 1
      <3>1. i - l = 1 /\ ~(i <= l) /\ i <= Len(consumed')
        BY <1>1, <2>2
      <3> QED BY <1>1, <2>2, <3>1
    <2>3. CASE i > l + 1
      <3>1. /\ i - (l + 1) \in 1 .. k - 1 /\ i - (l + 1) + 1 = i - l
            /\ ~(i <= l) /\ ~(i <= Len(consumed'))
        BY <1>1, <2>3
      <3>2. queue'[i - (l + 1)] = queue[i - l]
        BY <1>1, <3>1
      <3> QED BY <1>1, <3>1, <3>2
    <2> QED BY <1>1, <2>1, <2>2, <2>3
  <1> HIDE DEF at, next, l, k
  <1> QED BY <1>2, <1>3, <1>4, <1>5

(* The frame consumed joins those of its verdict, and no other. *)
LEMMA ConsumedJudged ==
  ASSUME TypeOK, Consume, NEW v
  PROVE  Judged(v)' = IF v = Verdict(NextFrame.frame)
                      THEN Judged(v) \cup {NextFrame.n} ELSE Judged(v)
  <1> DEFINE l == Len(consumed)
             verdict == Verdict(NextFrame.frame)
             n == NextFrame.n
  <1>1. /\ l \in Nat /\ Len(consumed') = l + 1
        /\ \A i \in 1 .. l : consumed'[i] = consumed[i]
        /\ consumed'[l + 1].n = n /\ consumed'[l + 1].verdict = verdict
    BY Consumed
  <1>2. Judged(v) = {consumed[i].n : i \in {j \in 1 .. l : consumed[j].verdict = v}}
    BY DEF Judged
  <1>3. Judged(v)' = {consumed'[i].n : i \in {j \in 1 .. l + 1 : consumed'[j].verdict = v}}
    BY <1>1 DEF Judged
  <1> HIDE DEF l, verdict, n
  <1>4. \A i \in 1 .. l + 1 : i = l + 1 \/ i \in 1 .. l
    BY <1>1
  <1>5. l + 1 \in 1 .. l + 1 /\ \A i \in 1 .. l : i \in 1 .. l + 1
    BY <1>1
  <1>6. ASSUME NEW m \in Judged(v)' PROVE m \in Judged(v) \/ (v = verdict /\ m = n)
    <2>1. PICK i \in 1 .. l + 1 : consumed'[i].verdict = v /\ m = consumed'[i].n
      BY <1>3
    <2> QED BY <1>1, <1>2, <1>4, <2>1
  <1>7. ASSUME NEW m \in Judged(v) PROVE m \in Judged(v)'
    <2>1. PICK i \in 1 .. l : consumed[i].verdict = v /\ m = consumed[i].n
      BY <1>2
    <2>2. i \in 1 .. l + 1 /\ consumed'[i].verdict = v /\ m = consumed'[i].n
      BY <1>1, <1>5, <2>1
    <2> QED BY <1>3, <2>2
  <1>8. v = verdict => n \in Judged(v)'
    BY <1>1, <1>3, <1>5
  <1>9. Judged(v)' = IF v = verdict THEN Judged(v) \cup {n} ELSE Judged(v)
    BY <1>6, <1>7, <1>8
  <1> QED BY <1>9 DEF verdict, n

(* Time passes: the frames in the queue age, nothing else about them       *)
(* changes.                                                                *)
LEMMA Aged ==
  ASSUME TypeOK, Elapse
  PROVE  /\ queue' \in Seq(Entry) /\ Len(queue') = Len(queue)
         /\ \A i \in 1 .. Len(queue) : /\ queue'[i].n = queue[i].n
                                       /\ queue'[i].frame.kind = queue[i].frame.kind
         /\ Arrived' = Arrived
  <1> DEFINE k == Len(queue)
             e(i) == [queue[i] EXCEPT !.frame = Older(queue[i].frame)]
  <1>1. queue \in Seq(Entry) /\ k \in Nat /\ consumed' = consumed
    BY DEF TypeOK, Elapse, history
  <1>2. queue' = [i \in 1 .. k |-> e(i)]
    BY DEF Elapse
  <1>3. ASSUME NEW i \in 1 .. k
        PROVE  /\ e(i) \in Entry /\ e(i).n = queue[i].n
               /\ e(i).frame.kind = queue[i].frame.kind
    <2>1. queue[i] \in Entry
      BY <1>1
    <2>2. queue[i].frame \in Frame
      BY <2>1 DEF Entry
    <2>3. Older(queue[i].frame) \in Frame
          /\ Older(queue[i].frame).kind = queue[i].frame.kind
      BY <2>2, OlderFrame
    <2> QED BY <2>1, <2>3, Zenon DEF Entry
  <1> HIDE DEF e, k
  <1>4. queue' \in [1 .. k -> Entry]
    BY <1>2, <1>3
  <1>5. queue' \in Seq(Entry) /\ Len(queue') = k
    BY <1>1, <1>4
  <1>6. \A i \in 1 .. k : /\ queue'[i].n = queue[i].n
                          /\ queue'[i].frame.kind = queue[i].frame.kind
    BY <1>2, <1>3
  <1>7. Arrived' = Arrived
    <2> DEFINE l == Len(consumed)
               at(i) == IF i <= l THEN consumed[i].n ELSE queue[i - l].n
               next(i) == IF i <= l THEN consumed[i].n ELSE queue'[i - l].n
    <2>1. Arrived = [i \in 1 .. l + k |-> at(i)]
      BY DEF Arrived, k
    <2>2. Arrived' = [i \in 1 .. l + k |-> next(i)]
      BY <1>1, <1>5 DEF Arrived
    <2>3. l \in Nat
      BY DEF TypeOK
    <2>4. ASSUME NEW i \in 1 .. l + k PROVE next(i) = at(i)
      <3> HIDE DEF l
      <3>1. ~(i <= l) => i - l \in 1 .. k
        BY <1>1, <2>3
      <3> QED BY <1>6, <3>1
    <2> HIDE DEF at, next
    <2> QED BY <2>1, <2>2, <2>4
  <1> QED BY <1>5, <1>6, <1>7 DEF k

(* A frame is published: it arrives after all others, or is lost. *)
LEMMA PublishedFrame ==
  ASSUME TypeOK, NEW f \in Frames, Publish(f)
  PROVE  \/ /\ UNCHANGED << queue, consumed >> /\ Arrived' = Arrived
            /\ lost' = lost \cup {published + 1}
         \/ /\ lost' = lost /\ Len(queue) < RcvHwm
            /\ queue' \in Seq(Entry) /\ Len(queue') = Len(queue) + 1
            /\ \A i \in 1 .. Len(queue) : queue'[i] = queue[i]
            /\ Arrived' = [i \in 1 .. Len(consumed) + Len(queue) + 1 |->
                             IF i <= Len(consumed) + Len(queue) THEN Arrived[i]
                             ELSE published + 1]
  <1> DEFINE k == Len(queue)
             l == Len(consumed)
             e == [n |-> published', frame |-> f]
  <1>1. /\ queue \in Seq(Entry) /\ k \in Nat /\ l \in Nat /\ consumed' = consumed
        /\ published' = published + 1
    BY DEF TypeOK, Publish
  <1>2. CASE connected /\ k < RcvHwm
    <2>1. queue' = Append(queue, e) /\ lost' = lost
      BY <1>2 DEF Publish
    <2>2. published' \in Number
      BY ZmqAssumption DEF Publish, TypeOK, Number
    <2>3. f \in Frame
      BY ZmqAssumption
    <2>4. e \in Entry
      BY <2>2, <2>3 DEF Entry
    <2>5. e.n = published + 1
      BY <1>1
    <2> HIDE DEF e
    <2>6. /\ queue' \in Seq(Entry) /\ Len(queue') = k + 1
          /\ \A i \in 1 .. k : queue'[i] = queue[i]
          /\ queue'[k + 1] = e
      BY <1>1, <2>1, <2>4
    <2>7. Arrived' = [i \in 1 .. l + k + 1 |->
                        IF i <= l + k THEN Arrived[i] ELSE published + 1]
      <3> DEFINE at(i) == IF i <= l THEN consumed[i].n ELSE queue[i - l].n
                 next(i) == IF i <= l THEN consumed[i].n ELSE queue'[i - l].n
      <3>1. Arrived = [i \in 1 .. l + k |-> at(i)]
        BY DEF Arrived
      <3>2. Arrived' = [i \in 1 .. l + (k + 1) |-> next(i)]
        BY <1>1, <2>6 DEF Arrived
      <3>3. ASSUME NEW i \in 1 .. l + k + 1
            PROVE  next(i) = IF i <= l + k THEN at(i) ELSE published + 1
        <4> HIDE DEF l, k
        <4>1. CASE i <= l
          BY <1>1, <4>1
        <4>2. CASE ~(i <= l) /\ i <= l + k
          <5>1. i - l \in 1 .. k
            BY <1>1, <4>2
          <5> QED BY <2>6, <4>2, <5>1
        <4>3. CASE ~(i <= l) /\ ~(i <= l + k)
          <5>1. i - l = k + 1
            BY <1>1, <4>3
          <5> QED BY <2>5, <2>6, <4>3, <5>1
        <4> QED BY <4>1, <4>2, <4>3
      <3>4. ASSUME NEW i \in 1 .. l + k + 1, i <= l + k PROVE Arrived[i] = at(i)
        <4> HIDE DEF l, k, at
        <4>1. i \in 1 .. l + k
          BY <1>1, <3>4
        <4> QED BY <3>1, <4>1
      <3>5. l + (k + 1) = l + k + 1
        BY <1>1
      <3> HIDE DEF at, next, l, k
      <3> QED BY <3>2, <3>3, <3>4, <3>5
    <2> QED BY <1>2, <2>1, <2>6, <2>7
  <1>3. CASE ~(connected /\ k < RcvHwm)
    <2>1. queue' = queue /\ lost' = lost \cup {published + 1}
      BY <1>1, <1>3 DEF Publish
    <2>2. Arrived' = Arrived
      BY <1>1, <2>1 DEF Arrived
    <2> QED BY <1>1, <2>1, <2>2
  <1> QED BY <1>2, <1>3

(* A step that leaves the frames, and what came of them, alone.            *)
Still ==
  UNCHANGED << queue, consumed, published, lost, delivered, flagged,
               last_modulators >>

(* Every step does, or publishes a frame, lets them age, or consumes one.  *)
LEMMA FrameMoves ==
  ASSUME [Next]_vars
  PROVE  \/ Still
         \/ (\E f \in Frames : Publish(f))
         \/ Elapse
         \/ ReceiveModulation \/ ReceiveBatch \/ ReceiveInvalid
  <1> USE DEF source, history, Still
  <1>1. CASE Initialize \/ BeginTick \/ Observe
    BY <1>1 DEF Initialize, BeginTick, Observe
  <1>2. CASE ReceiveEnds
    <2>1. Skip(last_modulators, FALSE).stimuli = 0 /\ ~Skip(last_modulators, FALSE).rejected
      BY DEF Skip
    <2> QED BY <1>2, <2>1 DEF ReceiveEnds, Return
  <1>3. CASE ReceiveFails
    BY <1>3 DEF ReceiveFails
  <1>4. CASE Emit
    BY <1>4 DEF Emit, EmitNothing, EmitSuppressed, EmitSent, EmitFails, EndTick
  <1>5. CASE UNCHANGED vars
    BY <1>5 DEF vars
  <1> QED BY <1>1, <1>2, <1>3, <1>4, <1>5 DEF Next, Receive

(* The frames and what came of them keep their types. *)
FrameTypes ==
  /\ queue \in Seq(Entry) /\ Len(queue) <= RcvHwm
  /\ consumed \in Seq(Judgement) /\ lost \subseteq Number
  /\ delivered \in Seq(Number) /\ flagged \in Nat
  /\ last_modulators \in {0} \cup Number
  /\ published \in 0 .. MaxFrames

(* What a call that consumed a frame returns and adds to the deliveries. *)
LEMMA ReturnedTypes ==
  ASSUME TypeOK, NEW p \in Packet, p.stimuli \in {0} \cup Number, Return(p)
  PROVE  delivered' \in Seq(Number) /\ flagged' \in Nat
  <1>1. delivered \in Seq(Number) /\ flagged \in Nat
    BY DEF TypeOK
  <1>2. p.stimuli # 0 => Append(delivered, p.stimuli) \in Seq(Number)
    BY <1>1
  <1>3. delivered' = IF p.stimuli = 0 THEN delivered ELSE Append(delivered, p.stimuli)
    BY DEF Return
  <1>4. delivered' \in Seq(Number)
    BY <1>1, <1>2, <1>3
  <1>5. flagged' \in Nat
    BY <1>1 DEF Return
  <1> QED BY <1>4, <1>5

(* The packets the source returns. *)
LEMMA PacketTypes ==
  ASSUME TypeOK
  PROVE  /\ Nothing \in Packet
         /\ \A b \in BOOLEAN : /\ Skip(last_modulators, b) \in Packet
                               /\ Skip(last_modulators, b).stimuli = 0
         /\ \A n \in Number :
              [stimuli |-> n, modulators |-> last_modulators, rejected |-> FALSE]
                \in Packet
  <1>1. last_modulators \in Nat /\ \A n \in Number : n \in Nat
    BY DEF TypeOK, Number
  <1> QED BY <1>1 DEF Packet, Nothing, Skip

(* ... in every step. *)
LEMMA FrameTypeStep == TypeOK /\ [Next]_vars => FrameTypes'
  <1> SUFFICES ASSUME TypeOK, [Next]_vars PROVE FrameTypes'
    OBVIOUS
  <1>0. FrameTypes
    BY DEF TypeOK, FrameTypes
  <1>1. CASE Still
    BY <1>0, <1>1 DEF Still, FrameTypes
  <1>2. ASSUME NEW f \in Frames, Publish(f) PROVE FrameTypes'
    <2>1. /\ UNCHANGED << consumed, delivered, flagged, last_modulators >>
          /\ published' = published + 1 /\ published < MaxFrames
      BY <1>2 DEF Publish
    <2>2. published' \in 0 .. MaxFrames /\ published + 1 \in Number
      BY <1>0, <2>1, ZmqAssumption DEF FrameTypes, Number
    <2>3. lost' \subseteq Number
      BY <1>0, <1>2, <2>2, PublishedFrame DEF FrameTypes
    <2>4. queue' \in Seq(Entry) /\ Len(queue') <= RcvHwm
      <3>1. CASE queue' = queue
        BY <1>0, <3>1 DEF FrameTypes
      <3>2. CASE /\ Len(queue) < RcvHwm /\ queue' \in Seq(Entry)
                 /\ Len(queue') = Len(queue) + 1
        <4>1. Len(queue) \in Nat
          BY <1>0 DEF FrameTypes
        <4>2. Len(queue') <= RcvHwm
          BY <3>2, <4>1, ZmqAssumption
        <4> QED BY <3>2, <4>2
      <3> QED BY <1>2, <3>1, <3>2, PublishedFrame
    <2> QED BY <1>0, <2>1, <2>2, <2>3, <2>4 DEF FrameTypes
  <1>3. CASE Elapse
    <2>1. UNCHANGED << consumed, delivered, flagged, last_modulators, published, lost >>
      BY <1>3 DEF Elapse, history
    <2>2. queue' \in Seq(Entry) /\ Len(queue') <= RcvHwm
      BY <1>0, <1>3, Aged DEF FrameTypes
    <2> QED BY <1>0, <2>1, <2>2 DEF FrameTypes
  <1>4. CASE ReceiveModulation \/ ReceiveBatch \/ ReceiveInvalid
    <2>0. Consume
      BY <1>4 DEF ReceiveModulation, ReceiveBatch, ReceiveInvalid
    <2>1. UNCHANGED << published, lost >>
      BY <1>4 DEF ReceiveModulation, ReceiveBatch, ReceiveInvalid, Return
    <2>2. NextFrame.n \in Number
      BY <2>0, Consumed DEF Entry
    <2>3. last_modulators' \in {0} \cup Number
      BY <1>0, <1>4, <2>2 DEF ReceiveModulation, ReceiveBatch, ReceiveInvalid, FrameTypes
    <2>4. delivered' \in Seq(Number) /\ flagged' \in Nat
      <3>1. CASE ReceiveModulation
        BY <1>0, <3>1 DEF ReceiveModulation, FrameTypes
      <3>2. CASE ReceiveBatch
        <4> DEFINE p == [stimuli |-> NextFrame.n, modulators |-> last_modulators,
                         rejected |-> FALSE]
        <4>1. p \in Packet /\ p.stimuli \in {0} \cup Number
          BY <2>2, PacketTypes
        <4>2. Return(p)
          BY <3>2 DEF ReceiveBatch
        <4> QED BY <4>1, <4>2, ReturnedTypes
      <3>3. CASE ReceiveInvalid
        <4>1. /\ Skip(last_modulators, TRUE) \in Packet
              /\ Skip(last_modulators, TRUE).stimuli \in {0} \cup Number
          BY PacketTypes
        <4>2. Return(Skip(last_modulators, TRUE))
          BY <3>3 DEF ReceiveInvalid
        <4> QED BY <4>1, <4>2, ReturnedTypes
      <3> QED BY <1>4, <3>1, <3>2, <3>3
    <2>5. /\ queue' \in Seq(Entry) /\ consumed' \in Seq(Judgement)
          /\ Len(queue') = Len(queue) - 1 /\ Len(queue) \in Nat
      BY <2>0, Consumed
    <2>6. Len(queue') <= RcvHwm
      BY <1>0, <2>5, ZmqAssumption DEF FrameTypes
    <2> QED BY <1>0, <2>1, <2>3, <2>4, <2>5, <2>6 DEF FrameTypes
  <1> QED BY <1>1, <1>2, <1>3, <1>4, FrameMoves

CallTypes ==
  /\ pc \in {"idle", "receive", "observe", "emit"}
  /\ drained \in 0 .. MAX_DRAIN_PER_TICK
  /\ packet \in Packet

(* Where the tick is, what it drained and what it got keep their types. *)
LEMMA CallStep == TypeOK /\ [Next]_vars => CallTypes'
  <1> SUFFICES ASSUME TypeOK, [Next]_vars PROVE CallTypes'
    OBVIOUS
  <1>0. CallTypes
    BY DEF TypeOK, CallTypes
  <1>1. CASE UNCHANGED << drained, packet >> /\ pc' \in {"idle", "emit", pc}
    BY <1>0, <1>1 DEF CallTypes
  <1>2. CASE \/ Elapse \/ Initialize \/ ReceiveFails \/ Observe \/ Emit
             \/ UNCHANGED vars \/ \E f \in Frames : Publish(f)
    BY <1>1, <1>2 DEF Elapse, Initialize, ReceiveFails, Observe, Emit, EmitNothing,
       EmitSuppressed, EmitSent, EmitFails, EndTick, Publish, vars, source
  <1>3. CASE BeginTick
    <2>1. 0 \in 0 .. MAX_DRAIN_PER_TICK
      BY ZmqAssumption
    <2>2. pc' = "receive" /\ drained' = 0 /\ packet' = Nothing
      BY <1>3 DEF BeginTick
    <2> QED BY <2>1, <2>2, PacketTypes DEF CallTypes
  <1>4. CASE ReceiveModulation \/ ReceiveBatch \/ ReceiveInvalid
    <2>0. Consume
      BY <1>4 DEF ReceiveModulation, ReceiveBatch, ReceiveInvalid
    <2>1. drained' \in 0 .. MAX_DRAIN_PER_TICK
      BY <1>0, <2>0, ZmqAssumption DEF Consume, Receiving, CallTypes
    <2>2. NextFrame.n \in Number
      BY <2>0, Consumed DEF Entry
    <2>3. CASE ReceiveModulation
      BY <1>0, <2>1, <2>3 DEF ReceiveModulation, CallTypes
    <2>4. CASE ReceiveBatch
      <3>1. /\ pc' = "observe"
            /\ packet' = [stimuli |-> NextFrame.n, modulators |-> last_modulators,
                          rejected |-> FALSE]
        BY <2>4 DEF ReceiveBatch, Return
      <3> QED BY <2>1, <2>2, <3>1, PacketTypes DEF CallTypes
    <2>5. CASE ReceiveInvalid
      <3>1. pc' = "observe" /\ packet' = Skip(last_modulators, TRUE)
        BY <2>5 DEF ReceiveInvalid, Return
      <3> QED BY <2>1, <3>1, PacketTypes DEF CallTypes
    <2> QED BY <1>4, <2>3, <2>4, <2>5
  <1>5. CASE ReceiveEnds
    <2>1. /\ pc' = "observe" /\ packet' = Skip(last_modulators, FALSE)
          /\ drained' = drained
      BY <1>5 DEF ReceiveEnds, Return
    <2> QED BY <1>0, <2>1, PacketTypes DEF CallTypes
  <1> QED BY <1>2, <1>3, <1>4, <1>5 DEF Next, Receive

SinkTypes ==
  /\ stats \in [attempted : Nat, suppressed : Nat, failed : Nat]
  /\ accepted \in Nat

(* What a step does to the sink: nothing, or the end of one emit call. *)
LEMMA SinkMoves ==
  ASSUME [Next]_vars
  PROVE  UNCHANGED sink \/ EmitSuppressed \/ EmitSent \/ EmitFails
  BY DEF Next, vars, Publish, Elapse, Initialize, BeginTick, Receive,
     ReceiveModulation, ReceiveBatch, ReceiveInvalid, ReceiveEnds, ReceiveFails,
     Return, Observe, Emit, EmitNothing

(* The sink's counters keep their types and their sum. *)
LEMMA SinkStep ==
  SinkTypes /\ SinkAccounts /\ [Next]_vars => SinkTypes' /\ SinkAccounts'
  <1> SUFFICES ASSUME SinkTypes, SinkAccounts, [Next]_vars
               PROVE  SinkTypes' /\ SinkAccounts'
    OBVIOUS
  <1>0. stats.attempted \in Nat /\ stats.suppressed \in Nat /\ stats.failed \in Nat
    BY DEF SinkTypes
  <1>1. CASE UNCHANGED sink
    BY <1>1 DEF sink, SinkTypes, SinkAccounts
  <1>2. CASE EmitSuppressed
    BY <1>0, <1>2 DEF EmitSuppressed, SinkTypes, SinkAccounts
  <1>3. CASE EmitSent
    BY <1>0, <1>3 DEF EmitSent, SinkTypes, SinkAccounts
  <1>4. CASE EmitFails
    <2>1. /\ stats' = [stats EXCEPT !.attempted = @ + 1, !.failed = @ + 1]
          /\ accepted' = accepted
      BY <1>4 DEF EmitFails
    <2>2. /\ stats'.attempted = stats.attempted + 1 /\ stats'.failed = stats.failed + 1
          /\ stats'.suppressed = stats.suppressed
      BY <2>1, Zenon DEF SinkTypes
    <2>3. ASSUME NEW a \in Nat, NEW b \in Nat
          PROVE  [stats EXCEPT !.attempted = a, !.failed = b]
                   \in [attempted : Nat, suppressed : Nat, failed : Nat]
      BY Zenon DEF SinkTypes
    <2>4. stats.attempted + 1 \in Nat /\ stats.failed + 1 \in Nat
      BY <1>0
    <2>5. stats' \in [attempted : Nat, suppressed : Nat, failed : Nat]
      BY <2>1, <2>3, <2>4, Zenon
    <2> QED BY <1>0, <2>1, <2>2, <2>5 DEF SinkTypes, SinkAccounts
  <1> QED BY <1>1, <1>2, <1>3, <1>4, SinkMoves

OtherTypes ==
  /\ ticks \in 0 .. MaxTicks /\ pending \subseteq Number
  /\ connected \in BOOLEAN
  /\ checkpoint_at \in HM!Age /\ last_ingress \in HM!Age

(* So does the rest of the state. *)
LEMMA OtherStep == TypeOK /\ [Next]_vars => OtherTypes'
  <1> SUFFICES ASSUME TypeOK, [Next]_vars PROVE OtherTypes'
    OBVIOUS
  <1>0. OtherTypes
    BY DEF TypeOK, OtherTypes
  <1>1. connected' \in BOOLEAN
    BY <1>0 DEF OtherTypes, Next, vars, source, Publish, Elapse, Initialize,
       BeginTick, Receive, ReceiveModulation, ReceiveBatch, ReceiveInvalid,
       ReceiveEnds, ReceiveFails, Return, Observe, Emit, EmitNothing,
       EmitSuppressed, EmitSent, EmitFails, EndTick
  <1>2. CASE UNCHANGED << ticks, pending, health >>
    BY <1>0, <1>1, <1>2 DEF OtherTypes, health
  <1>3. CASE Elapse
    <2>1. \A a \in HM!Age : HM!Older(a) \in HM!Age
      BY ZmqAssumption DEF HM!Age, HM!Older, HM!Never
    <2>2. checkpoint_at' \in HM!Age /\ last_ingress' \in HM!Age
      BY <1>0, <1>3, <2>1 DEF Elapse, OtherTypes
    <2>3. UNCHANGED << ticks, pending >>
      BY <1>3 DEF Elapse, history
    <2> QED BY <1>0, <1>1, <2>2, <2>3 DEF OtherTypes
  <1>4. CASE Observe
    <2>1. 0 \in HM!Age
      BY ZmqAssumption DEF HM!Age
    <2>2. /\ last_ingress' \in {0, last_ingress}
          /\ UNCHANGED << checkpoint_at, ticks, pending >>
      BY <1>4 DEF Observe, history
    <2> QED BY <1>0, <1>1, <2>1, <2>2 DEF OtherTypes
  <1>5. CASE BeginTick
    <2>1. StimuliQueued \subseteq Number
      <3>1. \A i \in 1 .. Len(queue) : queue[i] \in Entry
        BY DEF TypeOK
      <3>2. \A i \in 1 .. Len(queue) : queue[i].n \in Number
        BY <3>1 DEF Entry
      <3> QED BY <3>2 DEF StimuliQueued
    <2>2. ticks' \in 0 .. MaxTicks
      BY <1>0, <1>5, ZmqAssumption DEF BeginTick, OtherTypes
    <2>3. UNCHANGED health /\ pending' = StimuliQueued
      BY <1>5 DEF BeginTick
    <2> QED BY <1>0, <1>1, <2>1, <2>2, <2>3 DEF OtherTypes, health
  <1>6. CASE ReceiveModulation \/ ReceiveBatch \/ ReceiveInvalid \/ ReceiveEnds
    BY <1>2, <1>6 DEF ReceiveModulation, ReceiveBatch, ReceiveInvalid,
       ReceiveEnds, Return
  <1>7. CASE \/ Initialize \/ ReceiveFails \/ Emit \/ UNCHANGED vars
             \/ \E f \in Frames : Publish(f)
    BY <1>2, <1>7 DEF Initialize, ReceiveFails, Emit, EmitNothing,
       EmitSuppressed, EmitSent, EmitFails, EndTick, Publish, vars, history
  <1> QED BY <1>3, <1>4, <1>5, <1>6, <1>7 DEF Next, Receive

(* Every step keeps the types, and the sink's accounts. *)
LEMMA TypeStep ==
  TypeOK /\ SinkAccounts /\ [Next]_vars => TypeOK' /\ SinkAccounts'
  <1>1. TypeOK => SinkTypes
    BY DEF TypeOK, SinkTypes
  <1>2. (FrameTypes /\ CallTypes /\ SinkTypes /\ OtherTypes)' => TypeOK'
    BY DEF TypeOK, FrameTypes, CallTypes, SinkTypes, OtherTypes
  <1> QED BY <1>1, <1>2, FrameTypeStep, CallStep, SinkStep, OtherStep

(* The types hold at first. *)
LEMMA InitTypes == Init => TypeOK
  <1> SUFFICES ASSUME Init PROVE TypeOK
    OBVIOUS
  <1>1. 0 \in HM!Age /\ HM!Never \in HM!Age
    BY ZmqAssumption DEF HM!Age
  <1>2. Nothing \in Packet
    BY DEF Nothing, Packet
  <1>3. /\ << >> \in Seq(Entry) /\ << >> \in Seq(Judgement) /\ << >> \in Seq(Number)
        /\ Len(<< >>) = 0
    OBVIOUS
  <1>4. connected \in BOOLEAN
    BY DEF Init
  <1>5. [attempted |-> 0, suppressed |-> 0, failed |-> 0]
          \in [attempted : Nat, suppressed : Nat, failed : Nat]
    OBVIOUS
  <1> QED BY <1>1, <1>2, <1>3, <1>4, <1>5, ZmqAssumption DEF Init, TypeOK
-----------------------------------------------------------------------------
(* Every frame once, in order                                              *)

Total == Len(consumed) + Len(queue)

(* The frames that reached the queue are those that were not lost, oldest  *)
(* first.                                                                  *)
Arrival ==
  /\ \A i, j \in 1 .. Total : i < j => Arrived[i] < Arrived[j]
  /\ Range(Arrived) = (1 .. published) \ lost
  /\ lost \subseteq 1 .. published

(* The frames that arrived are numbers. *)
LEMMA ArrivedTypes ==
  ASSUME TypeOK
  PROVE  /\ Total \in Nat /\ Len(consumed) \in Nat /\ Len(queue) \in Nat
         /\ Arrived \in [1 .. Total -> Number]
         /\ \A i \in 1 .. Len(consumed) : Arrived[i] = consumed[i].n
         /\ \A i \in 1 .. Len(queue) : Arrived[Len(consumed) + i] = queue[i].n
  <1> DEFINE l == Len(consumed)
             k == Len(queue)
  <1>1. l \in Nat /\ k \in Nat
    BY DEF TypeOK
  <1>2. \A i \in 1 .. l : consumed[i] \in Judgement
    BY DEF TypeOK
  <1>3. \A i \in 1 .. k : queue[i] \in Entry
    BY DEF TypeOK
  <1>4. \A i \in 1 .. l : consumed[i].n \in Number
    BY <1>2 DEF Judgement
  <1>5. \A i \in 1 .. k : queue[i].n \in Number
    BY <1>3 DEF Entry
  <1> HIDE DEF l, k
  <1>6. Arrived = [i \in 1 .. l + k |-> IF i <= l THEN consumed[i].n ELSE queue[i - l].n]
    BY DEF Arrived, l, k
  <1>7. ASSUME NEW i \in 1 .. l + k
        PROVE  (IF i <= l THEN consumed[i].n ELSE queue[i - l].n) \in Number
    <2>1. CASE i <= l
      <3>1. i \in 1 .. l
        BY <1>1, <2>1
      <3> QED BY <1>4, <2>1, <3>1
    <2>2. CASE ~(i <= l)
      <3>1. i - l \in 1 .. k
        BY <1>1, <2>2
      <3> QED BY <1>5, <2>2, <3>1
    <2> QED BY <2>1, <2>2
  <1>8. Arrived \in [1 .. l + k -> Number]
    BY <1>6, <1>7
  <1>9. ASSUME NEW i \in 1 .. l PROVE Arrived[i] = consumed[i].n
    <2>1. i \in 1 .. l + k /\ i <= l
      BY <1>1
    <2> QED BY <1>6, <2>1
  <1>10. ASSUME NEW i \in 1 .. k PROVE Arrived[l + i] = queue[i].n
    <2>1. l + i \in 1 .. l + k /\ ~(l + i <= l) /\ (l + i) - l = i
      BY <1>1
    <2> QED BY <1>6, <2>1
  <1>11. l + k \in Nat
    BY <1>1
  <1> QED BY <1>1, <1>8, <1>9, <1>10, <1>11 DEF l, k, Total

(* Every step keeps it: a frame that is published arrives last or is lost, *)
(* and nothing else changes what has arrived.                              *)
LEMMA ArrivalStep == TypeOK /\ Arrival /\ [Next]_vars => Arrival'
  <1> SUFFICES ASSUME TypeOK, Arrival, [Next]_vars PROVE Arrival'
    OBVIOUS
  <1>0. Total \in Nat /\ published \in Nat /\ Arrived \in [1 .. Total -> Number]
    BY ArrivedTypes DEF TypeOK
  <1>1. CASE UNCHANGED << Arrived, Total, published, lost >>
    BY <1>1 DEF Arrival, Range
  <1>2. CASE Still
    BY <1>1, <1>2 DEF Still, Arrived, Total
  <1>3. CASE Elapse
    <2>1. UNCHANGED << consumed, published, lost >>
      BY <1>3 DEF Elapse, history
    <2> QED BY <1>1, <1>3, <2>1, Aged DEF Total
  <1>4. CASE ReceiveModulation \/ ReceiveBatch \/ ReceiveInvalid
    <2>1. Consume /\ UNCHANGED << published, lost >>
      BY <1>4 DEF ReceiveModulation, ReceiveBatch, ReceiveInvalid, Return
    <2>2. Total' = Total
      <3>1. /\ Len(consumed') = Len(consumed) + 1 /\ Len(queue') = Len(queue) - 1
            /\ Len(consumed) \in Nat /\ Len(queue) \in Nat
        BY <2>1, Consumed
      <3> QED BY <3>1 DEF Total
    <2> QED BY <1>1, <2>1, <2>2, ConsumedArrived
  <1>5. ASSUME NEW f \in Frames, Publish(f) PROVE Arrival'
    <2>1. published' = published + 1 /\ consumed' = consumed
      BY <1>5 DEF Publish
    <2>2. CASE /\ UNCHANGED << queue, consumed >> /\ Arrived' = Arrived
               /\ lost' = lost \cup {published + 1}
      <3>1. Total' = Total
        BY <2>2 DEF Total
      <3>2. Range(Arrived)' = Range(Arrived)
        BY <2>2 DEF Range
      <3>3. (1 .. published') \ lost' = (1 .. published) \ lost
        BY <1>0, <2>1, <2>2
      <3>4. lost' \subseteq 1 .. published'
        BY <1>0, <2>1, <2>2 DEF Arrival
      <3>5. Range(Arrived) = (1 .. published) \ lost
        BY DEF Arrival
      <3> QED BY <2>2, <3>1, <3>2, <3>3, <3>4, <3>5 DEF Arrival
    <2>3. CASE /\ lost' = lost /\ Len(queue') = Len(queue) + 1
               /\ Arrived' = [i \in 1 .. Total + 1 |->
                                IF i <= Total THEN Arrived[i] ELSE published + 1]
      <3>1. Total' = Total + 1
        BY <2>1, <2>3, ArrivedTypes DEF Total
      <3>2. \A i \in 1 .. Total : Arrived[i] \in 1 .. published
        <4>1. \A i \in 1 .. Total : Arrived[i] \in Range(Arrived)
          BY <1>0 DEF Range
        <4> QED BY <4>1 DEF Arrival
      <3>3. ASSUME NEW i \in 1 .. Total + 1, NEW j \in 1 .. Total + 1, i < j
            PROVE  Arrived'[i] < Arrived'[j]
        <4>1. i \in 1 .. Total /\ i <= Total
          BY <1>0, <3>3
        <4>2. Arrived'[i] = Arrived[i]
          BY <2>3, <4>1
        <4>3. CASE j <= Total
          <5>1. j \in 1 .. Total /\ Arrived'[j] = Arrived[j]
            BY <1>0, <2>3, <4>3
          <5> QED BY <3>3, <4>1, <4>2, <5>1 DEF Arrival
        <4>4. CASE ~(j <= Total)
          <5>1. Arrived'[j] = published + 1
            BY <2>3, <4>4
          <5>2. Arrived[i] \in 1 .. published
            BY <3>2, <4>1
          <5> QED BY <1>0, <4>2, <5>1, <5>2
        <4> QED BY <4>3, <4>4
      <3>4. Range(Arrived)' = Range(Arrived) \cup {published + 1}
        <4>1. /\ \A i \in 1 .. Total : i \in 1 .. Total + 1 /\ i <= Total
              /\ Total + 1 \in 1 .. Total + 1 /\ ~(Total + 1 <= Total)
              /\ \A i \in 1 .. Total + 1 : i <= Total => i \in 1 .. Total
          BY <1>0
        <4>2. Range(Arrived) = {Arrived[i] : i \in 1 .. Total}
          BY <1>0 DEF Range
        <4>3. Range(Arrived)' = {Arrived'[i] : i \in 1 .. Total + 1}
          BY <2>3 DEF Range
        <4> QED BY <2>3, <4>1, <4>2, <4>3
      <3>5. (1 .. published') \ lost' = ((1 .. published) \ lost) \cup {published + 1}
        <4>1. 1 .. published' = (1 .. published) \cup {published + 1}
          BY <1>0, <2>1
        <4>2. published + 1 \notin lost
          BY <1>0 DEF Arrival
        <4> QED BY <2>3, <4>1, <4>2
      <3>6. lost' \subseteq 1 .. published'
        BY <1>0, <2>1, <2>3 DEF Arrival
      <3> QED BY <3>1, <3>3, <3>4, <3>5, <3>6 DEF Arrival
    <2> QED BY <1>5, <2>2, <2>3, PublishedFrame DEF Total
  <1> QED BY <1>2, <1>3, <1>4, <1>5, FrameMoves

(* A frame that is consumed is newer than all that were consumed before. *)
LEMMA NewerThanJudged ==
  ASSUME TypeOK, Arrival, Consume, NEW v, NEW m \in Judged(v)
  PROVE  m \in Number /\ NextFrame.n \in Number /\ m < NextFrame.n
  <1> DEFINE l == Len(consumed)
  <1>1. /\ Total \in Nat /\ l \in Nat /\ Len(queue) \in Nat /\ Len(queue) >= 1
        /\ NextFrame = queue[1]
    BY ArrivedTypes, Consumed
  <1>2. PICK i \in 1 .. l : m = consumed[i].n
    BY DEF Judged
  <1>3. Total = l + Len(queue)
    BY DEF Total
  <1> HIDE DEF l
  <1>4. i \in 1 .. Total /\ l + 1 \in 1 .. Total /\ i < l + 1 /\ 1 \in 1 .. Len(queue)
    BY <1>1, <1>3
  <1>5. Arrived[i] = m /\ Arrived[l + 1] = NextFrame.n
    BY <1>1, <1>2, <1>4, ArrivedTypes DEF l
  <1>6. Arrived[i] \in Number /\ Arrived[l + 1] \in Number
    BY <1>4, ArrivedTypes
  <1>7. Arrived[i] < Arrived[l + 1]
    BY <1>4 DEF Arrival
  <1> QED BY <1>5, <1>6, <1>7

(* What became of the frames consumed so far: the batches were delivered   *)
(* in order, each rejection flagged one packet, and the newest modulation  *)
(* is held.                                                                *)
Deliveries ==
  /\ \A i, j \in 1 .. Len(delivered) : i < j => delivered[i] < delivered[j]
  /\ Range(delivered) = Judged("batch")

Flags ==
  /\ IsFiniteSet(Judged("rejected"))
  /\ flagged = Cardinality(Judged("rejected"))

Holds ==
  /\ last_modulators \in {0} \cup Judged("modulation")
  /\ \A n \in Judged("modulation") : n <= last_modulators

Outcomes == Deliveries /\ Flags /\ Holds

(* A batch that is delivered is the newest. *)
LEMMA DeliverNext ==
  ASSUME TypeOK, Arrival, Deliveries, Consume,
         Verdict(NextFrame.frame) = "batch",
         delivered' = Append(delivered, NextFrame.n)
  PROVE  Deliveries'
  <1> DEFINE d == Len(delivered)
             n == NextFrame.n
  <1>1. delivered \in Seq(Number) /\ d \in Nat /\ n \in Number
    BY Consumed DEF TypeOK, Entry
  <1>2. /\ delivered' \in Seq(Number) /\ Len(delivered') = d + 1
        /\ \A i \in 1 .. d : delivered'[i] = delivered[i]
        /\ delivered'[d + 1] = n
    BY <1>1
  <1>3. \A i \in 1 .. d : delivered[i] \in Judged("batch")
    <2>1. \A i \in 1 .. d : delivered[i] \in Range(delivered)
      BY <1>1 DEF Range
    <2> QED BY <2>1 DEF Deliveries
  <1>4. \A i \in 1 .. d : delivered[i] < n
    BY <1>3, NewerThanJudged
  <1>5. Judged("batch")' = Judged("batch") \cup {n}
    BY ConsumedJudged
  <1> HIDE DEF d, n
  <1>6. Range(delivered)' = Range(delivered) \cup {n}
    <2>1. /\ \A i \in 1 .. d : i \in 1 .. d + 1
          /\ \A i \in 1 .. d + 1 : i = d + 1 \/ i \in 1 .. d
          /\ d + 1 \in 1 .. d + 1
      BY <1>1
    <2>2. Range(delivered) = {delivered[i] : i \in 1 .. d}
      BY <1>1 DEF Range, d
    <2>3. Range(delivered)' = {delivered'[i] : i \in 1 .. d + 1}
      BY <1>2 DEF Range
    <2> QED BY <1>2, <2>1, <2>2, <2>3
  <1>7. ASSUME NEW i \in 1 .. d + 1, NEW j \in 1 .. d + 1, i < j
        PROVE  delivered'[i] < delivered'[j]
    <2>1. i \in 1 .. d
      BY <1>1, <1>7
    <2>2. CASE j = d + 1
      BY <1>2, <1>4, <2>1, <2>2
    <2>3. CASE j # d + 1
      <3>1. j \in 1 .. d
        BY <1>1, <2>3
      <3> QED BY <1>2, <1>7, <2>1, <3>1 DEF Deliveries, d
    <2> QED BY <2>2, <2>3
  <1> QED BY <1>2, <1>5, <1>6, <1>7 DEF Deliveries

(* Every step keeps the outcomes true to the verdicts. *)
LEMMA OutcomeStep == TypeOK /\ Arrival /\ Outcomes /\ [Next]_vars => Outcomes'
  <1> SUFFICES ASSUME TypeOK, Arrival, Outcomes, [Next]_vars PROVE Outcomes'
    OBVIOUS
  <1> USE DEF Outcomes
  <1>1. CASE UNCHANGED << consumed, delivered, flagged, last_modulators >>
    BY <1>1 DEF Deliveries, Flags, Holds, Judged, Range
  <1>2. CASE Still
    BY <1>1, <1>2 DEF Still
  <1>3. CASE Elapse \/ \E f \in Frames : Publish(f)
    BY <1>1, <1>3 DEF Elapse, Publish, history
  <1>4. CASE ReceiveModulation
    <2>1. /\ Consume /\ Verdict(NextFrame.frame) = "modulation"
          /\ last_modulators' = NextFrame.n
          /\ UNCHANGED << delivered, flagged >>
      BY <1>4 DEF ReceiveModulation
    <2>2. /\ Judged("batch")' = Judged("batch")
          /\ Judged("rejected")' = Judged("rejected")
          /\ Judged("modulation")' = Judged("modulation") \cup {NextFrame.n}
      BY <2>1, ConsumedJudged
    <2>3. \A m \in Judged("modulation") : m <= NextFrame.n
      <3>1. \A m \in Judged("modulation") :
              m \in Number /\ NextFrame.n \in Number /\ m < NextFrame.n
        BY <2>1, NewerThanJudged
      <3> QED BY <3>1 DEF Number
    <2>4. NextFrame.n <= NextFrame.n
      BY <2>1, Consumed DEF Entry, Number
    <2>5. Holds'
      BY <2>1, <2>2, <2>3, <2>4 DEF Holds
    <2>6. Deliveries' /\ Flags'
      BY <2>1, <2>2 DEF Deliveries, Flags, Range
    <2> QED BY <2>5, <2>6
  <1>5. CASE ReceiveBatch
    <2>1. /\ Consume /\ Verdict(NextFrame.frame) = "batch"
          /\ UNCHANGED last_modulators
          /\ Return([stimuli |-> NextFrame.n, modulators |-> last_modulators,
                     rejected |-> FALSE])
      BY <1>5 DEF ReceiveBatch
    <2>2. NextFrame.n # 0
      BY <2>1, Consumed DEF Entry, Number
    <2>3. delivered' = Append(delivered, NextFrame.n) /\ flagged' = flagged
      BY <2>1, <2>2 DEF Return
    <2>4. /\ Judged("modulation")' = Judged("modulation")
          /\ Judged("rejected")' = Judged("rejected")
      BY <2>1, ConsumedJudged
    <2>5. Deliveries'
      BY <2>1, <2>3, DeliverNext
    <2>6. Flags' /\ Holds'
      BY <2>1, <2>3, <2>4 DEF Flags, Holds
    <2> QED BY <2>5, <2>6
  <1>6. CASE ReceiveInvalid
    <2>1. /\ Consume /\ Verdict(NextFrame.frame) = "rejected"
          /\ UNCHANGED last_modulators
          /\ Return(Skip(last_modulators, TRUE))
      BY <1>6 DEF ReceiveInvalid
    <2>2. delivered' = delivered /\ flagged' = flagged + 1
      BY <2>1 DEF Return, Skip
    <2>3. /\ Judged("modulation")' = Judged("modulation")
          /\ Judged("batch")' = Judged("batch")
          /\ Judged("rejected")' = Judged("rejected") \cup {NextFrame.n}
      BY <2>1, ConsumedJudged
    <2>4. NextFrame.n \notin Judged("rejected")
      <3>1. \A m \in Judged("rejected") :
              m \in Number /\ NextFrame.n \in Number /\ m < NextFrame.n
        BY <2>1, NewerThanJudged
      <3> QED BY <3>1 DEF Number
    <2>5. Flags'
      BY <2>2, <2>3, <2>4, FS_AddElement DEF Flags
    <2>6. Deliveries' /\ Holds'
      BY <2>1, <2>2, <2>3 DEF Deliveries, Holds, Range
    <2> QED BY <2>5, <2>6
  <1> QED BY <1>2, <1>3, <1>4, <1>5, <1>6, FrameMoves
-----------------------------------------------------------------------------
(* What a call returns                                                     *)

(* A packet carries the held modulators; a call that failed left none. *)
Packets ==
  /\ pc = "receive" => packet = Nothing
  /\ pc \in {"observe", "emit"} /\ packet # Nothing =>
       packet.modulators = last_modulators

(* Every step keeps it. *)
LEMMA PacketStep == Packets /\ [Next]_vars => Packets'
  <1> SUFFICES ASSUME Packets, [Next]_vars PROVE Packets'
    OBVIOUS
  <1>1. CASE pc' = "idle"
    BY <1>1 DEF Packets
  <1>2. CASE UNCHANGED << pc, packet, last_modulators >>
    BY <1>2 DEF Packets
  <1>3. CASE \E f \in Frames : Publish(f)
    BY <1>2, <1>3 DEF Publish
  <1>4. CASE Elapse \/ Initialize \/ UNCHANGED vars
    BY <1>2, <1>4 DEF Elapse, Initialize, vars, source
  <1>5. CASE BeginTick
    BY <1>5 DEF BeginTick, Packets
  <1>6. CASE ReceiveModulation
    <2>1. pc = "receive" /\ pc' = pc /\ packet' = packet
      BY <1>6 DEF ReceiveModulation, Consume, Receiving
    <2> QED BY <2>1 DEF Packets
  <1>7. CASE ReceiveBatch \/ ReceiveInvalid \/ ReceiveEnds
    <2>1. pc' = "observe" /\ packet'.modulators = last_modulators
      BY <1>7 DEF ReceiveBatch, ReceiveInvalid, ReceiveEnds, Return, Skip
    <2>2. last_modulators' = last_modulators
      BY <1>7 DEF ReceiveBatch, ReceiveInvalid, ReceiveEnds
    <2> QED BY <2>1, <2>2 DEF Packets
  <1>8. CASE ReceiveFails
    <2>1. pc = "receive" /\ pc' = "emit" /\ packet' = packet
      BY <1>8 DEF ReceiveFails, source
    <2> QED BY <2>1 DEF Packets
  <1>9. CASE Observe
    <2>1. /\ pc = "observe" /\ pc' = "emit" /\ packet' = packet
          /\ last_modulators' = last_modulators
      BY <1>9 DEF Observe, source
    <2> QED BY <2>1 DEF Packets
  <1>10. CASE Emit
    BY <1>1, <1>10 DEF Emit, EmitNothing, EmitSuppressed, EmitSent, EmitFails, EndTick
  <1> QED BY <1>3, <1>4, <1>5, <1>6, <1>7, <1>8, <1>9, <1>10 DEF Next, Receive

(* The stimuli among the first k frames of the queue. *)
Ahead(k) == {queue[i].n : i \in {j \in 1 .. k : queue[j].frame.kind = "stimuli"}}

(* While a call receives, the stimuli that were queued when it began are   *)
(* the ones among the first k frames, which it reaches before its cap.     *)
Waiting ==
  pc = "receive" =>
    \E k \in 0 .. Len(queue) : /\ k > 0 => k + drained <= RcvHwm
                               /\ pending = Ahead(k)

(* The queue of a step and the next agree on the first k frames. *)
LEMMA AheadSame ==
  ASSUME NEW k \in Nat,
         \A i \in 1 .. k : /\ queue'[i].n = queue[i].n
                           /\ queue'[i].frame.kind = queue[i].frame.kind
  PROVE  Ahead(k)' = Ahead(k)
  BY DEF Ahead

(* Every step keeps it, and the call that returns has served them. *)
LEMMA WaitingStep ==
  TypeOK /\ Waiting /\ QueuedStimulusServed /\ [Next]_vars =>
    Waiting' /\ QueuedStimulusServed'
  <1> SUFFICES ASSUME TypeOK, Waiting, QueuedStimulusServed, [Next]_vars
               PROVE  Waiting' /\ QueuedStimulusServed'
    OBVIOUS
  <1>0. queue \in Seq(Entry) /\ Len(queue) \in Nat /\ drained \in Nat /\ Len(queue) <= RcvHwm
    BY DEF TypeOK
  <1>1. CASE pc' \notin {"receive", "observe"}
    BY <1>1 DEF Waiting, QueuedStimulusServed
  <1>2. CASE UNCHANGED << pc, queue, drained, pending, packet >>
    BY <1>2 DEF Waiting, QueuedStimulusServed, Ahead
  <1>3. CASE /\ UNCHANGED << pc, drained, pending, packet >>
             /\ Len(queue') \in Nat /\ Len(queue) <= Len(queue')
             /\ \A i \in 1 .. Len(queue) :
                  /\ queue'[i].n = queue[i].n
                  /\ queue'[i].frame.kind = queue[i].frame.kind
    <2>1. QueuedStimulusServed'
      BY <1>3 DEF QueuedStimulusServed
    <2>2. ASSUME pc' = "receive" PROVE Waiting'
      <3>1. PICK k \in 0 .. Len(queue) : /\ k > 0 => k + drained <= RcvHwm
                                         /\ pending = Ahead(k)
        BY <1>3, <2>2 DEF Waiting
      <3>2. \A i \in 1 .. k : i \in 1 .. Len(queue)
        BY <1>0
      <3>3. Ahead(k)' = Ahead(k)
        BY <1>3, <3>2, AheadSame
      <3>4. k \in 0 .. Len(queue') /\ (k > 0 => k + drained' <= RcvHwm)
        BY <1>0, <1>3, <3>1
      <3>5. pending' = Ahead(k)'
        BY <1>3, <3>1, <3>3
      <3> QED BY <3>4, <3>5 DEF Waiting
    <2>3. pc' # "receive" => Waiting'
      BY DEF Waiting
    <2> QED BY <2>1, <2>2, <2>3
  <1>4. ASSUME NEW f \in Frames, Publish(f) PROVE Waiting' /\ QueuedStimulusServed'
    <2>1. UNCHANGED << pc, drained, pending, packet >>
      BY <1>4 DEF Publish
    <2>2. CASE queue' = queue
      BY <1>2, <2>1, <2>2
    <2>3. CASE /\ Len(queue') = Len(queue) + 1
               /\ \A i \in 1 .. Len(queue) : queue'[i] = queue[i]
      <3>1. Len(queue') \in Nat /\ Len(queue) <= Len(queue')
        BY <1>0, <2>3
      <3> QED BY <1>3, <2>1, <2>3, <3>1
    <2> QED BY <1>4, <2>2, <2>3, PublishedFrame
  <1>5. CASE Elapse
    <2>1. UNCHANGED << pc, drained, pending, packet >>
      BY <1>5 DEF Elapse, history
    <2>2. Len(queue') \in Nat /\ Len(queue) <= Len(queue')
      BY <1>0, <1>5, Aged
    <2> QED BY <1>3, <1>5, <2>1, <2>2, Aged
  <1>6. CASE Initialize \/ UNCHANGED vars
    BY <1>2, <1>6 DEF Initialize, vars, source, history
  <1>7. CASE BeginTick
    <2>1. /\ pc' = "receive" /\ drained' = 0 /\ pending' = StimuliQueued
          /\ queue' = queue
      BY <1>7 DEF BeginTick
    <2>2. PICK k \in Nat : k = Len(queue)
      BY <1>0
    <2>3. StimuliQueued = Ahead(k)
      BY <2>2 DEF StimuliQueued, Ahead
    <2>4. Ahead(k)' = Ahead(k)
      BY <2>1, AheadSame
    <2>5. pending' = Ahead(k)'
      BY <2>1, <2>3, <2>4
    <2>6. k \in 0 .. Len(queue') /\ k + drained' <= RcvHwm
      BY <1>0, <2>1, <2>2
    <2>7. Waiting'
      BY <2>5, <2>6 DEF Waiting
    <2> QED BY <2>1, <2>7 DEF QueuedStimulusServed
  <1>8. CASE ReceiveModulation
    <2>1. /\ Consume /\ Verdict(NextFrame.frame) = "modulation"
          /\ pc = "receive" /\ pc' = pc /\ UNCHANGED << packet, pending >>
          /\ drained' = drained + 1
      BY <1>8 DEF ReceiveModulation, Consume, Receiving
    <2>2. /\ NextFrame = queue[1] /\ NextFrame \in Entry
          /\ Len(queue) >= 1 /\ Len(queue') = Len(queue) - 1
          /\ \A i \in 1 .. Len(queue) - 1 : queue'[i] = queue[i + 1]
      BY <2>1, Consumed
    <2>3. queue[1].frame.kind # "stimuli"
      <3>1. NextFrame.frame \in Frame
        BY <2>2 DEF Entry
      <3>2. NextFrame.frame.kind = "modulators"
        BY <2>1, <3>1, Verdicts
      <3> QED BY <2>2, <3>2
    <2>4. PICK k \in 0 .. Len(queue) : /\ k > 0 => k + drained <= RcvHwm
                                       /\ pending = Ahead(k)
      BY <2>1 DEF Waiting
    <2>5. CASE k = 0
      <3>1. Ahead(0) = {} /\ Ahead(0)' = {}
        BY DEF Ahead
      <3>2. 0 \in 0 .. Len(queue')
        BY <1>0, <2>2
      <3>3. pending' = Ahead(0)'
        BY <2>1, <2>4, <2>5, <3>1
      <3>4. \E j \in 0 .. Len(queue') : /\ j > 0 => j + drained' <= RcvHwm
                                        /\ pending' = Ahead(j)'
        <4>1. ~(0 > 0)
          OBVIOUS
        <4> QED BY <3>2, <3>3, <4>1
      <3>5. Waiting'
        BY <3>4 DEF Waiting
      <3> QED BY <2>1, <3>5 DEF QueuedStimulusServed
    <2>6. CASE k > 0
      <3>1. /\ k - 1 \in 0 .. Len(queue') /\ (k - 1) + drained' <= RcvHwm
            /\ \A i \in 1 .. k - 1 : i \in 1 .. Len(queue) - 1 /\ i + 1 \in 1 .. k
            /\ \A i \in 1 .. k : i = 1 \/ (i - 1 \in 1 .. k - 1 /\ (i - 1) + 1 = i)
        BY <1>0, <2>1, <2>2, <2>4, <2>6
      <3>2. \A i \in 1 .. k - 1 : queue'[i] = queue[i + 1]
        BY <2>2, <3>1
      <3>3. Ahead(k - 1)' = Ahead(k)
        <4>1. Ahead(k - 1)' = {queue'[i].n : i \in {j \in 1 .. k - 1 :
                                               queue'[j].frame.kind = "stimuli"}}
          BY DEF Ahead
        <4>2. Ahead(k) = {queue[i].n : i \in {j \in 1 .. k :
                                               queue[j].frame.kind = "stimuli"}}
          BY DEF Ahead
        <4>3. ASSUME NEW m \in Ahead(k - 1)' PROVE m \in Ahead(k)
          <5>1. PICK i \in 1 .. k - 1 : /\ queue'[i].frame.kind = "stimuli"
                                        /\ m = queue'[i].n
            BY <4>1
          <5>2. /\ i + 1 \in 1 .. k /\ queue[i + 1].frame.kind = "stimuli"
                /\ m = queue[i + 1].n
            BY <3>1, <3>2, <5>1
          <5> QED BY <4>2, <5>2
        <4>4. ASSUME NEW m \in Ahead(k) PROVE m \in Ahead(k - 1)'
          <5>1. PICK i \in 1 .. k : queue[i].frame.kind = "stimuli" /\ m = queue[i].n
            BY <4>2
          <5>2. i # 1
            BY <2>3, <5>1
          <5>3. i - 1 \in 1 .. k - 1 /\ (i - 1) + 1 = i
            BY <3>1, <5>2
          <5>4. queue'[i - 1] = queue[i]
            BY <3>2, <5>3
          <5> QED BY <4>1, <5>1, <5>3, <5>4
        <4> QED BY <4>3, <4>4
      <3>4. pending' = Ahead(k - 1)'
        BY <2>1, <2>4, <3>3
      <3> QED BY <2>1, <3>1, <3>4 DEF Waiting, QueuedStimulusServed
    <2> QED BY <2>4, <2>5, <2>6
  <1>9. CASE ReceiveBatch
    <2>1. /\ Consume /\ Verdict(NextFrame.frame) = "batch" /\ pc = "receive"
          /\ pc' = "observe" /\ pending' = pending
          /\ packet'.stimuli = NextFrame.n
      BY <1>9 DEF ReceiveBatch, Consume, Receiving, Return
    <2>2. NextFrame = queue[1] /\ NextFrame \in Entry
      BY <2>1, Consumed
    <2>3. queue[1].frame.kind = "stimuli"
      <3>1. NextFrame.frame \in Frame
        BY <2>2 DEF Entry
      <3> QED BY <2>1, <2>2, <3>1, Verdicts
    <2>4. PICK k \in 0 .. Len(queue) : pending = Ahead(k)
      BY <2>1 DEF Waiting
    <2>5. pending # {} => NextFrame.n \in pending
      <3>1. k = 0 => Ahead(k) = {}
        BY DEF Ahead
      <3>2. k # 0 => 1 \in 1 .. k
        BY <1>0
      <3>3. k # 0 => queue[1].n \in Ahead(k)
        BY <2>3, <3>2 DEF Ahead
      <3> QED BY <2>2, <2>4, <3>1, <3>3
    <2> QED BY <2>1, <2>5 DEF Waiting, QueuedStimulusServed
  <1>10. CASE ReceiveInvalid
    <2>1. pc' = "observe" /\ packet'.rejected
      BY <1>10 DEF ReceiveInvalid, Return, Skip
    <2> QED BY <2>1 DEF Waiting, QueuedStimulusServed
  <1>11. CASE ReceiveEnds
    <2>1. /\ pc = "receive" /\ pc' = "observe" /\ pending' = pending
          /\ queue = << >> \/ drained = MAX_DRAIN_PER_TICK
      BY <1>11 DEF ReceiveEnds, Return
    <2>2. PICK k \in 0 .. Len(queue) : /\ k > 0 => k + drained <= RcvHwm
                                       /\ pending = Ahead(k)
      BY <2>1 DEF Waiting
    <2>3. k = 0
      <3>1. CASE queue = << >>
        <4>1. Len(queue) = 0
          BY <3>1
        <4> QED BY <4>1
      <3>2. CASE drained = MAX_DRAIN_PER_TICK
        BY <1>0, <2>2, <3>2, ZmqAssumption
      <3> QED BY <2>1, <3>1, <3>2
    <2>4. pending' = {}
      BY <2>1, <2>2, <2>3 DEF Ahead
    <2> QED BY <2>1, <2>4 DEF Waiting, QueuedStimulusServed
  <1>12. CASE ReceiveFails \/ Observe \/ Emit
    BY <1>1, <1>12 DEF ReceiveFails, Observe, Emit, EmitNothing, EmitSuppressed,
       EmitSent, EmitFails, EndTick
  <1> QED BY <1>4, <1>5, <1>6, <1>7, <1>8, <1>9, <1>10, <1>11, <1>12
          DEF Next, Receive
-----------------------------------------------------------------------------
(* Theorems                                                                *)

(* The inductive invariant.  EveryFrameOnce speaks of neighbours; here the *)
(* order is of any two frames, and the lost frames are published ones.     *)
ZInv ==
  /\ TypeOK /\ SinkAccounts
  /\ Arrival /\ Outcomes /\ Packets
  /\ Waiting /\ QueuedStimulusServed

(* It holds at first. *)
LEMMA InitZ == Init => ZInv
  <1> SUFFICES ASSUME Init PROVE ZInv
    OBVIOUS
  <1>1. TypeOK
    BY InitTypes
  <1> USE DEF Init
  <1>2. SinkAccounts
    BY DEF SinkAccounts
  <1>3. Len(consumed) = 0 /\ Len(queue) = 0 /\ Len(delivered) = 0
    OBVIOUS
  <1>4. Arrival
    <2>1. Total = 0 /\ 1 .. Total = {}
      BY <1>3 DEF Total
    <2>2. Arrived \in [1 .. Total -> Number]
      BY <1>1, ArrivedTypes
    <2>3. Range(Arrived) = {}
      BY <2>1, <2>2 DEF Range
    <2> QED BY <2>1, <2>3 DEF Arrival
  <1>5. \A v : Judged(v) = {}
    BY <1>3 DEF Judged
  <1>6. Deliveries
    <2>1. Range(delivered) = {}
      BY <1>3 DEF Range
    <2>2. Range(delivered) = Judged("batch")
      BY <1>5, <2>1
    <2>3. 1 .. Len(delivered) = {}
      BY <1>3
    <2> HIDE DEF Init
    <2> QED BY <2>2, <2>3 DEF Deliveries
  <1>7. Flags
    BY <1>5, FS_EmptySet DEF Flags
  <1>8. Holds
    BY <1>5 DEF Holds
  <1>9. Packets /\ Waiting /\ QueuedStimulusServed
    BY DEF Packets, Waiting, QueuedStimulusServed
  <1> QED BY <1>1, <1>2, <1>4, <1>6, <1>7, <1>8, <1>9 DEF ZInv, Outcomes

(* It always holds. *)
LEMMA AlwaysZ == Spec => []ZInv
  <1>1. ZInv /\ [Next]_vars => ZInv'
    BY TypeStep, ArrivalStep, OutcomeStep, PacketStep, WaitingStep DEF ZInv
  <1> QED BY <1>1, InitZ, PTL DEF Spec

(* Every frame that reaches the queue is consumed once, in order, and has  *)
(* its effect in the call that consumed it, whatever is published and      *)
(* whenever, and however calls end (next_ingress, initialize).             *)
THEOREM FramesOnce == Spec => []EveryFrameOnce
  <1>1. ZInv => EveryFrameOnce
    <2> SUFFICES ASSUME ZInv PROVE EveryFrameOnce
      OBVIOUS
    <2>0. TypeOK /\ Arrival /\ Deliveries /\ Flags
      BY DEF ZInv, Outcomes
    <2>1. Total \in Nat /\ Arrived \in [1 .. Total -> Number]
      BY <2>0, ArrivedTypes
    <2>2. Len(Arrived) = Total
      BY <2>1
    <2>3. ASSUME NEW i \in 1 .. Len(Arrived) - 1 PROVE Arrived[i] < Arrived[i + 1]
      <3>1. i \in 1 .. Total /\ i + 1 \in 1 .. Total /\ i < i + 1
        BY <2>1, <2>2
      <3> QED BY <2>0, <3>1 DEF Arrival
    <2>4. ASSUME NEW i \in 1 .. Len(delivered) - 1 PROVE delivered[i] < delivered[i + 1]
      <3>1. Len(delivered) \in Nat
        BY <2>0 DEF TypeOK
      <3>2. i \in 1 .. Len(delivered) /\ i + 1 \in 1 .. Len(delivered) /\ i < i + 1
        BY <3>1
      <3> QED BY <2>0, <3>2 DEF Deliveries
    <2> QED BY <2>0, <2>3, <2>4 DEF EveryFrameOnce, Arrival, Deliveries, Flags
  <1> QED BY <1>1, AlwaysZ, PTL

(* The modulators held, and attached to whatever the source returns, are   *)
(* those of the newest acceptable modulation consumed (hold_modulators,    *)
(* attach_held_modulators, skip_ingress).                                  *)
THEOREM HoldsTheNewest == Spec => []HeldAreNewest
  <1>1. ZInv => HeldAreNewest
    BY DEF ZInv, Outcomes, Holds, Packets, HeldAreNewest
  <1> QED BY <1>1, AlwaysZ, PTL

(* A stimulus queued when the tick begins is in the packet that tick gets, *)
(* unless an invalid frame came before it, for every cap of at least the   *)
(* high-water mark (the loop of next_ingress).                             *)
THEOREM StimulusServed == Spec => []QueuedStimulusServed
  <1>1. ZInv => QueuedStimulusServed
    BY DEF ZInv
  <1> QED BY <1>1, AlwaysZ, PTL

(* The sink's counters account for exactly the emit calls that reported    *)
(* success (ZmqSpikeSink::stats, emit).                                    *)
THEOREM SinkAdds == Spec => []SinkAccounts
  <1>1. ZInv => SinkAccounts
    BY DEF ZInv
  <1> QED BY <1>1, AlwaysZ, PTL
=============================================================================
