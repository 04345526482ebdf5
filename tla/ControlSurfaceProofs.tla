------------------------ MODULE ControlSurfaceProofs ------------------------
(***************************************************************************)
(* Theorems about ControlSurface, for every set of clients, every size of  *)
(* the two pools and every set of request lines.                           *)
(***************************************************************************)
EXTENDS ControlSurface, FiniteSetTheorems, TLAPS

(* Whoever waits to be accepted has no task yet, and waits once. *)
Waiting ==
  /\ \A i \in 1 .. Len(queue) : conn[queue[i]].at = "queued"
  /\ \A i, j \in 1 .. Len(queue) : queue[i] = queue[j] => i = j

Permits ==
  /\ slots + Cardinality(Served) = MAX_CONTROL_CONNS
  /\ busy_slots + Cardinality(Turned) = MAX_BUSY_CONNS

(* A client whose request is under way has seen what readiness is now. *)
SeesNow ==
  \A c \in Clients : conn[c].sent # NoRequest => Says(ready) \in conn[c].seen

PoolInv == TypeOK /\ Waiting /\ Permits

CInv == PoolInv /\ SeesNow /\ AnswersAreCurrent
-----------------------------------------------------------------------------
(* What a client's connection becomes is a connection. *)
LEMMA AwayConn == Away \in Conn
  BY DEF Away, Conn, Busy, Saying, Reply, Told

(* The two pools' tasks are finitely many. *)
LEMMA TasksFinite ==
  /\ IsFiniteSet(Served) /\ Cardinality(Served) \in Nat
  /\ IsFiniteSet(Turned) /\ Cardinality(Turned) \in Nat
  <1>1. Served \subseteq Clients /\ Turned \subseteq Clients
    BY DEF Served, Turned
  <1>2. IsFiniteSet(Clients)
    BY ControlAssumption
  <1>3. IsFiniteSet(Served) /\ IsFiniteSet(Turned)
    BY <1>1, <1>2, FS_Subset
  <1> QED BY <1>3, FS_CardinalityType

(* A reply tells of readiness what the snapshot says, or nothing. *)
LEMMA RenderTells ==
  ASSUME NEW r \in Request, NEW is \in {"ready", "not_ready"}
  PROVE  /\ Render(r, is) \in Reply
         /\ Render(r, is).told \in {is, "unsaid"}
  <1>1. ASSUME NEW p
        PROVE  Route(p, is) \in Reply /\ Route(p, is).told \in {is, "unsaid"}
    BY DEF Route, Saying, Reply, Told
  <1>2. /\ Saying(400, "unsaid") \in Reply /\ Saying(400, "unsaid").told = "unsaid"
        /\ Saying(405, "unsaid") \in Reply /\ Saying(405, "unsaid").told = "unsaid"
    BY DEF Saying, Reply, Told
  <1> DEFINE path == ParseGetPath(r)
  <1>3. Render(r, is) = IF path = "invalid" THEN Saying(400, "unsaid")
                        ELSE IF path = "not_get" THEN Saying(405, "unsaid")
                        ELSE Route(path, is)
    <2> HIDE DEF path
    <2>1. "invalid" # "not_get" OBVIOUS
    <2> QED BY <2>1 DEF Render, path
  <1> HIDE DEF path
  <1> QED BY <1>1, <1>2, <1>3

-----------------------------------------------------------------------------
(* How the pools change when one connection moves: in, out or neither.     *)

(* A connection that gets a slot is one more served task. *)
LEMMA ServedIn ==
  ASSUME TypeOK, NEW c \in Clients, NEW k \in Conn,
         conn' = [conn EXCEPT ![c] = k],
         conn[c].at \notin {"reading", "writing"},
         k.at \in {"reading", "writing"}
  PROVE  Cardinality(Served') = Cardinality(Served) + 1
  <1>1. Served' = Served \cup {c} /\ c \notin Served
    BY DEF Served, TypeOK
  <1> QED BY <1>1, TasksFinite, FS_AddElement

(* A task that ends is one served task less. *)
LEMMA ServedOut ==
  ASSUME TypeOK, NEW c \in Clients, NEW k \in Conn,
         conn' = [conn EXCEPT ![c] = k],
         conn[c].at \in {"reading", "writing"},
         k.at \notin {"reading", "writing"}
  PROVE  Cardinality(Served') = Cardinality(Served) - 1
  <1>1. Served' = Served \ {c} /\ c \in Served
    BY DEF Served, TypeOK
  <1> QED BY <1>1, TasksFinite, FS_RemoveElement

(* Any other move leaves the served tasks alone. *)
LEMMA ServedSame ==
  ASSUME TypeOK, NEW c \in Clients, NEW k \in Conn,
         conn' = [conn EXCEPT ![c] = k],
         conn[c].at \in {"reading", "writing"} <=> k.at \in {"reading", "writing"}
  PROVE  Served' = Served
  BY DEF Served, TypeOK

(* A connection that gets a busy slot is one more task turned away. *)
LEMMA TurnedIn ==
  ASSUME TypeOK, NEW c \in Clients, NEW k \in Conn,
         conn' = [conn EXCEPT ![c] = k], conn[c].at # "busy", k.at = "busy"
  PROVE  Cardinality(Turned') = Cardinality(Turned) + 1
  <1>1. Turned' = Turned \cup {c} /\ c \notin Turned
    BY DEF Turned, TypeOK
  <1> QED BY <1>1, TasksFinite, FS_AddElement

(* A busy task that ends is one less. *)
LEMMA TurnedOut ==
  ASSUME TypeOK, NEW c \in Clients, NEW k \in Conn,
         conn' = [conn EXCEPT ![c] = k], conn[c].at = "busy", k.at # "busy"
  PROVE  Cardinality(Turned') = Cardinality(Turned) - 1
  <1>1. Turned' = Turned \ {c} /\ c \in Turned
    BY DEF Turned, TypeOK
  <1> QED BY <1>1, TasksFinite, FS_RemoveElement

(* Any other move leaves the busy tasks alone. *)
LEMMA TurnedSame ==
  ASSUME TypeOK, NEW c \in Clients, NEW k \in Conn,
         conn' = [conn EXCEPT ![c] = k], conn[c].at = "busy" <=> k.at = "busy"
  PROVE  Turned' = Turned
  BY DEF Turned, TypeOK

(* A client that waits for nothing to be accepted may move as it likes.    *)
LEMMA WaitingKept ==
  ASSUME TypeOK, Waiting, NEW c \in Clients, NEW k \in Conn,
         conn' = [conn EXCEPT ![c] = k], queue' = queue,
         conn[c].at = "queued" => k.at = "queued"
  PROVE  Waiting'
  BY DEF TypeOK, Waiting

(* In the initial state every permit is free. *)
LEMMA PoolInit == Init => PoolInv
  <1> SUFFICES ASSUME Init PROVE PoolInv
    OBVIOUS
  <1>1. TypeOK
    <2>1. phase = "starting" /\ ready = FALSE
      BY DEF Init, Health!TInit
    <2>2. /\ loop = "starting" /\ stop = "false" /\ queue = << >>
          /\ slots = MAX_CONTROL_CONNS /\ busy_slots = MAX_BUSY_CONNS
          /\ conn = [c \in Clients |-> Away]
      BY DEF Init, ControlInit
    <2>3. /\ slots \in 0 .. MAX_CONTROL_CONNS
          /\ busy_slots \in 0 .. MAX_BUSY_CONNS
      BY <2>2, ControlAssumption
    <2>4. conn \in [Clients -> Conn]
      BY <2>2, AwayConn
    <2>5. queue \in Seq(Clients)
      BY <2>2
    <2> QED BY <2>1, <2>2, <2>3, <2>4, <2>5, Zenon DEF TypeOK, Health!Booting
  <1>2. Served = {} /\ Turned = {}
    BY DEF Init, ControlInit, Served, Turned, Away
  <1>3. Permits
    BY <1>2, FS_EmptySet, ControlAssumption DEF Permits, Init, ControlInit
  <1>4. Waiting
    BY DEF Waiting, Init, ControlInit
  <1> QED BY <1>1, <1>3, <1>4 DEF PoolInv

(* The health machine keeps its types, and readiness means serving. *)
LEMMA HealthTypes ==
  ASSUME TypeOK, Health!TNext
  PROVE  /\ phase' \in Health!Booting \cup Health!Serving \cup {"draining", "fatal"}
         /\ ready' \in BOOLEAN
  BY DEF TypeOK, Health!TNext, Health!Initialize, Health!Validate,
         Health!Degrade, Health!Recover, Health!Drain, Health!Fail,
         Health!Booting, Health!Serving

(* The steps in which no connection changes place keep the pools. *)
LEMMA PoolSame ==
  ASSUME PoolInv, TypeOK',
         slots' = slots, busy_slots' = busy_slots, queue' = queue,
         \A c \in Clients : conn'[c].at = conn[c].at
  PROVE  PoolInv'
  <1>1. Served' = Served /\ Turned' = Turned
    BY DEF Served, Turned
  <1>2. Permits'
    BY <1>1 DEF Permits, PoolInv
  <1>3. Waiting'
    <2>1. \A i \in 1 .. Len(queue) : queue[i] \in Clients
      BY DEF PoolInv, TypeOK
    <2> QED BY <2>1 DEF Waiting, PoolInv
  <1> QED BY <1>2, <1>3 DEF PoolInv

(* A task that ends gives its permit back: EndServed. *)
LEMMA PoolEndServed ==
  ASSUME PoolInv, NEW c \in Clients, conn[c].at \in {"reading", "writing"},
         EndServed(c)
  PROVE  PoolInv'
  <1>1. /\ TypeOK /\ Waiting /\ Permits /\ Away \in Conn
        /\ Away.at = "away"
    BY AwayConn DEF PoolInv, Away
  <1>2. conn' = [conn EXCEPT ![c] = Away] /\ slots' = slots + 1
        /\ busy_slots' = busy_slots /\ queue' = queue
    BY DEF EndServed
  <1>3. Cardinality(Served') = Cardinality(Served) - 1 /\ Turned' = Turned
    <2>1. Cardinality(Served') = Cardinality(Served) - 1
      BY <1>1, <1>2, ServedOut
    <2>2. conn[c].at # "busy" /\ Away.at # "busy"
      BY <1>1
    <2> QED BY <1>1, <1>2, <2>1, <2>2, TurnedSame
  <1>4. Waiting'
    <2>1. conn[c].at # "queued"
      OBVIOUS
    <2> QED BY <1>1, <1>2, <2>1, WaitingKept
  <1>5. Cardinality(Served') \in Nat
    <2>1. c \in Served
      BY DEF Served
    <2>2. Cardinality(Served) # 0
      BY <2>1, TasksFinite, FS_EmptySet
    <2> QED BY <1>3, <2>2, TasksFinite
  <1>6. Permits' /\ slots' \in 0 .. MAX_CONTROL_CONNS
    BY <1>1, <1>2, <1>3, <1>5, TasksFinite, ControlAssumption
       DEF Permits, TypeOK
  <1>7. TypeOK'
    BY <1>1, <1>2, <1>6 DEF TypeOK, EndServed
  <1> QED BY <1>4, <1>6, <1>7 DEF PoolInv

(* The same for a connection that was turned away: BusyEnds. *)
LEMMA PoolBusyEnds ==
  ASSUME PoolInv, NEW c \in Clients, BusyEnds(c)
  PROVE  PoolInv'
  <1>1. /\ TypeOK /\ Waiting /\ Permits /\ Away \in Conn
        /\ Away.at = "away" /\ conn[c].at = "busy"
    BY AwayConn DEF PoolInv, Away, BusyEnds
  <1>2. conn' = [conn EXCEPT ![c] = Away] /\ busy_slots' = busy_slots + 1
        /\ slots' = slots /\ queue' = queue
    BY DEF BusyEnds
  <1>3. Cardinality(Turned') = Cardinality(Turned) - 1 /\ Served' = Served
    <2>1. Cardinality(Turned') = Cardinality(Turned) - 1
      BY <1>1, <1>2, TurnedOut
    <2>2. conn[c].at \notin {"reading", "writing"}
          /\ Away.at \notin {"reading", "writing"}
      BY <1>1
    <2> QED BY <1>1, <1>2, <2>1, <2>2, ServedSame
  <1>4. Waiting'
    <2>1. conn[c].at # "queued"
      BY <1>1
    <2> QED BY <1>1, <1>2, <2>1, WaitingKept
  <1>5. Cardinality(Turned') \in Nat
    <2>1. c \in Turned
      BY <1>1 DEF Turned
    <2>2. Cardinality(Turned) # 0
      BY <2>1, TasksFinite, FS_EmptySet
    <2> QED BY <1>3, <2>2, TasksFinite
  <1>6. Permits' /\ busy_slots' \in 0 .. MAX_BUSY_CONNS
    BY <1>1, <1>2, <1>3, <1>5, TasksFinite, ControlAssumption
       DEF Permits, TypeOK
  <1>7. TypeOK'
    BY <1>1, <1>2, <1>6 DEF TypeOK, BusyEnds
  <1> QED BY <1>4, <1>6, <1>7 DEF PoolInv

(* The head of the queue is accepted: the others wait on, once each. *)
LEMMA PoolDequeue ==
  ASSUME TypeOK, Waiting, queue # << >>, queue' = Tail(queue), NEW k \in Conn,
         conn' = [conn EXCEPT ![Head(queue)] = k]
  PROVE  Waiting'
  <1>1. /\ queue \in Seq(Clients) /\ Len(queue) \in Nat /\ Len(queue) > 0
        /\ Head(queue) = queue[1] /\ Head(queue) \in Clients
    BY DEF TypeOK
  <1>2. /\ Len(queue') = Len(queue) - 1
        /\ \A i \in 1 .. Len(queue') : queue'[i] = queue[i + 1]
    BY <1>1
  <1>3. \A i \in 1 .. Len(queue') :
          /\ i + 1 \in 1 .. Len(queue) /\ queue'[i] \in Clients
          /\ queue'[i] # Head(queue)
    <2> TAKE i \in 1 .. Len(queue')
    <2>1. i + 1 \in 1 .. Len(queue) /\ 1 \in 1 .. Len(queue) /\ i + 1 # 1
      BY <1>1, <1>2
    <2>2. queue'[i] = queue[i + 1] /\ queue[i + 1] \in Clients
      BY <1>1, <1>2, <2>1
    <2> QED BY <1>1, <2>1, <2>2 DEF Waiting
  <1>4. \A i \in 1 .. Len(queue') : conn'[queue'[i]].at = "queued"
    <2> TAKE i \in 1 .. Len(queue')
    <2>1. conn'[queue'[i]] = conn[queue'[i]]
      BY <1>3 DEF TypeOK
    <2>2. queue'[i] = queue[i + 1] /\ i + 1 \in 1 .. Len(queue)
      BY <1>2, <1>3
    <2> QED BY <2>1, <2>2 DEF Waiting
  <1>5. \A i, j \in 1 .. Len(queue') : queue'[i] = queue'[j] => i = j
    <2> TAKE i, j \in 1 .. Len(queue')
    <2> HAVE queue'[i] = queue'[j]
    <2>1. i + 1 = j + 1
      BY <1>2, <1>3 DEF Waiting
    <2> QED BY <1>1, <1>2, <2>1
  <1> QED BY <1>4, <1>5 DEF Waiting

(* accept keeps the pools, on each of the three ways in. *)
LEMMA PoolAccept ==
  ASSUME PoolInv, Accept
  PROVE  PoolInv'
  <1> DEFINE c == Head(queue)
  <1>1. /\ TypeOK /\ Waiting /\ Permits
        /\ queue # << >> /\ queue' = Tail(queue) /\ Admission(c)
        /\ phase' = phase /\ ready' = ready /\ loop' = loop /\ stop' = stop
    BY DEF PoolInv, Accept
  <1>2. c \in Clients /\ conn[c] \in Conn /\ conn[c].at = "queued"
        /\ queue' \in Seq(Clients)
    <2>1. c = queue[1] /\ 1 \in 1 .. Len(queue) /\ c \in Clients
          /\ queue' \in Seq(Clients)
      BY <1>1 DEF TypeOK
    <2> QED BY <1>1, <2>1 DEF Waiting, TypeOK
  <1> HIDE DEF c
  <1>3. ASSUME NEW k \in Conn, conn' = [conn EXCEPT ![c] = k]
        PROVE  /\ Waiting'
               /\ conn' \in [Clients -> Conn]
               /\ k.at \in {"reading", "writing"} =>
                    Cardinality(Served') = Cardinality(Served) + 1
               /\ k.at \notin {"reading", "writing"} => Served' = Served
               /\ k.at = "busy" =>
                    Cardinality(Turned') = Cardinality(Turned) + 1
               /\ k.at # "busy" => Turned' = Turned
    <2>1. Waiting'
      BY <1>1, <1>3, PoolDequeue DEF c
    <2>2. conn' \in [Clients -> Conn]
      BY <1>1, <1>2, <1>3 DEF TypeOK
    <2>3. /\ conn[c].at \notin {"reading", "writing"}
          /\ conn[c].at # "busy"
      BY <1>2
    <2>4. k.at \in {"reading", "writing"} =>
            Cardinality(Served') = Cardinality(Served) + 1
      BY <1>1, <1>2, <1>3, <2>3, ServedIn
    <2>5. k.at \notin {"reading", "writing"} => Served' = Served
      BY <1>1, <1>2, <1>3, <2>3, ServedSame
    <2>6. k.at = "busy" => Cardinality(Turned') = Cardinality(Turned) + 1
      BY <1>1, <1>2, <1>3, <2>3, TurnedIn
    <2>7. k.at # "busy" => Turned' = Turned
      BY <1>1, <1>2, <1>3, <2>3, TurnedSame
    <2> QED BY <2>1, <2>2, <2>4, <2>5, <2>6, <2>7
  <1>4. /\ slots \in 0 .. MAX_CONTROL_CONNS
        /\ busy_slots \in 0 .. MAX_BUSY_CONNS
        /\ MAX_CONTROL_CONNS \in Nat /\ MAX_BUSY_CONNS \in Nat
        /\ Permits
    BY <1>1, ControlAssumption DEF TypeOK
  <1>5. CASE slots > 0 /\ slots' = slots - 1
             /\ conn' = [conn EXCEPT ![c].at = "reading"]
             /\ UNCHANGED busy_slots
    <2> DEFINE k == [conn[c] EXCEPT !.at = "reading"]
    <2>1. k \in Conn /\ k.at = "reading"
      BY <1>2, Zenon DEF Conn
    <2>2. conn' = [conn EXCEPT ![c] = k]
      BY <1>5
    <2> HIDE DEF k
    <2>3. /\ Waiting' /\ conn' \in [Clients -> Conn]
          /\ Cardinality(Served') = Cardinality(Served) + 1
          /\ Turned' = Turned
      BY <1>3, <2>1, <2>2
    <2>4. Permits' /\ slots' \in 0 .. MAX_CONTROL_CONNS
      BY <1>5, <1>4, <2>3, TasksFinite DEF Permits
    <2>5. TypeOK'
      BY <1>1, <1>2, <1>5, <2>3, <2>4 DEF TypeOK
    <2> QED BY <2>3, <2>4, <2>5 DEF PoolInv
  <1>6. CASE slots = 0 /\ busy_slots > 0 /\ busy_slots' = busy_slots - 1
             /\ conn' = [conn EXCEPT ![c].at = "busy"]
             /\ UNCHANGED slots
    <2> DEFINE k == [conn[c] EXCEPT !.at = "busy"]
    <2>1. k \in Conn /\ k.at = "busy"
      BY <1>2, Zenon DEF Conn
    <2>2. conn' = [conn EXCEPT ![c] = k]
      BY <1>6
    <2> HIDE DEF k
    <2>3. /\ Waiting' /\ conn' \in [Clients -> Conn]
          /\ Cardinality(Turned') = Cardinality(Turned) + 1
          /\ Served' = Served
      BY <1>3, <2>1, <2>2
    <2>4. Permits' /\ busy_slots' \in 0 .. MAX_BUSY_CONNS
      BY <1>6, <1>4, <2>3, TasksFinite DEF Permits
    <2>5. TypeOK'
      BY <1>1, <1>2, <1>6, <2>3, <2>4 DEF TypeOK
    <2> QED BY <2>3, <2>4, <2>5 DEF PoolInv
  <1>7. CASE conn' = [conn EXCEPT ![c] = Away]
             /\ UNCHANGED << slots, busy_slots >>
    <2>1. Away \in Conn /\ Away.at = "away"
      BY AwayConn DEF Away
    <2>2. Waiting' /\ conn' \in [Clients -> Conn] /\ Served' = Served
          /\ Turned' = Turned
      BY <1>3, <1>7, <2>1
    <2>3. Permits'
      BY <1>1, <1>7, <2>2 DEF Permits
    <2>4. TypeOK'
      BY <1>1, <1>2, <1>7, <2>2 DEF TypeOK
    <2> QED BY <2>2, <2>3, <2>4 DEF PoolInv
  <1> QED BY <1>1, <1>5, <1>6, <1>7 DEF Admission

(* Dropping the listener cuts off those it had not accepted, and no task. *)
LEMMA PoolClose ==
  ASSUME PoolInv, Close
  PROVE  PoolInv'
  <1>1. TypeOK /\ Permits
    BY DEF PoolInv
  <1>2. Served' = Served /\ Turned' = Turned
    BY <1>1 DEF Close, Served, Turned, TypeOK, Away
  <1>3. Permits'
    BY <1>1, <1>2 DEF Permits, Close
  <1>4. conn' \in [Clients -> Conn]
    BY <1>1, AwayConn DEF TypeOK, Close
  <1>5. queue' = << >> /\ queue' \in Seq(Clients)
    BY DEF Close
  <1>6. TypeOK'
    BY <1>1, <1>4, <1>5, Zenon DEF TypeOK, Close
  <1>7. Waiting'
    BY <1>5 DEF Waiting
  <1> QED BY <1>3, <1>6, <1>7 DEF PoolInv

(* A client that connects joins the queue, where it was not. *)
LEMMA PoolConnect ==
  ASSUME PoolInv, NEW c \in Clients, Connect(c)
  PROVE  PoolInv'
  <1> DEFINE k == [conn[c] EXCEPT !.at = "queued"]
  <1>1. /\ TypeOK /\ Waiting /\ Permits /\ conn[c].at = "away"
        /\ conn[c] \in Conn /\ queue' = Append(queue, c)
        /\ slots' = slots /\ busy_slots' = busy_slots
        /\ conn' = [conn EXCEPT ![c] = k]
    BY DEF PoolInv, TypeOK, Connect
  <1>2. k \in Conn /\ k.at = "queued"
    BY <1>1, Zenon DEF Conn
  <1> HIDE DEF k
  <1>3. /\ conn[c].at \notin {"reading", "writing"} /\ conn[c].at # "busy"
        /\ k.at \notin {"reading", "writing"} /\ k.at # "busy"
    BY <1>1, <1>2
  <1>4. Served' = Served /\ Turned' = Turned
    BY <1>1, <1>2, <1>3, ServedSame, TurnedSame
  <1>5. Permits'
    BY <1>1, <1>4 DEF Permits
  <1>6. conn' \in [Clients -> Conn] /\ queue' \in Seq(Clients)
    BY <1>1, <1>2 DEF TypeOK
  <1>7. TypeOK'
    BY <1>1, <1>6 DEF TypeOK, Connect
  <1>8. /\ queue \in Seq(Clients) /\ Len(queue) \in Nat
        /\ Len(queue') = Len(queue) + 1
        /\ queue'[Len(queue) + 1] = c
        /\ \A i \in 1 .. Len(queue) :
             queue'[i] = queue[i] /\ queue[i] \in Clients
    BY <1>1 DEF TypeOK
  <1>9. \A i \in 1 .. Len(queue) : queue[i] # c
    BY <1>1 DEF Waiting
  <1>10. \A i \in 1 .. Len(queue') : conn'[queue'[i]].at = "queued"
    <2> TAKE i \in 1 .. Len(queue')
    <2>1. CASE i = Len(queue) + 1
      BY <1>1, <1>2, <1>8, <2>1 DEF TypeOK
    <2>2. CASE i \in 1 .. Len(queue)
      <3>1. queue'[i] = queue[i] /\ queue[i] \in Clients /\ queue[i] # c
        BY <1>8, <1>9, <2>2
      <3>2. conn'[queue[i]] = conn[queue[i]]
        BY <1>1, <3>1 DEF TypeOK
      <3> QED BY <1>1, <2>2, <3>1, <3>2 DEF Waiting
    <2> QED BY <1>8, <2>1, <2>2
  <1>11. \A i, j \in 1 .. Len(queue') : queue'[i] = queue'[j] => i = j
    <2> TAKE i, j \in 1 .. Len(queue')
    <2>1. /\ i \in 1 .. Len(queue) \/ i = Len(queue) + 1
          /\ j \in 1 .. Len(queue) \/ j = Len(queue) + 1
      BY <1>8
    <2>2. ASSUME i \in 1 .. Len(queue), j \in 1 .. Len(queue),
                 queue'[i] = queue'[j]
          PROVE  i = j
      BY <1>1, <1>8, <2>2 DEF Waiting
    <2>3. /\ i \in 1 .. Len(queue) => queue'[i] # c
          /\ j \in 1 .. Len(queue) => queue'[j] # c
      BY <1>8, <1>9
    <2> QED BY <1>8, <2>1, <2>2, <2>3
  <1>12. Waiting'
    BY <1>10, <1>11 DEF Waiting
  <1> QED BY <1>5, <1>7, <1>12 DEF PoolInv

(* A request line comes in: the connection stays where it is. *)
LEMMA PoolSend ==
  ASSUME PoolInv, NEW c \in Clients, NEW r \in Requests, Send(c, r)
  PROVE  PoolInv'
  <1> DEFINE k == [conn[c] EXCEPT !.sent = r, !.seen = {Says(ready)}]
  <1>1. TypeOK /\ conn[c] \in Conn
    BY DEF PoolInv, TypeOK
  <1>2. {Says(ready)} \in SUBSET {"ready", "not_ready"}
    BY DEF Says
  <1>3. k \in Conn /\ k.at = conn[c].at
    BY <1>1, <1>2, Zenon DEF Conn
  <1>4. conn' = [conn EXCEPT ![c] = k]
    BY DEF Send
  <1> HIDE DEF k
  <1>5. conn' \in [Clients -> Conn] /\ \A d \in Clients : conn'[d].at = conn[d].at
    BY <1>1, <1>3, <1>4 DEF TypeOK
  <1>6. TypeOK'
    BY <1>1, <1>5 DEF TypeOK, Send, server
  <1> QED BY <1>5, <1>6, PoolSame DEF Send, server

(* A reply is made out: the task keeps its permit until it is written. *)
LEMMA PoolRespond ==
  ASSUME PoolInv, NEW c \in Clients, Respond(c)
  PROVE  PoolInv'
  <1>1. /\ TypeOK /\ Waiting /\ Permits /\ conn[c] \in Conn
        /\ conn[c].at = "reading" /\ conn[c].sent \in Requests
    BY DEF PoolInv, TypeOK, Respond, Conn
  <1>2. PICK answer \in {Render(conn[c].sent, Says(ready)), Busy} :
          conn' = [conn EXCEPT ![c].at = "writing", ![c].reply = answer]
    BY DEF Respond
  <1>3. answer \in Reply
    <2>1. Busy \in Reply
      BY DEF Busy, Saying, Reply, Told
    <2>2. Says(ready) \in {"ready", "not_ready"} /\ conn[c].sent \in Request
      BY <1>1, ControlAssumption DEF Says
    <2> QED BY <2>1, <2>2, RenderTells
  <1> DEFINE k == [conn[c] EXCEPT !.at = "writing", !.reply = answer]
  <1>4. k \in Conn /\ k.at = "writing"
    BY <1>1, <1>3, Zenon DEF Conn
  <1>5. conn' = [conn EXCEPT ![c] = k]
    BY <1>2
  <1> HIDE DEF k
  <1>6. Served' = Served /\ Turned' = Turned
    <2>1. /\ conn[c].at \in {"reading", "writing"} /\ conn[c].at # "busy"
          /\ k.at \in {"reading", "writing"} /\ k.at # "busy"
      BY <1>1, <1>4
    <2> QED BY <1>1, <1>4, <1>5, <2>1, ServedSame, TurnedSame
  <1>7. /\ slots' = slots /\ busy_slots' = busy_slots /\ queue' = queue
        /\ conn[c].at # "queued"
    BY <1>1 DEF Respond, server
  <1>8. Permits' /\ Waiting'
    BY <1>1, <1>4, <1>5, <1>6, <1>7, WaitingKept DEF Permits
  <1>9. conn' \in [Clients -> Conn]
    BY <1>1, <1>4, <1>5 DEF TypeOK
  <1>10. TypeOK'
    BY <1>1, <1>9 DEF TypeOK, Respond, server
  <1> QED BY <1>8, <1>10 DEF PoolInv

(* A change of health moves no connection. *)
LEMMA PoolHealth ==
  ASSUME PoolInv, HealthMoves
  PROVE  PoolInv'
  <1>1. TypeOK /\ Health!TNext /\ conn' = Observed(ready')
    BY DEF PoolInv, HealthMoves
  <1>2. \A c \in Clients : conn'[c] \in Conn /\ conn'[c].at = conn[c].at
    <2> TAKE c \in Clients
    <2>1. conn[c] \in Conn
      BY <1>1 DEF TypeOK
    <2>2. conn'[c] = IF conn[c].sent = NoRequest THEN conn[c]
                     ELSE [conn[c] EXCEPT !.seen = @ \cup {Says(ready')}]
      BY <1>1 DEF Observed
    <2>3. conn[c].seen \cup {Says(ready')} \in SUBSET {"ready", "not_ready"}
      BY <2>1 DEF Conn, Says
    <2>4. [conn[c] EXCEPT !.seen = @ \cup {Says(ready')}] \in Conn
          /\ [conn[c] EXCEPT !.seen = @ \cup {Says(ready')}].at = conn[c].at
      BY <2>1, <2>3, Zenon DEF Conn
    <2> QED BY <2>1, <2>2, <2>4, Zenon
  <1>3. conn' \in [Clients -> Conn]
    BY <1>1, <1>2 DEF Observed
  <1>4. TypeOK'
    BY <1>1, <1>3, HealthTypes, Zenon DEF TypeOK, HealthMoves, server
  <1> QED BY <1>2, <1>4, PoolSame DEF HealthMoves, server

(* No step of the loop, a task, a client or the health machine loses or    *)
(* invents a permit.                                                       *)
LEMMA PoolStep == PoolInv /\ [Next]_vars => PoolInv'
  <1> SUFFICES ASSUME PoolInv, [Next]_vars PROVE PoolInv'
    OBVIOUS
  <1>1. CASE HealthMoves
    BY <1>1, PoolHealth
  <1>2. CASE SendStop
    <2>1. TypeOK'
      BY <1>2 DEF PoolInv, TypeOK, SendStop
    <2> QED BY <1>2, <2>1, PoolSame DEF SendStop
  <1>3. ASSUME NEW place \in {"select", "backoff"}, Goto(place)
        PROVE  PoolInv'
    <2>1. TypeOK'
      BY <1>3 DEF PoolInv, TypeOK, Goto
    <2> QED BY <1>3, <2>1, PoolSame DEF Goto
  <1>4. CASE Loop
    BY <1>3, <1>4, PoolClose, PoolAccept
       DEF Loop, StartServing, StartFails, TakeStop, AcceptFails, BackoffEnds
  <1>5. ASSUME NEW c \in Clients, Client(c)
        PROVE  PoolInv'
    BY <1>5, PoolConnect, PoolSend DEF Client
  <1>6. ASSUME NEW c \in Clients, Task(c)
        PROVE  PoolInv'
    BY <1>6, PoolRespond, PoolEndServed, PoolBusyEnds
       DEF Task, ReadFails, WriteEnds
  <1>7. CASE UNCHANGED vars
    BY <1>7 DEF PoolInv, TypeOK, Waiting, Permits, Served, Turned, vars, server
  <1> QED BY <1>1, <1>2, <1>4, <1>5, <1>6, <1>7 DEF Next

(* Permits and tasks add up to the pools' sizes in every reachable state:  *)
(* no timeout, I/O error, stop or refused connection of control.rs leaks a *)
(* permit, and no pool serves more than its limit.                         *)
THEOREM PermitsKept == Spec => []PermitsMatchTasks
  <1>1. PoolInv => PermitsMatchTasks
    BY DEF PoolInv, Permits, PermitsMatchTasks
  <1> QED BY <1>1, PoolInit, PoolStep, PTL DEF Spec
-----------------------------------------------------------------------------
(* What a single connection owes to the truth: the two statements about    *)
(* readiness, for one connection and a given ready bit.                    *)
Current(k, is_ready) ==
  /\ k.sent # NoRequest => Says(is_ready) \in k.seen
  /\ k.at = "writing" /\ k.reply.told # "unsaid" => k.reply.told \in k.seen

(* The invariant, connection by connection. *)
LEMMA CurrentAll ==
  CInv <=> PoolInv /\ \A c \in Clients : Current(conn[c], ready)
  BY DEF CInv, SeesNow, AnswersAreCurrent, Current

(* One that is away owes nothing. *)
LEMMA CurrentAway == ASSUME NEW b PROVE Current(Away, b)
  BY DEF Current, Away

(* A step that moves one connection, to one that tells the truth. *)
LEMMA CurrentOne ==
  ASSUME CInv, PoolInv', ready' = ready, NEW c \in Clients, NEW k,
         conn' = [conn EXCEPT ![c] = k], Current(k, ready)
  PROVE  CInv'
  <1>1. \A d \in Clients : Current(conn[d], ready)
    BY CurrentAll
  <1>2. conn \in [Clients -> Conn]
    BY DEF CInv, PoolInv, TypeOK
  <1>3. \A d \in Clients : Current(conn'[d], ready')
    BY <1>1, <1>2
  <1>4. SeesNow' /\ AnswersAreCurrent'
    BY <1>3 DEF SeesNow, AnswersAreCurrent, Current
  <1> QED BY <1>4 DEF CInv

(* A step that moves no connection and no ready bit. *)
LEMMA CurrentSame ==
  ASSUME CInv, PoolInv', ready' = ready, conn' = conn
  PROVE  CInv'
  BY DEF CInv, SeesNow, AnswersAreCurrent

(* Every step keeps what replies say current: the snapshot is taken after  *)
(* the request is in, and health moves before the eyes of who waits.       *)
LEMMA CurrentStep == CInv /\ [Next]_vars => CInv'
  <1> SUFFICES ASSUME CInv, [Next]_vars PROVE CInv'
    OBVIOUS
  <1>1. PoolInv /\ PoolInv' /\ TypeOK /\ \A c \in Clients : Current(conn[c], ready)
    BY PoolStep, CurrentAll DEF CInv, PoolInv
  <1>2. CASE HealthMoves
    <2>1. \A c \in Clients : Current(conn'[c], ready')
      <3> TAKE c \in Clients
      <3>1. conn[c] \in Conn /\ Current(conn[c], ready)
        BY <1>1 DEF TypeOK
      <3>2. conn'[c] = IF conn[c].sent = NoRequest THEN conn[c]
                       ELSE [conn[c] EXCEPT !.seen = @ \cup {Says(ready')}]
        BY <1>2 DEF HealthMoves, Observed
      <3>3. CASE conn[c].sent = NoRequest
        BY <3>1, <3>2, <3>3 DEF Current
      <3>4. CASE conn[c].sent # NoRequest
        <4> DEFINE k == [conn[c] EXCEPT !.seen = @ \cup {Says(ready')}]
        <4>1. /\ k.sent = conn[c].sent /\ k.at = conn[c].at
              /\ k.reply = conn[c].reply
              /\ k.seen = conn[c].seen \cup {Says(ready')}
          BY <3>1, Zenon DEF Conn
        <4>2. conn'[c] = k
          BY <3>2, <3>4
        <4> HIDE DEF k
        <4> QED BY <3>1, <4>1, <4>2 DEF Current
      <3> QED BY <3>3, <3>4
    <2>2. SeesNow' /\ AnswersAreCurrent'
      BY <2>1 DEF SeesNow, AnswersAreCurrent, Current
    <2> QED BY <1>1, <2>2 DEF CInv
  <1>3. CASE SendStop
    BY <1>1, <1>3, CurrentSame DEF SendStop
  <1>4. ASSUME NEW place, Goto(place)
        PROVE  CInv'
    BY <1>1, <1>4, CurrentSame DEF Goto
  <1>5. ASSUME Close PROVE CInv'
    <2>1. \A c \in Clients : Current(conn'[c], ready')
      BY <1>1, <1>5, CurrentAway DEF Close
    <2>2. SeesNow' /\ AnswersAreCurrent'
      BY <2>1 DEF SeesNow, AnswersAreCurrent, Current
    <2> QED BY <1>1, <2>2 DEF CInv
  <1>6. CASE Accept
    <2> DEFINE c == Head(queue)
    <2>1. c \in Clients /\ ready' = ready /\ Admission(c)
      BY <1>1, <1>6 DEF Accept, TypeOK
    <2> HIDE DEF c
    <2>2. conn[c] \in Conn /\ Current(conn[c], ready)
      BY <1>1, <2>1 DEF TypeOK
    <2>3. ASSUME NEW place \in {"reading", "busy"},
                 conn' = [conn EXCEPT ![c].at = place]
          PROVE  CInv'
      <3> DEFINE k == [conn[c] EXCEPT !.at = place]
      <3>1. k.at # "writing" /\ k.sent = conn[c].sent /\ k.seen = conn[c].seen
        BY <2>2, <2>3 DEF Conn
      <3>2. conn' = [conn EXCEPT ![c] = k]
        BY <2>3
      <3> HIDE DEF k
      <3>3. Current(k, ready)
        BY <2>2, <3>1 DEF Current
      <3> QED BY <1>1, <2>1, <3>2, <3>3, CurrentOne
    <2>4. ASSUME conn' = [conn EXCEPT ![c] = Away] PROVE CInv'
      BY <1>1, <2>1, <2>4, CurrentAway, CurrentOne
    <2> QED BY <2>1, <2>3, <2>4 DEF Admission
  <1>7. CASE Loop
    BY <1>4, <1>5, <1>6, <1>7
       DEF Loop, StartServing, StartFails, TakeStop, AcceptFails, BackoffEnds
  <1>8. ASSUME NEW c \in Clients, Connect(c) PROVE CInv'
    <2> DEFINE k == [conn[c] EXCEPT !.at = "queued"]
    <2>1. conn[c] \in Conn /\ Current(conn[c], ready)
      BY <1>1 DEF TypeOK
    <2>2. k.at # "writing" /\ k.sent = conn[c].sent /\ k.seen = conn[c].seen
      BY <2>1 DEF Conn
    <2>3. conn' = [conn EXCEPT ![c] = k] /\ ready' = ready
      BY <1>8 DEF Connect
    <2> HIDE DEF k
    <2>4. Current(k, ready)
      BY <2>1, <2>2 DEF Current
    <2> QED BY <1>1, <2>3, <2>4, CurrentOne
  <1>9. ASSUME NEW c \in Clients, NEW r \in Requests, Send(c, r) PROVE CInv'
    <2> DEFINE k == [conn[c] EXCEPT !.sent = r, !.seen = {Says(ready)}]
    <2>1. conn[c] \in Conn /\ conn[c].at \in {"queued", "reading"}
      BY <1>1, <1>9 DEF TypeOK, Send
    <2>2. k.at # "writing" /\ k.seen = {Says(ready)}
      BY <2>1 DEF Conn
    <2>3. conn' = [conn EXCEPT ![c] = k] /\ ready' = ready
      BY <1>9 DEF Send
    <2> HIDE DEF k
    <2>4. Current(k, ready)
      BY <2>2 DEF Current
    <2> QED BY <1>1, <2>3, <2>4, CurrentOne
  <1>10. ASSUME NEW c \in Clients, Respond(c) PROVE CInv'
    <2>1. /\ conn[c] \in Conn /\ Current(conn[c], ready) /\ ready' = ready
          /\ conn[c].sent # NoRequest /\ conn[c].sent \in Request
      BY <1>1, <1>10, ControlAssumption DEF TypeOK, Respond, Conn
    <2>2. PICK answer \in {Render(conn[c].sent, Says(ready)), Busy} :
            conn' = [conn EXCEPT ![c].at = "writing", ![c].reply = answer]
      BY <1>10 DEF Respond
    <2>3. answer.told \in {Says(ready), "unsaid"}
      <3>1. Says(ready) \in {"ready", "not_ready"} /\ Busy.told = "unsaid"
        BY DEF Says, Busy, Saying
      <3> QED BY <2>1, <3>1, RenderTells
    <2> DEFINE k == [conn[c] EXCEPT !.at = "writing", !.reply = answer]
    <2>4. k.sent = conn[c].sent /\ k.seen = conn[c].seen /\ k.reply = answer
      BY <2>1, Zenon DEF Conn
    <2>5. conn' = [conn EXCEPT ![c] = k]
      BY <2>2
    <2> HIDE DEF k
    <2>6. Current(k, ready)
      BY <2>1, <2>3, <2>4 DEF Current
    <2> QED BY <1>1, <2>1, <2>5, <2>6, CurrentOne
  <1>11. ASSUME NEW c \in Clients, conn' = [conn EXCEPT ![c] = Away],
                ready' = ready
         PROVE  CInv'
    BY <1>1, <1>11, CurrentAway, CurrentOne
  <1>12. ASSUME NEW c \in Clients, Client(c) \/ Task(c) PROVE CInv'
    BY <1>8, <1>9, <1>10, <1>11, <1>12
       DEF Client, Task, ReadFails, WriteEnds, EndServed, BusyEnds
  <1>13. CASE UNCHANGED vars
    BY <1>1, <1>13, CurrentSame DEF vars
  <1> QED BY <1>2, <1>3, <1>7, <1>12, <1>13 DEF Next

(* A reply never tells of readiness what was not true at some moment since *)
(* its request was sent, however the loop, the tasks and the health        *)
(* machine interleave (control_response after read_http_request).          *)
THEOREM AnswersStayCurrent == Spec => []AnswersAreCurrent
  <1>1. Init => CInv
    BY PoolInit DEF Init, ControlInit, CInv, SeesNow, AnswersAreCurrent, Away
  <1>2. CInv => AnswersAreCurrent
    BY DEF CInv
  <1> QED BY <1>1, <1>2, CurrentStep, PTL DEF Spec
=============================================================================
