--------------------------- MODULE ControlSurface ---------------------------
(***************************************************************************)
(* The control surface of control.rs: the accept loop of serve_listener,   *)
(* its two pools of permits, and one task per accepted connection, which   *)
(* reads a request line, takes a health snapshot and writes the reply,     *)
(* each under a timeout.  The health machine moves at the same time; here  *)
(* it is what HealthTable promises, which HealthMachine is shown to        *)
(* implement.                                                              *)
(*                                                                         *)
(* A step is what one task does between two awaits.  Clients connect, send *)
(* a request line at any time or never, and connect again.  The kernel's   *)
(* queue of pending connections is external: a sequence.                   *)
(***************************************************************************)
EXTENDS Integers, Sequences, FiniteSets

CONSTANTS
  Clients,
  MAX_CONTROL_CONNS, MAX_BUSY_CONNS,
  Requests,       \* request lines a client may send: a subset of Request
  NoRequest       \* nothing complete has been sent yet

LivePaths == {"/livez", "/healthz/live"}
ReadyPaths == {"/readyz", "/healthz/ready"}
Paths == LivePaths \cup ReadyPaths \cup {"/health", "/metrics", "elsewhere"}

(* A complete request: up to a newline, the end of the stream or the 1024  *)
(* bytes of the buffer.  text: it is UTF-8 and not empty; words: how many  *)
(* its first line has; get: the first one is GET in any case; path: the    *)
(* second one up to a question mark.                                       *)
Request == [text : BOOLEAN, words : 0 .. 3, get : BOOLEAN, path : Paths]

ASSUME ControlAssumption ==
  /\ IsFiniteSet(Clients)
  /\ MAX_CONTROL_CONNS \in Nat
  /\ MAX_BUSY_CONNS \in Nat
  /\ Requests \subseteq Request
  /\ NoRequest \notin Request

(* A reply: its status and what it tells of readiness. *)
Told == {"ready", "not_ready", "unsaid"}
Reply == [status : {200, 400, 404, 405, 503}, told : Told]
Saying(code, what) == [status |-> code, told |-> what]

(* busy_http *)
Busy == Saying(503, "unsaid")

(* parse_get_path *)
ParseGetPath(r) ==
  CASE ~r.text \/ r.words < 2 -> "invalid"
    [] r.text /\ r.words >= 2 /\ ~r.get -> "not_get"
    [] OTHER -> r.path

(* The readiness probe answered from liveness. *)
MutRoute(path, is) ==
  CASE path \in LivePaths \cup ReadyPaths -> Saying(200, "ready")
    [] path \in {"/health", "/metrics"} -> Saying(200, is)
    [] OTHER -> Saying(404, "unsaid")

(* route and probe, on a snapshot whose ready bit reads as is.  A process  *)
(* that serves has been started, so it is live.                            *)
Route(path, is) ==
  CASE path \in LivePaths -> Saying(200, "unsaid")
    [] path \in ReadyPaths -> Saying(IF is = "ready" THEN 200 ELSE 503, is)
    [] path \in {"/health", "/metrics"} -> Saying(200, is)
    [] OTHER -> Saying(404, "unsaid")

(* render_http *)
Render(r, is) ==
  LET path == ParseGetPath(r)
  IN CASE path = "invalid" -> Saying(400, "unsaid")
       [] path = "not_get" -> Saying(405, "unsaid")
       [] OTHER -> Route(path, is)

VARIABLES
  phase, ready,        \* of the health machine
  loop,                \* serve_listener: where the loop is
  stop,                \* the watch channel: its value, or its sender dropped
  queue,               \* connections not accepted yet
  slots, busy_slots,   \* permits left
  conn                 \* per client

server == << loop, stop, queue, slots, busy_slots >>
vars == << phase, ready, server, conn >>

Health == INSTANCE HealthTable

(* at: where the connection is.  sent: its request line.  reply: what is   *)
(* being written.  seen, a history: what readiness was since the request   *)
(* was sent.                                                               *)
Conn == [at : {"away", "queued", "reading", "writing", "busy"},
         sent : Requests \cup {NoRequest}, reply : Reply,
         seen : SUBSET {"ready", "not_ready"}]

Away == [at |-> "away", sent |-> NoRequest, reply |-> Busy, seen |-> {}]

Says(is_ready) == IF is_ready THEN "ready" ELSE "not_ready"

TypeOK ==
  /\ phase \in Health!Booting \cup Health!Serving \cup {"draining", "fatal"}
  /\ ready \in BOOLEAN
  /\ loop \in {"starting", "select", "backoff", "stopped"}
  /\ stop \in {"false", "true", "dropped"}
  /\ queue \in Seq(Clients)
  /\ slots \in 0 .. MAX_CONTROL_CONNS
  /\ busy_slots \in 0 .. MAX_BUSY_CONNS
  /\ conn \in [Clients -> Conn]

(* The listener is bound and its task has been spawned. *)
ControlInit ==
  /\ loop = "starting" /\ stop = "false" /\ queue = << >>
  /\ slots = MAX_CONTROL_CONNS /\ busy_slots = MAX_BUSY_CONNS
  /\ conn = [c \in Clients |-> Away]

Init == Health!TInit /\ ControlInit
-----------------------------------------------------------------------------
(* Clients and the health machine                                          *)

Connect(c) ==
  /\ conn[c].at = "away" /\ loop # "stopped"
  /\ conn' = [conn EXCEPT ![c].at = "queued"]
  /\ queue' = Append(queue, c)
  /\ UNCHANGED << phase, ready, loop, stop, slots, busy_slots >>

Send(c, r) ==
  /\ conn[c].at \in {"queued", "reading"} /\ conn[c].sent = NoRequest
  /\ conn' = [conn EXCEPT ![c].sent = r, ![c].seen = {Says(ready)}]
  /\ UNCHANGED << phase, ready, server >>

(* Clients with a request under way live through a change of health. *)
Observed(is_ready) ==
  [c \in Clients |->
     IF conn[c].sent = NoRequest THEN conn[c]
     ELSE [conn[c] EXCEPT !.seen = @ \cup {Says(is_ready)}]]

HealthMoves ==
  /\ Health!TNext
  /\ conn' = Observed(ready')
  /\ UNCHANGED server

SendStop ==
  /\ stop = "false" /\ stop' \in {"true", "dropped"}
  /\ UNCHANGED << phase, ready, loop, queue, slots, busy_slots, conn >>
-----------------------------------------------------------------------------
(* The accept loop                                                         *)

Goto(place) ==
  /\ loop' = place
  /\ UNCHANGED << phase, ready, stop, queue, slots, busy_slots, conn >>

(* The listener is dropped, and with it whoever it had not accepted. *)
Close ==
  /\ loop' = "stopped"
  /\ queue' = << >>
  /\ conn' = [c \in Clients |-> IF conn[c].at = "queued" THEN Away ELSE conn[c]]
  /\ UNCHANGED << phase, ready, stop, slots, busy_slots >>

(* local_addr may fail; shutdown_signaled looks at the value only. *)
StartServing == loop = "starting" /\ stop # "true" /\ Goto("select")
StartFails == loop = "starting" /\ Close

(* A stop that is only looked at when the loop starts. *)
MutTakeStop == loop = "starting" /\ stop = "true" /\ Close

(* shutdown.changed: a new value, or an error once the sender is gone. *)
TakeStop == loop = "select" /\ stop # "false" /\ Close

(* spawn_control_conn and spawn_busy_conn: a slot, else a busy slot, else  *)
(* the stream is dropped.                                                  *)
Admission(c) ==
  \/ /\ slots > 0
     /\ slots' = slots - 1
     /\ conn' = [conn EXCEPT ![c].at = "reading"]
     /\ UNCHANGED busy_slots
  \/ /\ slots = 0 /\ busy_slots > 0
     /\ busy_slots' = busy_slots - 1
     /\ conn' = [conn EXCEPT ![c].at = "busy"]
     /\ UNCHANGED slots
  \/ /\ slots = 0 /\ busy_slots = 0
     /\ conn' = [conn EXCEPT ![c] = Away]
     /\ UNCHANGED << slots, busy_slots >>

Accept ==
  /\ loop = "select" /\ queue # << >>
  /\ queue' = Tail(queue)
  /\ Admission(Head(queue))
  /\ UNCHANGED << phase, ready, loop, stop >>

(* accept returned an error: sleep before trying again. *)
AcceptFails == loop = "select" /\ Goto("backoff")
BackoffEnds == loop = "backoff" /\ Goto("select")
-----------------------------------------------------------------------------
(* The connection tasks                                                    *)

(* The permit goes back with the task, however it ends. *)
EndServed(c) ==
  /\ slots' = slots + 1
  /\ conn' = [conn EXCEPT ![c] = Away]
  /\ UNCHANGED << phase, ready, loop, stop, queue, busy_slots >>

(* handle_connection once the request is in: the snapshot is taken now, or *)
(* not at all when an event is being applied.                              *)
Respond(c) ==
  /\ conn[c].at = "reading" /\ conn[c].sent # NoRequest
  /\ \E answer \in {Render(conn[c].sent, Says(ready)), Busy} :
       conn' = [conn EXCEPT ![c].at = "writing", ![c].reply = answer]
  /\ UNCHANGED << phase, ready, server >>

(* A timed-out read whose permit is kept. *)
MutReadFails(c) ==
  /\ conn[c].at = "reading"
  /\ conn' = [conn EXCEPT ![c] = Away]
  /\ UNCHANGED << phase, ready, server >>

(* timed_io: the timeout, or an I/O error. *)
ReadFails(c) == conn[c].at = "reading" /\ EndServed(c)

(* Written, failed or timed out. *)
WriteEnds(c) == conn[c].at = "writing" /\ EndServed(c)

(* A reply nobody reads is waited for without a limit. *)
MutBusyEnds(c) ==
  /\ conn[c].at = "busy" /\ conn[c].sent # NoRequest
  /\ busy_slots' = busy_slots + 1
  /\ conn' = [conn EXCEPT ![c] = Away]
  /\ UNCHANGED << phase, ready, loop, stop, queue, slots >>

BusyEnds(c) ==
  /\ conn[c].at = "busy"
  /\ busy_slots' = busy_slots + 1
  /\ conn' = [conn EXCEPT ![c] = Away]
  /\ UNCHANGED << phase, ready, loop, stop, queue, slots >>
-----------------------------------------------------------------------------
Task(c) == Respond(c) \/ ReadFails(c) \/ WriteEnds(c) \/ BusyEnds(c)

Loop == StartServing \/ StartFails \/ TakeStop \/ Accept \/ AcceptFails
          \/ BackoffEnds

Client(c) == Connect(c) \/ \E r \in Requests : Send(c, r)

Next ==
  \/ HealthMoves \/ SendStop \/ Loop
  \/ \E c \in Clients : Client(c) \/ Task(c)

Spec == Init /\ [][Next]_vars

(* Tasks are run and timers fire.  The two branches of select! are polled  *)
(* in random order, so neither starves the other; accept does not fail for *)
(* ever.                                                                   *)
Fairness ==
  /\ WF_vars(StartServing \/ StartFails)
  /\ WF_vars(BackoffEnds)
  /\ SF_vars(TakeStop)
  /\ SF_vars(Accept)
  /\ \A c \in Clients : WF_vars(Task(c))

FairSpec == Spec /\ Fairness
-----------------------------------------------------------------------------
(* Properties                                                              *)

Served == {c \in Clients : conn[c].at \in {"reading", "writing"}}
Turned == {c \in Clients : conn[c].at = "busy"}

(* No permit is lost or invented: on every way a task can end, a timeout,  *)
(* an I/O error or a written reply, its slot comes back                    *)
(* (OwnedSemaphorePermit in spawn_served_conn and spawn_busy_conn), so that *)
(* the limits on tasks, which are part of the types, are never passed and  *)
(* never shrink.                                                           *)
PermitsMatchTasks ==
  /\ TypeOK
  /\ slots + Cardinality(Served) = MAX_CONTROL_CONNS
  /\ busy_slots + Cardinality(Turned) = MAX_BUSY_CONNS

(* What a reply tells of readiness was true at some moment since its       *)
(* request was sent: a probe sent once the daemon drains or has failed is  *)
(* never told ready, however long the connection waited (control_response  *)
(* after read_http_request).                                               *)
AnswersAreCurrent ==
  \A c \in Clients :
    conn[c].at = "writing" /\ conn[c].reply.told # "unsaid" =>
      conn[c].reply.told \in conn[c].seen

(* Every connection comes to its end, served, turned away or cut, whatever *)
(* the other clients do with their slots (the timeouts, the busy pool, the *)
(* accept loop).                                                           *)
ConnectionsEnd ==
  \A c \in Clients : conn[c].at # "away" ~> conn[c].at = "away"

(* A stop is heard even while accept keeps failing or clients keep coming, *)
(* so that stop_control returns (should_stop_control, ACCEPT_BACKOFF).     *)
StopIsHeard == stop # "false" ~> loop = "stopped"
=============================================================================
