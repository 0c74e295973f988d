----------------------------- MODULE DesktopHost -----------------------------
(***************************************************************************)
(* The desktop shell and its resident backend: BackendHost of the Tauri    *)
(* process (APP/src-tauri/src/lib.rs) starts `rachel-backend --server`,     *)
(* writes one JSON line per request to its stdin and matches the replies    *)
(* by request_id; server_loop (APP/bridge/rachel_server.py) reads the lines *)
(* and serves them on a pool of two threads.                                *)
(*                                                                          *)
(* Commands run on the async runtime's threads, so the steps of request and *)
(* ensure_started interleave with those of the task that receives the       *)
(* backend's output and its end. A backend whose handle is dropped sees the *)
(* end of its stdin; one that ends has its Terminated event delivered after *)
(* its last line.                                                           *)
(***************************************************************************)
EXTENDS Integers, FiniteSets

CONSTANTS
    Requests,    \* calls of BackendHost.request, in any order
    Workers,     \* MAX_RESIDENT_WORKERS
    MaxSpawns,   \* bound of the model: backends started
    MaxDeaths    \* bound of the model: backends that die unasked

ASSUME HostAssumption ==
    /\ Workers \in Nat \ {0} /\ MaxSpawns \in Nat /\ MaxDeaths \in Nat

VARIABLES
    started,     \* BackendInner.started
    child,       \* BackendInner.child: the backend whose handle is held
    pending,     \* BackendInner.pending: requests with a reply channel
    request,     \* [Requests -> place in request, and what its channel holds]
    backend,     \* [1..MaxSpawns -> a backend process and its event task]
    deaths       \* backends that died unasked

vars == <<started, child, pending, request, backend, deaths>>

Backends == 1..MaxSpawns
NoChild == 0

Request == [pc : {"new", "starting", "ready", "registered", "waiting",
                  "unwinding", "answered", "terminated", "refused"},
            channel : {"empty", "reply", "terminated"}]

\* The first three states are the process's, the others those of the task
\* that handles its Terminated event.
Backend == [state : {"absent", "alive", "closing", "dead", "unmarked",
                     "dropped", "gone"},
            inbox : SUBSET Requests, queued : SUBSET Requests,
            running : SUBSET Requests, replies : SUBSET Requests]

TypeOK ==
    /\ started \in BOOLEAN
    /\ child \in Backends \cup {NoChild}
    /\ pending \in SUBSET Requests
    /\ request \in [Requests -> Request]
    /\ backend \in [Backends -> Backend]
    /\ \A g \in Backends : Cardinality(backend[g].running) <= Workers
    /\ deaths \in 0..MaxDeaths

Working(g) == backend[g].state \in {"alive", "closing"}

-----------------------------------------------------------------------------
\* BackendHost.request

At(r, place) == request[r].pc = place
Goto(r, place) == request' = [request EXCEPT ![r].pc = place]

\* The fast path of ensure_started.
AlreadyStarted(r) ==
    /\ At(r, "new")
    /\ started
    /\ Goto(r, "ready")
    /\ UNCHANGED <<started, child, pending, backend, deaths>>

StartLockFree == \A r \in Requests : ~At(r, "starting")

\* Under start_lock: a new process takes the slot, and the handle that was in
\* it is dropped.
Spawn(r) ==
    /\ At(r, "new")
    /\ StartLockFree /\ ~started
    /\ \E g \in Backends :
         /\ backend[g].state = "absent"
         /\ \A h \in Backends : h < g => backend[h].state # "absent"
         /\ backend' = [backend EXCEPT ![g].state = "alive"]
         /\ child' = g
    /\ Goto(r, "starting")
    /\ UNCHANGED <<started, pending, deaths>>

\* The process cannot be started: request returns the error.
SpawnFails(r) ==
    /\ At(r, "new")
    /\ StartLockFree /\ ~started
    /\ Goto(r, "refused")
    /\ UNCHANGED <<started, child, pending, backend, deaths>>

MarkStarted(r) ==
    /\ At(r, "starting")
    /\ started' = TRUE
    /\ Goto(r, "ready")
    /\ UNCHANGED <<child, pending, backend, deaths>>

Register(r) ==
    /\ At(r, "ready")
    /\ pending' = pending \cup {r}
    /\ Goto(r, "registered")
    /\ UNCHANGED <<started, child, backend, deaths>>

Writable == child # NoChild /\ Working(child)

Write(r) ==
    /\ At(r, "registered")
    /\ Writable
    /\ backend' = [backend EXCEPT ![child].inbox = @ \cup {r}]
    /\ Goto(r, "waiting")
    /\ UNCHANGED <<started, child, pending, deaths>>

Unregistered(r) == pending \ {r}

WriteFails(r) ==
    /\ At(r, "registered")
    /\ ~Writable
    /\ pending' = Unregistered(r)
    /\ Goto(r, "unwinding")
    /\ UNCHANGED <<started, child, backend, deaths>>

Unwind(r) ==
    /\ At(r, "unwinding")
    /\ started' = FALSE
    /\ Goto(r, "refused")
    /\ UNCHANGED <<child, pending, backend, deaths>>

Receive(r) ==
    /\ At(r, "waiting")
    /\ request[r].channel # "empty"
    /\ Goto(r, IF request[r].channel = "reply" THEN "answered" ELSE "terminated")
    /\ UNCHANGED <<started, child, pending, backend, deaths>>

-----------------------------------------------------------------------------
\* server_loop

Host == <<started, child, pending, request>>

Read(g, r) ==
    /\ Working(g)
    /\ r \in backend[g].inbox
    /\ backend' = [backend EXCEPT ![g].inbox = @ \ {r}, ![g].queued = @ \cup {r}]
    /\ UNCHANGED <<Host, deaths>>

\* cancel_all is answered by the reading loop itself, whatever the pool does.
Answer(g, r) ==
    /\ Working(g)
    /\ r \in backend[g].inbox
    /\ backend' = [backend EXCEPT ![g].inbox = @ \ {r}, ![g].replies = @ \cup {r}]
    /\ UNCHANGED <<Host, deaths>>

\* Mutant of FreeWorker: one thread too many.
OneWorkerMore(g) == Cardinality(backend[g].running) <= Workers

FreeWorker(g) == Cardinality(backend[g].running) < Workers

Work(g, r) ==
    /\ Working(g)
    /\ r \in backend[g].queued
    /\ FreeWorker(g)
    /\ backend' = [backend EXCEPT ![g].queued = @ \ {r}, ![g].running = @ \cup {r}]
    /\ UNCHANGED <<Host, deaths>>

Reply(g, r) ==
    /\ Working(g)
    /\ r \in backend[g].running
    /\ backend' = [backend EXCEPT ![g].running = @ \ {r}, ![g].replies = @ \cup {r}]
    /\ UNCHANGED <<Host, deaths>>

\* Mutant of EndOfInput: the end of stdin is not seen.
EndOfInputNever(g) == FALSE

EndOfInput(g) == child # g /\ backend[g].inbox = {}

\* shutdown(cancel_futures = True): what is queued is never answered.
Close(g) ==
    /\ backend[g].state = "alive"
    /\ EndOfInput(g)
    /\ backend' = [backend EXCEPT ![g].state = "closing", ![g].queued = {}]
    /\ UNCHANGED <<Host, deaths>>

\* The interpreter waits for the running workers before it exits.
Exit(g) ==
    /\ backend[g].state = "closing"
    /\ backend[g].running = {}
    /\ backend' = [backend EXCEPT ![g].state = "dead"]
    /\ UNCHANGED <<Host, deaths>>

Die(g) ==
    /\ Working(g)
    /\ deaths < MaxDeaths
    /\ deaths' = deaths + 1
    /\ backend' = [backend EXCEPT ![g].state = "dead", ![g].inbox = {},
                                  ![g].queued = {}, ![g].running = {}]
    /\ UNCHANGED Host

-----------------------------------------------------------------------------
\* The task that receives a backend's events

Filled(rs, what) ==
    request' = [r \in Requests |->
                  IF r \in rs THEN [request[r] EXCEPT !.channel = what]
                  ELSE request[r]]

\* route_backend_message: a reply nobody waits for is dropped.
Route(g, r) ==
    /\ r \in backend[g].replies
    /\ backend' = [backend EXCEPT ![g].replies = @ \ {r}]
    /\ pending' = pending \ {r}
    /\ Filled({r} \cap pending, "reply")
    /\ UNCHANGED <<started, child, deaths>>

\* Terminated, in the order of the handler; it does not look at whose handle
\* the slot holds by now.
Unmark(g) ==
    /\ backend[g].state = "dead"
    /\ backend[g].replies = {}
    /\ started' = FALSE
    /\ backend' = [backend EXCEPT ![g].state = "unmarked"]
    /\ UNCHANGED <<child, pending, request, deaths>>

Drop(g) ==
    /\ backend[g].state = "unmarked"
    /\ child' = NoChild
    /\ backend' = [backend EXCEPT ![g].state = "dropped"]
    /\ UNCHANGED <<started, pending, request, deaths>>

\* Mutant of Drained: the requests are left to wait.
DrainedNone == {}

Drained == pending

Drain(g) ==
    /\ backend[g].state = "dropped"
    /\ pending' = pending \ Drained
    /\ Filled(Drained, "terminated")
    /\ backend' = [backend EXCEPT ![g].state = "gone"]
    /\ UNCHANGED <<started, child, deaths>>

-----------------------------------------------------------------------------

Init ==
    /\ started = FALSE
    /\ child = NoChild
    /\ pending = {}
    /\ request = [r \in Requests |-> [pc |-> "new", channel |-> "empty"]]
    /\ backend = [g \in Backends |->
                    [state |-> "absent", inbox |-> {}, queued |-> {},
                     running |-> {}, replies |-> {}]]
    /\ deaths = 0

\* The steps of a call that has begun.
Continue(r) ==
    MarkStarted(r) \/ Register(r) \/ Write(r) \/ WriteFails(r) \/ Unwind(r)
    \/ Receive(r)

Serve(g) ==
    \/ \E r \in Requests : Read(g, r) \/ Answer(g, r) \/ Work(g, r) \/ Reply(g, r)
    \/ Close(g) \/ Exit(g)

Notice(g) == (\E r \in Requests : Route(g, r)) \/ Unmark(g) \/ Drop(g) \/ Drain(g)

Next ==
    \/ \E r \in Requests :
         AlreadyStarted(r) \/ Spawn(r) \/ SpawnFails(r) \/ Continue(r)
    \/ \E g \in Backends : Serve(g) \/ Notice(g) \/ Die(g)

Spec == Init /\ [][Next]_vars

\* Begun calls and event tasks are scheduled by the async runtime, and every
\* action the backend serves ends (model calls and tools have timeouts).
FairSpec ==
    /\ Spec
    /\ \A r \in Requests : WF_vars(Continue(r))
    /\ \A g \in Backends : WF_vars(Serve(g)) /\ WF_vars(Notice(g))

-----------------------------------------------------------------------------
\* Properties

Holds(g) == backend[g].inbox \cup backend[g].queued
            \cup backend[g].running \cup backend[g].replies

\* A request that waits is never forgotten: it is registered, and a backend
\* still holds it, or the end of some backend has still to be noticed and
\* will answer all that wait.
WaitersAreHeld ==
    \A r \in Requests :
        At(r, "waiting") /\ request[r].channel = "empty" =>
            /\ r \in pending
            /\ \E g \in Backends :
                 \/ r \in Holds(g)
                 \/ backend[g].state \in {"closing", "dead", "unmarked", "dropped"}

\* "um unico backend RACHEL residente": no two backends work on requests at
\* the same time.
OneBackendServes ==
    \A g, h \in Backends :
        backend[g].running # {} /\ backend[h].running # {} => g = h

\* Every call that has begun returns.
CallsReturn ==
    \A r \in Requests :
        ~At(r, "new") ~>
            At(r, "answered") \/ At(r, "terminated") \/ At(r, "refused")

\* A backend whose handle was dropped does not outlive the work it has.
OrphansEnd ==
    \A g \in Backends :
        backend[g].state = "alive" /\ child # g ~> backend[g].state = "gone"

=============================================================================
