------------------------- MODULE HostAndBrowserProofs -------------------------
(***************************************************************************)
(* Theorems about the two parts that keep something outside the process:    *)
(* DesktopHost, which keeps a backend, and BrowserSessions (as Browser),    *)
(* which keeps browser contexts. Nothing is said of the two together.       *)
(*                                                                          *)
(* DesktopHost, for any requests, any size of the pool, and any number of   *)
(* backends started and of deaths. The host's slots (started, child,        *)
(* pending) are written by tasks of old and new backends alike, so nothing  *)
(* is claimed of them. What holds is of one request: from the moment it is  *)
(* registered until its channel is filled it stays in pending, and once     *)
(* written it stays in the hands of a backend until that backend's end has  *)
(* still to be noticed.                                                     *)
(*                                                                          *)
(* BrowserSessions, for any identifiers, callers, time to live and maximum. *)
(* The invariant says who is inside the lock, that every identifier a call  *)
(* holds was given out, and that what cleanup has still to sweep is         *)
(* forgotten: with the lock free, every session has its context.            *)
(***************************************************************************)
EXTENDS DesktopHost, BrowserSessions, FiniteSetTheorems, TLAPS

-----------------------------------------------------------------------------
\* Requests and backends

\* Backends whose end has still to be noticed.
Ending == {"closing", "dead", "unmarked", "dropped"}

Keeps(b, r) ==
    \/ r \in b.inbox \cup b.queued \cup b.running \cup b.replies
    \/ b.state \in Ending

Unanswered(q) == q.pc \in {"registered", "waiting"} /\ q.channel = "empty"
Waits(q) == q.pc = "waiting" /\ q.channel = "empty"

PoolSound(b) == IsFiniteSet(b.running) /\ Cardinality(b.running) <= Workers

IInv ==
    /\ TypeOK
    /\ \A g \in Backends : PoolSound(backend[g])
    /\ \A r \in Requests : Unanswered(request[r]) => r \in pending
    /\ \A r \in Requests : Waits(request[r]) => \E g \in Backends : Keeps(backend[g], r)

USE HostAssumption

-----------------------------------------------------------------------------
\* What the steps change

LEMMA Moved ==
    ASSUME request \in [Requests -> Request], NEW r \in Requests,
           NEW place \in {"starting", "ready", "registered", "waiting",
                          "unwinding", "answered", "terminated", "refused"},
           Goto(r, place)
    PROVE  /\ request' \in [Requests -> Request]
           /\ request'[r].pc = place /\ request'[r].channel = request[r].channel
           /\ \A q \in Requests \ {r} : request'[q] = request[q]
<1>1. request' = [request EXCEPT ![r] = [request[r] EXCEPT !.pc = place]]
  BY DEF Goto
<1>2. /\ [request[r] EXCEPT !.pc = place] \in Request
      /\ [request[r] EXCEPT !.pc = place].pc = place
      /\ [request[r] EXCEPT !.pc = place].channel = request[r].channel
  BY DEF Request
<1>. QED
  BY <1>1, <1>2

\* A step of the host that leaves the backends alone, and makes none wait.
LEMMA HostStep ==
    ASSUME IInv, NEW r \in Requests,
           NEW place \in {"starting", "ready", "registered",
                          "unwinding", "answered", "terminated", "refused"},
           Goto(r, place),
           started' \in BOOLEAN, child' \in Backends \cup {NoChild},
           pending' \subseteq Requests, pending \ {r} \subseteq pending',
           place = "registered" => r \in pending',
           UNCHANGED <<backend, deaths>>
    PROVE  IInv'
<1>1. request \in [Requests -> Request]
  BY DEF IInv, TypeOK
<1>2. /\ request' \in [Requests -> Request] /\ request'[r].pc = place
      /\ \A q \in Requests \ {r} : request'[q] = request[q]
  BY <1>1, Moved
<1>3. TypeOK'
  BY <1>2 DEF IInv, TypeOK
<1>4. \A q \in Requests : Unanswered(request'[q]) => q \in pending'
  BY <1>2 DEF IInv, Unanswered
<1>5. \A q \in Requests : Waits(request'[q]) => q # r /\ request'[q] = request[q]
  BY <1>2 DEF Waits
<1>. QED
  BY <1>3, <1>4, <1>5 DEF IInv

\* A step of a backend and its reading loop that keeps what it holds, or is
\* about to end.
LEMMA BackendStep ==
    ASSUME IInv, NEW g \in Backends, NEW b \in Backend,
           backend' = [backend EXCEPT ![g] = b], PoolSound(b),
           \A r \in Requests : Keeps(backend[g], r) => Keeps(b, r),
           started' \in BOOLEAN, child' \in Backends \cup {NoChild},
           deaths' \in 0..MaxDeaths, UNCHANGED <<pending, request>>
    PROVE  IInv'
<1>1. backend'[g] = b /\ \A h \in Backends \ {g} : backend'[h] = backend[h]
  BY DEF IInv, TypeOK
<1>2. \A h \in Backends : PoolSound(backend'[h])
  BY <1>1 DEF IInv
<1>3. TypeOK'
  BY <1>2 DEF IInv, TypeOK, PoolSound
<1>4. \A r \in Requests, h \in Backends : Keeps(backend[h], r) => Keeps(backend'[h], r)
  BY <1>1
<1>. QED
  BY <1>2, <1>3, <1>4 DEF IInv

LEMMA BackendType ==
    ASSUME IInv, NEW g \in Backends
    PROVE  /\ backend[g] \in Backend /\ PoolSound(backend[g])
           /\ started \in BOOLEAN /\ child \in Backends \cup {NoChild}
           /\ pending \subseteq Requests /\ deaths \in 0..MaxDeaths
           /\ backend \in [Backends -> Backend] /\ request \in [Requests -> Request]
  BY DEF IInv, TypeOK

-----------------------------------------------------------------------------
\* BackendHost.request

LEMMA RequestSteps ==
    ASSUME IInv, NEW r \in Requests,
           \/ AlreadyStarted(r) \/ SpawnFails(r) \/ MarkStarted(r) \/ Register(r)
           \/ WriteFails(r) \/ Unwind(r) \/ Receive(r)
    PROVE  IInv'
<1>1. started \in BOOLEAN /\ child \in Backends \cup {NoChild} /\ pending \subseteq Requests
  BY DEF IInv, TypeOK
<1>2. CASE AlreadyStarted(r) \/ MarkStarted(r)
  BY <1>1, <1>2, HostStep DEF AlreadyStarted, MarkStarted
<1>3. CASE SpawnFails(r) \/ Unwind(r)
  BY <1>1, <1>3, HostStep DEF SpawnFails, Unwind
<1>4. CASE Register(r)
  BY <1>1, <1>4, HostStep DEF Register
<1>5. CASE WriteFails(r)
  BY <1>1, <1>5, HostStep DEF WriteFails, Unregistered
<1>6. CASE Receive(r)
  BY <1>1, <1>6, HostStep DEF Receive
<1>. QED
  BY <1>2, <1>3, <1>4, <1>5, <1>6

LEMMA SpawnStep ==
    ASSUME IInv, NEW r \in Requests, Spawn(r)
    PROVE  IInv'
<1>1. PICK g \in Backends :
        /\ backend' = [backend EXCEPT ![g].state = "alive"]
        /\ backend[g].state = "absent" /\ child' = g
  BY DEF Spawn
<1>2. Goto(r, "starting") /\ UNCHANGED <<started, pending, deaths>>
  BY DEF Spawn
<1>3. backend[g] \in Backend /\ PoolSound(backend[g])
      /\ request \in [Requests -> Request] /\ backend \in [Backends -> Backend]
  BY BackendType
<1> DEFINE b == [backend[g] EXCEPT !.state = "alive"]
<1>4. backend' = [backend EXCEPT ![g] = b]
  BY <1>1
<1>5. /\ b \in Backend /\ b.inbox = backend[g].inbox /\ b.queued = backend[g].queued
      /\ b.running = backend[g].running /\ b.replies = backend[g].replies
  BY <1>3 DEF Backend
<1> HIDE DEF b
<1>6. backend'[g] = b /\ \A h \in Backends \ {g} : backend'[h] = backend[h]
  BY <1>3, <1>4
<1>7. /\ request' \in [Requests -> Request] /\ request'[r].pc = "starting"
      /\ \A q \in Requests \ {r} : request'[q] = request[q]
  BY <1>2, <1>3, Moved
<1>8. \A h \in Backends : PoolSound(backend'[h])
  BY <1>3, <1>5, <1>6 DEF IInv, PoolSound
<1>9. TypeOK'
  BY <1>1, <1>2, <1>3, <1>4, <1>5, <1>7, <1>8 DEF IInv, TypeOK, PoolSound
<1>10. \A q \in Requests : Unanswered(request'[q]) => q \in pending'
  BY <1>2, <1>7 DEF IInv, Unanswered
<1>11. \A q \in Requests, h \in Backends : Keeps(backend[h], q) => Keeps(backend'[h], q)
  BY <1>1, <1>5, <1>6 DEF Keeps, Ending
<1>12. \A q \in Requests : Waits(request'[q]) => Waits(request[q])
  BY <1>7 DEF Waits
<1>. QED
  BY <1>8, <1>9, <1>10, <1>11, <1>12 DEF IInv

\* The request starts to wait: the backend has its line.
LEMMA WriteStep ==
    ASSUME IInv, NEW r \in Requests, Write(r)
    PROVE  IInv'
<1>1. /\ request[r].pc = "registered" /\ child # NoChild /\ Goto(r, "waiting")
      /\ backend' = [backend EXCEPT ![child].inbox = @ \cup {r}]
      /\ UNCHANGED <<started, child, pending, deaths>>
  BY DEF Write, At, Writable
<1>2. child \in Backends
  BY <1>1 DEF IInv, TypeOK
<1>3. backend[child] \in Backend /\ PoolSound(backend[child])
      /\ request \in [Requests -> Request] /\ backend \in [Backends -> Backend]
  BY <1>2, BackendType
<1> DEFINE b == [backend[child] EXCEPT !.inbox = backend[child].inbox \cup {r}]
<1>4. backend' = [backend EXCEPT ![child] = b]
  BY <1>1
<1>5. /\ b \in Backend /\ b.inbox = backend[child].inbox \cup {r}
      /\ b.queued = backend[child].queued /\ b.running = backend[child].running
      /\ b.replies = backend[child].replies /\ b.state = backend[child].state
  BY <1>3 DEF Backend
<1> HIDE DEF b
<1>6. backend'[child] = b /\ \A h \in Backends \ {child} : backend'[h] = backend[h]
  BY <1>2, <1>3, <1>4
<1>7. /\ request' \in [Requests -> Request] /\ request'[r].pc = "waiting"
      /\ request'[r].channel = request[r].channel
      /\ \A q \in Requests \ {r} : request'[q] = request[q]
  BY <1>1, <1>3, Moved
<1>8. \A h \in Backends : PoolSound(backend'[h])
  BY <1>3, <1>5, <1>6 DEF IInv, PoolSound
<1>9. TypeOK'
  BY <1>1, <1>3, <1>4, <1>5, <1>7, <1>8 DEF IInv, TypeOK, PoolSound
<1>10. \A q \in Requests : Unanswered(request'[q]) => q \in pending'
  BY <1>1, <1>7 DEF IInv, Unanswered
<1>11. \A q \in Requests, h \in Backends : Keeps(backend[h], q) => Keeps(backend'[h], q)
  BY <1>5, <1>6 DEF Keeps
<1>12. Keeps(backend'[child], r)
  BY <1>5, <1>6 DEF Keeps
<1>13. \A q \in Requests \ {r} : Waits(request'[q]) => Waits(request[q])
  BY <1>7 DEF Waits
<1>. QED
  BY <1>2, <1>8, <1>9, <1>10, <1>11, <1>12, <1>13 DEF IInv

-----------------------------------------------------------------------------
\* server_loop

LEMMA ReadSteps ==
    ASSUME IInv, NEW g \in Backends, NEW r \in Requests, Read(g, r) \/ Answer(g, r)
    PROVE  IInv'
<1>1. backend[g] \in Backend /\ PoolSound(backend[g]) /\ r \in backend[g].inbox
      /\ started \in BOOLEAN /\ child \in Backends \cup {NoChild} /\ deaths \in 0..MaxDeaths
  BY BackendType DEF Read, Answer
<1>2. UNCHANGED <<started, child, pending, request, deaths>>
  BY DEF Read, Answer, Host
<1>3. CASE Read(g, r)
  <2> DEFINE b == [backend[g] EXCEPT !.inbox = backend[g].inbox \ {r},
                                     !.queued = backend[g].queued \cup {r}]
  <2>1. backend' = [backend EXCEPT ![g] = b]
    BY <1>3 DEF Read
  <2>2. /\ b \in Backend /\ b.inbox = backend[g].inbox \ {r}
        /\ b.queued = backend[g].queued \cup {r} /\ b.running = backend[g].running
        /\ b.replies = backend[g].replies /\ b.state = backend[g].state
    BY <1>1 DEF Backend
  <2> HIDE DEF b
  <2>3. PoolSound(b) /\ \A q \in Requests : Keeps(backend[g], q) => Keeps(b, q)
    BY <1>1, <2>2 DEF PoolSound, Keeps
  <2>. QED
    BY <1>1, <1>2, <2>1, <2>2, <2>3, BackendStep
<1>4. CASE Answer(g, r)
  <2> DEFINE b == [backend[g] EXCEPT !.inbox = backend[g].inbox \ {r},
                                     !.replies = backend[g].replies \cup {r}]
  <2>1. backend' = [backend EXCEPT ![g] = b]
    BY <1>4 DEF Answer
  <2>2. /\ b \in Backend /\ b.inbox = backend[g].inbox \ {r}
        /\ b.queued = backend[g].queued /\ b.running = backend[g].running
        /\ b.replies = backend[g].replies \cup {r} /\ b.state = backend[g].state
    BY <1>1 DEF Backend
  <2> HIDE DEF b
  <2>3. PoolSound(b) /\ \A q \in Requests : Keeps(backend[g], q) => Keeps(b, q)
    BY <1>1, <2>2 DEF PoolSound, Keeps
  <2>. QED
    BY <1>1, <1>2, <2>1, <2>2, <2>3, BackendStep
<1>. QED
  BY <1>3, <1>4

\* One more or one fewer in the pool.
LEMMA PoolGrows ==
    ASSUME NEW S, IsFiniteSet(S), NEW x, Cardinality(S) < Workers
    PROVE  IsFiniteSet(S \cup {x}) /\ Cardinality(S \cup {x}) <= Workers
<1>1. IsFiniteSet(S \cup {x}) /\ Cardinality(S) \in Nat
      /\ Cardinality(S \cup {x}) = IF x \in S THEN Cardinality(S) ELSE Cardinality(S) + 1
  BY FS_AddElement, FS_CardinalityType
<1>. QED
  BY <1>1

LEMMA PoolShrinks ==
    ASSUME NEW S, IsFiniteSet(S), NEW x, Cardinality(S) <= Workers
    PROVE  IsFiniteSet(S \ {x}) /\ Cardinality(S \ {x}) <= Workers
<1>1. IsFiniteSet(S \ {x}) /\ Cardinality(S \ {x}) <= Cardinality(S)
      /\ Cardinality(S) \in Nat /\ Cardinality(S \ {x}) \in Nat
  BY FS_Subset, FS_CardinalityType
<1>. QED
  BY <1>1

LEMMA WorkSteps ==
    ASSUME IInv, NEW g \in Backends, NEW r \in Requests, Work(g, r) \/ Reply(g, r)
    PROVE  IInv'
<1>1. backend[g] \in Backend /\ PoolSound(backend[g])
      /\ started \in BOOLEAN /\ child \in Backends \cup {NoChild} /\ deaths \in 0..MaxDeaths
  BY BackendType
<1>2. UNCHANGED <<started, child, pending, request, deaths>>
  BY DEF Work, Reply, Host
<1>3. CASE Work(g, r)
  <2> DEFINE b == [backend[g] EXCEPT !.queued = backend[g].queued \ {r},
                                     !.running = backend[g].running \cup {r}]
  <2>1. backend' = [backend EXCEPT ![g] = b]
    BY <1>3 DEF Work
  <2>2. /\ b \in Backend /\ b.inbox = backend[g].inbox
        /\ b.queued = backend[g].queued \ {r} /\ b.running = backend[g].running \cup {r}
        /\ b.replies = backend[g].replies /\ b.state = backend[g].state
    BY <1>1 DEF Backend
  <2> HIDE DEF b
  <2>3. PoolSound(b)
    <3>1. IsFiniteSet(backend[g].running) /\ Cardinality(backend[g].running) < Workers
      BY <1>1, <1>3 DEF PoolSound, Work, FreeWorker
    <3>2. /\ IsFiniteSet(backend[g].running \cup {r})
          /\ Cardinality(backend[g].running \cup {r}) <= Workers
      BY <3>1, PoolGrows
    <3>. QED
      BY <2>2, <3>2 DEF PoolSound
  <2>4. \A q \in Requests : Keeps(backend[g], q) => Keeps(b, q)
    BY <2>2 DEF Keeps
  <2>. QED
    BY <1>1, <1>2, <2>1, <2>2, <2>3, <2>4, BackendStep
<1>4. CASE Reply(g, r)
  <2> DEFINE b == [backend[g] EXCEPT !.running = backend[g].running \ {r},
                                     !.replies = backend[g].replies \cup {r}]
  <2>1. backend' = [backend EXCEPT ![g] = b]
    BY <1>4 DEF Reply
  <2>2. /\ b \in Backend /\ b.inbox = backend[g].inbox
        /\ b.queued = backend[g].queued /\ b.running = backend[g].running \ {r}
        /\ b.replies = backend[g].replies \cup {r} /\ b.state = backend[g].state
    BY <1>1 DEF Backend
  <2> HIDE DEF b
  <2>3. PoolSound(b)
    BY <1>1, <2>2, PoolShrinks DEF PoolSound
  <2>4. \A q \in Requests : Keeps(backend[g], q) => Keeps(b, q)
    BY <2>2 DEF Keeps
  <2>. QED
    BY <1>1, <1>2, <2>1, <2>2, <2>3, <2>4, BackendStep
<1>. QED
  BY <1>3, <1>4

\* A backend that ends may forget its requests: its end will be noticed.
LEMMA EndSteps ==
    ASSUME IInv, NEW g \in Backends,
           Close(g) \/ Exit(g) \/ Die(g) \/ Unmark(g) \/ Drop(g)
    PROVE  IInv'
<1>1. backend[g] \in Backend /\ PoolSound(backend[g])
      /\ started \in BOOLEAN /\ child \in Backends \cup {NoChild} /\ deaths \in 0..MaxDeaths
  BY BackendType
<1>2. PoolSound([running |-> {}])
  BY FS_EmptySet DEF PoolSound
<1>3. PICK b \in Backend :
        /\ backend' = [backend EXCEPT ![g] = b]
        /\ b.state \in Ending
        /\ b.running \in {backend[g].running, {}}
  <2>1. CASE Close(g)
    <3> DEFINE b == [backend[g] EXCEPT !.state = "closing", !.queued = {}]
    <3>1. backend' = [backend EXCEPT ![g] = b]
      BY <2>1 DEF Close
    <3>2. b \in Backend /\ b.state = "closing" /\ b.running = backend[g].running
      BY <1>1 DEF Backend
    <3>. QED
      BY <3>1, <3>2 DEF Ending
  <2>2. CASE Exit(g) \/ Unmark(g) \/ Drop(g)
    <3>1. PICK s \in {"dead", "unmarked", "dropped"} :
            backend' = [backend EXCEPT ![g] = [backend[g] EXCEPT !.state = s]]
      BY <2>2 DEF Exit, Unmark, Drop
    <3> DEFINE b == [backend[g] EXCEPT !.state = s]
    <3>2. b \in Backend /\ b.state = s /\ b.running = backend[g].running
      BY <1>1 DEF Backend
    <3>. QED
      BY <3>1, <3>2 DEF Ending
  <2>3. CASE Die(g)
    <3> DEFINE b == [backend[g] EXCEPT !.state = "dead", !.inbox = {},
                                       !.queued = {}, !.running = {}]
    <3>1. backend' = [backend EXCEPT ![g] = b]
      BY <2>3 DEF Die
    <3>2. b \in Backend /\ b.state = "dead" /\ b.running = {}
      BY <1>1 DEF Backend
    <3>. QED
      BY <3>1, <3>2 DEF Ending
  <2>. QED
    BY <2>1, <2>2, <2>3
<1>4. PoolSound(b) /\ \A r \in Requests : Keeps(b, r)
  BY <1>1, <1>2, <1>3 DEF PoolSound, Keeps
<1>5. /\ started' \in BOOLEAN /\ child' \in Backends \cup {NoChild}
      /\ deaths' \in 0..MaxDeaths /\ UNCHANGED <<pending, request>>
  <2>1. Die(g) => deaths + 1 \in 0..MaxDeaths
    BY <1>1 DEF Die
  <2>. QED
    BY <1>1, <2>1 DEF Close, Exit, Die, Unmark, Drop, Host
<1>. QED
  BY <1>3, <1>4, <1>5, BackendStep

-----------------------------------------------------------------------------
\* The task that receives a backend's events

LEMMA FilledType ==
    ASSUME request \in [Requests -> Request], NEW rs,
           NEW what \in {"reply", "terminated"}, Filled(rs, what)
    PROVE  /\ request' \in [Requests -> Request]
           /\ \A q \in Requests \ rs : request'[q] = request[q]
           /\ \A q \in Requests \cap rs :
                request'[q].channel = what /\ request'[q].pc = request[q].pc
<1>1. \A q \in Requests :
        LET f == [request[q] EXCEPT !.channel = what] IN
        f \in Request /\ f.channel = what /\ f.pc = request[q].pc
  BY DEF Request
<1>. QED
  BY <1>1 DEF Filled

\* Who is answered waits no more; who is not keeps its place.
LEMMA RouteStep ==
    ASSUME IInv, NEW g \in Backends, NEW r \in Requests, Route(g, r)
    PROVE  IInv'
<1>1. /\ backend[g] \in Backend /\ PoolSound(backend[g])
      /\ backend \in [Backends -> Backend] /\ request \in [Requests -> Request]
      /\ UNCHANGED <<started, child, deaths>> /\ pending' = pending \ {r}
      /\ Filled({r} \cap pending, "reply")
  BY BackendType DEF Route
<1> DEFINE b == [backend[g] EXCEPT !.replies = backend[g].replies \ {r}]
<1>2. backend' = [backend EXCEPT ![g] = b]
  BY DEF Route
<1>3. /\ b \in Backend /\ b.inbox = backend[g].inbox /\ b.queued = backend[g].queued
      /\ b.running = backend[g].running /\ b.replies = backend[g].replies \ {r}
      /\ b.state = backend[g].state
  BY <1>1 DEF Backend
<1> HIDE DEF b
<1>4. backend'[g] = b /\ \A h \in Backends \ {g} : backend'[h] = backend[h]
  BY <1>1, <1>2
<1>5. /\ request' \in [Requests -> Request]
      /\ \A q \in Requests \ ({r} \cap pending) : request'[q] = request[q]
      /\ r \in pending => request'[r].channel = "reply"
  BY <1>1, FilledType
<1>6. \A h \in Backends : PoolSound(backend'[h])
  BY <1>1, <1>3, <1>4 DEF IInv, PoolSound
<1>7. TypeOK'
  BY <1>1, <1>2, <1>3, <1>5, <1>6 DEF IInv, TypeOK, PoolSound
<1>8. \A q \in Requests : Unanswered(request'[q]) => q # r /\ request'[q] = request[q]
  BY <1>5 DEF IInv, Unanswered
<1>9. \A q \in Requests : Unanswered(request'[q]) => q \in pending'
  BY <1>1, <1>8 DEF IInv
<1>10. \A q \in Requests \ {r}, h \in Backends :
         Keeps(backend[h], q) => Keeps(backend'[h], q)
  BY <1>3, <1>4 DEF Keeps
<1>11. \A q \in Requests : Waits(request'[q]) => q # r /\ Waits(request[q])
  BY <1>8 DEF Waits, Unanswered
<1>. QED
  BY <1>6, <1>7, <1>9, <1>10, <1>11 DEF IInv

\* All that wait are in pending, and are answered now.
LEMMA DrainStep ==
    ASSUME IInv, NEW g \in Backends, Drain(g)
    PROVE  IInv'
<1>1. /\ backend[g] \in Backend /\ PoolSound(backend[g])
      /\ backend \in [Backends -> Backend] /\ request \in [Requests -> Request]
      /\ UNCHANGED <<started, child, deaths>> /\ pending' = pending \ pending
      /\ Filled(pending, "terminated")
  BY BackendType DEF Drain, Drained
<1> DEFINE b == [backend[g] EXCEPT !.state = "gone"]
<1>2. backend' = [backend EXCEPT ![g] = b]
  BY DEF Drain
<1>3. b \in Backend /\ b.running = backend[g].running
  BY <1>1 DEF Backend
<1> HIDE DEF b
<1>4. backend'[g] = b /\ \A h \in Backends \ {g} : backend'[h] = backend[h]
  BY <1>1, <1>2
<1>5. /\ request' \in [Requests -> Request]
      /\ \A q \in Requests \ pending : request'[q] = request[q]
      /\ \A q \in Requests \cap pending : request'[q].channel = "terminated"
  BY <1>1, FilledType
<1>6. \A h \in Backends : PoolSound(backend'[h])
  BY <1>1, <1>3, <1>4 DEF IInv, PoolSound
<1>7. TypeOK'
  BY <1>1, <1>2, <1>3, <1>5, <1>6 DEF IInv, TypeOK, PoolSound
<1>8. \A q \in Requests : ~Unanswered(request'[q])
  BY <1>5 DEF IInv, Unanswered
<1>9. \A q \in Requests : ~Waits(request'[q])
  BY <1>8 DEF Waits, Unanswered
<1>. QED
  BY <1>6, <1>7, <1>8, <1>9 DEF IInv

-----------------------------------------------------------------------------

LEMMA InitIInv == Init => IInv
<1> SUFFICES ASSUME Init PROVE IInv
  OBVIOUS
<1>1. \A g \in Backends : PoolSound(backend[g])
  <2>1. \A g \in Backends : backend[g].running = {}
    BY DEF Init
  <2>2. IsFiniteSet({}) /\ Cardinality({}) = 0
    BY FS_EmptySet
  <2>. QED
    BY <2>1, <2>2 DEF PoolSound
<1>2. TypeOK
  <2>1. backend \in [Backends -> Backend] /\ request \in [Requests -> Request]
    BY DEF Init, Request, Backend
  <2>2. started \in BOOLEAN /\ child \in Backends \cup {NoChild} /\ pending \subseteq Requests
    BY DEF Init
  <2>3. deaths \in 0..MaxDeaths
    BY DEF Init
  <2>. QED
    BY <1>1, <2>1, <2>2, <2>3 DEF TypeOK, PoolSound
<1>3. \A r \in Requests : ~Unanswered(request[r]) /\ ~Waits(request[r])
  BY DEF Init, Unanswered, Waits
<1>. QED
  BY <1>1, <1>2, <1>3 DEF IInv

LEMMA NextIInv == IInv /\ [Next]_vars => IInv'
<1> SUFFICES ASSUME IInv, [Next]_vars PROVE IInv'
  OBVIOUS
<1>1. ASSUME NEW r \in Requests,
             AlreadyStarted(r) \/ Spawn(r) \/ SpawnFails(r) \/ Continue(r)
      PROVE  IInv'
  BY <1>1, RequestSteps, SpawnStep, WriteStep DEF Continue
<1>2. ASSUME NEW g \in Backends, Serve(g) \/ Notice(g) \/ Die(g)
      PROVE  IInv'
  BY <1>2, ReadSteps, WorkSteps, EndSteps, RouteStep, DrainStep DEF Serve, Notice
<1>3. CASE UNCHANGED vars
  BY <1>3 DEF vars, IInv, TypeOK
<1>. QED
  BY <1>1, <1>2, <1>3 DEF Next

LEMMA Invariance == Spec => []IInv
<1>. QED
  BY InitIInv, NextIInv, PTL DEF Spec

-----------------------------------------------------------------------------

\* The host's slots and the backends keep their types, and no backend's pool
\* runs more requests than it has threads.
THEOREM TypeCorrect == Spec => []TypeOK
<1>1. IInv => TypeOK
  BY DEF IInv
<1>. QED
  BY <1>1, Invariance, PTL

\* However calls, replies and deaths of old and new backends interleave, a
\* request that waits is registered, and a backend has it or an end has still
\* to be noticed that will answer it.
THEOREM WaitersStayHeld == Spec => []WaitersAreHeld
<1>1. IInv => WaitersAreHeld
  <2> SUFFICES ASSUME IInv, NEW r \in Requests, At(r, "waiting"), request[r].channel = "empty"
               PROVE  /\ r \in pending
                      /\ \E g \in Backends : r \in Holds(g) \/ backend[g].state \in Ending
    BY DEF WaitersAreHeld, Ending
  <2>1. Unanswered(request[r]) /\ Waits(request[r])
    BY DEF At, Unanswered, Waits
  <2>. QED
    BY <2>1 DEF IInv, Keeps, Holds
<1>. QED
  BY <1>1, Invariance, PTL

-----------------------------------------------------------------------------
\* A call is answered once

\* Only who waits unanswered is registered, and nobody is answered before that.
PendingExact ==
    /\ \A r \in pending : Unanswered(request[r])
    /\ \A r \in Requests :
         request[r].pc \in {"new", "starting", "ready"} => request[r].channel = "empty"

AnswersStay ==
    \A r \in Requests :
        /\ request[r].channel # "empty" => request'[r].channel = request[r].channel
        /\ request[r].pc \in {"answered", "terminated", "refused"} => request'[r] = request[r]

\* A call that moves on keeps what its channel holds.
LEMMA CallMoves ==
    ASSUME IInv, PendingExact, NEW r \in Requests,
           NEW place \in {"starting", "ready", "registered", "waiting",
                          "unwinding", "answered", "terminated", "refused"},
           Goto(r, place),
           request[r].pc \notin {"answered", "terminated", "refused"},
           pending' \ {r} \subseteq pending,
           r \in pending' => place \in {"registered", "waiting"} /\ request[r].channel = "empty",
           place \in {"starting", "ready"} => request[r].channel = "empty"
    PROVE  PendingExact' /\ AnswersStay
<1>1. request \in [Requests -> Request] /\ pending \subseteq Requests
  BY DEF IInv, TypeOK
<1>2. /\ request'[r].pc = place /\ request'[r].channel = request[r].channel
      /\ \A q \in Requests \ {r} : request'[q] = request[q]
  BY <1>1, Moved
<1>3. AnswersStay
  BY <1>2 DEF AnswersStay
<1>4. \A q \in pending' : Unanswered(request'[q])
  BY <1>1, <1>2 DEF PendingExact, Unanswered
<1>5. \A q \in Requests :
        request'[q].pc \in {"new", "starting", "ready"} => request'[q].channel = "empty"
  BY <1>2 DEF PendingExact
<1>. QED
  BY <1>3, <1>4, <1>5 DEF PendingExact

\* An answer goes to calls that have none.
LEMMA CallsFilled ==
    ASSUME IInv, PendingExact, NEW rs, rs \subseteq pending, pending' = pending \ rs,
           NEW what \in {"reply", "terminated"}, Filled(rs, what)
    PROVE  PendingExact' /\ AnswersStay
<1>1. request \in [Requests -> Request] /\ pending \subseteq Requests
  BY DEF IInv, TypeOK
<1>2. /\ \A q \in Requests \ rs : request'[q] = request[q]
      /\ \A q \in Requests \cap rs : request'[q].pc = request[q].pc
  BY <1>1, FilledType
<1>3. \A q \in rs : q \in Requests /\ Unanswered(request[q])
  BY <1>1 DEF PendingExact
<1>4. AnswersStay
  BY <1>2, <1>3 DEF AnswersStay, Unanswered
<1>5. \A q \in pending' : Unanswered(request'[q])
  BY <1>1, <1>2 DEF PendingExact
<1>6. \A q \in Requests :
        request'[q].pc \in {"new", "starting", "ready"} => request'[q].channel = "empty"
  BY <1>2, <1>3 DEF PendingExact, Unanswered
<1>. QED
  BY <1>4, <1>5, <1>6 DEF PendingExact

LEMMA CallStep ==
    ASSUME IInv, PendingExact, NEW r \in Requests,
           AlreadyStarted(r) \/ Spawn(r) \/ SpawnFails(r) \/ Continue(r)
    PROVE  PendingExact' /\ AnswersStay
<1>1. r \in pending => request[r].pc \in {"registered", "waiting"} /\ request[r].channel = "empty"
  BY DEF PendingExact, Unanswered
<1>2. request[r].pc \in {"new", "starting", "ready"} => request[r].channel = "empty"
  BY DEF PendingExact
<1>3. CASE AlreadyStarted(r) \/ MarkStarted(r)
  BY <1>1, <1>2, <1>3, CallMoves DEF AlreadyStarted, MarkStarted, At
<1>4. CASE Spawn(r)
  BY <1>1, <1>2, <1>4, CallMoves DEF Spawn, At
<1>5. CASE SpawnFails(r) \/ Unwind(r)
  BY <1>1, <1>5, CallMoves DEF SpawnFails, Unwind, At
<1>6. CASE Register(r)
  BY <1>2, <1>6, CallMoves DEF Register, At
<1>7. CASE Write(r)
  BY <1>1, <1>7, CallMoves DEF Write, At
<1>8. CASE WriteFails(r)
  BY <1>8, CallMoves DEF WriteFails, Unregistered, At
<1>9. CASE Receive(r)
  BY <1>1, <1>9, CallMoves DEF Receive, At
<1>. QED
  BY <1>3, <1>4, <1>5, <1>6, <1>7, <1>8, <1>9 DEF Continue

LEMMA CallsAnsweredOnce ==
    ASSUME IInv, PendingExact, [Next]_vars
    PROVE  PendingExact' /\ [AnswersStay]_request
<1>1. ASSUME NEW g \in Backends, NEW r \in Requests, Route(g, r)
      PROVE  PendingExact' /\ AnswersStay
  <2>1. /\ Filled({r} \cap pending, "reply") /\ pending' = pending \ ({r} \cap pending)
        /\ {r} \cap pending \subseteq pending
    BY <1>1 DEF Route
  <2>. QED
    BY <2>1, CallsFilled
<1>2. ASSUME NEW g \in Backends, Drain(g)
      PROVE  PendingExact' /\ AnswersStay
  BY <1>2, CallsFilled DEF Drain, Drained
<1>3. CASE UNCHANGED <<pending, request>>
  BY <1>3 DEF PendingExact
<1>4. CASE \E g \in Backends : Serve(g) \/ Die(g) \/ Unmark(g) \/ Drop(g)
  BY <1>3, <1>4 DEF Serve, Read, Answer, Work, Reply, Close, Exit, Die, Unmark, Drop, Host
<1>5. CASE UNCHANGED vars
  BY <1>3, <1>5 DEF vars
<1>. QED
  BY <1>1, <1>2, <1>4, <1>5, CallStep DEF Next, Notice

\* A call is answered once: what its channel holds is not overwritten, by a
\* second reply or by the end of a backend that drains what waits, and a call
\* that has returned is not touched again.
THEOREM AnsweredOnce == Spec => [][AnswersStay]_request
<1>1. Init => PendingExact
  BY DEF Init, PendingExact
<1>2. IInv /\ PendingExact /\ [Next]_vars => PendingExact' /\ [AnswersStay]_request
  BY CallsAnsweredOnce
<1>. QED
  BY <1>1, <1>2, Invariance, PTL DEF Spec

-----------------------------------------------------------------------------
\* Browser sessions

HIDE HostAssumption

\* The places of a call that holds the runtime's lock, and those of them at
\* which its session may be without a context.
Inside == {"open", "opened", "goto", "settle", "return", "abandon", "forget"}
Blind == {"open", "abandon", "forget"}

Local == Holding \cup Sweeping \cup {Idle}

SessionsSound(f) ==
    /\ f \in [DOMAIN f -> Time] /\ DOMAIN f \subseteq Ids
    /\ IsFiniteSet(DOMAIN f) /\ Cardinality(DOMAIN f) <= Maximum

\* k is what caller c is doing.
CallSound(c, k) ==
    /\ k.pc \in Inside <=> lock = c
    /\ k.pc \in Inside => k.id \in issued
    /\ k.pc = "sweep" => k.ids \cap DOMAIN sessions = {} /\ k.ids \subseteq issued

BrowserInv ==
    /\ SessionsSound(sessions)
    /\ DOMAIN sessions \subseteq issued
    /\ live \subseteq Ids /\ issued \subseteq Ids /\ known \subseteq issued
    /\ lock \in Callers \cup {Free}
    /\ call \in [Callers -> Local]
    /\ now \in Time
    /\ \A c \in Callers : CallSound(c, call[c])
    /\ SessionsHaveContexts

-----------------------------------------------------------------------------

LEMMA BrowserConstants ==
    /\ TTL \in Nat /\ Maximum \in Nat \ {0} /\ MaxTime \in Nat
    /\ Free \notin Callers
  BY BrowserAssumption

LEMMA StampIsTime ==
    ASSUME NEW stamp \in Stamps
    PROVE  stamp \in Time
  BY DEF Stamps

LEMMA LocalTypes ==
    ASSUME NEW k \in Local
    PROVE  /\ k.pc \in Inside => k \in Holding
           /\ k.pc = "sweep" => k \in Sweeping
           /\ k = Idle => k.pc = "idle"
  BY DEF Local, Inside, Holding, Sweeping, Idle

\* A caller goes on, or its call ends.
LEMMA Onward ==
    ASSUME BrowserInv, NEW c \in Callers, call[c].pc \in Inside,
           NEW place \in Inside, GotoPlace(c, place)
    PROVE  LET k == [call[c] EXCEPT !.pc = place] IN
           /\ k \in Local /\ call' = [call EXCEPT ![c] = k]
           /\ k.pc = place /\ k.id = call[c].id /\ k.creating = call[c].creating
<1>1. call[c] \in Holding
  BY LocalTypes DEF BrowserInv
<1>. QED
  BY <1>1 DEF GotoPlace, Holding, Inside, Local

\* What a step of one caller has to keep.
LEMMA BrowserStep ==
    ASSUME BrowserInv, NEW c \in Callers, NEW k \in Local,
           call' = [call EXCEPT ![c] = k],
           SessionsSound(sessions'), DOMAIN sessions' \subseteq issued',
           (DOMAIN sessions' \ DOMAIN sessions) \cap issued = {},
           live' \subseteq Ids,
           issued \subseteq issued', issued' \subseteq Ids, known' \subseteq issued',
           \/ lock' = lock
           \/ lock = Free /\ lock' = c
           \/ lock = c /\ lock' = Free,
           CallSound(c, call[c])',
           UNCHANGED now, SessionsHaveContexts'
    PROVE  BrowserInv'
<1>1. /\ call' \in [Callers -> Local] /\ call'[c] = k
      /\ \A d \in Callers \ {c} : call'[d] = call[d]
  BY DEF BrowserInv
<1>2. lock' \in Callers \cup {Free}
  BY DEF BrowserInv
<1>3. ASSUME NEW d \in Callers \ {c}
      PROVE  CallSound(d, call[d])'
  <2>1. CallSound(d, call[d]) /\ call'[d] = call[d]
    BY <1>1 DEF BrowserInv
  <2>2. lock' = d <=> lock = d
    BY BrowserConstants
  <2>. QED
    BY <2>1, <2>2 DEF CallSound
<1>. QED
  BY <1>1, <1>2, <1>3 DEF BrowserInv

-----------------------------------------------------------------------------
\* What the manager does to its sessions

LEMMA Shrinks ==
    ASSUME BrowserInv, NEW ids
    PROVE  LET f == Without(ids) IN
           SessionsSound(f) /\ DOMAIN f = DOMAIN sessions \ ids
<1> DEFINE S == DOMAIN sessions \ ids
           f == [x \in S |-> sessions[x]]
<1>1. Without(ids) = f
  BY DEF Without, Active, Restrict
<1>2. SessionsSound(sessions)
  BY DEF BrowserInv
<1>3. /\ IsFiniteSet(S) /\ Cardinality(S) <= Cardinality(DOMAIN sessions)
      /\ Cardinality(DOMAIN sessions) \in Nat /\ Cardinality(S) \in Nat
  BY <1>2, FS_Subset, FS_CardinalityType DEF SessionsSound
<1>4. Cardinality(S) <= Maximum
  BY <1>2, <1>3, BrowserConstants DEF SessionsSound
<1>5. SessionsSound(f)
  BY <1>2, <1>3, <1>4 DEF SessionsSound
<1>. QED
  BY <1>1, <1>5

LEMMA Touched ==
    ASSUME BrowserInv, NEW id \in DOMAIN sessions, NEW stamp \in Stamps
    PROVE  LET f == With(id, stamp) IN
           SessionsSound(f) /\ DOMAIN f = DOMAIN sessions
<1> DEFINE f == [i \in DOMAIN sessions |-> IF i = id THEN stamp ELSE sessions[i]]
<1>1. DOMAIN sessions \cup {id} = DOMAIN sessions
  OBVIOUS
<1>2. With(id, stamp) = f
  BY <1>1 DEF With, Active
<1>3. SessionsSound(f)
  BY StampIsTime DEF BrowserInv, SessionsSound
<1>. QED
  BY <1>2, <1>3

\* get and navigate put no session back: they find it, or forget it.
LEMMA FoundOrForgotten ==
    ASSUME BrowserInv, NEW id, NEW stamp \in Stamps,
           NEW f, f = IF Missing(id, stamp) THEN Without({id})
                      ELSE With(id, stamp)
    PROVE  SessionsSound(f) /\ DOMAIN f \subseteq DOMAIN sessions
<1>1. CASE Missing(id, stamp)
  BY <1>1, Shrinks
<1>2. CASE ~Missing(id, stamp)
  BY <1>2, Touched DEF Missing, Active
<1>. QED
  BY <1>1, <1>2

\* create makes room for the one session it adds.
LEMMA Created ==
    ASSUME BrowserInv, NEW id \in Ids \ issued,
           NEW stamp \in Stamps, NEW out \in Evictions(stamp)
    PROVE  LET f == [i \in (DOMAIN sessions \ out) \cup {id} |->
                       IF i = id THEN stamp ELSE sessions[i]]
           IN  SessionsSound(f)
<1> DEFINE A == DOMAIN sessions
           L == A \ ExpiredAt(stamp)
           S == A \ out
           f == [i \in S \cup {id} |-> IF i = id THEN stamp ELSE sessions[i]]
<1>1. /\ SessionsSound(sessions) /\ IsFiniteSet(A) /\ Cardinality(A) <= Maximum
      /\ id \notin A /\ stamp \in Time
  BY StampIsTime DEF BrowserInv, SessionsSound
<1>2. /\ IsFiniteSet(L) /\ Cardinality(L) \in Nat /\ Cardinality(L) <= Maximum
  BY <1>1, FS_Subset, FS_CardinalityType, BrowserConstants
<1>3. IsFiniteSet(S) /\ Cardinality(S) \in Nat /\ Cardinality(S) < Maximum
  <2>1. CASE Overfull(L)
    <3>1. PICK i \in L : out = ExpiredAt(stamp) \cup {i}
      BY <2>1 DEF Evictions, LeastUsed, Active
    <3>2. S = L \ {i}
      BY <3>1
    <3>3. IsFiniteSet(S) /\ Cardinality(S) = Cardinality(L) - 1
      BY <1>2, <3>1, <3>2, FS_RemoveElement
    <3> HIDE DEF S, L
    <3>. QED
      BY <1>2, <3>3, FS_CardinalityType, BrowserConstants
  <2>2. CASE ~Overfull(L)
    <3>1. out = ExpiredAt(stamp)
      BY <2>2 DEF Evictions, Active
    <3>2. S = L
      BY <3>1
    <3>3. ~(Cardinality(L) >= Maximum)
      BY <2>2 DEF Overfull
    <3> HIDE DEF S, L
    <3>. QED
      BY <1>2, <3>2, <3>3, BrowserConstants
  <2>. QED
    BY <2>1, <2>2
<1>4. IsFiniteSet(S \cup {id}) /\ Cardinality(S \cup {id}) <= Maximum
  <2>1. id \notin S
    BY <1>1
  <2>2. IsFiniteSet(S \cup {id}) /\ Cardinality(S \cup {id}) = Cardinality(S) + 1
    BY <1>3, <2>1, FS_AddElement
  <2>. QED
    BY <1>3, <2>2, BrowserConstants
<1>5. S \subseteq A /\ DOMAIN f = S \cup {id}
  OBVIOUS
<1>6. f \in [S \cup {id} -> Time] /\ S \cup {id} \subseteq Ids
  BY <1>1, <1>5 DEF SessionsSound
<1>7. SessionsSound(f)
  <2> HIDE DEF S, f
  <2>. QED
    BY <1>4, <1>5, <1>6 DEF SessionsSound
<1>8. f = [i \in (DOMAIN sessions \ out) \cup {id} |-> IF i = id THEN stamp ELSE sessions[i]]
  OBVIOUS
<1>. QED
  BY <1>7, <1>8

-----------------------------------------------------------------------------
\* Contexts

\* All sessions have contexts, but for the one that the holder of the lock is
\* opening or closing.
LEMMA Contexts ==
    ASSUME BrowserInv
    PROVE  /\ lock = Free => DOMAIN sessions \subseteq live
           /\ \A c \in Callers : call[c].pc \in Inside =>
                /\ lock = c /\ call[c] \in Holding
                /\ call[c].id \in Ids /\ call[c].id \in issued
                /\ call[c].creating \in BOOLEAN
                /\ DOMAIN sessions \ {call[c].id} \subseteq live
                /\ call[c].pc \notin Blind => DOMAIN sessions \subseteq live
<1>1. lock = Free => DOMAIN sessions \subseteq live
  BY DEF BrowserInv, SessionsHaveContexts, Active
<1>2. ASSUME NEW c \in Callers, call[c].pc \in Inside
      PROVE  /\ lock = c /\ call[c] \in Holding
             /\ call[c].id \in Ids /\ call[c].id \in issued
             /\ call[c].creating \in BOOLEAN
             /\ DOMAIN sessions \ {call[c].id} \subseteq live
             /\ call[c].pc \notin Blind => DOMAIN sessions \subseteq live
  <2>1. /\ lock = c /\ lock # Free /\ call[c].id \in issued
        /\ call[c] \in Holding
    BY <1>2, LocalTypes, BrowserConstants DEF BrowserInv, CallSound
  <2>2. call[c].id \in Ids /\ call[c].creating \in BOOLEAN
    BY <2>1 DEF Holding
  <2>. QED
    BY <2>1, <2>2 DEF BrowserInv, SessionsHaveContexts, Active, Blind
<1>. QED
  BY <1>1, <1>2

\* The holder of the lock goes on, its session may be left without a context
\* only at the places where it is being opened or closed.
LEMMA HolderGoesOn ==
    ASSUME BrowserInv, NEW c \in Callers,
           call[c].pc \in Inside, NEW place \in Inside, GotoPlace(c, place),
           SessionsSound(sessions'), DOMAIN sessions' \subseteq DOMAIN sessions,
           live' \subseteq Ids, live \ {call[c].id} \subseteq live',
           place \notin Blind => DOMAIN sessions' \subseteq live',
           known' \subseteq issued, UNCHANGED <<issued, lock, now>>
    PROVE  BrowserInv'
<1> DEFINE k == [call[c] EXCEPT !.pc = place]
<1>1. /\ k \in Local /\ call' = [call EXCEPT ![c] = k] /\ k.pc = place /\ k.id = call[c].id
  BY Onward
<1>2. /\ lock = c /\ lock # Free /\ call[c].id \in issued
      /\ DOMAIN sessions \ {call[c].id} \subseteq live
  BY Contexts, BrowserConstants
<1>3. call'[c] = k
  BY <1>1 DEF BrowserInv
<1> HIDE DEF k
<1>4. CallSound(c, call[c])'
  BY <1>1, <1>2, <1>3 DEF CallSound, Inside
<1>5. SessionsHaveContexts'
  <2> SUFFICES ASSUME NEW id \in DOMAIN sessions', id \notin live'
               PROVE  id = call[c].id /\ place \in Blind
    BY <1>1, <1>2, <1>3 DEF SessionsHaveContexts, Active, Blind
  <2>. QED
    BY <1>2
<1>. QED
  BY <1>1, <1>4, <1>5, BrowserStep DEF BrowserInv

\* The holder of the lock lets it go: all sessions have contexts then.
LEMMA HolderReturns ==
    ASSUME BrowserInv, NEW c \in Callers,
           call[c].pc \in Inside, Release(c),
           SessionsSound(sessions'), DOMAIN sessions' \subseteq DOMAIN sessions,
           DOMAIN sessions' \subseteq live,
           known' \subseteq issued, UNCHANGED <<live, issued, now>>
    PROVE  BrowserInv'
<1>1. /\ call' = [call EXCEPT ![c] = Idle] /\ lock' = Free /\ lock = c
      /\ Idle \in Local /\ Idle.pc = "idle"
  BY Contexts DEF Release, Local, Idle
<1>2. call'[c] = Idle
  BY <1>1 DEF BrowserInv
<1>3. CallSound(c, call[c])'
  BY <1>1, <1>2, BrowserConstants DEF CallSound, Inside
<1>4. SessionsHaveContexts'
  BY DEF SessionsHaveContexts, Active
<1>. QED
  BY <1>1, <1>3, <1>4, BrowserStep DEF BrowserInv

\* An exception: the holder returns, or gives up the session it was creating.
LEMMA HolderRaises ==
    ASSUME BrowserInv, NEW c \in Callers,
           call[c].pc \in Inside, Raise(c),
           SessionsSound(sessions'), DOMAIN sessions' \subseteq DOMAIN sessions,
           DOMAIN sessions' \subseteq live, UNCHANGED <<live, issued, known, now>>
    PROVE  BrowserInv'
<1>1. known \subseteq issued /\ live \subseteq Ids
  BY DEF BrowserInv
<1>2. CASE call[c].creating
  <2>1. GotoPlace(c, "abandon") /\ UNCHANGED lock
    BY <1>2 DEF Raise
  <2>. QED
    BY <1>1, <2>1, HolderGoesOn DEF Inside, Blind
<1>3. CASE ~call[c].creating
  BY <1>1, <1>3, HolderReturns DEF Raise
<1>. QED
  BY <1>2, <1>3

-----------------------------------------------------------------------------
\* The steps

\* No step puts a session back that the manager has forgotten.
NoneBack == (DOMAIN sessions' \ DOMAIN sessions) \cap issued = {}

LEMMA CreateStep ==
    ASSUME BrowserInv, NEW c \in Callers, Create(c)
    PROVE  BrowserInv' /\ NoneBack
<1>1. PICK id \in Ids \ issued, stamp \in Stamps :
        \E out \in Evictions(stamp) :
          /\ Acquire(c, [pc |-> "open", id |-> id, creating |-> TRUE])
          /\ issued' = issued \cup {id}
          /\ sessions' = [i \in (DOMAIN sessions \ out) \cup {id} |->
                            IF i = id THEN stamp ELSE sessions[i]]
          /\ UNCHANGED <<live, known, now>>
  BY DEF Create, Active
<1>2. PICK out \in Evictions(stamp) :
        /\ Acquire(c, [pc |-> "open", id |-> id, creating |-> TRUE])
        /\ issued' = issued \cup {id}
        /\ sessions' = [i \in (DOMAIN sessions \ out) \cup {id} |->
                          IF i = id THEN stamp ELSE sessions[i]]
        /\ UNCHANGED <<live, known, now>>
  BY <1>1
<1> DEFINE k == [pc |-> "open", id |-> id, creating |-> TRUE]
<1>3. /\ k \in Local /\ k.pc = "open" /\ k.id = id
      /\ call' = [call EXCEPT ![c] = k] /\ lock = Free /\ lock' = c
  BY <1>2 DEF Acquire, Local, Holding
<1>4. call'[c] = k
  BY <1>3 DEF BrowserInv
<1> HIDE DEF k
<1>5. SessionsSound(sessions')
  BY <1>2, Created
<1>6. /\ DOMAIN sessions' \subseteq DOMAIN sessions \cup {id} /\ DOMAIN sessions \subseteq issued
      /\ issued \subseteq Ids /\ known \subseteq issued /\ live \subseteq Ids
  BY <1>2 DEF BrowserInv
<1>7. NoneBack /\ DOMAIN sessions' \subseteq issued'
  BY <1>2, <1>6 DEF NoneBack
<1>8. CallSound(c, call[c])'
  BY <1>2, <1>3, <1>4 DEF CallSound, Inside
<1>9. SessionsHaveContexts'
  BY <1>2, <1>3, <1>4, <1>6, Contexts, BrowserConstants
     DEF SessionsHaveContexts, Active
<1>. QED
  BY <1>2, <1>3, <1>5, <1>6, <1>7, <1>8, <1>9, BrowserStep DEF NoneBack

\* navigate and close begin: nothing but the lock changes.
LEMMA EnterSteps ==
    ASSUME BrowserInv, NEW c \in Callers, NEW id \in known,
           Navigate(c, id) \/ CloseSession(c, id)
    PROVE  BrowserInv' /\ NoneBack
<1>1. PICK place \in {"opened", "abandon"} :
        Acquire(c, [pc |-> place, id |-> id, creating |-> FALSE])
  BY DEF Navigate, CloseSession
<1>2. UNCHANGED <<sessions, live, issued, known, now>>
  BY DEF Navigate, CloseSession
<1> DEFINE k == [pc |-> place, id |-> id, creating |-> FALSE]
<1>3. /\ SessionsSound(sessions) /\ DOMAIN sessions \subseteq issued
      /\ live \subseteq Ids /\ issued \subseteq Ids /\ known \subseteq issued
      /\ id \in issued /\ id \in Ids
  BY DEF BrowserInv
<1>4. /\ k \in Local /\ k.pc = place /\ k.id = id
      /\ call' = [call EXCEPT ![c] = k] /\ lock = Free /\ lock' = c
  BY <1>1, <1>3 DEF Acquire, Local, Holding
<1>5. call'[c] = k
  BY <1>4 DEF BrowserInv
<1> HIDE DEF k
<1>6. CallSound(c, call[c])'
  BY <1>2, <1>3, <1>4, <1>5 DEF CallSound, Inside
<1>7. SessionsHaveContexts'
  BY <1>2, <1>4, Contexts DEF SessionsHaveContexts, Active
<1>. QED
  BY <1>2, <1>3, <1>4, <1>6, <1>7, BrowserStep DEF NoneBack

LEMMA OpenSteps ==
    ASSUME BrowserInv, NEW c \in Callers,
           Open(c) \/ OpenFails(c)
    PROVE  BrowserInv' /\ NoneBack
<1>1. /\ SessionsSound(sessions) /\ live \subseteq Ids /\ known \subseteq issued
      /\ UNCHANGED <<sessions, issued, known, lock, now>>
      /\ call[c].pc \in Inside
  BY DEF BrowserInv, Open, OpenFails, AtPlace, Inside
<1>2. CASE Open(c)
  <2>1. PICK place \in {"opened", "return"} : GotoPlace(c, place)
    BY <1>2 DEF Open
  <2>2. live' = live \cup {call[c].id}
    BY <1>2 DEF Open
  <2>3. DOMAIN sessions \subseteq live' /\ live' \subseteq Ids
    BY <1>1, <2>2, Contexts
  <2>. QED
    BY <1>1, <2>1, <2>2, <2>3, HolderGoesOn DEF Inside, NoneBack
<1>3. CASE OpenFails(c)
  <2>1. GotoPlace(c, "abandon") /\ live' = live
    BY <1>3 DEF OpenFails
  <2>. QED
    BY <1>1, <2>1, HolderGoesOn DEF Inside, Blind, NoneBack
<1>. QED
  BY <1>2, <1>3

LEMMA TouchSteps ==
    ASSUME BrowserInv, NEW c \in Callers,
           call[c].pc \in Inside \ Blind, NEW place \in {"goto", "return", "done"},
           TouchAndGo(c, place)
    PROVE  BrowserInv' /\ NoneBack
<1> DEFINE id == call[c].id
<1>1. UNCHANGED <<live, issued, now>> /\ live \subseteq Ids /\ known \subseteq issued
      /\ id \in issued /\ DOMAIN sessions \subseteq live
  BY Contexts DEF BrowserInv, TouchAndGo
<1>2. PICK stamp \in Stamps :
        IF Missing(id, stamp)
        THEN sessions' = Without({id}) /\ Raise(c) /\ UNCHANGED known
        ELSE /\ sessions' = With(id, stamp)
             /\ IF place = "done" THEN Release(c) /\ known' = known \cup {id}
                ELSE GotoPlace(c, place) /\ UNCHANGED <<lock, known>>
  BY DEF TouchAndGo
<1>3. SessionsSound(sessions') /\ DOMAIN sessions' \subseteq DOMAIN sessions
  <2>1. sessions' = IF Missing(id, stamp) THEN Without({id})
                    ELSE With(id, stamp)
    BY <1>2
  <2>. QED
    BY <2>1, FoundOrForgotten
<1>4. NoneBack /\ DOMAIN sessions' \subseteq live
  BY <1>1, <1>3 DEF NoneBack
<1>5. CASE Missing(id, stamp)
  BY <1>1, <1>2, <1>3, <1>4, <1>5, HolderRaises
<1>6. CASE ~Missing(id, stamp) /\ place = "done"
  <2>1. Release(c) /\ known' \subseteq issued
    BY <1>1, <1>2, <1>6
  <2>. QED
    BY <1>1, <1>3, <1>4, <2>1, HolderReturns
<1>7. CASE ~Missing(id, stamp) /\ place # "done"
  <2>1. /\ GotoPlace(c, place) /\ UNCHANGED <<lock, known>>
        /\ place \in Inside /\ place \notin Blind
    BY <1>2, <1>7 DEF Inside, Blind
  <2>. QED
    BY <1>1, <1>3, <1>4, <2>1, HolderGoesOn
<1>. QED
  BY <1>5, <1>6, <1>7

LEMMA PageSteps ==
    ASSUME BrowserInv, NEW c \in Callers,
           Touch(c) \/ GotoPage(c) \/ Settle(c) \/ Return(c)
    PROVE  BrowserInv' /\ NoneBack
<1>1. CASE Touch(c) \/ Settle(c) \/ Return(c)
  <2>1. call[c].pc \in Inside \ Blind
    BY <1>1 DEF Touch, Settle, Return, AtPlace, Inside, Blind
  <2>2. PICK place \in {"goto", "return", "done"} : TouchAndGo(c, place)
    BY <1>1 DEF Touch, Settle, Return
  <2>. QED
    BY <2>1, <2>2, TouchSteps
<1>2. CASE GotoPage(c)
  <2>1. /\ call[c].pc \in Inside /\ UNCHANGED <<sessions, live, issued, known, now>>
        /\ call[c].pc \notin Blind
    BY <1>2 DEF GotoPage, AtPlace, Inside, Blind
  <2>2. /\ SessionsSound(sessions') /\ DOMAIN sessions' \subseteq DOMAIN sessions /\ NoneBack
        /\ DOMAIN sessions' \subseteq live /\ known \subseteq issued /\ live \subseteq Ids
    BY <2>1, Contexts DEF BrowserInv, NoneBack
  <2>3. CASE GotoPlace(c, "settle") /\ UNCHANGED lock
    BY <2>1, <2>2, <2>3, HolderGoesOn DEF Inside
  <2>4. CASE Raise(c)
    BY <2>1, <2>2, <2>4, HolderRaises
  <2>. QED
    BY <1>2, <2>3, <2>4 DEF GotoPage
<1>. QED
  BY <1>1, <1>2

LEMMA CloseSteps ==
    ASSUME BrowserInv, NEW c \in Callers,
           CloseContext(c) \/ Forget(c)
    PROVE  BrowserInv' /\ NoneBack
<1>1. /\ call[c].pc \in Inside /\ SessionsSound(sessions) /\ live \subseteq Ids
      /\ known \subseteq issued /\ DOMAIN sessions \ {call[c].id} \subseteq live
  <2>1. call[c].pc \in Inside
    BY DEF CloseContext, Forget, AtPlace, Inside
  <2>. QED
    BY <2>1, Contexts DEF BrowserInv
<1>2. CASE CloseContext(c)
  <2>1. /\ live' = live \ {call[c].id} /\ GotoPlace(c, "forget")
        /\ UNCHANGED <<sessions, issued, known, lock, now>>
    BY <1>2 DEF CloseContext
  <2>. QED
    BY <1>1, <2>1, HolderGoesOn DEF Inside, Blind, NoneBack
<1>3. CASE Forget(c)
  <2>1. /\ sessions' = Without({call[c].id}) /\ Release(c)
        /\ UNCHANGED <<live, issued, known, now>>
    BY <1>3 DEF Forget, Forgotten
  <2>2. SessionsSound(sessions') /\ DOMAIN sessions' = DOMAIN sessions \ {call[c].id}
    BY <2>1, Shrinks
  <2>. QED
    BY <1>1, <2>1, <2>2, HolderReturns DEF NoneBack
<1>. QED
  BY <1>2, <1>3

\* get and status: an idle caller's step that only drops or touches sessions.
LEMMA LooseSteps ==
    ASSUME BrowserInv, NEW c \in Callers,
           Status(c) \/ \E id \in known : Get(c, id)
    PROVE  BrowserInv' /\ NoneBack
<1>1. UNCHANGED <<live, issued, known, lock, call, now>>
  BY DEF Status, Get
<1>2. SessionsSound(sessions') /\ DOMAIN sessions' \subseteq DOMAIN sessions
  <2>1. CASE Status(c)
    <3>1. PICK stamp \in Stamps : sessions' = Without(ExpiredAt(stamp))
      BY <2>1 DEF Status
    <3>. QED
      BY <3>1, Shrinks
  <2>2. CASE \E id \in known : Get(c, id)
    <3>1. PICK id \in known : Get(c, id)
      BY <2>2
    <3>2. PICK stamp \in Stamps :
            sessions' = IF Missing(id, stamp) THEN Without({id})
                        ELSE With(id, stamp)
      BY <3>1 DEF Get
    <3>. QED
      BY <3>2, FoundOrForgotten
  <2>. QED
    BY <2>1, <2>2
<1>3. \A d \in Callers : CallSound(d, call[d])'
  BY <1>1, <1>2 DEF BrowserInv, CallSound
<1>4. SessionsHaveContexts'
  BY <1>1, <1>2 DEF BrowserInv, SessionsHaveContexts, Active
<1>. QED
  BY <1>1, <1>2, <1>3, <1>4 DEF BrowserInv, NoneBack

\* cleanup closes the contexts of the sessions it has just forgotten.
LEMMA CleanupSteps ==
    ASSUME BrowserInv, NEW c \in Callers,
           Cleanup(c) \/ Sweep(c)
    PROVE  BrowserInv' /\ NoneBack
<1>1. /\ SessionsSound(sessions) /\ DOMAIN sessions \subseteq issued /\ live \subseteq Ids
      /\ issued \subseteq Ids /\ known \subseteq issued /\ CallSound(c, call[c])
      /\ call \in [Callers -> Local] /\ SessionsHaveContexts
  BY DEF BrowserInv
<1>2. UNCHANGED <<issued, known, lock, now>>
  BY DEF Cleanup, Sweep
<1>3. /\ call[c].pc \notin Inside /\ lock # c
  BY <1>1 DEF Cleanup, Sweep, AtPlace, Inside, Idle, CallSound
<1>4. CASE Cleanup(c)
  <2>1. PICK stamp \in Stamps :
          /\ sessions' = Without(ExpiredAt(stamp))
          /\ call' = [call EXCEPT ![c] = [pc |-> "sweep", ids |-> ExpiredAt(stamp)]]
    BY <1>4 DEF Cleanup
  <2> DEFINE old == ExpiredAt(stamp)
             k == [pc |-> "sweep", ids |-> old]
  <2>2. SessionsSound(sessions') /\ DOMAIN sessions' = DOMAIN sessions \ old
    BY <2>1, Shrinks
  <2>3. old \subseteq DOMAIN sessions
    BY DEF ExpiredAt, Active
  <2> HIDE DEF old
  <2>4. /\ k \in Local /\ k.pc = "sweep" /\ k.ids = old /\ call' = [call EXCEPT ![c] = k]
        /\ live' = live
    BY <1>1, <1>4, <2>1, <2>3 DEF Local, Sweeping, SessionsSound, Cleanup, old
  <2> HIDE DEF k
  <2>5. call'[c] = k
    BY <1>1, <2>4
  <2>6. CallSound(c, call[c])'
    BY <1>1, <1>2, <1>3, <2>2, <2>3, <2>4, <2>5 DEF CallSound, Inside
  <2>7. SessionsHaveContexts'
    BY <1>1, <1>2, <1>3, <2>2, <2>4 DEF SessionsHaveContexts, Active, BrowserInv
  <2>8. NoneBack
    BY <2>2 DEF NoneBack
  <2>. QED
    BY <1>1, <1>2, <2>2, <2>4, <2>6, <2>7, <2>8, BrowserStep DEF NoneBack
<1>5. CASE Sweep(c)
  <2>1. /\ call[c] \in Sweeping /\ call[c].ids \subseteq Ids
        /\ call[c].ids \cap DOMAIN sessions = {} /\ call[c].ids \subseteq issued
        /\ sessions' = sessions
    BY <1>1, <1>5, LocalTypes DEF Sweep, AtPlace, CallSound, Sweeping
  <2>2. CASE call[c].ids = {}
    <3>1. call' = [call EXCEPT ![c] = Idle] /\ live' = live
      BY <1>5, <2>2 DEF Sweep
    <3>2. Idle \in Local /\ Idle.pc = "idle" /\ call'[c] = Idle
      BY <1>1, <3>1 DEF Local, Idle
    <3>3. CallSound(c, call[c])'
      BY <1>2, <1>3, <3>2 DEF CallSound, Inside
    <3>4. SessionsHaveContexts'
      BY <1>1, <1>2, <1>3, <2>1, <3>1 DEF SessionsHaveContexts, Active, BrowserInv
    <3>. QED
      BY <1>1, <1>2, <2>1, <3>1, <3>2, <3>3, <3>4, BrowserStep DEF NoneBack
  <2>3. CASE call[c].ids # {}
    <3>1. PICK id \in call[c].ids :
            /\ live' = live \ {id}
            /\ call' = [call EXCEPT ![c].ids = @ \ {id}]
      BY <1>5, <2>3 DEF Sweep
    <3> DEFINE k == [call[c] EXCEPT !.ids = @ \ {id}]
    <3>2. /\ k \in Local /\ k.pc = "sweep" /\ k.ids = call[c].ids \ {id}
          /\ call' = [call EXCEPT ![c] = k]
      BY <2>1, <3>1 DEF Local, Sweeping
    <3> HIDE DEF k
    <3>3. call'[c] = k
      BY <1>1, <3>2
    <3>4. CallSound(c, call[c])'
      BY <1>2, <1>3, <2>1, <3>2, <3>3 DEF CallSound, Inside
    <3>5. SessionsHaveContexts'
      BY <1>1, <1>2, <1>3, <2>1, <3>1, <3>2
         DEF SessionsHaveContexts, Active, BrowserInv
    <3>. QED
      BY <1>1, <1>2, <2>1, <3>1, <3>2, <3>4, <3>5, BrowserStep DEF NoneBack
  <2>. QED
    BY <2>2, <2>3
<1>. QED
  BY <1>4, <1>5

LEMMA BrowserStarts ==
    ASSUME BrowserInit
    PROVE  BrowserInv
<1>1. /\ live = {} /\ issued = {} /\ known = {} /\ lock = Free
      /\ call = [c \in Callers |-> Idle] /\ now = 0
      /\ sessions = [i \in {} |-> 0] /\ DOMAIN sessions = {}
  BY DEF BrowserInit
<1>2. SessionsSound(sessions)
  BY <1>1, FS_EmptySet, BrowserConstants DEF SessionsSound
<1>3. now \in Time
  BY <1>1, BrowserConstants DEF Time
<1>4. /\ call \in [Callers -> Local]
      /\ \A c \in Callers : CallSound(c, call[c])
  BY <1>1, BrowserConstants DEF Local, CallSound, Inside, Idle
<1>. QED
  BY <1>1, <1>2, <1>3, <1>4 DEF BrowserInv, SessionsHaveContexts, Active

LEMMA BrowserSteps ==
    ASSUME BrowserInv, [BrowserNext]_browserVars
    PROVE  BrowserInv' /\ NoneBack
<1>1. CASE UNCHANGED browserVars
  BY <1>1 DEF browserVars, BrowserInv, SessionsSound, CallSound, NoneBack,
     SessionsHaveContexts, Active
<1>2. CASE Tick
  <2>1. UNCHANGED <<sessions, live, issued, known, lock, call>> /\ now' \in Time
    BY <1>2, BrowserConstants DEF Tick, Time, BrowserInv
  <2>. QED
    BY <2>1 DEF BrowserInv, SessionsSound, CallSound, NoneBack,
       SessionsHaveContexts, Active
<1>3. ASSUME NEW c \in Callers,
             \/ Create(c) \/ Locked(c) \/ Status(c)
             \/ Cleanup(c) \/ Sweep(c)
             \/ \E id \in known :
                  Navigate(c, id) \/ CloseSession(c, id) \/ Get(c, id)
      PROVE  BrowserInv' /\ NoneBack
  BY <1>3, CreateStep, EnterSteps, OpenSteps, PageSteps, CloseSteps, LooseSteps, CleanupSteps
     DEF Locked
<1>. QED
  BY <1>1, <1>2, <1>3 DEF BrowserNext

LEMMA BrowserTypes ==
    ASSUME BrowserInv
    PROVE  BrowserTypeOK
<1>1. sessions \in UNION {[S -> Time] : S \in SUBSET Ids}
  <2>1. DOMAIN sessions \in SUBSET Ids /\ sessions \in [DOMAIN sessions -> Time]
    BY DEF BrowserInv, SessionsSound
  <2>. QED
    BY <2>1
<1>. QED
  BY <1>1 DEF BrowserInv, BrowserTypeOK, SessionsSound, Local

-----------------------------------------------------------------------------

\* Sessions, contexts and the calls in flight keep their types, and the manager
\* never keeps more sessions than its maximum.
THEOREM BrowserTypeCorrect == BrowserSpec => []BrowserTypeOK
<1>1. BrowserInit => BrowserInv
  BY BrowserStarts
<1>2. BrowserInv /\ [BrowserNext]_browserVars => BrowserInv'
  BY BrowserSteps
<1>3. BrowserInv => BrowserTypeOK
  BY BrowserTypes
<1>. QED
  BY <1>1, <1>2, <1>3, PTL DEF BrowserSpec

\* A session that get() reports as live has its context, unless the call that
\* holds the lock is just opening or closing it: whatever create, navigate,
\* close, get, cleanup and evictions do in between.
THEOREM SessionsKeepContexts == BrowserSpec => []SessionsHaveContexts
<1>1. BrowserInit => BrowserInv
  BY BrowserStarts
<1>2. BrowserInv /\ [BrowserNext]_browserVars => BrowserInv'
  BY BrowserSteps
<1>3. BrowserInv => SessionsHaveContexts
  BY DEF BrowserInv
<1>. QED
  BY <1>1, <1>2, <1>3, PTL DEF BrowserSpec

\* A session that was closed, evicted or expired stays forgotten.
ForgottenStayForgotten == [][(Active' \ Active) \cap issued = {}]_browserVars

\* A session that was closed, evicted or expired is never put back by a call
\* that still holds its identifier.
THEOREM ForgottenForGood == BrowserSpec => ForgottenStayForgotten
<1>1. BrowserInit => BrowserInv
  BY BrowserStarts
<1>2. BrowserInv /\ [BrowserNext]_browserVars => BrowserInv'
  BY BrowserSteps
<1>3. BrowserInv /\ [BrowserNext]_browserVars =>
        [(Active' \ Active) \cap issued = {}]_browserVars
  BY BrowserSteps DEF NoneBack, Active
<1>. QED
  BY <1>1, <1>2, <1>3, PTL DEF BrowserSpec, ForgottenStayForgotten

=============================================================================
