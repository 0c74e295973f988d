--------------------------- MODULE BrowserSessions ---------------------------
(***************************************************************************)
(* Persistent browser sessions: BrowserSessionManager keeps what is known   *)
(* of a session (browser_session_runtime.py), PlaywrightSessionBackend      *)
(* keeps its live context, and BrowserLiveSessionRuntime binds the two      *)
(* (browser_live_session_runtime.py).                                       *)
(*                                                                          *)
(* create, navigate and close hold the runtime's lock from end to end; get, *)
(* cleanup and status only take the manager's lock for one step each, so    *)
(* they interleave with the others. The manager forgets sessions on its own *)
(* (time to live, least recently used) and knows nothing of contexts.       *)
(***************************************************************************)
EXTENDS Integers, FiniteSets, Functions

CONSTANTS
    Ids,        \* session identifiers (uuid4: never reused)
    Callers,    \* threads
    TTL,        \* ttl_seconds
    Maximum,    \* maximum_sessions
    MaxTime     \* bound of the model: the clock stops there

Free == "free"

ASSUME BrowserAssumption ==
    /\ TTL \in Nat /\ Maximum \in Nat \ {0} /\ MaxTime \in Nat
    /\ Free \notin Callers

VARIABLES
    sessions,   \* manager: last_used_at_ms of the sessions it has
    live,       \* backend: sessions with a context
    issued,     \* identifiers given out so far
    known,      \* history: identifiers create has returned
    lock,       \* holder of the runtime's lock
    call,       \* [Callers -> locals of their call]
    now

browserVars == <<sessions, live, issued, known, lock, call, now>>

Time == 0..MaxTime
Idle == [pc |-> "idle"]

Holding == [pc : {"open", "opened", "goto", "settle", "return", "abandon",
                  "forget"},
            id : Ids, creating : BOOLEAN]
Sweeping == [pc : {"sweep"}, ids : SUBSET Ids]

\* Types, and the "bounded session count" of the manager.
BrowserTypeOK ==
    /\ sessions \in UNION {[S -> Time] : S \in SUBSET Ids}
    /\ IsFiniteSet(DOMAIN sessions) /\ Cardinality(DOMAIN sessions) <= Maximum
    /\ live \in SUBSET Ids /\ issued \in SUBSET Ids /\ known \in SUBSET issued
    /\ lock \in Callers \cup {Free}
    /\ call \in [Callers -> Holding \cup Sweeping \cup {Idle}]
    /\ now \in Time

-----------------------------------------------------------------------------
\* BrowserSessionManager

Active == DOMAIN sessions

\* The clock is read before the manager's lock is taken.
Stamps == {t \in Time : now - 1 <= t /\ t <= now}

Expired(id, stamp) == stamp - sessions[id] > TTL

ExpiredAt(stamp) == {id \in Active : Expired(id, stamp)}

Without(ids) == Restrict(sessions, Active \ ids)

With(id, stamp) == [i \in Active \cup {id} |-> IF i = id THEN stamp ELSE sessions[i]]

Missing(id, stamp) == id \notin Active \/ Expired(id, stamp)

\* Equal stamps are ordered by creation and identifier: any of them here.
LeastUsed(ids) == {i \in ids : \A j \in ids : sessions[i] <= sessions[j]}

\* Mutant of Overfull: off by one.
OverfullLate(ids) == Cardinality(ids) > Maximum

Overfull(ids) == Cardinality(ids) >= Maximum

\* What create may evict before it adds its session.
Evictions(stamp) ==
    LET left == Active \ ExpiredAt(stamp) IN
    IF Overfull(left) THEN {ExpiredAt(stamp) \cup {i} : i \in LeastUsed(left)}
    ELSE {ExpiredAt(stamp)}

-----------------------------------------------------------------------------
\* BrowserLiveSessionRuntime: calls that hold the lock

AtPlace(c, place) == call[c].pc = place
GotoPlace(c, place) == call' = [call EXCEPT ![c].pc = place]

Acquire(c, state) ==
    /\ call[c] = Idle
    /\ lock = Free
    /\ lock' = c
    /\ call' = [call EXCEPT ![c] = state]

Release(c) == lock' = Free /\ call' = [call EXCEPT ![c] = Idle]

Create(c) ==
    \E id \in Ids \ issued, stamp \in Stamps : \E out \in Evictions(stamp) :
        /\ Acquire(c, [pc |-> "open", id |-> id, creating |-> TRUE])
        /\ issued' = issued \cup {id}
        /\ sessions' = [i \in (Active \ out) \cup {id} |->
                          IF i = id THEN stamp ELSE sessions[i]]
        /\ UNCHANGED <<live, known, now>>

\* The backend opens a context; with a URL, create goes on as navigate does.
Open(c) ==
    /\ AtPlace(c, "open")
    /\ live' = live \cup {call[c].id}
    /\ GotoPlace(c, "opened") \/ GotoPlace(c, "return")
    /\ UNCHANGED <<sessions, issued, known, lock, now>>

OpenFails(c) ==
    /\ AtPlace(c, "open")
    /\ GotoPlace(c, "abandon")
    /\ UNCHANGED <<sessions, live, issued, known, lock, now>>

Navigate(c, id) ==
    /\ Acquire(c, [pc |-> "opened", id |-> id, creating |-> FALSE])
    /\ UNCHANGED <<sessions, live, issued, known, now>>

\* Mutant of Raise: the lock is not released on the way out.
RaiseHolding(c) == UNCHANGED lock /\ IF call[c].creating THEN GotoPlace(c, "abandon")
                                     ELSE call' = [call EXCEPT ![c] = Idle]

\* An exception leaves navigate, or makes create give its session up.
Raise(c) == IF call[c].creating THEN GotoPlace(c, "abandon") /\ UNCHANGED lock
            ELSE Release(c)

\* sessions.get or sessions.navigate: the session is touched, or forgotten.
TouchAndGo(c, place) ==
    /\ \E stamp \in Stamps :
         LET id == call[c].id IN
         IF Missing(id, stamp)
         THEN sessions' = Without({id}) /\ Raise(c) /\ UNCHANGED known
         ELSE /\ sessions' = With(id, stamp)
              /\ IF place = "done" THEN Release(c) /\ known' = known \cup {id}
                 ELSE GotoPlace(c, place) /\ UNCHANGED <<lock, known>>
    /\ UNCHANGED <<live, issued, now>>

Touch(c) == AtPlace(c, "opened") /\ TouchAndGo(c, "goto")

GotoPage(c) ==
    /\ AtPlace(c, "goto")
    /\ \/ call[c].id \in live /\ GotoPlace(c, "settle") /\ UNCHANGED lock
       \/ Raise(c)
    /\ UNCHANGED <<sessions, live, issued, known, now>>

Settle(c) ==
    /\ AtPlace(c, "settle")
    /\ TouchAndGo(c, IF call[c].creating THEN "return" ELSE "done")

Return(c) == AtPlace(c, "return") /\ TouchAndGo(c, "done")

CloseSession(c, id) ==
    /\ Acquire(c, [pc |-> "abandon", id |-> id, creating |-> FALSE])
    /\ UNCHANGED <<sessions, live, issued, known, now>>

\* backend.close, then sessions.close: how close ends, and how create does
\* after an exception.
CloseContext(c) ==
    /\ AtPlace(c, "abandon")
    /\ live' = live \ {call[c].id}
    /\ GotoPlace(c, "forget")
    /\ UNCHANGED <<sessions, issued, known, lock, now>>

\* Mutant of Forgotten: the session is left to its time to live.
ForgottenLater(id) == sessions

Forgotten(id) == Without({id})

Forget(c) ==
    /\ AtPlace(c, "forget")
    /\ sessions' = Forgotten(call[c].id)
    /\ Release(c)
    /\ UNCHANGED <<live, issued, known, now>>

-----------------------------------------------------------------------------
\* Calls that hold no lock

Get(c, id) ==
    /\ call[c] = Idle
    /\ \E stamp \in Stamps :
         sessions' = IF Missing(id, stamp) THEN Without({id}) ELSE With(id, stamp)
    /\ UNCHANGED <<live, issued, known, lock, call, now>>

Status(c) ==
    /\ call[c] = Idle
    /\ \E stamp \in Stamps : sessions' = Without(ExpiredAt(stamp))
    /\ UNCHANGED <<live, issued, known, lock, call, now>>

Cleanup(c) ==
    /\ call[c] = Idle
    /\ \E stamp \in Stamps :
         /\ sessions' = Without(ExpiredAt(stamp))
         /\ call' = [call EXCEPT ![c] = [pc |-> "sweep", ids |-> ExpiredAt(stamp)]]
    /\ UNCHANGED <<live, issued, known, lock, now>>

Sweep(c) ==
    /\ AtPlace(c, "sweep")
    /\ IF call[c].ids = {}
       THEN call' = [call EXCEPT ![c] = Idle] /\ UNCHANGED live
       ELSE \E id \in call[c].ids :
              /\ live' = live \ {id}
              /\ call' = [call EXCEPT ![c].ids = @ \ {id}]
    /\ UNCHANGED <<sessions, issued, known, lock, now>>

Tick ==
    /\ now < MaxTime
    /\ now' = now + 1
    /\ UNCHANGED <<sessions, live, issued, known, lock, call>>

-----------------------------------------------------------------------------

BrowserInit ==
    /\ sessions = [i \in {} |-> 0]
    /\ live = {} /\ issued = {} /\ known = {}
    /\ lock = Free
    /\ call = [c \in Callers |-> Idle]
    /\ now = 0

Locked(c) ==
    \/ Open(c) \/ OpenFails(c) \/ Touch(c) \/ GotoPage(c) \/ Settle(c)
    \/ Return(c) \/ CloseContext(c) \/ Forget(c)

BrowserNext ==
    \/ Tick
    \/ \E c \in Callers :
         \/ Create(c) \/ Locked(c) \/ Status(c) \/ Cleanup(c) \/ Sweep(c)
         \/ \E id \in known : Navigate(c, id) \/ CloseSession(c, id) \/ Get(c, id)

BrowserSpec == BrowserInit /\ [][BrowserNext]_browserVars

\* No step under the lock waits for anything but the page (goto has a timeout).
BrowserFairSpec == BrowserSpec /\ \A c \in Callers : WF_browserVars(Locked(c))

-----------------------------------------------------------------------------
\* Properties

\* A session that get() reports as live has a context, unless a call that
\* holds the lock is just opening or closing it.
SessionsHaveContexts ==
    \A id \in Active :
        \/ id \in live
        \/ lock # Free /\ call[lock].id = id
           /\ call[lock].pc \in {"open", "abandon", "forget"}

\* The lock always comes free: no call waits for another's session for ever.
LockComesFree == lock # Free ~> lock = Free

=============================================================================
