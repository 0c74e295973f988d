------------------------------ MODULE Approvals ------------------------------
(***************************************************************************)
(* ApprovalStore of security_runtime.py: the table of approvals that Cyber  *)
(* issues, the user decides and the tool coordinator consumes.              *)
(*                                                                          *)
(* Every operation opens its own SQLite connection, so the unit of          *)
(* atomicity is one statement or one transaction:                           *)
(*   request   one INSERT                                                   *)
(*   decide    SELECT, clock, UPDATE ... WHERE status = 'pending', SELECT   *)
(*   consume   clock, then one BEGIN IMMEDIATE transaction                  *)
(* Deciders (panel, bridge, command line) and consumers (tool coordinators  *)
(* of the resident workers and of one-shot processes) interleave freely.    *)
(***************************************************************************)
EXTENDS Integers

CONSTANTS
    Ids,          \* approval identifiers (uuid4: never reused)
    Scopes,       \* (tool, effect) pairs
    Hashes,       \* digests of the canonical arguments
    Deciders,     \* concurrent callers of decide
    Consumers,    \* concurrent callers of consume
    TTLs,         \* time to live values callers ask for
    MinTTL,       \* 15 seconds in the code
    MaxTTL,       \* maximum_ttl_seconds of the policy
    MaxTime       \* bound of the model: the clock stops there

ASSUME ApprovalsAssumption ==
    /\ TTLs \subseteq Nat
    /\ MinTTL \in Nat \ {0}
    /\ MaxTTL \in Nat
    /\ MaxTime \in Nat

VARIABLES
    rows,         \* the approvals table
    now,          \* the wall clock, assumed not to step back
    decider,      \* locals of each decide call
    consumer,     \* locals of each consume call
    spends,       \* history: successful consume calls per approval
    spentFor      \* history: the calls an approval authorised

vars == <<rows, now, decider, consumer, spends, spentFor>>

Calls == [scope : Scopes, hash : Hashes]
Time == 0..MaxTime
NoTime == -1

Status == {"pending", "approved", "denied", "expired", "consumed"}
Verdict == {"approved", "denied", "expired"}

NoRow == [status |-> "none"]
Row == [status : Status, call : Calls, expires : Nat,
        decided_at : Time \cup {NoTime}, consumed_at : Time \cup {NoTime}]

Idle == [pc |-> "idle"]
Answered == [pc : {"answered"}, allow : BOOLEAN, got : Status]
Deciding == [pc : {"read"}, id : Ids, allow : BOOLEAN, readAt : Time]
Written == [pc : {"written"}, id : Ids, allow : BOOLEAN, verdict : Verdict]
Consuming == [pc : {"stamped"}, id : Ids, call : Calls, stamp : Time]

TypeOK ==
    /\ rows \in [Ids -> Row \cup {NoRow}]
    /\ now \in Time
    /\ decider \in [Deciders -> Deciding \cup Written \cup Answered \cup {Idle}]
    /\ consumer \in [Consumers -> Consuming \cup {Idle}]
    /\ spends \in [Ids -> Nat]
    /\ spentFor \in [Ids -> SUBSET Calls]

Issued == {i \in Ids : rows[i] # NoRow}

-----------------------------------------------------------------------------
\* request

ValidTTL(ttl) == ttl \in MinTTL..MaxTTL

\* Mutant of NewRow: the deadline subtracts the time to live.
NewRowDeadlineBefore(call, ttl) ==
    [status |-> "pending", call |-> call, expires |-> now - ttl,
     decided_at |-> NoTime, consumed_at |-> NoTime]

NewRow(call, ttl) ==
    [status |-> "pending", call |-> call, expires |-> now + ttl,
     decided_at |-> NoTime, consumed_at |-> NoTime]

Request(i, call, ttl) ==
    /\ rows[i] = NoRow
    /\ ValidTTL(ttl)
    /\ rows' = [rows EXCEPT ![i] = NewRow(call, ttl)]
    /\ UNCHANGED <<now, decider, consumer, spends, spentFor>>

-----------------------------------------------------------------------------
\* decide

\* The first SELECT: a row that is not pending is refused without effect.
DecideRead(d, i, allow) ==
    /\ decider[d].pc \in {"idle", "answered"}
    /\ rows[i].status = "pending"
    /\ decider' = [decider EXCEPT ![d] =
                     [pc |-> "read", id |-> i, allow |-> allow, readAt |-> now]]
    /\ UNCHANGED <<rows, now, consumer, spends, spentFor>>

VerdictAt(stamp, row, allow) ==
    IF stamp > row.expires THEN "expired"
    ELSE IF allow THEN "approved" ELSE "denied"

\* Mutant of StillPending: UPDATE approvals ... WHERE id = ? alone.
AnyStatusUpdated(i) == rows[i] # NoRow

\* The WHERE clause of the UPDATE.
StillPending(i) == rows[i].status = "pending"

\* The clock is read after the SELECT and before the UPDATE gets its lock;
\* an UPDATE that matches no row goes unnoticed (its rowcount is not read).
DecideWrite(d) ==
    /\ decider[d].pc = "read"
    /\ LET i == decider[d].id
           allow == decider[d].allow
       IN  \E stamp \in decider[d].readAt..now :
             LET verdict == VerdictAt(stamp, rows[i], allow) IN
             /\ rows' = IF StillPending(i)
                        THEN [rows EXCEPT ![i] = [@ EXCEPT !.status = verdict,
                                                           !.decided_at = stamp]]
                        ELSE rows
             /\ decider' = [decider EXCEPT ![d] =
                              [pc |-> "written", id |-> i, allow |-> allow,
                               verdict |-> verdict]]
    /\ UNCHANGED <<now, consumer, spends, spentFor>>

\* The second SELECT: what the caller is told, unless its own clock expired.
DecideReturn(d) ==
    /\ decider[d].pc = "written"
    /\ decider' = [decider EXCEPT ![d] =
                     IF decider[d].verdict = "expired" THEN Idle
                     ELSE [pc |-> "answered", allow |-> decider[d].allow,
                           got |-> rows[decider[d].id].status]]
    /\ UNCHANGED <<rows, now, consumer, spends, spentFor>>

-----------------------------------------------------------------------------
\* consume

\* The clock is read before BEGIN IMMEDIATE waits for the write lock.
ConsumeBegin(c, i, call) ==
    /\ consumer[c] = Idle
    /\ i \in Issued
    /\ consumer' = [consumer EXCEPT ![c] =
                      [pc |-> "stamped", id |-> i, call |-> call, stamp |-> now]]
    /\ UNCHANGED <<rows, now, decider, spends, spentFor>>

ConsumeExpired(c) ==
    /\ consumer[c].pc = "stamped"
    /\ LET i == consumer[c].id IN
         /\ consumer[c].stamp > rows[i].expires
         /\ rows' = IF rows[i].status \in {"pending", "approved"}
                    THEN [rows EXCEPT ![i] = [@ EXCEPT !.status = "expired"]]
                    ELSE rows
    /\ consumer' = [consumer EXCEPT ![c] = Idle]
    /\ UNCHANGED <<now, decider, spends, spentFor>>

\* Mutants of Consumable: the status, or the arguments digest, is not checked.
ConsumableInAnyStatus(i, call) == rows[i].call = call
ConsumableForAnyArguments(i, call) ==
    rows[i].status = "approved" /\ rows[i].call.scope = call.scope

\* The checks of the transaction, in force until its commit.
Consumable(i, call) ==
    /\ rows[i].status = "approved"
    /\ rows[i].call.scope = call.scope
    /\ rows[i].call.hash = call.hash

ConsumeGranted(c) ==
    /\ consumer[c].pc = "stamped"
    /\ LET i == consumer[c].id
           call == consumer[c].call
           stamp == consumer[c].stamp
       IN  /\ stamp <= rows[i].expires
           /\ Consumable(i, call)
           /\ rows' = [rows EXCEPT ![i] = [@ EXCEPT !.status = "consumed",
                                                    !.consumed_at = stamp]]
           /\ spends' = [spends EXCEPT ![i] = @ + 1]
           /\ spentFor' = [spentFor EXCEPT ![i] = @ \cup {call}]
    /\ consumer' = [consumer EXCEPT ![c] = Idle]
    /\ UNCHANGED <<now, decider>>

\* Any other check fails: ApprovalError after a rollback.
ConsumeRefused(c) ==
    /\ consumer[c].pc = "stamped"
    /\ consumer[c].stamp <= rows[consumer[c].id].expires
    /\ ~Consumable(consumer[c].id, consumer[c].call)
    /\ consumer' = [consumer EXCEPT ![c] = Idle]
    /\ UNCHANGED <<rows, now, decider, spends, spentFor>>

-----------------------------------------------------------------------------

Tick ==
    /\ now < MaxTime
    /\ now' = now + 1
    /\ UNCHANGED <<rows, decider, consumer, spends, spentFor>>

Init ==
    /\ rows = [i \in Ids |-> NoRow]
    /\ now = 0
    /\ decider = [d \in Deciders |-> Idle]
    /\ consumer = [c \in Consumers |-> Idle]
    /\ spends = [i \in Ids |-> 0]
    /\ spentFor = [i \in Ids |-> {}]

Next ==
    \/ Tick
    \/ \E i \in Ids, call \in Calls, ttl \in TTLs : Request(i, call, ttl)
    \/ \E d \in Deciders, i \in Ids, allow \in BOOLEAN : DecideRead(d, i, allow)
    \/ \E d \in Deciders : DecideWrite(d) \/ DecideReturn(d)
    \/ \E c \in Consumers, i \in Ids, call \in Calls : ConsumeBegin(c, i, call)
    \/ \E c \in Consumers :
          ConsumeExpired(c) \/ ConsumeGranted(c) \/ ConsumeRefused(c)

Spec == Init /\ [][Next]_vars

-----------------------------------------------------------------------------
\* Properties

\* Single use (SECURITY-APPROVAL-CONTRACT.md, "Token consumido nao pode ser
\* reutilizado"): however many coordinators race for one approval, consume
\* succeeds at most once, and the table says consumed exactly when it has.
SpendOnce ==
    \A i \in Ids :
        /\ spends[i] <= 1
        /\ rows[i].status = "consumed" <=> spends[i] = 1

\* What was authorised is what was asked: a spent approval was approved by a
\* decision stamped within its lifetime, was consumed on a stamp within its
\* lifetime, and authorised only the call it was requested for.
SpendAuthorised ==
    \A i \in Ids : spends[i] > 0 =>
        /\ rows[i].decided_at \in 0..rows[i].expires
        /\ rows[i].consumed_at \in 0..rows[i].expires
        /\ spentFor[i] = {rows[i].call}

\* The store implements the token: no interleaving of decide and consume
\* reopens a decided approval, revives a lapsed one or overturns a verdict.
TokenOf(i) == IF rows[i] = NoRow THEN NoRow
              ELSE [status |-> rows[i].status, call |-> rows[i].call]

Promise == INSTANCE ApprovalToken WITH token <- [i \in Ids |-> TokenOf(i)]

ImplementsToken == Promise!TokenSpec

=============================================================================
