--------------------------- MODULE ApprovalsProofs ---------------------------
(***************************************************************************)
(* Theorems about Approvals, for any number of approvals, deciders and      *)
(* consumers, and any clock bound.                                          *)
(*                                                                          *)
(* The inductive invariant adds to the type invariant what the calls in     *)
(* flight rely on: the row a call holds the identifier of exists, an        *)
(* approved row was decided in time, and an unspent approval has            *)
(* authorised nothing.                                                      *)
(***************************************************************************)
EXTENDS Approvals, TLAPS

CallsInFlightIssued ==
    /\ \A d \in Deciders : decider[d].pc \in {"read", "written"} =>
          decider[d].id \in Issued
    /\ \A c \in Consumers : consumer[c].pc = "stamped" =>
          consumer[c].id \in Issued

ApprovedInTime ==
    \A i \in Ids : rows[i].status = "approved" =>
        rows[i].decided_at \in 0..rows[i].expires

UnspentAuthorisesNothing ==
    \A i \in Ids : spends[i] = 0 => spentFor[i] = {}

IInv ==
    /\ TypeOK
    /\ CallsInFlightIssued
    /\ ApprovedInTime
    /\ UnspentAuthorisesNothing
    /\ SpendOnce
    /\ SpendAuthorised

USE ApprovalsAssumption

-----------------------------------------------------------------------------
\* The type invariant

\* The empty table and the idle callers have their types.
LEMMA InitTypeOK == Init => TypeOK
  BY DEF Init, TypeOK, Time, Idle, NoRow, Calls

\* No step of request, decide or consume takes a value out of its type. A step
\* of decide or consume writes the row its caller read, so that row must exist.
LEMMA NextTypeOK == TypeOK /\ CallsInFlightIssued /\ [Next]_vars => TypeOK'
<1> SUFFICES ASSUME TypeOK, CallsInFlightIssued, [Next]_vars
             PROVE  TypeOK'
  OBVIOUS
<1> USE DEF TypeOK
<1>1. CASE Tick
  BY <1>1 DEF Tick, Time
<1>2. ASSUME NEW i \in Ids, NEW call \in Calls, NEW ttl \in TTLs,
             Request(i, call, ttl)
      PROVE  TypeOK'
  <2>1. NewRow(call, ttl) \in Row
    BY <1>2 DEF Row, NewRow, Status, Time, ValidTTL
  <2>. QED
    BY <1>2, <2>1 DEF Request
<1>3. ASSUME NEW d \in Deciders, NEW i \in Ids, NEW allow \in BOOLEAN,
             DecideRead(d, i, allow)
      PROVE  TypeOK'
  BY <1>3 DEF DecideRead, Deciding
<1>4. ASSUME NEW d \in Deciders, DecideWrite(d)
      PROVE  TypeOK'
  <2> DEFINE i == decider[d].id
             allow == decider[d].allow
  <2>1. decider[d] \in Deciding
    BY <1>4 DEF DecideWrite, Written, Answered, Idle
  <2>2. i \in Ids /\ allow \in BOOLEAN /\ decider[d].readAt \in Time
    BY <2>1 DEF Deciding
  <2>3. rows[i] \in Row
    BY <1>4, <2>2 DEF CallsInFlightIssued, Issued, DecideWrite
  <2>4. PICK stamp \in decider[d].readAt..now :
          /\ rows' = IF StillPending(i)
                     THEN [rows EXCEPT ![i] =
                             [@ EXCEPT !.status = VerdictAt(stamp, rows[i], allow),
                                       !.decided_at = stamp]]
                     ELSE rows
          /\ decider' = [decider EXCEPT ![d] =
                           [pc |-> "written", id |-> i, allow |-> allow,
                            verdict |-> VerdictAt(stamp, rows[i], allow)]]
    BY <1>4 DEF DecideWrite
  <2>5. stamp \in Time /\ VerdictAt(stamp, rows[i], allow) \in Verdict
    BY <2>2 DEF Time, VerdictAt, Verdict
  <2>6. decider' \in [Deciders -> Deciding \cup Written \cup Answered \cup {Idle}]
    BY <2>2, <2>4, <2>5 DEF Written
  <2>7. [rows[i] EXCEPT !.status = VerdictAt(stamp, rows[i], allow),
                        !.decided_at = stamp] \in Row
    BY <2>3, <2>5 DEF Row, Status, Verdict
  <2>8. rows' \in [Ids -> Row \cup {NoRow}]
    BY <2>2, <2>4, <2>7
  <2>. QED
    BY <1>4, <2>6, <2>8 DEF DecideWrite
<1>5. ASSUME NEW d \in Deciders, DecideReturn(d)
      PROVE  TypeOK'
  <2>1. decider[d] \in Written
    BY <1>5 DEF DecideReturn, Deciding, Answered, Idle
  <2>2. decider[d].id \in Ids /\ decider[d].allow \in BOOLEAN
    BY <2>1 DEF Written
  <2>3. rows[decider[d].id] \in Row
    BY <1>5, <2>2 DEF CallsInFlightIssued, Issued, DecideReturn
  <2>4. rows[decider[d].id].status \in Status
    BY <2>3 DEF Row
  <2>. QED
    BY <1>5, <2>2, <2>4 DEF DecideReturn, Answered
<1>6. ASSUME NEW c \in Consumers, NEW i \in Ids, NEW call \in Calls,
             ConsumeBegin(c, i, call)
      PROVE  TypeOK'
  BY <1>6 DEF ConsumeBegin, Consuming
<1>7. ASSUME NEW c \in Consumers,
             ConsumeExpired(c) \/ ConsumeGranted(c) \/ ConsumeRefused(c)
      PROVE  TypeOK'
  <2> DEFINE i == consumer[c].id
  <2>1. consumer[c] \in Consuming
    BY <1>7 DEF ConsumeExpired, ConsumeGranted, ConsumeRefused, Idle
  <2>2. i \in Ids /\ consumer[c].call \in Calls /\ consumer[c].stamp \in Time
    BY <2>1 DEF Consuming
  <2>3. rows[i] \in Row
    BY <2>1, <2>2 DEF CallsInFlightIssued, Issued, Consuming
  <2>4. CASE ConsumeExpired(c)
    <3>1. [rows[i] EXCEPT !.status = "expired"] \in Row
      BY <2>3 DEF Row, Status
    <3>. QED
      BY <2>2, <2>4, <3>1 DEF ConsumeExpired
  <2>5. CASE ConsumeGranted(c)
    <3>1. [rows[i] EXCEPT !.status = "consumed",
                          !.consumed_at = consumer[c].stamp] \in Row
      BY <2>2, <2>3 DEF Row, Status
    <3>2. rows' \in [Ids -> Row \cup {NoRow}]
      BY <2>2, <2>5, <3>1 DEF ConsumeGranted
    <3>. QED
      BY <2>2, <2>5, <3>2 DEF ConsumeGranted
  <2>6. CASE ConsumeRefused(c)
    BY <2>6 DEF ConsumeRefused
  <2>. QED
    BY <1>7, <2>4, <2>5, <2>6
<1>8. CASE UNCHANGED vars
  BY <1>8 DEF vars
<1>. QED
  BY <1>1, <1>2, <1>3, <1>4, <1>5, <1>6, <1>7, <1>8 DEF Next

-----------------------------------------------------------------------------
\* The inductive invariant

\* The strengthened invariant holds of the empty table.
LEMMA InitIInv == Init => IInv
<1> SUFFICES ASSUME Init PROVE IInv
  OBVIOUS
<1>1. TypeOK
  BY InitTypeOK
<1>2. CallsInFlightIssued
  BY DEF Init, CallsInFlightIssued, Idle
<1>3. ApprovedInTime /\ UnspentAuthorisesNothing /\ SpendOnce /\ SpendAuthorised
  BY DEF Init, NoRow, ApprovedInTime, UnspentAuthorisesNothing, SpendOnce,
         SpendAuthorised
<1>. QED
  BY <1>1, <1>2, <1>3 DEF IInv

\* What a step does to one row, whichever operation takes it.
RowUntouched(i) ==
    rows'[i] = rows[i] /\ spends'[i] = spends[i] /\ spentFor'[i] = spentFor[i]

RowRequested(i) ==
    /\ rows[i] = NoRow
    /\ rows'[i] \in Row
    /\ rows'[i].status = "pending"
    /\ UNCHANGED <<spends, spentFor>>

RowDecided(i) ==
    /\ rows[i].status = "pending"
    /\ rows'[i] \in Row
    /\ rows'[i].call = rows[i].call
    /\ rows'[i].status \in Verdict
    /\ rows'[i].status = "approved" => rows'[i].decided_at \in 0..rows'[i].expires
    /\ UNCHANGED <<spends, spentFor>>

RowLapsed(i) ==
    /\ rows[i].status \in {"pending", "approved"}
    /\ rows'[i] = [rows[i] EXCEPT !.status = "expired"]
    /\ UNCHANGED <<spends, spentFor>>

RowSpent(i) ==
    /\ rows[i].status = "approved"
    /\ \E stamp \in 0..rows[i].expires :
          rows'[i] = [[rows[i] EXCEPT !.status = "consumed"]
                                EXCEPT !.consumed_at = stamp]
    /\ spends'[i] = spends[i] + 1
    /\ spentFor'[i] = spentFor[i] \cup {rows[i].call}

\* Every step leaves a row alone or moves it along one edge of its life.
LEMMA StepOfARow ==
  ASSUME IInv, [Next]_vars, NEW i \in Ids
  PROVE  \/ RowUntouched(i) \/ RowRequested(i) \/ RowDecided(i)
         \/ RowLapsed(i) \/ RowSpent(i)
<1> USE DEF RowUntouched
<1>0. TypeOK /\ CallsInFlightIssued
  BY DEF IInv
<1>1. CASE Tick \/ UNCHANGED vars
  BY <1>1 DEF Tick, vars
<1>2. ASSUME NEW j \in Ids, NEW call \in Calls, NEW ttl \in TTLs,
             Request(j, call, ttl)
      PROVE  RowUntouched(i) \/ RowRequested(i)
  <2>1. NewRow(call, ttl) \in Row /\ NewRow(call, ttl).status = "pending"
    BY <1>0, <1>2 DEF TypeOK, Row, NewRow, Status, Time, ValidTTL
  <2>. QED
    BY <1>0, <1>2, <2>1 DEF Request, RowRequested, TypeOK
<1>3. ASSUME NEW d \in Deciders, NEW j \in Ids, NEW allow \in BOOLEAN,
             DecideRead(d, j, allow)
      PROVE  RowUntouched(i)
  BY <1>3 DEF DecideRead
<1>4. ASSUME NEW d \in Deciders, DecideWrite(d)
      PROVE  RowUntouched(i) \/ RowDecided(i)
  <2> DEFINE j == decider[d].id
             allow == decider[d].allow
  <2>1. decider[d] \in Deciding
    BY <1>0, <1>4 DEF TypeOK, DecideWrite, Written, Answered, Idle
  <2>2. j \in Ids /\ allow \in BOOLEAN /\ decider[d].readAt \in Time
    BY <2>1 DEF Deciding
  <2>3. rows[j] \in Row
    BY <1>0, <1>4, <2>2 DEF TypeOK, CallsInFlightIssued, Issued, DecideWrite
  <2>4. PICK stamp \in decider[d].readAt..now :
          rows' = IF StillPending(j)
                  THEN [rows EXCEPT ![j] =
                          [@ EXCEPT !.status = VerdictAt(stamp, rows[j], allow),
                                    !.decided_at = stamp]]
                  ELSE rows
    BY <1>4 DEF DecideWrite
  <2>5. UNCHANGED <<spends, spentFor>>
    BY <1>4 DEF DecideWrite
  <2>6. CASE ~StillPending(j) \/ i # j
    BY <1>0, <2>4, <2>5, <2>6 DEF TypeOK
  <2>7. CASE StillPending(j) /\ i = j
    <3> DEFINE verdict == VerdictAt(stamp, rows[i], allow)
    <3>1. rows'[i] = [[rows[i] EXCEPT !.status = verdict]
                                EXCEPT !.decided_at = stamp]
      BY <1>0, <2>4, <2>7 DEF TypeOK
    <3>2. /\ stamp \in Time
          /\ verdict \in Verdict
          /\ verdict = "approved" => stamp \in 0..rows[i].expires
      BY <1>0, <2>2, <2>3, <2>7 DEF TypeOK, Time, VerdictAt, Verdict, Row
    <3>3. /\ rows'[i] \in Row
          /\ rows'[i].call = rows[i].call
          /\ rows'[i].status = verdict
          /\ rows'[i].decided_at = stamp
          /\ rows'[i].expires = rows[i].expires
      BY <2>3, <2>7, <3>1, <3>2 DEF Row, Status, Verdict
    <3>. QED
      BY <2>5, <2>7, <3>2, <3>3 DEF RowDecided, StillPending
  <2>. QED
    BY <2>6, <2>7
<1>5. ASSUME NEW d \in Deciders, DecideReturn(d)
      PROVE  RowUntouched(i)
  BY <1>5 DEF DecideReturn
<1>6. ASSUME NEW c \in Consumers, NEW j \in Ids, NEW call \in Calls,
             ConsumeBegin(c, j, call)
      PROVE  RowUntouched(i)
  BY <1>6 DEF ConsumeBegin
<1>7. ASSUME NEW c \in Consumers, ConsumeExpired(c)
      PROVE  RowUntouched(i) \/ RowLapsed(i)
  BY <1>0, <1>7 DEF ConsumeExpired, RowLapsed, TypeOK
<1>8. ASSUME NEW c \in Consumers, ConsumeGranted(c)
      PROVE  RowUntouched(i) \/ RowSpent(i)
  <2> DEFINE j == consumer[c].id
             call == consumer[c].call
             stamp == consumer[c].stamp
  <2>1. consumer[c] \in Consuming
    BY <1>0, <1>8 DEF TypeOK, ConsumeGranted, Idle
  <2>2. j \in Ids /\ call \in Calls /\ stamp \in Time
    BY <2>1 DEF Consuming
  <2>3. rows[j] \in Row
    BY <1>0, <1>8, <2>2 DEF TypeOK, CallsInFlightIssued, Issued, ConsumeGranted
  <2>4. CASE i # j
    BY <1>0, <1>8, <2>4 DEF ConsumeGranted, TypeOK
  <2>5. CASE i = j
    <3>1. call = rows[i].call
      BY <1>8, <2>2, <2>3, <2>5 DEF ConsumeGranted, Consumable, Calls, Row
    <3>2. stamp \in 0..rows[i].expires
      BY <1>8, <2>2, <2>3, <2>5 DEF ConsumeGranted, Time, Row
    <3>3. /\ rows[i].status = "approved"
          /\ rows'[i] = [[rows[i] EXCEPT !.status = "consumed"]
                                   EXCEPT !.consumed_at = stamp]
          /\ spends'[i] = spends[i] + 1
          /\ spentFor'[i] = spentFor[i] \cup {call}
      BY <1>0, <1>8, <2>5 DEF ConsumeGranted, Consumable, TypeOK
    <3>. QED
      BY <3>1, <3>2, <3>3 DEF RowSpent
  <2>. QED
    BY <2>4, <2>5
<1>9. ASSUME NEW c \in Consumers, ConsumeRefused(c)
      PROVE  RowUntouched(i)
  BY <1>9 DEF ConsumeRefused
<1>. QED
  BY <1>1, <1>2, <1>3, <1>4, <1>5, <1>6, <1>7, <1>8, <1>9 DEF Next

\* Every step preserves the strengthened invariant: along each edge of a row's
\* life for the rows, call by call for the identifiers the calls hold.
LEMMA NextIInv == IInv /\ [Next]_vars => IInv'
<1> SUFFICES ASSUME IInv, [Next]_vars
             PROVE  IInv'
  OBVIOUS
<1>1. TypeOK'
  BY NextTypeOK DEF IInv
<1>2. ASSUME NEW i \in Ids
      PROVE  \/ RowUntouched(i) \/ RowRequested(i) \/ RowDecided(i)
             \/ RowLapsed(i) \/ RowSpent(i)
  BY <1>2, StepOfARow
<1>3. \A i \in Ids : i \in Issued => i \in Issued'
  <2> SUFFICES ASSUME NEW i \in Ids, rows[i] # NoRow PROVE rows'[i] # NoRow
    BY DEF Issued
  <2>0. rows[i] \in Row
    BY DEF IInv, TypeOK
  <2>1. CASE RowUntouched(i)
    BY <2>1 DEF RowUntouched
  <2>2. CASE RowRequested(i)
    BY <2>2 DEF RowRequested
  <2>3. CASE RowDecided(i)
    BY <2>3 DEF RowDecided, NoRow, Row, Verdict
  <2>4. CASE RowLapsed(i)
    BY <2>0, <2>4 DEF RowLapsed, NoRow, Row
  <2>5. CASE RowSpent(i)
    BY <2>0, <2>5 DEF RowSpent, NoRow, Row
  <2>. QED
    BY <1>2, <2>1, <2>2, <2>3, <2>4, <2>5
<1>4. CallsInFlightIssued'
  <2>1. ASSUME NEW d \in Deciders, decider'[d].pc \in {"read", "written"}
        PROVE  decider'[d].id \in Issued'
    <3>0. TypeOK /\ CallsInFlightIssued
      BY DEF IInv
    <3>1. CASE decider'[d] = decider[d]
      BY <1>3, <2>1, <3>0, <3>1 DEF CallsInFlightIssued, Issued
    <3>2. ASSUME NEW e \in Deciders, NEW i \in Ids, NEW allow \in BOOLEAN,
                 DecideRead(e, i, allow), decider'[d] # decider[d]
          PROVE  decider'[d].id \in Issued'
      BY <1>3, <2>1, <3>0, <3>2 DEF DecideRead, TypeOK, Issued, NoRow
    <3>3. ASSUME NEW e \in Deciders, DecideWrite(e), decider'[d] # decider[d]
          PROVE  decider'[d].id \in Issued'
      <4>1. d = e
        BY <3>0, <3>3 DEF DecideWrite, TypeOK
      <4>2. decider'[d].id = decider[d].id
        BY <3>0, <3>3, <4>1 DEF DecideWrite, TypeOK
      <4>3. decider[d].id \in Issued
        BY <3>0, <3>3, <4>1 DEF DecideWrite, CallsInFlightIssued
      <4>. QED
        BY <1>3, <4>2, <4>3 DEF Issued
    <3>4. ASSUME NEW e \in Deciders, DecideReturn(e), decider'[d] # decider[d]
          PROVE  decider'[d].id \in Issued'
      BY <2>1, <3>0, <3>4 DEF DecideReturn, TypeOK, Idle
    <3>5. \/ decider' = decider
          \/ \E e \in Deciders :
               \/ DecideWrite(e) \/ DecideReturn(e)
               \/ \E i \in Ids, allow \in BOOLEAN : DecideRead(e, i, allow)
      BY DEF Next, vars, Tick, Request, ConsumeBegin, ConsumeExpired,
             ConsumeGranted, ConsumeRefused
    <3>. QED
      BY <3>1, <3>2, <3>3, <3>4, <3>5
  <2>2. ASSUME NEW c \in Consumers, consumer'[c].pc = "stamped"
        PROVE  consumer'[c].id \in Issued'
    <3>0. TypeOK /\ CallsInFlightIssued
      BY DEF IInv
    <3>1. CASE consumer'[c] = consumer[c]
      BY <1>3, <2>2, <3>0, <3>1 DEF CallsInFlightIssued, Issued
    <3>2. ASSUME NEW b \in Consumers, NEW i \in Ids, NEW call \in Calls,
                 ConsumeBegin(b, i, call), consumer'[c] # consumer[c]
          PROVE  consumer'[c].id \in Issued'
      BY <1>3, <2>2, <3>0, <3>2 DEF ConsumeBegin, TypeOK, Issued
    <3>3. ASSUME NEW b \in Consumers, consumer' = [consumer EXCEPT ![b] = Idle],
                 consumer'[c] # consumer[c]
          PROVE  FALSE
      BY <2>2, <3>0, <3>3 DEF TypeOK, Idle
    <3>4. \/ consumer' = consumer
          \/ \E b \in Consumers :
               \/ consumer' = [consumer EXCEPT ![b] = Idle]
               \/ \E i \in Ids, call \in Calls : ConsumeBegin(b, i, call)
      BY DEF Next, vars, Tick, Request, DecideRead, DecideWrite, DecideReturn,
             ConsumeExpired, ConsumeGranted, ConsumeRefused
    <3>. QED
      BY <3>1, <3>2, <3>3, <3>4
  <2>. QED
    BY <2>1, <2>2 DEF CallsInFlightIssued
<1>5. ASSUME NEW i \in Ids
      PROVE  /\ rows'[i].status = "approved" =>
                   rows'[i].decided_at \in 0..rows'[i].expires
             /\ spends'[i] = 0 => spentFor'[i] = {}
             /\ spends'[i] <= 1
             /\ rows'[i].status = "consumed" <=> spends'[i] = 1
             /\ spends'[i] > 0 =>
                   /\ rows'[i].decided_at \in 0..rows'[i].expires
                   /\ rows'[i].consumed_at \in 0..rows'[i].expires
                   /\ spentFor'[i] = {rows'[i].call}
  <2>0. /\ rows[i] \in Row \cup {NoRow}
        /\ spends[i] \in Nat
        /\ rows[i].status = "approved" => rows[i].decided_at \in 0..rows[i].expires
        /\ spends[i] = 0 => spentFor[i] = {}
        /\ spends[i] <= 1
        /\ rows[i].status = "consumed" <=> spends[i] = 1
        /\ spends[i] > 0 =>
              /\ rows[i].decided_at \in 0..rows[i].expires
              /\ rows[i].consumed_at \in 0..rows[i].expires
              /\ spentFor[i] = {rows[i].call}
    BY DEF IInv, TypeOK, ApprovedInTime, UnspentAuthorisesNothing, SpendOnce,
           SpendAuthorised
  <2>1. CASE RowUntouched(i)
    BY <2>0, <2>1 DEF RowUntouched
  <2>2. CASE RowRequested(i)
    BY <2>0, <2>2 DEF RowRequested, NoRow
  <2>3. CASE RowDecided(i)
    BY <2>0, <2>3 DEF RowDecided, Verdict
  <2>4. CASE RowLapsed(i)
    <3>1. rows[i] \in Row
      BY <2>0, <2>4 DEF RowLapsed, NoRow
    <3>2. rows'[i].status = "expired"
      BY <2>4, <3>1 DEF RowLapsed, Row
    <3>. QED
      BY <2>0, <2>4, <3>2 DEF RowLapsed
  <2>5. CASE RowSpent(i)
    <3>1. rows[i] \in Row
      BY <2>0, <2>5 DEF RowSpent, NoRow
    <3>2. /\ rows'[i].status = "consumed"
          /\ rows'[i].call = rows[i].call
          /\ rows'[i].expires = rows[i].expires
          /\ rows'[i].decided_at = rows[i].decided_at
          /\ rows'[i].consumed_at \in 0..rows[i].expires
      BY <2>5, <3>1 DEF RowSpent, Row
    <3>3. spends[i] = 0 /\ spentFor[i] = {}
      BY <2>0, <2>5 DEF RowSpent
    <3>. QED
      BY <2>0, <2>5, <3>2, <3>3 DEF RowSpent
  <2>. QED
    BY <1>2, <2>1, <2>2, <2>3, <2>4, <2>5
<1>. QED
  BY <1>1, <1>4, <1>5
     DEF IInv, ApprovedInTime, UnspentAuthorisesNothing, SpendOnce, SpendAuthorised

-----------------------------------------------------------------------------
\* Theorems

\* The strengthened invariant holds in every reachable state of the store.
THEOREM Invariance == Spec => []IInv
  BY InitIInv, NextIInv, PTL DEF Spec

\* The table and the locals of the calls in flight always have their types.
THEOREM TypeCorrect == Spec => []TypeOK
<1>1. IInv => TypeOK
  BY DEF IInv
<1>. QED
  BY <1>1, Invariance, PTL

\* consume succeeds at most once per approval, whoever races for it.
THEOREM SingleUse == Spec => []SpendOnce
<1>1. IInv => SpendOnce
  BY DEF IInv
<1>. QED
  BY <1>1, Invariance, PTL

\* A consumed approval was approved and consumed within its lifetime and
\* authorised only the call it was requested for.
THEOREM AuthorisedUse == Spec => []SpendAuthorised
<1>1. IInv => SpendAuthorised
  BY DEF IInv
<1>. QED
  BY <1>1, Invariance, PTL

-----------------------------------------------------------------------------
\* Refinement

\* The token the abstract specification sees.
TokenMap == [i \in Ids |-> TokenOf(i)]

\* Each statement of the store writes one row at most.
LEMMA OneRowAtATime ==
  ASSUME IInv, [Next]_vars, rows' # rows
  PROVE  \E i \in Ids : \A j \in Ids \ {i} : rows'[j] = rows[j]
<1>0. TypeOK
  BY DEF IInv
<1>1. ASSUME NEW i \in Ids, NEW call \in Calls, NEW ttl \in TTLs,
             Request(i, call, ttl)
      PROVE  \A j \in Ids \ {i} : rows'[j] = rows[j]
  BY <1>0, <1>1 DEF Request, TypeOK
<1>2. ASSUME NEW d \in Deciders, DecideWrite(d)
      PROVE  decider[d].id \in Ids /\
             \A j \in Ids \ {decider[d].id} : rows'[j] = rows[j]
  <2>1. decider[d] \in Deciding
    BY <1>0, <1>2 DEF TypeOK, DecideWrite, Written, Answered, Idle
  <2>. QED
    BY <1>0, <1>2, <2>1 DEF DecideWrite, TypeOK, Deciding
<1>3. ASSUME NEW c \in Consumers, ConsumeExpired(c) \/ ConsumeGranted(c)
      PROVE  consumer[c].id \in Ids /\
             \A j \in Ids \ {consumer[c].id} : rows'[j] = rows[j]
  <2>1. consumer[c] \in Consuming
    BY <1>0, <1>3 DEF TypeOK, ConsumeExpired, ConsumeGranted, Idle
  <2>. QED
    BY <1>0, <1>3, <2>1 DEF ConsumeExpired, ConsumeGranted, TypeOK, Consuming
<1>4. \/ \E i \in Ids, call \in Calls, ttl \in TTLs : Request(i, call, ttl)
      \/ \E d \in Deciders : DecideWrite(d)
      \/ \E c \in Consumers : ConsumeExpired(c) \/ ConsumeGranted(c)
  BY DEF Next, vars, Tick, DecideRead, DecideReturn, ConsumeBegin, ConsumeRefused
<1>. QED
  BY <1>1, <1>2, <1>3, <1>4

\* Every step of the store is a step of the token or leaves it unchanged.
LEMMA StepImplementsToken ==
  ASSUME IInv, [Next]_vars
  PROVE  [Promise!TokenNext]_TokenMap
<1> SUFFICES ASSUME rows' # rows
             PROVE  Promise!TokenNext
  BY DEF TokenMap, TokenOf
<1>1. PICK i \in Ids : \A j \in Ids \ {i} : rows'[j] = rows[j]
  BY OneRowAtATime
<1>2. \A j \in Ids \ {i} : TokenMap'[j] = TokenMap[j]
  BY <1>1 DEF TokenMap, TokenOf
<1>3. TokenMap'[i] = TokenOf(i)' /\ TokenMap[i] = TokenOf(i)
  BY DEF TokenMap
<1>4. ASSUME NEW v, TokenOf(i)' = v
      PROVE  TokenMap' = [TokenMap EXCEPT ![i] = v]
  BY <1>2, <1>3, <1>4 DEF TokenMap
<1>5. rows[i] \in Row \cup {NoRow}
  BY DEF IInv, TypeOK
<1>6. CASE RowUntouched(i)
  <2>1. rows' = rows
    BY <1>1, <1>6, NextTypeOK DEF IInv, RowUntouched, TypeOK
  <2>. QED
    BY <2>1
<1>7. CASE RowRequested(i)
  <2>1. TokenOf(i) = NoRow
    BY <1>7 DEF RowRequested, TokenOf
  <2>2. rows'[i].call \in Calls
    BY <1>7 DEF RowRequested, Row
  <2>3. TokenOf(i)' = [status |-> "pending", call |-> rows'[i].call]
    BY <1>7 DEF RowRequested, TokenOf, NoRow
  <2>4. Promise!Issue(i, rows'[i].call)
    BY <1>3, <1>4, <2>1, <2>3
       DEF Promise!Issue, Promise!Unissued, NoRow, TokenMap
  <2>. QED
    BY <2>2, <2>4 DEF Promise!TokenNext
<1>8. ASSUME NEW s \in Verdict \cup {"consumed"},
             rows[i] \in Row, rows'[i] \in Row,
             rows'[i].status = s, rows'[i].call = rows[i].call
      PROVE  Promise!SetStatus(i, s)
  <2>1. TokenOf(i) = [status |-> rows[i].status, call |-> rows[i].call]
    BY <1>8 DEF TokenOf, NoRow, Row, Status
  <2>2. TokenOf(i)' = [status |-> s, call |-> rows[i].call]
    BY <1>8 DEF TokenOf, NoRow, Row, Status
  <2>3. TokenOf(i)' = [TokenMap[i] EXCEPT !.status = s]
    BY <1>3, <2>1, <2>2
  <2>. QED
    BY <1>4, <2>3 DEF Promise!SetStatus, TokenMap
<1>9. CASE RowDecided(i)
  <2>1. rows[i] \in Row
    BY <1>5, <1>9 DEF RowDecided, NoRow
  <2>2. TokenMap[i].status = "pending"
    BY <1>3, <1>9, <2>1 DEF RowDecided, TokenOf, NoRow
  <2>3. PICK s \in Verdict : rows'[i].status = s
    BY <1>9 DEF RowDecided
  <2>4. Promise!SetStatus(i, s)
    BY <1>8, <1>9, <2>1, <2>3 DEF RowDecided
  <2>5. CASE s = "expired"
    BY <2>2, <2>4, <2>5 DEF Promise!Lapse, Promise!TokenNext, TokenMap
  <2>6. CASE s \in {"approved", "denied"}
    BY <2>2, <2>4, <2>6 DEF Promise!Decide, Promise!TokenNext, TokenMap
  <2>. QED
    BY <2>3, <2>5, <2>6 DEF Verdict
<1>10. CASE RowLapsed(i)
  <2>1. rows[i] \in Row
    BY <1>5, <1>10 DEF RowLapsed, NoRow
  <2>2. TokenMap[i].status \in {"pending", "approved"}
    BY <1>3, <1>10, <2>1 DEF RowLapsed, TokenOf, NoRow
  <2>3. /\ rows'[i] \in Row
        /\ rows'[i].status = "expired"
        /\ rows'[i].call = rows[i].call
    BY <1>10, <2>1 DEF RowLapsed, Row, Status
  <2>4. Promise!SetStatus(i, "expired")
    BY <1>8, <2>1, <2>3 DEF Verdict
  <2>. QED
    BY <2>2, <2>4 DEF Promise!Lapse, Promise!TokenNext, TokenMap
<1>11. CASE RowSpent(i)
  <2>1. rows[i] \in Row
    BY <1>5, <1>11 DEF RowSpent, NoRow
  <2>2. TokenMap[i].status = "approved" /\ TokenMap[i].call = rows[i].call
    BY <1>3, <1>11, <2>1 DEF RowSpent, TokenOf, NoRow
  <2>3. rows[i].call \in Calls
    BY <2>1 DEF Row
  <2>4. /\ rows'[i] \in Row
        /\ rows'[i].status = "consumed"
        /\ rows'[i].call = rows[i].call
    <3>1. rows'[i] \in Row \cup {NoRow}
      BY NextTypeOK DEF IInv, TypeOK
    <3>2. rows'[i].status = "consumed" /\ rows'[i].call = rows[i].call
      BY <1>11, <2>1 DEF RowSpent, Row
    <3>. QED
      BY <3>1, <3>2 DEF NoRow
  <2>5. Promise!SetStatus(i, "consumed")
    BY <1>8, <2>1, <2>4
  <2>6. Promise!Spend(i, rows[i].call)
    BY <2>2, <2>5 DEF Promise!Spend, Promise!Spendable, TokenMap
  <2>. QED
    BY <2>3, <2>6 DEF Promise!TokenNext
<1>. QED
  BY <1>6, <1>7, <1>9, <1>10, <1>11, StepOfARow

\* The store with its races implements the atomic single-use token.
THEOREM Refinement == Spec => ImplementsToken
<1>1. Init => Promise!TokenInit
  BY DEF Init, Promise!TokenInit, Promise!Unissued, TokenOf, NoRow
<1>2. IInv /\ [Next]_vars => [Promise!TokenNext]_TokenMap
  BY StepImplementsToken
<1>. QED
  BY <1>1, <1>2, Invariance, PTL DEF Spec, ImplementsToken, Promise!TokenSpec, TokenMap

\* What is denied, lapsed or used up is settled: its row is not written again.
SettledRowsStay ==
    \A i \in Ids : rows[i].status \in {"denied", "expired", "consumed"} => rows'[i] = rows[i]

\* A settled approval never changes again, whoever decides or consumes at the
\* same time: a denial that was stored is not overtaken by an approval whose
\* decision began before it, and the time of a use is not written twice.
THEOREM SettledForGood == Spec => [][SettledRowsStay]_rows
<1>1. ASSUME IInv, [Next]_vars PROVE SettledRowsStay
  <2> SUFFICES ASSUME NEW i \in Ids, rows[i].status \in {"denied", "expired", "consumed"}
               PROVE  rows'[i] = rows[i]
    BY DEF SettledRowsStay
  <2>1. ~RowDecided(i) /\ ~RowLapsed(i) /\ ~RowSpent(i)
    BY DEF RowDecided, RowLapsed, RowSpent
  <2>2. ~RowRequested(i)
    BY DEF RowRequested, NoRow
  <2>. QED
    BY <1>1, <2>1, <2>2, StepOfARow DEF RowUntouched
<1>2. IInv /\ [Next]_vars => [SettledRowsStay]_rows
  BY <1>1
<1>. QED
  BY <1>2, Invariance, PTL DEF Spec

=============================================================================
