--------------------------- MODULE ChatStreamProofs ---------------------------
(***************************************************************************)
(* Theorems about ChatStream, for any requests, threads and candidates, any *)
(* number of cancels and any number of crashes.                             *)
(*                                                                          *)
(* The requests share threads, and a thread's route outlives the request    *)
(* that set it. The argument is that a request is served by one thread at a *)
(* time that serves nothing else (a part of TypeOK), so that what a request *)
(* relies on (RequestSound) is changed by its own steps, by its cancel and  *)
(* by a crash only.                                                         *)
(***************************************************************************)
EXTENDS ChatStream, SequenceTheorems, TLAPS

\* Places of a request whose answer is not stored.
Unstored == {"new", "queued", "start", "stream", "ended", "learn", "save"}

\* Places of a request whose outcome is open.
Open == {"start", "stream", "ended", "learn", "save", "judge"}

\* What the router has sent so far.
VoicesSound(r) ==
    /\ At(r, "start") => task[r].voices = {} /\ task[r].chunks = 0
    /\ task[r].pc \in {"start", "stream"} => task[r].try \in 1..Len(Candidates[r])
    /\ At(r, "stream") =>
        task[r].voices = IF task[r].chunks = 0 THEN {} ELSE {Provider(r)}
    /\ task[r].pc \in {"ended", "learn", "save"} => task[r].voices = {Named(r)}

\* What is stored of a request, and what its caller is told.
RecordSound(r) ==
    /\ task[r].pc \in Unstored => answer[r] = NoAnswer
    /\ answer[r] # NoAnswer => /\ answer[r].voices = {answer[r].named}
                               /\ learned[r] # "missing"
    /\ task[r].pc \in {"save", "judge"} => learned[r] # "missing"
    /\ At(r, "judge") => answer[r] # NoAnswer
    /\ task[r].pc \in Open => task[r].result = "none"
    /\ task[r] \in Serving /\ task[r].result = "completed" =>
            answer[r] # NoAnswer /\ learned[r] = "accepted"

\* A request that was cancelled in time never gets past its last check.
EarlySound(r) ==
    r \in early =>
        /\ answer[r] = NoAnswer
        /\ task[r].pc \notin {"new", "learn", "save", "judge"}
        /\ task[r].pc \in Unwritten => r \in flagged

RequestSound(r) == VoicesSound(r) /\ RecordSound(r) /\ EarlySound(r)

QueuedOnce == \A j, k \in 1..Len(queue) : queue[j] = queue[k] => j = k

IInv ==
    /\ TypeOK
    /\ QueuedOnce
    /\ \A r \in Requests : RequestSound(r)

USE ChatAssumption

-----------------------------------------------------------------------------

LEMMA ServingKinds ==
    \A t \in Serving :
        /\ t # New /\ t # Queued /\ t # [pc |-> "lost"]
        /\ t.pc \notin {"new", "queued", "lost"}
  BY DEF Serving, New, Queued

LEMMA CandidateTried ==
    ASSUME NEW r \in Requests, task[r].try \in 1..Len(Candidates[r])
    PROVE  Provider(r) \in Providers
<1>1. Provider(r) \in Range(Candidates[r])
  BY ElementOfSeq, LenProperties DEF Provider, Range
<1>. QED
  BY <1>1 DEF Providers

\* What a request relies on, when nothing it relies on changes.
LEMMA RequestKept ==
    ASSUME NEW r \in Requests, RequestSound(r),
           task'[r] = task[r], learned'[r] = learned[r], answer'[r] = answer[r],
           r \in early' => r \in early, r \in flagged => r \in flagged',
           task[r].pc \in {"ended", "learn", "save"} =>
                route'[task[r].worker] = route[task[r].worker]
    PROVE  RequestSound(r)'
<1>1. VoicesSound(r)'
  BY DEF RequestSound, VoicesSound, At, Provider, Named
<1>2. RecordSound(r)'
  BY DEF RequestSound, RecordSound, At
<1>3. EarlySound(r)'
  BY DEF RequestSound, EarlySound
<1>. QED
  BY <1>1, <1>2, <1>3 DEF RequestSound

\* A step of the thread that serves a request.
LEMMA ServeStep ==
    ASSUME IInv, NEW r \in Requests, task[r] \in Serving, ~Finished(r),
           NEW t \in Serving, t.worker = task[r].worker,
           task' = [task EXCEPT ![r] = t],
           route' \in [Workers -> Providers \cup {NoProvider}],
           \A w \in Workers \ {t.worker} : route'[w] = route[w],
           learned' \in [Requests -> Quality],
           \A q \in Requests \ {r} : learned'[q] = learned[q],
           answer' \in [Requests -> Answer \cup {NoAnswer}],
           \A q \in Requests \ {r} : answer'[q] = answer[q],
           UNCHANGED <<queue, flagged, cancelling, used, early>>,
           RequestSound(r)'
    PROVE  IInv'
<1>1. task'[r] = t /\ \A q \in Requests \ {r} : task'[q] = task[q]
  BY DEF IInv, TypeOK
<1>2. \A q \in Requests \ {r} :
        task[q] \in Serving /\ ~Finished(q) => task[q].worker # t.worker
  BY DEF IInv, TypeOK
<1>3. \A q \in Requests \ {r} : RequestSound(q)'
  <2> TAKE q \in Requests \ {r}
  <2>1. ASSUME task[q].pc \in {"ended", "learn", "save"}
        PROVE  route'[task[q].worker] = route[task[q].worker]
    <3>1. task[q] \in Serving /\ ~Finished(q)
      BY <2>1 DEF IInv, TypeOK, New, Queued, Finished
    <3>2. task[q].worker \in Workers
      BY <3>1 DEF Serving
    <3>. QED
      BY <1>2, <3>1, <3>2
  <2>. QED
    BY <1>1, <2>1, RequestKept DEF IInv
<1>4. TypeOK'
  <2>1. {q \in Requests : task'[q] = Queued} = {q \in Requests : task[q] = Queued}
    BY <1>1, ServingKinds
  <2>2. task' \in [Requests -> Serving \cup {New, Queued, [pc |-> "lost"]}]
    BY DEF IInv, TypeOK
  <2>3. ASSUME NEW q \in Requests, NEW p \in Requests, q # p,
               task'[q] \in Serving, task'[p] \in Serving,
               task'[q].worker = task'[p].worker
        PROVE  task'[q].pc \in {"done", "lost"} \/ task'[p].pc \in {"done", "lost"}
    BY <1>1, <1>2, <2>3 DEF IInv, TypeOK, Finished
  <2>. QED
    BY <2>1, <2>2, <2>3 DEF IInv, TypeOK, Finished
<1>. QED
  BY <1>3, <1>4 DEF IInv, QueuedOnce

LEMMA ServedRequest ==
    ASSUME IInv, NEW r \in Requests, task[r].pc \in Open \cup {"respond", "remove"}
    PROVE  /\ task[r] \in Serving /\ ~Finished(r) /\ RequestSound(r)
           /\ route \in [Workers -> Providers \cup {NoProvider}]
           /\ learned \in [Requests -> Quality]
           /\ answer \in [Requests -> Answer \cup {NoAnswer}]
           /\ task[r].worker \in Workers
<1>1. task[r] \in Serving
  BY DEF IInv, TypeOK, Open, New, Queued
<1>. QED
  BY <1>1 DEF IInv, TypeOK, Open, Finished, Serving

\* The request is over: what is left is to respond.
LEMMA EndStep ==
    ASSUME IInv, NEW r \in Requests, task[r].pc \in Open,
           NEW result \in Results, End(r, result),
           route' \in [Workers -> Providers \cup {NoProvider}],
           \A w \in Workers \ {task[r].worker} : route'[w] = route[w],
           learned' \in [Requests -> Quality],
           \A q \in Requests \ {r} : learned'[q] = learned[q],
           learned'[r] = "missing" => learned[r] = "missing",
           result = "completed" => answer[r] # NoAnswer /\ learned'[r] = "accepted",
           UNCHANGED <<queue, flagged, cancelling, used, early, answer>>
    PROVE  IInv'
<1> DEFINE t == [task[r] EXCEPT !.pc = "respond", !.result = result]
<1>1. task[r] \in Serving /\ ~Finished(r) /\ RequestSound(r)
      /\ answer \in [Requests -> Answer \cup {NoAnswer}]
  BY ServedRequest
<1>2. task' = [task EXCEPT ![r] = t]
  BY DEF End, Told, Put
<1>3. t \in Serving /\ t.worker = task[r].worker /\ t.pc = "respond" /\ t.result = result
  BY <1>1 DEF Serving
<1>4. task'[r] = t
  BY <1>2 DEF IInv, TypeOK
<1> HIDE DEF t
<1>5. VoicesSound(r)'
  BY <1>3, <1>4 DEF VoicesSound, At
<1>6. RecordSound(r)'
  BY <1>1, <1>3, <1>4 DEF RequestSound, RecordSound, At, Unstored, Open
<1>7. EarlySound(r)'
  BY <1>1, <1>3, <1>4 DEF RequestSound, EarlySound, Unwritten
<1>8. RequestSound(r)'
  BY <1>5, <1>6, <1>7 DEF RequestSound
<1>. QED
  BY <1>1, <1>2, <1>3, <1>8, ServeStep

\* The same, when nothing is recorded.
LEMMA GiveUpStep ==
    ASSUME IInv, NEW r \in Requests, task[r].pc \in Open,
           NEW result \in {"error", "cancelled"}, End(r, result),
           UNCHANGED <<queue, flagged, cancelling, route, used, early, learned, answer>>
    PROVE  IInv'
  BY ServedRequest, EndStep DEF Results

\* The thread goes on, and nothing is recorded.
LEMMA GoOnStep ==
    ASSUME IInv, NEW r \in Requests, task[r].pc \in Open \cup {"respond", "remove"},
           NEW t \in Serving, t.worker = task[r].worker,
           task' = [task EXCEPT ![r] = t],
           UNCHANGED <<queue, flagged, cancelling, route, used, early, learned, answer>>,
           RequestSound(r)'
    PROVE  IInv'
  BY ServedRequest, ServeStep

LEMMA StartStep ==
    ASSUME IInv, NEW r \in Requests, Start(r)
    PROVE  IInv'
<1>1. task[r].pc = "start" /\ task[r].pc \in Open
      /\ UNCHANGED <<queue, flagged, cancelling, route, learned, answer, used, early>>
  BY DEF Start, At, Open
<1>2. task[r] \in Serving /\ RequestSound(r)
  BY <1>1, ServedRequest
<1>3. CASE Cancelled(r)
  BY <1>1, <1>3, GiveUpStep DEF Start
<1>4. CASE ~Cancelled(r)
  <2> DEFINE t == [task[r] EXCEPT !.pc = "stream"]
  <2>1. task' = [task EXCEPT ![r] = t]
    BY <1>4 DEF Start, Goto, Put
  <2>2. /\ t \in Serving /\ t.worker = task[r].worker /\ t.pc = "stream"
        /\ t.voices = task[r].voices /\ t.chunks = task[r].chunks /\ t.try = task[r].try
        /\ t.result = task[r].result
    BY <1>2 DEF Serving
  <2>3. task'[r] = t
    BY <2>1 DEF IInv, TypeOK
  <2> HIDE DEF t
  <2>4. VoicesSound(r)'
    BY <1>1, <1>2, <2>2, <2>3 DEF RequestSound, VoicesSound, At
  <2>5. RecordSound(r)'
    BY <1>1, <1>2, <2>2, <2>3 DEF RequestSound, RecordSound, At, Unstored, Open
  <2>6. EarlySound(r)'
    BY <1>1, <1>2, <2>2, <2>3 DEF RequestSound, EarlySound, Unwritten
  <2>. QED
    BY <1>1, <2>1, <2>2, <2>4, <2>5, <2>6, GoOnStep DEF RequestSound
<1>. QED
  BY <1>3, <1>4

LEMMA ChunkStep ==
    ASSUME IInv, NEW r \in Requests, Chunk(r)
    PROVE  IInv'
<1> DEFINE w == task[r].worker
<1>1. task[r].pc = "stream" /\ task[r].pc \in Open
      /\ UNCHANGED <<queue, flagged, cancelling, learned, answer, used, early>>
  BY DEF Chunk, At, Open
<1>2. task[r] \in Serving /\ RequestSound(r) /\ ~Finished(r) /\ w \in Workers
      /\ route \in [Workers -> Providers \cup {NoProvider}]
      /\ learned \in [Requests -> Quality]
      /\ answer \in [Requests -> Answer \cup {NoAnswer}]
  BY <1>1, ServedRequest
<1>3. Provider(r) \in Providers
  BY <1>1, <1>2, CandidateTried DEF RequestSound, VoicesSound
<1>4. route' \in [Workers -> Providers \cup {NoProvider}]
      /\ \A v \in Workers \ {w} : route'[v] = route[v]
  BY <1>2, <1>3 DEF Chunk
<1>5. CASE Cancelled(r)
  BY <1>1, <1>2, <1>4, <1>5, EndStep DEF Chunk, Results
<1>6. CASE ~Cancelled(r)
  <2> DEFINE n == OneMore(task[r].chunks)
             vs == task[r].voices \cup {Provider(r)}
             t == [task[r] EXCEPT !.voices = vs, !.chunks = n]
  <2>1. task' = [task EXCEPT ![r] = t]
    BY <1>6 DEF Chunk, Put
  <2>2. n \in 0..MaxChunks /\ n # 0
    <3>1. task[r].chunks \in 0..MaxChunks /\ MaxChunks \in Nat \ {0, 1}
      BY <1>2 DEF Serving
    <3>. QED
      BY <3>1 DEF OneMore
  <2>3. vs \in SUBSET Providers /\ vs = {Provider(r)}
    BY <1>1, <1>2, <1>3 DEF RequestSound, VoicesSound, At, Serving
  <2> HIDE DEF n, vs
  <2>4. /\ t \in Serving /\ t.worker = w /\ t.pc = "stream" /\ t.voices = vs
        /\ t.chunks = n /\ t.try = task[r].try /\ t.result = task[r].result
    BY <1>1, <1>2, <2>2, <2>3 DEF Serving
  <2>5. task'[r] = t
    BY <2>1 DEF IInv, TypeOK
  <2> HIDE DEF t
  <2>6. VoicesSound(r)'
    BY <1>1, <1>2, <2>2, <2>3, <2>4, <2>5 DEF RequestSound, VoicesSound, At, Provider
  <2>7. RecordSound(r)'
    BY <1>1, <1>2, <2>4, <2>5 DEF RequestSound, RecordSound, At, Unstored, Open
  <2>8. EarlySound(r)'
    BY <1>1, <1>2, <2>4, <2>5 DEF RequestSound, EarlySound, Unwritten
  <2>9. RequestSound(r)'
    BY <2>6, <2>7, <2>8 DEF RequestSound
  <2>. QED
    BY <1>1, <1>2, <1>4, <2>1, <2>4, <2>9, ServeStep
<1>. QED
  BY <1>5, <1>6

\* The router turns to its next candidate: the one before it sent nothing.
LEMMA TryNextStep ==
    ASSUME IInv, NEW r \in Requests, task[r].pc = "stream", ~Emitted(r), TryNext(r),
           UNCHANGED <<queue, flagged, cancelling, route, used, early, learned, answer>>
    PROVE  IInv'
<1>1. task[r].pc \in Open
  BY DEF Open
<1>2. task[r] \in Serving /\ RequestSound(r)
  BY <1>1, ServedRequest
<1>3. CASE task[r].try = Len(Candidates[r])
  BY <1>1, <1>3, GiveUpStep DEF TryNext
<1>4. CASE task[r].try # Len(Candidates[r])
  <2> DEFINE n == task[r].try + 1
             t == [task[r] EXCEPT !.try = n]
  <2>1. task' = [task EXCEPT ![r] = t]
    BY <1>4 DEF TryNext, Put
  <2>2. n \in 1..Len(Candidates[r]) /\ n \in Nat
    <3>1. task[r].try \in 1..Len(Candidates[r])
      BY <1>2 DEF RequestSound, VoicesSound
    <3>2. Len(Candidates[r]) \in Nat
      BY LenProperties
    <3>. QED
      BY <1>4, <3>1, <3>2
  <2>3. task[r].chunks = 0
    BY <1>2 DEF Emitted, Serving
  <2> HIDE DEF n
  <2>4. /\ t \in Serving /\ t.worker = task[r].worker /\ t.pc = "stream" /\ t.try = n
        /\ t.voices = task[r].voices /\ t.chunks = 0 /\ t.result = task[r].result
    BY <1>2, <2>2, <2>3 DEF Serving
  <2>5. task'[r] = t
    BY <2>1 DEF IInv, TypeOK
  <2> HIDE DEF t
  <2>6. VoicesSound(r)'
    BY <1>2, <2>2, <2>3, <2>4, <2>5 DEF RequestSound, VoicesSound, At
  <2>7. RecordSound(r)'
    BY <1>2, <2>4, <2>5 DEF RequestSound, RecordSound, At, Unstored, Open
  <2>8. EarlySound(r)'
    BY <1>2, <2>4, <2>5 DEF RequestSound, EarlySound, Unwritten
  <2>. QED
    BY <1>1, <2>1, <2>4, <2>6, <2>7, <2>8, GoOnStep DEF RequestSound
<1>. QED
  BY <1>3, <1>4

LEMMA StreamEndsStep ==
    ASSUME IInv, NEW r \in Requests, StreamEnds(r)
    PROVE  IInv'
<1> DEFINE w == task[r].worker
<1>1. task[r].pc = "stream" /\ task[r].pc \in Open
      /\ UNCHANGED <<queue, flagged, cancelling, learned, answer, used, early>>
  BY DEF StreamEnds, At, Open
<1>2. task[r] \in Serving /\ RequestSound(r) /\ ~Finished(r) /\ w \in Workers
      /\ route \in [Workers -> Providers \cup {NoProvider}]
      /\ learned \in [Requests -> Quality]
      /\ answer \in [Requests -> Answer \cup {NoAnswer}]
  BY <1>1, ServedRequest
<1>3. CASE ~Emitted(r)
  BY <1>1, <1>3, TryNextStep DEF StreamEnds
<1>4. CASE Emitted(r)
  <2> DEFINE t == [task[r] EXCEPT !.pc = "ended"]
  <2>1. task' = [task EXCEPT ![r] = t] /\ route' = [route EXCEPT ![w] = Provider(r)]
    BY <1>4 DEF StreamEnds, Goto, Put, LastRoute
  <2>2. Provider(r) \in Providers
    BY <1>1, <1>2, CandidateTried DEF RequestSound, VoicesSound
  <2>3. task[r].voices = {Provider(r)}
    BY <1>1, <1>2, <1>4 DEF RequestSound, VoicesSound, At, Emitted, Serving
  <2>4. /\ t \in Serving /\ t.worker = w /\ t.pc = "ended"
        /\ t.voices = task[r].voices /\ t.result = task[r].result
    BY <1>2 DEF Serving
  <2>5. task'[r] = t
    BY <2>1 DEF IInv, TypeOK
  <2>6. /\ route' \in [Workers -> Providers \cup {NoProvider}]
        /\ route'[w] = Provider(r)
        /\ \A v \in Workers \ {w} : route'[v] = route[v]
    BY <1>2, <2>1, <2>2
  <2> HIDE DEF t
  <2>7. VoicesSound(r)'
    BY <2>3, <2>4, <2>5, <2>6 DEF VoicesSound, At, Named
  <2>8. RecordSound(r)'
    BY <1>1, <1>2, <2>4, <2>5 DEF RequestSound, RecordSound, At, Unstored, Open
  <2>9. EarlySound(r)'
    BY <1>1, <1>2, <2>4, <2>5 DEF RequestSound, EarlySound, Unwritten
  <2>10. RequestSound(r)'
    BY <2>7, <2>8, <2>9 DEF RequestSound
  <2>. QED
    BY <1>1, <1>2, <2>1, <2>4, <2>6, <2>10, ServeStep
<1>. QED
  BY <1>3, <1>4

LEMMA StreamFailsStep ==
    ASSUME IInv, NEW r \in Requests, StreamFails(r)
    PROVE  IInv'
<1>1. task[r].pc = "stream" /\ task[r].pc \in Open
      /\ UNCHANGED <<queue, flagged, cancelling, route, learned, answer, used, early>>
  BY DEF StreamFails, At, Open
<1>2. CASE Emitted(r)
  BY <1>1, <1>2, GiveUpStep DEF StreamFails
<1>3. CASE ~Emitted(r)
  BY <1>1, <1>3, TryNextStep DEF StreamFails
<1>. QED
  BY <1>2, <1>3

\* A request moves to a place where its text is complete.
LEMMA MoveSound ==
    ASSUME IInv, NEW r \in Requests, task[r].pc \in Open \cup {"respond", "remove"},
           NEW pc \in {"learn", "save", "judge", "remove", "done"}, Goto(r, pc)
    PROVE  LET t == [task[r] EXCEPT !.pc = pc] IN
           /\ t \in Serving /\ task' = [task EXCEPT ![r] = t] /\ task'[r] = t
           /\ t.pc = pc /\ t.worker = task[r].worker /\ t.voices = task[r].voices
           /\ t.result = task[r].result
<1>1. task[r] \in Serving
  BY ServedRequest
<1>. QED
  BY <1>1 DEF Goto, Put, Serving, IInv, TypeOK

LEMMA LastCheckStep ==
    ASSUME IInv, NEW r \in Requests, LastCheck(r)
    PROVE  IInv'
<1>1. task[r].pc = "ended" /\ task[r].pc \in Open
      /\ UNCHANGED <<queue, flagged, cancelling, route, learned, answer, used, early>>
  BY DEF LastCheck, At, Open
<1>2. task[r] \in Serving /\ RequestSound(r)
  BY <1>1, ServedRequest
<1>3. CASE End(r, "cancelled") \/ End(r, "error")
  BY <1>1, <1>3, GiveUpStep
<1>4. CASE ~Cancelled(r) /\ Goto(r, "learn")
  <2> DEFINE t == [task[r] EXCEPT !.pc = "learn"]
  <2>1. /\ t \in Serving /\ task' = [task EXCEPT ![r] = t] /\ task'[r] = t
        /\ t.pc = "learn" /\ t.worker = task[r].worker /\ t.voices = task[r].voices
        /\ t.result = task[r].result
    BY <1>1, <1>4, MoveSound
  <2> HIDE DEF t
  <2>2. VoicesSound(r)'
    BY <1>1, <1>2, <2>1 DEF RequestSound, VoicesSound, At, Named
  <2>3. RecordSound(r)'
    BY <1>1, <1>2, <2>1 DEF RequestSound, RecordSound, At, Unstored, Open
  <2>4. EarlySound(r)'
    BY <1>1, <1>2, <1>4, <2>1 DEF RequestSound, EarlySound, Unwritten, Cancelled
  <2>. QED
    BY <1>1, <2>1, <2>2, <2>3, <2>4, GoOnStep DEF RequestSound
<1>. QED
  BY <1>3, <1>4 DEF LastCheck

LEMMA LearnStep ==
    ASSUME IInv, NEW r \in Requests, Learn(r)
    PROVE  IInv'
<1>1. task[r].pc = "learn" /\ task[r].pc \in Open
      /\ UNCHANGED <<queue, flagged, cancelling, route, answer, used, early>>
  BY DEF Learn, At, Open
<1>2. task[r] \in Serving /\ RequestSound(r) /\ ~Finished(r)
      /\ route \in [Workers -> Providers \cup {NoProvider}]
      /\ learned \in [Requests -> Quality]
      /\ answer \in [Requests -> Answer \cup {NoAnswer}]
  BY <1>1, ServedRequest
<1>3. CASE End(r, "error") /\ UNCHANGED learned
  BY <1>1, <1>3, GiveUpStep
<1>4. CASE Goto(r, "save") /\ learned' = Captured(r)
  <2> DEFINE t == [task[r] EXCEPT !.pc = "save"]
  <2>1. /\ t \in Serving /\ task' = [task EXCEPT ![r] = t] /\ task'[r] = t
        /\ t.pc = "save" /\ t.worker = task[r].worker /\ t.voices = task[r].voices
        /\ t.result = task[r].result
    BY <1>1, <1>4, MoveSound
  <2>2. /\ learned' \in [Requests -> Quality] /\ learned'[r] = "unjudged"
        /\ \A q \in Requests \ {r} : learned'[q] = learned[q]
    BY <1>2, <1>4 DEF Captured, Quality
  <2> HIDE DEF t
  <2>3. VoicesSound(r)'
    BY <1>1, <1>2, <2>1 DEF RequestSound, VoicesSound, At, Named
  <2>4. RecordSound(r)'
    BY <1>1, <1>2, <2>1, <2>2 DEF RequestSound, RecordSound, At, Unstored, Open
  <2>5. EarlySound(r)'
    BY <1>1, <1>2, <2>1 DEF RequestSound, EarlySound, Unwritten
  <2>6. RequestSound(r)'
    BY <2>3, <2>4, <2>5 DEF RequestSound
  <2>. QED
    BY <1>1, <1>2, <2>1, <2>2, <2>6, ServeStep
<1>. QED
  BY <1>3, <1>4 DEF Learn

LEMMA SaveStep ==
    ASSUME IInv, NEW r \in Requests, Save(r)
    PROVE  IInv'
<1>1. task[r].pc = "save" /\ task[r].pc \in Open
      /\ UNCHANGED <<queue, flagged, cancelling, route, learned, used, early>>
  BY DEF Save, At, Open
<1>2. task[r] \in Serving /\ RequestSound(r) /\ ~Finished(r) /\ task[r].worker \in Workers
      /\ route \in [Workers -> Providers \cup {NoProvider}]
      /\ learned \in [Requests -> Quality]
      /\ answer \in [Requests -> Answer \cup {NoAnswer}]
  BY <1>1, ServedRequest
<1>3. CASE End(r, "error") /\ UNCHANGED answer
  BY <1>1, <1>3, GiveUpStep
<1>4. CASE /\ Goto(r, "judge")
           /\ answer' = [answer EXCEPT ![r] = [voices |-> task[r].voices,
                                               named |-> Named(r)]]
  <2> DEFINE t == [task[r] EXCEPT !.pc = "judge"]
             a == [voices |-> task[r].voices, named |-> Named(r)]
  <2>1. /\ t \in Serving /\ task' = [task EXCEPT ![r] = t] /\ task'[r] = t
        /\ t.pc = "judge" /\ t.worker = task[r].worker /\ t.voices = task[r].voices
        /\ t.result = task[r].result
    BY <1>1, <1>4, MoveSound
  <2>2. a \in Answer /\ a # NoAnswer /\ a.voices = {a.named}
    <3>1. a \in Answer /\ a.voices = {a.named}
      BY <1>1, <1>2 DEF RequestSound, VoicesSound, Named, Serving, Answer
    <3>. QED
      BY <3>1 DEF NoAnswer
  <2> HIDE DEF t, a
  <2>3. /\ answer' \in [Requests -> Answer \cup {NoAnswer}] /\ answer'[r] = a
        /\ \A q \in Requests \ {r} : answer'[q] = answer[q]
    BY <1>2, <1>4, <2>2 DEF a
  <2>4. VoicesSound(r)'
    BY <2>1 DEF VoicesSound, At
  <2>5. RecordSound(r)'
    BY <1>1, <1>2, <2>1, <2>2, <2>3 DEF RequestSound, RecordSound, At, Unstored, Open
  <2>6. EarlySound(r)'
    BY <1>1, <1>2, <2>1 DEF RequestSound, EarlySound, Unwritten
  <2>7. RequestSound(r)'
    BY <2>4, <2>5, <2>6 DEF RequestSound
  <2>. QED
    BY <1>1, <1>2, <2>1, <2>3, <2>7, ServeStep
<1>. QED
  BY <1>3, <1>4 DEF Save

LEMMA JudgeStep ==
    ASSUME IInv, NEW r \in Requests, Judge(r)
    PROVE  IInv'
<1>1. task[r].pc = "judge" /\ task[r].pc \in Open
      /\ UNCHANGED <<queue, flagged, cancelling, route, answer, used, early>>
  BY DEF Judge, At, Open
<1>2. RequestSound(r) /\ route \in [Workers -> Providers \cup {NoProvider}]
      /\ learned \in [Requests -> Quality]
  BY <1>1, ServedRequest
<1>3. PICK result \in {"completed", "error"}, verdict \in {"accepted", "rejected", learned[r]} :
        /\ End(r, result)
        /\ learned' = [learned EXCEPT ![r] = verdict]
        /\ result = "completed" => verdict = "accepted"
        /\ verdict = learned[r] => verdict # "missing"
  <2>1. learned[r] # "missing" /\ learned = [learned EXCEPT ![r] = learned[r]]
    BY <1>1, <1>2 DEF RequestSound, RecordSound
  <2>. QED
    BY <2>1 DEF Judge
<1>4. /\ learned' \in [Requests -> Quality] /\ learned'[r] = verdict
      /\ \A q \in Requests \ {r} : learned'[q] = learned[q]
  BY <1>2, <1>3 DEF Quality
<1>5. answer[r] # NoAnswer /\ result \in Results
  BY <1>1, <1>2 DEF RequestSound, RecordSound, At, Results
<1>. QED
  BY <1>1, <1>2, <1>3, <1>4, <1>5, EndStep

LEMMA RespondStep ==
    ASSUME IInv, NEW r \in Requests, Respond(r) \/ Unregister(r)
    PROVE  IInv'
<1>1. PICK pc \in {"remove", "done"} : Goto(r, pc)
  BY DEF Respond, Unregister
<1>2. task[r].pc \in {"respond", "remove"}
      /\ UNCHANGED <<queue, flagged, cancelling, route, learned, answer, used, early>>
  BY DEF Respond, Unregister, At
<1>3. RequestSound(r) /\ task[r] \in Serving
  BY <1>2, ServedRequest
<1> DEFINE t == [task[r] EXCEPT !.pc = pc]
<1>4. /\ t \in Serving /\ task' = [task EXCEPT ![r] = t] /\ task'[r] = t
      /\ t.pc = pc /\ t.worker = task[r].worker /\ t.result = task[r].result
  <2>1. CASE pc = "remove"
    BY <1>1, <1>2, <2>1, MoveSound
  <2>2. CASE pc = "done"
    BY <1>1, <1>2, <2>2, MoveSound
  <2>. QED
    BY <2>1, <2>2
<1> HIDE DEF t
<1>5. VoicesSound(r)'
  BY <1>4 DEF VoicesSound, At
<1>6. RecordSound(r)'
  BY <1>2, <1>3, <1>4 DEF RequestSound, RecordSound, At, Unstored, Open
<1>7. EarlySound(r)'
  BY <1>2, <1>3, <1>4 DEF RequestSound, EarlySound, Unwritten
<1>. QED
  BY <1>2, <1>4, <1>5, <1>6, <1>7, GoOnStep DEF RequestSound

-----------------------------------------------------------------------------
\* The reading loop, the pool and the process

LEMMA SequenceRange ==
    ASSUME NEW S, NEW s \in Seq(S)
    PROVE  Range(s) = {s[k] : k \in 1..Len(s)}
  BY LenProperties DEF Range

LEMMA EmptyQueue ==
    ASSUME NEW S
    PROVE  <<>> \in Seq(S) /\ Len(<<>>) = 0 /\ Range(<<>>) = {}
<1>1. <<>> \in Seq(S) /\ Len(<<>>) = 0
  BY EmptySeq
<1>2. Range(<<>>) = {<<>>[k] : k \in 1..Len(<<>>)}
  BY <1>1, SequenceRange
<1>. QED
  BY <1>1, <1>2

LEMMA SubmitStep ==
    ASSUME IInv, NEW r \in Requests, Submit(r)
    PROVE  IInv'
<1>1. task[r] = New /\ task' = [task EXCEPT ![r] = Queued] /\ queue' = Append(queue, r)
      /\ UNCHANGED <<flagged, cancelling, route, learned, answer, used, early>>
  BY DEF Submit
<1>2. task'[r] = Queued /\ \A q \in Requests \ {r} : task'[q] = task[q]
  BY <1>1 DEF IInv, TypeOK
<1>3. /\ queue \in Seq(Requests) /\ Len(queue) \in Nat
      /\ Range(queue) = {q \in Requests : task[q] = Queued}
      /\ r \notin Range(queue)
  BY <1>1, LenProperties DEF IInv, TypeOK, New, Queued
<1>4. /\ queue' \in Seq(Requests) /\ Len(queue') = Len(queue) + 1
      /\ queue'[Len(queue) + 1] = r
      /\ \A k \in 1..Len(queue) : queue'[k] = queue[k]
  BY <1>1, <1>3, AppendProperties
<1>5. QueuedOnce'
  <2> SUFFICES ASSUME NEW j \in 1..Len(queue'), NEW k \in 1..Len(queue'),
                      queue'[j] = queue'[k], j < k
               PROVE  FALSE
    BY <1>3, <1>4 DEF QueuedOnce
  <2>1. j \in 1..Len(queue)
    BY <1>3, <1>4
  <2>2. queue[j] \in Range(queue)
    BY <1>3, <2>1, SequenceRange
  <2>3. CASE k \in 1..Len(queue)
    BY <1>4, <2>1, <2>3 DEF IInv, QueuedOnce
  <2>4. CASE k = Len(queue) + 1
    BY <1>3, <1>4, <2>1, <2>2, <2>4
  <2>5. k \in 1..Len(queue) \/ k = Len(queue) + 1
    <3>1. Len(queue) \in Nat /\ Len(queue') = Len(queue) + 1
      BY <1>3, <1>4
    <3>. QED
      BY <3>1
  <2>. QED
    BY <2>3, <2>4, <2>5
<1>6. Range(queue') = Range(queue) \cup {r}
  <2>1. Range(queue') = {queue'[k] : k \in 1..Len(queue) + 1}
    BY <1>4, SequenceRange
  <2>2. Range(queue) = {queue[k] : k \in 1..Len(queue)}
    BY <1>3, SequenceRange
  <2>3. 1..Len(queue) + 1 = 1..Len(queue) \cup {Len(queue) + 1}
    BY <1>3
  <2>. QED
    BY <1>4, <2>1, <2>2, <2>3
<1>7. TypeOK'
  <2>1. Range(queue') = {q \in Requests : task'[q] = Queued}
    BY <1>2, <1>3, <1>6
  <2>2. task' \in [Requests -> Serving \cup {New, Queued, [pc |-> "lost"]}]
    BY <1>1 DEF IInv, TypeOK
  <2>3. \A q \in Requests : task'[q] \in Serving => q # r
    BY <1>2, ServingKinds
  <2>4. ASSUME NEW q \in Requests, NEW p \in Requests, q # p,
               task'[q] \in Serving, task'[p] \in Serving,
               task'[q].worker = task'[p].worker
        PROVE  task'[q].pc \in {"done", "lost"} \/ task'[p].pc \in {"done", "lost"}
    BY <1>2, <2>3, <2>4 DEF IInv, TypeOK, Finished
  <2>. QED
    BY <1>1, <1>4, <2>1, <2>2, <2>4 DEF IInv, TypeOK, Finished
<1>8. \A q \in Requests \ {r} : RequestSound(q)'
  BY <1>1, <1>2, RequestKept DEF IInv
<1>9. RequestSound(r)'
  <2>1. RequestSound(r)
    BY DEF IInv
  <2>2. VoicesSound(r)'
    BY <1>2 DEF VoicesSound, At, Queued
  <2>3. RecordSound(r)'
    BY <1>1, <1>2, <2>1, ServingKinds DEF RequestSound, RecordSound, At, Queued, New, Unstored, Open
  <2>4. EarlySound(r)'
    BY <1>1, <2>1 DEF RequestSound, EarlySound, New
  <2>. QED
    BY <2>2, <2>3, <2>4 DEF RequestSound
<1>. QED
  BY <1>5, <1>7, <1>8, <1>9 DEF IInv

LEMMA CancelAllStep ==
    ASSUME IInv, CancelAll
    PROVE  IInv'
<1>1. UNCHANGED <<queue, flagged, task, route, learned, answer, early>>
  BY DEF CancelAll
<1>2. cancelling' \subseteq Requests /\ used' \in [cancels : 0..MaxCancels, crashes : 0..MaxCrashes]
  <2>1. used \in [cancels : 0..MaxCancels, crashes : 0..MaxCrashes]
        /\ used.cancels < MaxCancels
        /\ used' = [used EXCEPT !.cancels = used.cancels + 1]
        /\ cancelling' = Registered
    BY DEF IInv, TypeOK, CancelAll
  <2>2. used.cancels + 1 \in 0..MaxCancels
    BY <2>1
  <2>. QED
    BY <2>1, <2>2 DEF Registered
<1>3. TypeOK'
  BY <1>1, <1>2 DEF IInv, TypeOK, Finished
<1>4. \A q \in Requests : RequestSound(q)'
  BY <1>1, RequestKept DEF IInv
<1>. QED
  BY <1>1, <1>3, <1>4 DEF IInv, QueuedOnce

LEMMA SetEventStep ==
    ASSUME IInv, NEW r \in Requests, SetEvent(r)
    PROVE  IInv'
<1>1. /\ UNCHANGED <<queue, task, route, learned, answer, used>>
      /\ flagged' = flagged \cup {r} /\ cancelling' = cancelling \ {r}
      /\ early' = IF task[r].pc \in Unwritten THEN early \cup {r} ELSE early
  BY DEF SetEvent
<1>2. TypeOK'
  BY <1>1 DEF IInv, TypeOK, Finished
<1>3. \A q \in Requests \ {r} : RequestSound(q)'
  BY <1>1, RequestKept DEF IInv
<1>4. RequestSound(r)'
  <2>1. RequestSound(r)
    BY DEF IInv
  <2>2. VoicesSound(r)' /\ RecordSound(r)'
    BY <1>1, <2>1 DEF RequestSound, VoicesSound, RecordSound, At, Provider, Named
  <2>3. EarlySound(r)'
    BY <1>1, <2>1 DEF RequestSound, EarlySound, RecordSound, Unwritten, Unstored
  <2>. QED
    BY <2>2, <2>3 DEF RequestSound
<1>. QED
  BY <1>1, <1>2, <1>3, <1>4 DEF IInv, QueuedOnce

LEMMA BeginStep ==
    ASSUME IInv, NEW w \in Workers, Begin(w)
    PROVE  IInv'
<1>0. PICK r \in Requests : r = Head(queue)
  BY HeadTailProperties DEF Begin, IInv, TypeOK
<1>1. Served(w) = {} /\ queue # <<>> /\ queue' = Tail(queue)
      /\ UNCHANGED <<flagged, cancelling, route, learned, answer, used, early>>
  BY DEF Begin, Free
<1>2. PICK begun \in {[pc |-> "start", result |-> "none"],
                      [pc |-> "respond", result |-> "error"]} :
        task' = [task EXCEPT ![r] =
                   [pc |-> begun.pc, worker |-> w, try |-> 1, chunks |-> 0,
                    voices |-> {}, result |-> begun.result]]
  BY <1>0 DEF Begin, Put
<1> DEFINE t == [pc |-> begun.pc, worker |-> w, try |-> 1, chunks |-> 0,
                 voices |-> {}, result |-> begun.result]
<1>3. /\ queue \in Seq(Requests) /\ Len(queue) \in Nat \ {0}
      /\ Range(queue) = {q \in Requests : task[q] = Queued}
  BY <1>1, EmptySeq DEF IInv, TypeOK
<1>4. /\ r \in Requests /\ r = queue[1] /\ Tail(queue) \in Seq(Requests)
      /\ Len(Tail(queue)) = Len(queue) - 1
      /\ \A i \in 1..Len(Tail(queue)) : Tail(queue)[i] = queue[i + 1]
  BY <1>0, <1>1, <1>3, HeadTailProperties
<1>5. r \in Range(queue) /\ task[r] = Queued
  BY <1>3, <1>4, SequenceRange
<1>6. task'[r] = t /\ \A q \in Requests \ {r} : task'[q] = task[q]
  BY <1>2, <1>4 DEF IInv, TypeOK
<1>7. /\ t \in Serving /\ t.worker = w /\ t.pc \in {"start", "respond"}
      /\ t.pc = "start" => t.result = "none"
      /\ t.pc = "respond" => t.result = "error"
      /\ t.voices = {} /\ t.chunks = 0 /\ t.try = 1
  BY DEF Serving, Results
<1> HIDE DEF t
<1>8. Range(queue') = Range(queue) \ {r}
  <2>1. Range(queue') = {queue[i + 1] : i \in 1..Len(queue) - 1}
    <3>1. Range(Tail(queue)) = {Tail(queue)[i] : i \in 1..Len(Tail(queue))}
      BY <1>4, SequenceRange
    <3>. QED
      BY <1>1, <1>4, <3>1
  <2>2. Range(queue) = {queue[k] : k \in 1..Len(queue)}
    BY <1>3, SequenceRange
  <2>3. ASSUME NEW i \in 1..Len(queue) - 1
        PROVE  queue[i + 1] \in Range(queue) \ {r}
    <3>1. i + 1 \in 1..Len(queue) /\ 1 \in 1..Len(queue) /\ i + 1 # 1
      BY <1>3, <2>3
    <3>. QED
      BY <1>4, <2>2, <3>1 DEF IInv, QueuedOnce
  <2>4. ASSUME NEW k \in 1..Len(queue), queue[k] # r
        PROVE  \E i \in 1..Len(queue) - 1 : queue[i + 1] = queue[k]
    <3>1. k # 1
      BY <1>4, <2>4
    <3>2. k - 1 \in 1..Len(queue) - 1 /\ (k - 1) + 1 = k
      BY <1>3, <2>4, <3>1
    <3>. QED
      BY <3>2
  <2>. QED
    BY <2>1, <2>2, <2>3, <2>4
<1>9. QueuedOnce'
  <2>1. Len(queue') = Len(queue) - 1
        /\ \A i \in 1..Len(queue) - 1 : queue'[i] = queue[i + 1] /\ i + 1 \in 1..Len(queue)
    BY <1>1, <1>3, <1>4
  <2>2. ASSUME NEW j \in 1..Len(queue) - 1, NEW k \in 1..Len(queue) - 1,
               queue[j + 1] = queue[k + 1]
        PROVE  j = k
    <3>1. j + 1 = k + 1
      BY <2>1, <2>2 DEF IInv, QueuedOnce
    <3>. QED
      BY <3>1
  <2>. QED
    BY <2>1, <2>2 DEF QueuedOnce
<1>10. \A q \in Requests : task[q] \in Serving /\ ~Finished(q) => task[q].worker # w
  BY <1>1, ServingKinds DEF Served, Registered
<1>11. TypeOK'
  <2>1. Range(queue') = {q \in Requests : task'[q] = Queued}
    BY <1>3, <1>6, <1>7, <1>8, ServingKinds
  <2>2. task' \in [Requests -> Serving \cup {New, Queued, [pc |-> "lost"]}]
    BY <1>2, <1>7 DEF IInv, TypeOK, t
  <2>3. ASSUME NEW q \in Requests, NEW p \in Requests, q # p,
               task'[q] \in Serving, task'[p] \in Serving,
               task'[q].worker = task'[p].worker
        PROVE  task'[q].pc \in {"done", "lost"} \/ task'[p].pc \in {"done", "lost"}
    BY <1>6, <1>7, <1>10, <2>3 DEF IInv, TypeOK, Finished
  <2>. QED
    BY <1>1, <1>4, <2>1, <2>2, <2>3 DEF IInv, TypeOK, Finished
<1>12. \A q \in Requests \ {r} : RequestSound(q)'
  BY <1>1, <1>6, RequestKept DEF IInv
<1>13. RequestSound(r)'
  <2>1. RequestSound(r)
    BY <1>4 DEF IInv
  <2>2. 1 \in 1..Len(Candidates[r])
    BY <1>4, EmptySeq
  <2>3. VoicesSound(r)'
    BY <1>6, <1>7, <2>2 DEF VoicesSound, At
  <2>4. RecordSound(r)'
    BY <1>1, <1>5, <1>6, <1>7, <2>1
    DEF RequestSound, RecordSound, At, Queued, Unstored, Open
  <2>5. EarlySound(r)'
    BY <1>1, <1>5, <1>6, <1>7, <2>1 DEF RequestSound, EarlySound, Queued, Unwritten
  <2>. QED
    BY <2>3, <2>4, <2>5 DEF RequestSound
<1>. QED
  BY <1>9, <1>11, <1>12, <1>13 DEF IInv

\* What is stored outlives the process; what is lost was promised to nobody.
LEMMA CrashStep ==
    ASSUME IInv, Crash
    PROVE  IInv'
<1> DEFINE Lost == [pc |-> "lost"]
<1>1. /\ task' = [r \in Requests |-> IF r \in Registered THEN Lost ELSE task[r]]
      /\ queue' = <<>> /\ flagged' = {} /\ cancelling' = {}
      /\ route' = [w \in Workers |-> NoProvider]
      /\ UNCHANGED <<learned, answer, early>>
  BY DEF Crash
<1>2. \A r \in Requests :
        \/ task'[r] = Lost
        \/ task'[r] = task[r] /\ (task[r] = New \/ task[r].pc \in {"done", "lost"})
  BY <1>1 DEF Registered, Finished
<1>3. used' \in [cancels : 0..MaxCancels, crashes : 0..MaxCrashes]
  <2>1. used \in [cancels : 0..MaxCancels, crashes : 0..MaxCrashes]
        /\ used.crashes < MaxCrashes
        /\ used' = [used EXCEPT !.crashes = used.crashes + 1]
    BY DEF IInv, TypeOK, Crash
  <2>2. used.crashes + 1 \in 0..MaxCrashes
    BY <2>1
  <2>. QED
    BY <2>1, <2>2
<1>4. queue' \in Seq(Requests) /\ Range(queue') = {} /\ QueuedOnce'
  <2>1. queue' \in Seq(Requests) /\ Range(queue') = {} /\ Len(queue') = 0
    BY <1>1, EmptyQueue
  <2>. QED
    BY <2>1 DEF QueuedOnce
<1>5. TypeOK'
  <2>1. {q \in Requests : task'[q] = Queued} = {}
    BY <1>2 DEF New, Queued
  <2>2. task' \in [Requests -> Serving \cup {New, Queued, Lost}]
    BY <1>1 DEF IInv, TypeOK
  <2>3. \A q \in Requests : task'[q] \in Serving => task'[q].pc \in {"done", "lost"}
    BY <1>2, ServingKinds
  <2>4. route' \in [Workers -> Providers \cup {NoProvider}]
    BY <1>1
  <2>. QED
    BY <1>1, <1>3, <1>4, <2>1, <2>2, <2>3, <2>4 DEF IInv, TypeOK, Finished
<1>6. ASSUME NEW r \in Requests
      PROVE  RequestSound(r)'
  <2>1. RequestSound(r)
    BY DEF IInv
  <2>2. task'[r].pc \in {"new", "done", "lost"}
        /\ (task'[r].pc = "new" => task'[r] = task[r])
        /\ (task'[r] \in Serving => task'[r] = task[r])
    BY <1>2, ServingKinds DEF New
  <2>3. VoicesSound(r)'
    BY <2>2 DEF VoicesSound, At
  <2>4. RecordSound(r)'
    BY <1>1, <2>1, <2>2 DEF RequestSound, RecordSound, At, Unstored, Open
  <2>5. EarlySound(r)'
    BY <1>1, <2>1, <2>2 DEF RequestSound, EarlySound, Unwritten
  <2>. QED
    BY <2>3, <2>4, <2>5 DEF RequestSound
<1>. QED
  BY <1>4, <1>5, <1>6 DEF IInv

-----------------------------------------------------------------------------

LEMMA InitIInv == Init => IInv
<1> SUFFICES ASSUME Init PROVE IInv
  OBVIOUS
<1>1. queue \in Seq(Requests) /\ Range(queue) = {} /\ QueuedOnce
  <2>1. queue \in Seq(Requests) /\ Range(queue) = {} /\ Len(queue) = 0
    BY EmptyQueue DEF Init
  <2>. QED
    BY <2>1 DEF QueuedOnce
<1>2. \A r \in Requests : task[r] = New /\ task[r].pc = "new" /\ task[r] \notin Serving
  BY ServingKinds DEF Init, New
<1>3. TypeOK
  <2>1. {q \in Requests : task[q] = Queued} = {}
    BY <1>2 DEF New, Queued
  <2>. QED
    BY <1>1, <1>2, <2>1 DEF Init, TypeOK, Quality
<1>4. \A r \in Requests : RequestSound(r)
  BY <1>2 DEF Init, RequestSound, VoicesSound, RecordSound, EarlySound, At, Open, Unstored
<1>. QED
  BY <1>1, <1>3, <1>4 DEF IInv

LEMMA NextIInv == IInv /\ [Next]_vars => IInv'
<1> SUFFICES ASSUME IInv, [Next]_vars PROVE IInv'
  OBVIOUS
<1>1. ASSUME NEW r \in Requests, Work(r) PROVE IInv'
  BY <1>1, StartStep, ChunkStep, StreamEndsStep, StreamFailsStep, LastCheckStep,
     LearnStep, SaveStep, JudgeStep, RespondStep DEF Work
<1>2. CASE UNCHANGED vars
  <2>1. TypeOK' /\ QueuedOnce'
    BY <1>2 DEF vars, IInv, TypeOK, Finished, QueuedOnce
  <2>2. \A r \in Requests : RequestSound(r)'
    BY <1>2, RequestKept DEF vars, IInv
  <2>. QED
    BY <2>1, <2>2 DEF IInv
<1>. QED
  BY <1>1, <1>2, SubmitStep, SetEventStep, CancelAllStep, BeginStep, CrashStep DEF Next

LEMMA Invariance == Spec => []IInv
<1>. QED
  BY InitIInv, NextIInv, PTL DEF Spec

-----------------------------------------------------------------------------

\* The queue holds exactly the requests that wait for a thread, and a thread
\* serves one request at a time.
THEOREM TypeCorrect == Spec => []TypeOK
<1>1. IInv => TypeOK
  BY DEF IInv
<1>. QED
  BY <1>1, Invariance, PTL

\* A stored answer is the text of one provider and names that provider,
\* whatever the router fell back from and whatever the thread served before.
THEOREM AnswersHaveOneVoice == Spec => []OneVoice
<1>1. IInv => OneVoice
  BY DEF IInv, RequestSound, RecordSound, OneVoice
<1>. QED
  BY <1>1, Invariance, PTL

\* An answer is stored after its experience, so that no crash separates the
\* one from the other, and "completed" is said of accepted answers only.
THEOREM AnswersAreRecorded == Spec => []CompletedIsRecorded
<1>1. IInv => CompletedIsRecorded
  BY DEF IInv, RequestSound, RecordSound, CompletedIsRecorded
<1>. QED
  BY <1>1, Invariance, PTL

\* A cancel that reaches a request before its text is complete wins: the last
\* check of the thread comes after the event was set, and sees it.
THEOREM CancelsWin == Spec => []CancelWins
<1>1. IInv => CancelWins
  <2> SUFFICES ASSUME IInv, NEW r \in early PROVE answer[r] = NoAnswer
    BY DEF CancelWins
  <2>1. r \in Requests
    BY DEF IInv, TypeOK
  <2>. QED
    BY <2>1 DEF IInv, RequestSound, EarlySound
<1>. QED
  BY <1>1, Invariance, PTL

-----------------------------------------------------------------------------
\* What is stored and told of a request is said once

\* Places after the outcome.
Over == {"respond", "remove", "done", "lost"}

OutcomeStays ==
    \A r \in Requests :
        /\ answer[r] # NoAnswer => answer'[r] = answer[r]
        /\ learned[r] \in {"accepted", "rejected"} => learned'[r] = learned[r]
        /\ task[r].pc \in Over =>
            /\ answer'[r] = answer[r] /\ learned'[r] = learned[r]
            /\ \/ task'[r].pc = "lost"
               \/ task'[r].pc \in Over /\ task'[r].result = task[r].result

\* A verdict is recorded when the request is over, and never before.
JudgedOver ==
    \A r \in Requests : learned[r] \in {"accepted", "rejected"} => task[r].pc \in Over

\* A thread's step is about the request it serves.
LEMMA WorkElsewhere ==
    ASSUME IInv, NEW r \in Requests, Work(r)
    PROVE  \A q \in Requests \ {r} :
             task'[q] = task[q] /\ learned'[q] = learned[q] /\ answer'[q] = answer[q]
<1>1. /\ task \in [Requests -> Serving \cup {New, Queued, [pc |-> "lost"]}]
      /\ learned \in [Requests -> Quality] /\ answer \in [Requests -> Answer \cup {NoAnswer}]
  BY DEF IInv, TypeOK
<1>2. CASE Start(r) \/ Chunk(r) \/ LastCheck(r)
  BY <1>1, <1>2 DEF Start, Chunk, LastCheck, End, Goto, Put
<1>3. CASE StreamEnds(r) \/ StreamFails(r)
  BY <1>1, <1>3 DEF StreamEnds, StreamFails, TryNext, End, Goto, Put
<1>4. CASE Learn(r) \/ Save(r) \/ Judge(r)
  BY <1>1, <1>4 DEF Learn, Save, Judge, Captured, End, Goto, Put
<1>5. CASE Respond(r) \/ Unregister(r)
  BY <1>1, <1>5 DEF Respond, Unregister, Goto, Put
<1>. QED
  BY <1>2, <1>3, <1>4, <1>5 DEF Work

\* A step of an open request says its outcome for the first time.
LEMMA WorkOutcome ==
    ASSUME IInv, JudgedOver, NEW r \in Requests, Work(r)
    PROVE  OutcomeStays /\ JudgedOver'
<1>1. \A q \in Requests \ {r} :
        task'[q] = task[q] /\ learned'[q] = learned[q] /\ answer'[q] = answer[q]
  BY WorkElsewhere
<1>2. CASE task[r].pc \in Open
  <2>1. task[r] \in Serving /\ RequestSound(r)
        /\ learned \in [Requests -> Quality] /\ answer \in [Requests -> Answer \cup {NoAnswer}]
    BY <1>2, ServedRequest
  <2>2. task[r].pc \notin Over /\ learned[r] \notin {"accepted", "rejected"}
    BY <1>2 DEF JudgedOver, Open, Over
  <2>3. answer[r] # NoAnswer => answer'[r] = answer[r]
    <3>1. CASE Save(r)
      BY <2>1, <3>1 DEF Save, At, RequestSound, RecordSound, Unstored
    <3>2. CASE ~Save(r)
      BY <3>2 DEF Work, Start, Chunk, StreamEnds, StreamFails, LastCheck, Learn, Judge,
         Respond, Unregister
    <3>. QED
      BY <3>1, <3>2
  <2>4. learned'[r] \in {"accepted", "rejected"} => task'[r].pc = "respond"
    <3>1. CASE Judge(r)
      <4>1. \E result \in Results : End(r, result)
        BY <3>1 DEF Judge, Results
      <4>. QED
        BY <2>1, <4>1 DEF End, Put, Serving, IInv, TypeOK
    <3>2. CASE ~Judge(r)
      <4>1. UNCHANGED learned \/ learned'[r] = "unjudged"
        BY <2>1, <3>2 DEF Work, Start, Chunk, StreamEnds, StreamFails, LastCheck, Learn,
           Captured, Save, Respond, Unregister
      <4>. QED
        BY <2>2, <4>1
    <3>. QED
      BY <3>1, <3>2
  <2>. QED
    BY <1>1, <2>2, <2>3, <2>4 DEF OutcomeStays, JudgedOver, Over
<1>3. CASE task[r].pc \notin Open
  <2>1. Respond(r) \/ Unregister(r)
    BY <1>3 DEF Work, Start, Chunk, StreamEnds, StreamFails, LastCheck, Learn, Save, Judge,
       At, Open
  <2>2. PICK pc \in {"remove", "done"} : Goto(r, pc)
    BY <2>1 DEF Respond, Unregister
  <2>3. task[r].pc \in Open \cup {"respond", "remove"} /\ UNCHANGED <<learned, answer>>
    BY <2>1 DEF Respond, Unregister, At
  <2>4. task'[r].pc = pc /\ task'[r].result = task[r].result
    <3>1. CASE pc = "remove"
      BY <2>2, <2>3, <3>1, MoveSound
    <3>2. CASE pc = "done"
      BY <2>2, <2>3, <3>2, MoveSound
    <3>. QED
      BY <3>1, <3>2
  <2>. QED
    BY <1>1, <2>3, <2>4 DEF OutcomeStays, JudgedOver, Over
<1>. QED
  BY <1>2, <1>3

LEMMA OutcomeStep ==
    ASSUME IInv, JudgedOver, [Next]_vars
    PROVE  OutcomeStays /\ JudgedOver'
<1>1. task \in [Requests -> Serving \cup {New, Queued, [pc |-> "lost"]}]
  BY DEF IInv, TypeOK
<1>2. ASSUME UNCHANGED <<learned, answer>>,
             \A r \in Requests : \/ task'[r] = task[r]
                                 \/ task'[r] = [pc |-> "lost"]
                                 \/ task[r] \in {New, Queued}
      PROVE  OutcomeStays /\ JudgedOver'
  <2>1. ASSUME NEW r \in Requests, task[r].pc \in Over
        PROVE  task'[r] = task[r] \/ task'[r] = [pc |-> "lost"]
    BY <1>2, <2>1 DEF Over, New, Queued
  <2>2. \A r \in Requests : task[r].pc \in Over => task'[r].pc \in Over
    BY <2>1 DEF Over
  <2>3. JudgedOver'
    BY <1>2, <2>2 DEF JudgedOver
  <2>4. \A r \in Requests : task[r].pc \in Over =>
          \/ task'[r].pc = "lost"
          \/ task'[r].pc \in Over /\ task'[r].result = task[r].result
    BY <2>1
  <2>. QED
    BY <1>2, <2>3, <2>4 DEF OutcomeStays
<1>3. ASSUME NEW r \in Requests, Submit(r) PROVE OutcomeStays /\ JudgedOver'
  BY <1>1, <1>2, <1>3 DEF Submit
<1>4. ASSUME NEW w \in Workers, Begin(w) PROVE OutcomeStays /\ JudgedOver'
  <2>1. PICK r \in Requests : r = Head(queue) /\ task[r] = Queued
    <3>1. queue \in Seq(Requests) /\ queue # <<>>
          /\ Range(queue) = {r \in Requests : task[r] = Queued}
      BY <1>4 DEF Begin, IInv, TypeOK
    <3>2. Head(queue) \in Range(queue)
      BY <3>1, HeadTailProperties, SequenceRange
    <3>. QED
      BY <3>1, <3>2
  <2>2. UNCHANGED <<learned, answer>> /\ \A q \in Requests \ {r} : task'[q] = task[q]
    BY <1>1, <1>4, <2>1 DEF Begin, Put
  <2>. QED
    BY <1>2, <2>1, <2>2
<1>5. CASE Crash
  BY <1>2, <1>5 DEF Crash
<1>6. CASE UNCHANGED vars \/ CancelAll \/ \E r \in Requests : SetEvent(r)
  BY <1>2, <1>6 DEF vars, CancelAll, SetEvent
<1>. QED
  BY <1>3, <1>4, <1>5, <1>6, WorkOutcome DEF Next

\* The outcome of a request is settled once: a stored answer is not written
\* again, a verdict not changed, and what the caller is told is what the thread
\* ended with, unless the process dies. A cancel that comes too late changes
\* nothing.
THEOREM OutcomesStay == Spec => [][OutcomeStays]_<<task, learned, answer>>
<1>1. Init => JudgedOver
  BY DEF Init, JudgedOver
<1>2. IInv /\ JudgedOver /\ [Next]_vars =>
        JudgedOver' /\ [OutcomeStays]_<<task, learned, answer>>
  BY OutcomeStep
<1>. QED
  BY <1>1, <1>2, Invariance, PTL DEF Spec

=============================================================================
