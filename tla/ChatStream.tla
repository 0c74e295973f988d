------------------------------ MODULE ChatStream ------------------------------
(***************************************************************************)
(* The streaming chat of the resident server: server_loop registers each    *)
(* request with the CancellationRegistry and queues it for a worker thread  *)
(* (rachel_server.py); the worker runs ChatService.chat_stream              *)
(* (application.py) over ModelRouter.generate_stream (model_router.py) and  *)
(* the provider's event stream (model_openai_compatible.py), then has Dany  *)
(* judge the answer and responds.                                           *)
(*                                                                          *)
(* cancel_all is served by the reading loop while the workers run. Events,  *)
(* memory and experiences are shared; the route is a thread-local of the    *)
(* worker that survives from one request to the next.                       *)
(***************************************************************************)
EXTENDS Integers, Sequences, Functions

CONSTANTS
    Requests,     \* chat requests
    Workers,      \* threads of the pool
    Candidates,   \* [Requests -> the providers the router will try, in order]
    NoProvider,
    MaxChunks,    \* bound of the model: the count of chunks turns back there
    MaxCancels,   \* bound of the model
    MaxCrashes    \* bound of the model

Providers == UNION {Range(Candidates[r]) : r \in Requests}

ASSUME ChatAssumption ==
    /\ \A r \in Requests : Candidates[r] \in Seq(Providers) /\ Candidates[r] # <<>>
    /\ NoProvider \notin Providers
    /\ MaxChunks \in Nat \ {0, 1} /\ MaxCancels \in Nat /\ MaxCrashes \in Nat

VARIABLES
    queue,        \* what the executor has still to start, in order
    flagged,      \* requests whose cancel event is set
    cancelling,   \* what a cancel_all in progress has still to set
    task,         \* [Requests -> locals of the worker that serves it]
    route,        \* [Workers -> last route of the thread]
    learned,      \* experiences captured, with the quality recorded for them
    answer,       \* the assistant messages stored in the conversations
    used,         \* how much of each bound is used
    early         \* history: requests cancelled before their text was complete

vars == <<queue, flagged, cancelling, task, route, learned, answer, used, early>>

New == [pc |-> "new"]
Queued == [pc |-> "queued"]
Finished(r) == task[r].pc \in {"done", "lost"}

Results == {"none", "completed", "cancelled", "error"}
Serving == [pc : {"start", "stream", "ended", "learn", "save", "judge",
                  "respond", "remove", "done"},
            worker : Workers, try : Nat, chunks : 0..MaxChunks,
            voices : SUBSET Providers, result : Results]

NoAnswer == [voices |-> {}]
Answer == [voices : SUBSET Providers, named : Providers \cup {NoProvider}]
Quality == {"missing", "unjudged", "accepted", "rejected"}

TypeOK ==
    /\ queue \in Seq(Requests) /\ Range(queue) = {r \in Requests : task[r] = Queued}
    /\ flagged \in SUBSET Requests /\ cancelling \in SUBSET Requests
    /\ early \in SUBSET Requests
    /\ task \in [Requests -> Serving \cup {New, Queued, [pc |-> "lost"]}]
    /\ \A q, r \in Requests :
         task[q] \in Serving /\ task[r] \in Serving /\ q # r
         /\ task[q].worker = task[r].worker => Finished(q) \/ Finished(r)
    /\ route \in [Workers -> Providers \cup {NoProvider}]
    /\ learned \in [Requests -> Quality]
    /\ answer \in [Requests -> Answer \cup {NoAnswer}]
    /\ used \in [cancels : 0..MaxCancels, crashes : 0..MaxCrashes]

-----------------------------------------------------------------------------
\* server_loop: the reading loop

\* A registered request stays in the registry until its worker removes it.
Registered == {r \in Requests : task[r] # New /\ ~Finished(r)}

Submit(r) ==
    /\ task[r] = New
    /\ cancelling = {}
    /\ task' = [task EXCEPT ![r] = Queued]
    /\ queue' = Append(queue, r)
    /\ UNCHANGED <<flagged, cancelling, route, learned, answer, used, early>>

\* cancel_all copies the registry under its lock ...
CancelAll ==
    /\ cancelling = {}
    /\ used.cancels < MaxCancels
    /\ used' = [used EXCEPT !.cancels = @ + 1]
    /\ cancelling' = Registered
    /\ UNCHANGED <<queue, flagged, task, route, learned, answer, early>>

\* Places of a request whose text is not complete.
Unwritten == {"queued", "start", "stream", "ended"}

\* ... and sets the events one by one, without it.
SetEvent(r) ==
    /\ r \in cancelling
    /\ cancelling' = cancelling \ {r}
    /\ flagged' = flagged \cup {r}
    /\ early' = IF task[r].pc \in Unwritten THEN early \cup {r} ELSE early
    /\ UNCHANGED <<queue, task, route, learned, answer, used>>

-----------------------------------------------------------------------------
\* The worker of a request

At(r, place) == task[r].pc = place
Put(r, t) == task' = [task EXCEPT ![r] = t]
Goto(r, place) == Put(r, [task[r] EXCEPT !.pc = place])

\* What the response says of the request: the state chat_stream returned.
Told(r, result) == result

End(r, result) ==
    Put(r, [task[r] EXCEPT !.pc = "respond", !.result = Told(r, result)])

Named(r) == route[task[r].worker]
Provider(r) == Candidates[r][task[r].try]

Served(w) == {r \in Registered : task[r] # Queued /\ task[r].worker = w}

\* Mutant of Free: the thread is taken as free before it has responded.
FreeToRespond(w) == \A r \in Served(w) : At(r, "respond")

Free(w) == Served(w) = {}

\* prepare_memory, the conversation and the user's message; any of them may
\* raise.
Begin(w) ==
    /\ Free(w)
    /\ queue # <<>>
    /\ queue' = Tail(queue)
    /\ \E begun \in {[pc |-> "start", result |-> "none"],
                     [pc |-> "respond", result |-> "error"]} :
         Put(Head(queue), [pc |-> begun.pc, worker |-> w, try |-> 1, chunks |-> 0,
                           voices |-> {}, result |-> begun.result])
    /\ UNCHANGED <<flagged, cancelling, route, learned, answer, used, early>>

\* Mutant of Cancelled: only the request that is sent away at once looks.
CancelledAtStart(r) == r \in flagged /\ At(r, "start")

\* is_cancelled(), asked before the stream, at every chunk and after the last.
Cancelled(r) == r \in flagged

Start(r) ==
    /\ At(r, "start")
    /\ IF Cancelled(r) THEN End(r, "cancelled") ELSE Goto(r, "stream")
    /\ UNCHANGED <<queue, flagged, cancelling, route, learned, answer, used, early>>

\* A stream need not end: the count then goes back and forth.
OneMore(n) == IF n < MaxChunks THEN n + 1 ELSE MaxChunks - 1

\* The router yields a chunk; the first of a thread sets its route. A record
\* without "choices", an error of the provider among them, is passed over and
\* changes nothing, so it is left out.
Chunk(r) ==
    /\ At(r, "stream")
    /\ route' = [route EXCEPT ![task[r].worker] =
                   IF @ = NoProvider THEN Provider(r) ELSE @]
    /\ IF Cancelled(r) THEN End(r, "cancelled")
       ELSE Put(r, [task[r] EXCEPT !.voices = @ \cup {Provider(r)},
                                       !.chunks = OneMore(@)])
    /\ UNCHANGED <<queue, flagged, cancelling, learned, answer, used, early>>

\* Has the current provider yielded anything?
Emitted(r) == task[r].chunks > 0

TryNext(r) ==
    IF task[r].try = Len(Candidates[r]) THEN End(r, "error")
    ELSE Put(r, [task[r] EXCEPT !.try = @ + 1])

\* Mutant of LastRoute: the route is remembered once.
LastRouteOnce(r) == IF Named(r) = NoProvider THEN Provider(r) ELSE Named(r)

LastRoute(r) == Provider(r)

\* "[DONE]" or the end of the response; an empty stream counts as a failure.
StreamEnds(r) ==
    /\ At(r, "stream")
    /\ IF Emitted(r)
       THEN /\ route' = [route EXCEPT ![task[r].worker] = LastRoute(r)]
            /\ Goto(r, "ended")
       ELSE TryNext(r) /\ UNCHANGED route
    /\ UNCHANGED <<queue, flagged, cancelling, learned, answer, used, early>>

\* The provider cannot be reached, times out or sends what is not JSON.
StreamFails(r) ==
    /\ At(r, "stream")
    /\ IF Emitted(r) THEN End(r, "error") ELSE TryNext(r)
    /\ UNCHANGED <<queue, flagged, cancelling, route, learned, answer, used, early>>

\* Blank text is an error of its own.
LastCheck(r) ==
    /\ At(r, "ended")
    /\ IF Cancelled(r) THEN End(r, "cancelled")
       ELSE Goto(r, "learn") \/ End(r, "error")
    /\ UNCHANGED <<queue, flagged, cancelling, route, learned, answer, used, early>>

\* Mutant of Captured: the experience is left to the verdict.
CapturedLater(r) == learned

Captured(r) == [learned EXCEPT ![r] = "unjudged"]

Learn(r) ==
    /\ At(r, "learn")
    /\ \/ Goto(r, "save") /\ learned' = Captured(r)
       \/ End(r, "error") /\ UNCHANGED learned
    /\ UNCHANGED <<queue, flagged, cancelling, route, answer, used, early>>

Save(r) ==
    /\ At(r, "save")
    /\ \/ /\ Goto(r, "judge")
          /\ answer' = [answer EXCEPT ![r] = [voices |-> task[r].voices,
                                              named |-> Named(r)]]
       \/ End(r, "error") /\ UNCHANGED answer
    /\ UNCHANGED <<queue, flagged, cancelling, route, learned, used, early>>

\* Dany's verdict is recorded; a rejected answer is an error to the caller.
Judge(r) ==
    /\ At(r, "judge")
    /\ \/ learned' = [learned EXCEPT ![r] = "accepted"] /\ End(r, "completed")
       \/ learned' = [learned EXCEPT ![r] = "rejected"] /\ End(r, "error")
       \/ End(r, "error") /\ UNCHANGED learned
    /\ UNCHANGED <<queue, flagged, cancelling, route, answer, used, early>>

Respond(r) ==
    /\ At(r, "respond")
    /\ Goto(r, "remove")
    /\ UNCHANGED <<queue, flagged, cancelling, route, learned, answer, used, early>>

Unregister(r) ==
    /\ At(r, "remove")
    /\ Goto(r, "done")
    /\ UNCHANGED <<queue, flagged, cancelling, route, learned, answer, used, early>>

\* The process dies: what it was serving is lost, what it stored is not.
Crash ==
    /\ Registered # {}
    /\ used.crashes < MaxCrashes
    /\ used' = [used EXCEPT !.crashes = @ + 1]
    /\ task' = [r \in Requests |-> IF r \in Registered THEN [pc |-> "lost"]
                                   ELSE task[r]]
    /\ queue' = <<>> /\ flagged' = {} /\ cancelling' = {}
    /\ route' = [w \in Workers |-> NoProvider]
    /\ UNCHANGED <<learned, answer, early>>

-----------------------------------------------------------------------------

Init ==
    /\ queue = <<>> /\ flagged = {} /\ cancelling = {} /\ early = {}
    /\ task = [r \in Requests |-> New]
    /\ route = [w \in Workers |-> NoProvider]
    /\ learned = [r \in Requests |-> "missing"]
    /\ answer = [r \in Requests |-> NoAnswer]
    /\ used = [cancels |-> 0, crashes |-> 0]

Work(r) ==
    \/ Start(r) \/ Chunk(r) \/ StreamEnds(r) \/ StreamFails(r) \/ LastCheck(r)
    \/ Learn(r) \/ Save(r) \/ Judge(r) \/ Respond(r) \/ Unregister(r)

Next ==
    \/ \E r \in Requests : Submit(r) \/ SetEvent(r) \/ Work(r)
    \/ CancelAll
    \/ \E w \in Workers : Begin(w)
    \/ Crash

Spec == Init /\ [][Next]_vars

\* The threads run, and no read waits longer than the provider's timeout; a
\* stream need not end, but it does not send skipped records for ever.
FairSpec ==
    /\ Spec
    /\ \A r \in Requests : WF_vars(Work(r)) /\ WF_vars(SetEvent(r))
    /\ \A w \in Workers : WF_vars(Begin(w))

-----------------------------------------------------------------------------
\* Properties

\* A stored answer is the text of one provider, and its metadata name that
\* provider: neither a fallback of the router nor the route of the thread's
\* previous request gets into it.
OneVoice ==
    \A r \in Requests : answer[r] # NoAnswer => answer[r].voices = {answer[r].named}

\* A stored answer has its experience, whenever the process dies, and the
\* caller is told "completed" only of an answer stored and accepted.
CompletedIsRecorded ==
    \A r \in Requests :
        /\ answer[r] # NoAnswer => learned[r] # "missing"
        /\ task[r] \in Serving /\ task[r].result = "completed" =>
              answer[r] # NoAnswer /\ learned[r] = "accepted"

\* A cancel that arrives before the text is complete wins: the request never
\* stores an answer afterwards.
CancelWins == \A r \in early : answer[r] = NoAnswer

\* cancel_all ends every request it found, those in the queue and those whose
\* provider would never end the stream too.
CancelEnds == \A r \in Requests : r \in cancelling ~> Finished(r)

=============================================================================
