---------------------------- MODULE AsyncEngine -----------------------------
(***************************************************************************)
(* vllm/engine/async_llm_engine.py: the background loop of AsyncLLMEngine, *)
(* its RequestTracker and streams, and the callers of generate().  All are *)
(* coroutines of one event loop: an action runs from one await to the next.*)
(*                                                                         *)
(* A stream is <<request id, attempt>>: a caller may use an id again after *)
(* its first generate() is over.  LLMEngine is abstract: it has a set of   *)
(* requests, and a step gives some of them one output each; a step with    *)
(* none happens when the scheduler only preempts.  The engine runs in the  *)
(* process of the loop (engine_use_ray is off).                            *)
(***************************************************************************)
EXTENDS Naturals, Sequences, FiniteSets, Functions

CONSTANTS
    Requests,        \* request ids
    MaxAttempts,     \* calls of generate() for each id
    MaxOutputs       \* outputs of a request

ASSUME AsyncEngineAssumption ==
    /\ IsFiniteSet(Requests)
    /\ MaxAttempts \in [Requests -> Nat \ {0}]
    /\ MaxOutputs \in Nat \ {0}

VARIABLES
    requestStreams,    \* RequestTracker._request_streams: the attempt, or 0
    finishedRequests,  \* the ids in _finished_requests
    newRequests,       \* the streams in _new_requests
    newRequestsEvent,  \* new_requests_event is set
    queue,             \* AsyncStream._queue
    finished,          \* AsyncStream._finished
    loop,              \* where run_engine_loop is
    starts,            \* how many background loops were started
    callbackDue,       \* the loop is over, _raise_exception_on_finish has not run
    errored,           \* AsyncLLMEngine.errored
    outputs,           \* outputs given so far to the requests LLMEngine has
    client,            \* where the caller of generate() is
    attempt,           \* its attempt
    aborted            \* streams whose generate() called _abort()

trackerVars == <<requestStreams, finishedRequests, newRequests, newRequestsEvent>>
streamVars == <<queue, finished>>
loopVars == <<loop, starts, callbackDue, errored>>
clientVars == <<client, attempt, aborted>>
asyncVars == <<trackerVars, streamVars, loopVars, outputs, clientVars>>

Streams == UNION {{r} \X (1..MaxAttempts[r]) : r \in Requests}
Id(st) == st[1]
Ids(S) == {Id(st) : st \in S}
Items == {"output", "final", "error", "end"}
InEngine == DOMAIN outputs

\* The stream _request_streams has for each of the ids in R.
Registered(R) == {st \in Streams : Id(st) \in R /\ requestStreams[Id(st)] = st[2]}
StreamOf(r) == <<r, attempt[r]>>
-----------------------------------------------------------------------------
(***************************************************************************)
(* AsyncStream and RequestTracker                                          *)
(***************************************************************************)

\* put() of the items of give to their streams, then finish() of the streams in
\* ended.  A finished stream takes nothing more.
Deliver(give, ended) ==
    /\ queue' = [st \in Streams |->
          IF finished[st] THEN queue[st]
          ELSE queue[st] \o (IF st \in DOMAIN give THEN <<give[st]>> ELSE << >>)
                         \o (IF st \in ended THEN <<"end">> ELSE << >>)]
    /\ finished' = [st \in Streams |-> finished[st] \/ st \in ended]
Errors(S) == [st \in S |-> "error"]

\* The stream is forgotten at once.
BugAbortRequest(r) ==
    /\ finishedRequests' = finishedRequests \cup {r}
    /\ Deliver(<< >>, Registered({r}))
    /\ requestStreams' = [requestStreams EXCEPT ![r] = 0]
    /\ UNCHANGED <<newRequests, newRequestsEvent>>

\* abort_request: the id is queued whether or not a stream has it.
AbortRequest(r) ==
    /\ finishedRequests' = finishedRequests \cup {r}
    /\ Deliver(<< >>, Registered({r}))
    /\ UNCHANGED <<requestStreams, newRequests, newRequestsEvent>>

\* AsyncLLMEngine.is_running.
IsRunning == loop \notin {"none", "done"}
-----------------------------------------------------------------------------
(***************************************************************************)
(* The callers of generate()                                               *)
(***************************************************************************)

\* The caller of an id, or the next one that uses it.
MayGenerate(r) ==
    /\ client[r] \in {"idle", "finished", "cut", "failed", "left"}
    /\ attempt[r] < MaxAttempts[r]

\* add_request() up to the await of the tokenizer.  A loop that is over and not
\* yet errored is replaced, with a new tracker.
StartBackgroundLoop ==
    /\ requestStreams' = [r \in Requests |-> 0]
    /\ finishedRequests' = {} /\ newRequests' = << >> /\ newRequestsEvent' = FALSE
    /\ loop' = "wait" /\ starts' = starts + 1
    /\ UNCHANGED <<callbackDue, errored>>
Generate(r) ==
    /\ MayGenerate(r)
    /\ IsRunning \/ ~errored
    /\ attempt' = [attempt EXCEPT ![r] = @ + 1]
    /\ client' = [client EXCEPT ![r] = "encoding"]
    /\ IF IsRunning THEN UNCHANGED <<trackerVars, loopVars>> ELSE StartBackgroundLoop
    /\ UNCHANGED <<streamVars, outputs, aborted>>

\* generate() is over, by an exception or a cancellation: _abort(request_id).
Leave(r, how) ==
    /\ AbortRequest(r)
    /\ client' = [client EXCEPT ![r] = how]
    /\ aborted' = aborted \cup {StreamOf(r)}

\* AsyncEngineDeadError of start_background_loop.
EngineIsDead(r) ==
    /\ MayGenerate(r)
    /\ ~IsRunning /\ errored
    /\ finishedRequests' = finishedRequests \cup {r}
    /\ Deliver(<< >>, Registered({r}))
    /\ attempt' = [attempt EXCEPT ![r] = @ + 1]
    /\ client' = [client EXCEPT ![r] = "failed"]
    /\ aborted' = aborted \cup {<<r, attempt[r] + 1>>}
    /\ UNCHANGED <<requestStreams, newRequests, newRequestsEvent, loopVars, outputs>>

\* RequestTracker.add_request, once the prompt is encoded.
AddRequest(r) ==
    /\ client[r] = "encoding" /\ requestStreams[r] = 0
    /\ newRequests' = Append(newRequests, StreamOf(r))
    /\ newRequestsEvent' = TRUE
    /\ client' = [client EXCEPT ![r] = "reading"]
    /\ UNCHANGED <<requestStreams, finishedRequests, streamVars, loopVars, outputs, attempt,
                   aborted>>

\* KeyError: the id is still registered.
AlreadyExists(r) ==
    /\ client[r] = "encoding" /\ requestStreams[r] # 0
    /\ Leave(r, "failed")
    /\ UNCHANGED <<loopVars, outputs, attempt>>

\* __anext__ of the stream.
Read(r) ==
    LET st == StreamOf(r) IN
    /\ client[r] \in {"reading", "last"} /\ queue[st] # << >> /\ Head(queue[st]) # "error"
    /\ queue' = [queue EXCEPT ![st] = Tail(@)]
    /\ client' = [client EXCEPT ![r] =
          CASE Head(queue[st]) = "output" -> "yielded"
            [] Head(queue[st]) = "final" -> "yieldedLast"
            [] Head(queue[st]) = "end" -> IF @ = "last" THEN "finished" ELSE "cut"]
    /\ UNCHANGED <<trackerVars, finished, loopVars, outputs, attempt, aborted>>

\* The stream raises: generate() aborts the request and raises as well.
ReadError(r) ==
    LET st == StreamOf(r) IN
    /\ client[r] \in {"reading", "last"} /\ queue[st] # << >> /\ Head(queue[st]) = "error"
    /\ Leave(r, "failed")
    /\ UNCHANGED <<loopVars, outputs, attempt>>

\* The caller asks for the next output ...
NextOutput(r) ==
    /\ client[r] \in {"yielded", "yieldedLast"}
    /\ client' = [client EXCEPT ![r] = IF @ = "yielded" THEN "reading" ELSE "last"]
    /\ UNCHANGED <<trackerVars, streamVars, loopVars, outputs, attempt, aborted>>

\* ... or calls engine.abort() since its client is disconnected, which raises
\* when the loop is over ...
Disconnect(r) ==
    /\ client[r] \in {"yielded", "yieldedLast"} /\ IsRunning
    /\ Leave(r, "left")
    /\ UNCHANGED <<loopVars, outputs, attempt>>

\* ... or closes the generator: GeneratorExit is not caught, nothing is aborted.
CloseGenerator(r) ==
    /\ client[r] \in {"yielded", "yieldedLast"}
    /\ client' = [client EXCEPT ![r] = "closed"]
    /\ UNCHANGED <<trackerVars, streamVars, loopVars, outputs, attempt, aborted>>

\* The task of the caller is cancelled in an await of generate().
Cancel(r) ==
    /\ client[r] \in {"encoding", "reading", "last"}
    /\ Leave(r, "left")
    /\ UNCHANGED <<loopVars, outputs, attempt>>
-----------------------------------------------------------------------------
(***************************************************************************)
(* run_engine_loop                                                         *)
(***************************************************************************)

\* wait_for_new_requests.  A second loop runs after the callback of the first.
WakeUp ==
    /\ loop = "wait" /\ ~callbackDue
    /\ newRequests # << >> \/ newRequestsEvent
    /\ loop' = "step"
    /\ newRequestsEvent' = FALSE
    /\ UNCHANGED <<requestStreams, finishedRequests, newRequests, streamVars, starts,
                   callbackDue, errored, outputs, clientVars>>

\* get_new_and_finished_requests: the requests to add, and those to drop.
Fresh == {st \in Range(newRequests) : Id(st) \notin finishedRequests}
Dropped == Range(newRequests) \ Fresh

\* The requests that are over stay in LLMEngine.
BugStartStep ==
    /\ loop = "step"
    /\ loop' = "executing"
    /\ requestStreams' = [r \in Requests |->
          IF \E st \in Fresh : Id(st) = r
          THEN (CHOOSE st \in Fresh : Id(st) = r)[2]
          ELSE IF r \in finishedRequests THEN 0 ELSE requestStreams[r]]
    /\ outputs' = [st \in InEngine \cup Fresh |-> IF st \in InEngine THEN outputs[st] ELSE 0]
    /\ finishedRequests' = {}
    /\ Deliver(<< >>, Dropped)
    /\ newRequests' = << >>
    /\ UNCHANGED <<newRequestsEvent, starts, callbackDue, errored, clientVars>>

\* engine_step up to the await of the model: requests are added to LLMEngine,
\* which raises ValueError for some, then the finished ones are aborted.
StartStep ==
    /\ loop = "step"
    /\ loop' = "executing"
    /\ \E invalid \in SUBSET Fresh :
         /\ requestStreams' = [r \in Requests |->
               IF \E st \in Fresh : Id(st) = r
               THEN (CHOOSE st \in Fresh : Id(st) = r)[2]
               ELSE IF r \in finishedRequests THEN 0 ELSE requestStreams[r]]
         /\ outputs' = [st \in {s \in InEngine : Id(s) \notin finishedRequests}
                               \cup (Fresh \ invalid) |->
                           IF st \in InEngine THEN outputs[st] ELSE 0]
         /\ finishedRequests' = Ids(invalid)
         /\ Deliver(Errors(invalid), invalid \cup Dropped)
    /\ newRequests' = << >>
    /\ UNCHANGED <<newRequestsEvent, starts, callbackDue, errored, clientVars>>

\* The loop's task ends with an exception; its callback is scheduled.
LoopEnds == loop' = "done" /\ callbackDue' = TRUE /\ UNCHANGED starts

\* The request is aborted before its final output is put.
BugProcessOutputs(out, last) ==
    /\ outputs' = [st \in InEngine \ last |->
                      IF st \in out THEN outputs[st] + 1 ELSE outputs[st]]
    /\ Deliver([st \in Registered(Ids(out) \ Ids(last)) |-> "output"],
               Registered(Ids(last)))
    /\ finishedRequests' = finishedRequests \cup Ids(last)

\* process_request_output for the requests in out, those in last being
\* finished.
ProcessOutputs(out, last) ==
    /\ outputs' = [st \in InEngine \ last |->
                      IF st \in out THEN outputs[st] + 1 ELSE outputs[st]]
    /\ Deliver([st \in Registered(Ids(out)) |->
                   IF Id(st) \in Ids(last) THEN "final" ELSE "output"],
               Registered(Ids(last)))
    /\ finishedRequests' = finishedRequests \cup Ids(last)

EndStep ==
    /\ loop = "executing"
    /\ \E out \in SUBSET InEngine : \E last \in SUBSET out :
         /\ {st \in out : outputs[st] + 1 = MaxOutputs} \subseteq last
         /\ \A st \in out : requestStreams[Id(st)] # 0
         /\ ProcessOutputs(out, last)
         /\ loop' = IF out = {} THEN "wait" ELSE "step"
    /\ UNCHANGED <<requestStreams, newRequests, newRequestsEvent, starts, callbackDue,
                   errored, clientVars>>

\* KeyError: an output of a request that has no stream.  Those before it in the
\* list are delivered.
UnknownRequest ==
    /\ loop = "executing"
    /\ \E st \in InEngine : requestStreams[Id(st)] = 0
    /\ \E out \in SUBSET {st \in InEngine : requestStreams[Id(st)] # 0} :
         ProcessOutputs(out, {st \in out : outputs[st] + 1 = MaxOutputs})
    /\ LoopEnds
    /\ UNCHANGED <<requestStreams, newRequests, newRequestsEvent, errored, clientVars>>

\* The scheduler or the model raises.
StepFails ==
    /\ loop = "executing"
    /\ LoopEnds
    /\ UNCHANGED <<trackerVars, streamVars, errored, outputs, clientVars>>

\* The step takes longer than ENGINE_ITERATION_TIMEOUT_S: it is cancelled.
Timeout ==
    /\ loop = "executing"
    /\ LoopEnds
    /\ errored' = TRUE
    /\ UNCHANGED <<trackerVars, streamVars, outputs, clientVars>>

\* _error_callback is not called.
BugErrorCallback ==
    /\ callbackDue
    /\ callbackDue' = FALSE
    /\ UNCHANGED <<trackerVars, streamVars, loop, starts, errored, outputs, clientVars>>

\* _raise_exception_on_finish: _error_callback tells the registered streams.
ErrorCallback ==
    /\ callbackDue
    /\ callbackDue' = FALSE
    /\ errored' = TRUE
    /\ LET all == {r \in Requests : requestStreams[r] # 0} IN
         /\ Deliver(Errors(Registered(all)), Registered(all))
         /\ finishedRequests' = finishedRequests \cup all
    /\ UNCHANGED <<requestStreams, newRequests, newRequestsEvent, loop, starts, outputs,
                   clientVars>>
-----------------------------------------------------------------------------
AsyncInit ==
    /\ requestStreams = [r \in Requests |-> 0]
    /\ finishedRequests = {} /\ newRequests = << >> /\ newRequestsEvent = FALSE
    /\ queue = [st \in Streams |-> << >>] /\ finished = [st \in Streams |-> FALSE]
    /\ loop = "none" /\ starts = 0 /\ callbackDue = FALSE /\ errored = FALSE
    /\ outputs = << >>
    /\ client = [r \in Requests |-> "idle"]
    /\ attempt = [r \in Requests |-> 0]
    /\ aborted = {}

Caller(r) ==
    \/ Generate(r) \/ EngineIsDead(r) \/ AddRequest(r) \/ AlreadyExists(r)
    \/ Read(r) \/ ReadError(r) \/ NextOutput(r)
    \/ Disconnect(r) \/ CloseGenerator(r) \/ Cancel(r)

LoopStep == WakeUp \/ StartStep \/ EndStep \/ UnknownRequest \/ StepFails \/ Timeout

AsyncNext == (\E r \in Requests : Caller(r)) \/ LoopStep \/ ErrorCallback

\* The event loop runs what is ready, and a step returns, fails or times out.
\* Callers owe nothing.
AsyncSpec == AsyncInit /\ [][AsyncNext]_asyncVars
             /\ WF_asyncVars(LoopStep) /\ WF_asyncVars(ErrorCallback)
-----------------------------------------------------------------------------
(***************************************************************************)
(* What the async engine must keep true                                    *)
(***************************************************************************)

\* Every variable has its type.
AsyncTypeOK ==
    /\ requestStreams \in [Requests -> Nat] /\ attempt \in [Requests -> Nat]
    /\ finishedRequests \subseteq Requests
    /\ newRequests \in Seq(Streams)
    /\ newRequestsEvent \in BOOLEAN
    /\ queue \in [Streams -> Seq(Items)]
    /\ finished \in [Streams -> BOOLEAN]
    /\ loop \in {"none", "wait", "step", "executing", "done"}
    /\ starts \in 0..2
    /\ callbackDue \in BOOLEAN /\ errored \in BOOLEAN
    /\ InEngine \subseteq Streams /\ \A st \in InEngine : outputs[st] \in 0..MaxOutputs
    /\ client \in [Requests -> {"idle", "encoding", "reading", "last", "yielded",
                                "yieldedLast", "finished", "cut", "failed", "left", "closed"}]
    /\ aborted \subseteq Streams

\* The engine has no request without a stream, and the stream is the one of that
\* attempt: process_request_output raises no KeyError, which would end the loop
\* for everyone, and gives nobody the output of another call.  A loop started
\* over the engine of one that failed is the exception.
EngineRequestsAreRegistered ==
    starts < 2 => \A st \in InEngine : requestStreams[Id(st)] = st[2]

\* A caller whose stream ends has seen the final output, unless an earlier call
\* with the same id was aborted: an abort waits in the queue of finished requests
\* and takes the new request with it (get_new_and_finished_requests).
NoStreamIsCutShort ==
    \A r \in Requests : client[r] = "cut" => \E k \in 1..(attempt[r] - 1) : <<r, k>> \in aborted

\* An aborted request is gone from the engine when the next step executes: it
\* does not go on holding blocks for nobody (engine_step, abort_request).
AbortTakesEffectNextStep ==
    [][loop = "step" /\ loop' = "executing" /\ starts < 2 =>
        DOMAIN outputs' \cap aborted = {}]_asyncVars

\* A caller that waits for its stream gets something to read.  Three cases are
\* left out: a stream that was not yet registered when the loop died, one of a
\* tracker that was replaced, and a loop that sleeps after a step without
\* outputs although the engine has requests.
Waits(st) == client[Id(st)] \in {"reading", "last"} /\ StreamOf(Id(st)) = st
             /\ queue[st] = << >>
Lost(st) == requestStreams[Id(st)] # st[2] /\ (st \in Range(newRequests) => loop = "done")
Asleep == loop = "wait" /\ newRequests = << >> /\ ~newRequestsEvent /\ InEngine # {}
EveryStreamIsServed ==
    \A st \in Streams : Waits(st) ~> ~Waits(st) \/ Lost(st) \/ Asleep
=============================================================================
