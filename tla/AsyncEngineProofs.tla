------------------------- MODULE AsyncEngineProofs --------------------------
(***************************************************************************)
(* Proofs about AsyncEngine for every number of ids, calls and outputs.    *)
(***************************************************************************)
EXTENDS AsyncEngine, SequenceTheorems, TLAPS

\* At most two loops run, one after the other: the second one starts before the
\* callback of the first, and sleeps until the callback has ended it all.
LoopInv ==
    /\ loop = "none" <=> starts = 0
    /\ loop = "done" => callbackDue \/ errored
    /\ starts = 2 => errored \/ (callbackDue /\ loop = "wait")

\* LLMEngine has given no request its last output.
EngineInv ==
    /\ starts = 0 => InEngine = {}
    /\ \A st \in InEngine : outputs[st] < MaxOutputs

\* An attempt is aborted once it was made, and its caller has then left it.
CallerInv ==
    /\ \A r \in Requests : /\ attempt[r] <= MaxAttempts[r]
                           /\ client[r] = "idle" <=> attempt[r] = 0
    /\ \A st \in aborted : /\ st[2] <= attempt[Id(st)]
                           /\ st = StreamOf(Id(st)) => client[Id(st)] \in {"failed", "left"}

\* The stream was given to the tracker by now.
WasAdded(st) == \/ st[2] < attempt[Id(st)]
                \/ st[2] = attempt[Id(st)] /\ client[Id(st)] # "encoding"
AddedInv ==
    /\ \A st \in Streams : queue[st] # << >> \/ finished[st] => WasAdded(st)
    /\ \A r \in Requests : requestStreams[r] # 0 =>
          <<r, requestStreams[r]>> \in Streams /\ WasAdded(<<r, requestStreams[r]>>)
    /\ \A st \in Range(newRequests) : WasAdded(st)

\* A new request is not registered, got nothing so far, and is read by the last
\* caller of its id unless the id is to be dropped.
NewInv ==
    \A st \in Range(newRequests) :
        /\ requestStreams[Id(st)] = 0 /\ queue[st] = << >> /\ ~finished[st]
        /\ Id(st) \in finishedRequests \/ (st = StreamOf(Id(st)) /\ client[Id(st)] = "reading")

\* An id to be dropped has a stream or a call that was aborted.
DropInv ==
    \A r \in finishedRequests :
        requestStreams[r] # 0 \/ \E k \in 1..attempt[r] : <<r, k>> \in aborted

\* What was aborted is dropped before the next step.
AbortInv ==
    starts < 2 => \A st \in InEngine \cup Range(newRequests) :
                     st \in aborted => Id(st) \in finishedRequests

\* A final output or an error comes before the end of a stream.
EndsWell(q) ==
    \A j \in DOMAIN q : q[j] = "end" => \E i \in 1..(j - 1) : q[i] \in {"final", "error"}
Tainted(r) == \E k \in 1..(attempt[r] - 1) : <<r, k>> \in aborted
QueueInv ==
    \A r \in Requests :
        client[r] \in {"reading", "yielded"} => Tainted(r) \/ EndsWell(queue[StreamOf(r)])

\* A stream gets nothing after its final output but its end.
NoOutputAfter(q, i) == \A j \in DOMAIN q : j > i => q[j] # "output"
EndedByFinal(q, ended) ==
    \A i \in DOMAIN q : q[i] = "final" => ended /\ NoOutputAfter(q, i)
FinalInv ==
    /\ \A st \in Streams : EndedByFinal(queue[st], finished[st])
    /\ \A r \in Requests : client[r] \in {"yieldedLast", "last"} =>
          finished[StreamOf(r)] /\ NoOutputAfter(queue[StreamOf(r)], 0)

AsyncInv ==
    /\ AsyncTypeOK /\ LoopInv /\ EngineInv /\ CallerInv /\ AddedInv /\ NewInv
    /\ DropInv /\ AbortInv /\ QueueInv /\ FinalInv
    /\ EngineRequestsAreRegistered /\ NoStreamIsCutShort
-----------------------------------------------------------------------------
(***************************************************************************)
(* Streams                                                                 *)
(***************************************************************************)

\* A stream is an id and an attempt.
LEMMA StreamIs ==
    /\ \A st \in Streams : /\ Id(st) \in Requests /\ st[2] \in 1..MaxAttempts[Id(st)]
                           /\ st[2] \in Nat \ {0} /\ st = <<Id(st), st[2]>>
    /\ \A r \in Requests : \A k \in 1..MaxAttempts[r] : <<r, k>> \in Streams
    /\ \A r, k : Id(<<r, k>>) = r
BY AsyncEngineAssumption DEF Streams, Id

\* A caller that made a call has a stream.
LEMMA CallerHasStream ==
    ASSUME AsyncTypeOK, CallerInv, NEW r \in Requests, client[r] # "idle"
    PROVE  /\ StreamOf(r) \in Streams /\ Id(StreamOf(r)) = r /\ StreamOf(r)[2] = attempt[r]
           /\ attempt[r] \in 1..MaxAttempts[r]
<1>1. attempt[r] \in Nat /\ attempt[r] # 0 /\ attempt[r] <= MaxAttempts[r] /\ MaxAttempts[r] \in Nat
  BY AsyncEngineAssumption DEF AsyncTypeOK, CallerInv
<1>2. attempt[r] \in 1..MaxAttempts[r]
  BY <1>1
<1>3. QED
  BY <1>2, StreamIs DEF StreamOf

\* An item put at the end of a queue.
LEMMA PutIs ==
    ASSUME NEW q \in Seq(Items), NEW x \in Items
    PROVE  /\ q \o <<x>> \in Seq(Items)
           /\ EndsWell(q) /\ (x = "end" => \E i \in DOMAIN q : q[i] \in {"final", "error"})
              => EndsWell(q \o <<x>>)
           /\ (q \o <<x>>)[Len(q) + 1] = x /\ Len(q) + 1 \in DOMAIN (q \o <<x>>)
           /\ EndedByFinal(q, FALSE) => EndedByFinal(q \o <<x>>, TRUE)
           /\ EndedByFinal(q, FALSE) /\ x # "final" => EndedByFinal(q \o <<x>>, FALSE)
           /\ EndedByFinal(q, TRUE) /\ x = "end" => EndedByFinal(q \o <<x>>, TRUE)
<1> DEFINE u == q \o <<x>>
<1>1. /\ u \in Seq(Items) /\ Len(q) \in Nat /\ Len(u) = Len(q) + 1
      /\ DOMAIN q = 1..Len(q) /\ DOMAIN u = 1..(Len(q) + 1)
      /\ \A i \in 1..Len(q) : u[i] = q[i]
      /\ u[Len(q) + 1] = x
  OBVIOUS
<1> HIDE DEF u
<1>2. ASSUME EndsWell(q), x = "end" => \E i \in DOMAIN q : q[i] \in {"final", "error"},
             NEW j \in DOMAIN u, u[j] = "end"
      PROVE  \E i \in 1..(j - 1) : u[i] \in {"final", "error"}
  <2>1. CASE j = Len(q) + 1
    BY <1>1, <1>2, <2>1
  <2>2. CASE j \in DOMAIN q
    <3>1. PICK i \in 1..(j - 1) : q[i] \in {"final", "error"}
      BY <1>1, <1>2, <2>2 DEF EndsWell
    <3>2. i \in 1..Len(q)
      BY <1>1, <2>2
    <3>3. QED
      BY <1>1, <3>1, <3>2
  <2>3. QED
    BY <1>1, <1>2, <2>1, <2>2
<1>3. /\ EndedByFinal(q, FALSE) => EndedByFinal(u, TRUE)
      /\ EndedByFinal(q, FALSE) /\ x # "final" => EndedByFinal(u, FALSE)
      /\ EndedByFinal(q, TRUE) /\ x = "end" => EndedByFinal(u, TRUE)
  BY <1>1 DEF EndedByFinal, NoOutputAfter
<1>4. EndsWell(q) /\ (x = "end" => \E i \in DOMAIN q : q[i] \in {"final", "error"})
      => EndsWell(u)
  BY <1>2 DEF EndsWell
<1>5. u \in Seq(Items) /\ u[Len(q) + 1] = x /\ Len(q) + 1 \in DOMAIN u
  BY <1>1
<1>6. QED
  BY <1>3, <1>4, <1>5, Zenon DEF u

\* The first item is taken from a queue.
LEMMA TailIs ==
    ASSUME NEW q \in Seq(Items), q # << >>
    PROVE  /\ Tail(q) \in Seq(Items) /\ Head(q) \in Items
           /\ EndsWell(q) => Head(q) # "end"
           /\ EndsWell(q) /\ Head(q) \notin {"final", "error"} => EndsWell(Tail(q))
           /\ \A ended \in BOOLEAN : EndedByFinal(q, ended) =>
                /\ EndedByFinal(Tail(q), ended)
                /\ Head(q) = "final" => ended /\ NoOutputAfter(Tail(q), 0)
           /\ NoOutputAfter(q, 0) => Head(q) # "output" /\ NoOutputAfter(Tail(q), 0)
<1> DEFINE u == Tail(q)
<1>1. /\ u \in Seq(Items) /\ Len(q) \in Nat \ {0} /\ Len(u) = Len(q) - 1
      /\ DOMAIN q = 1..Len(q) /\ DOMAIN u = 1..(Len(q) - 1)
      /\ \A i \in 1..(Len(q) - 1) : u[i] = q[i + 1]
      /\ Head(q) = q[1] /\ Head(q) \in Items
  OBVIOUS
<1> HIDE DEF u
<1>2. EndsWell(q) => Head(q) # "end"
  BY <1>1 DEF EndsWell
<1>3. ASSUME EndsWell(q), Head(q) \notin {"final", "error"}, NEW j \in DOMAIN u, u[j] = "end"
      PROVE  \E i \in 1..(j - 1) : u[i] \in {"final", "error"}
  <2>1. j + 1 \in DOMAIN q /\ q[j + 1] = "end" /\ (j + 1) - 1 = j
    BY <1>1, <1>3
  <2>2. PICK i \in 1..j : q[i] \in {"final", "error"}
    BY <1>3, <2>1 DEF EndsWell
  <2>3. i # 1
    BY <1>1, <1>3, <2>2
  <2>4. i - 1 \in 1..(j - 1) /\ u[i - 1] = q[i]
    BY <1>1, <1>3, <2>2, <2>3
  <2>5. QED
    BY <2>2, <2>4
<1>4. ASSUME NEW ended \in BOOLEAN, EndedByFinal(q, ended)
      PROVE  /\ EndedByFinal(u, ended)
             /\ Head(q) = "final" => ended /\ NoOutputAfter(u, 0)
  <2>1. \A i \in DOMAIN u : i + 1 \in DOMAIN q /\ u[i] = q[i + 1]
    BY <1>1
  <2>2. QED
    BY <1>1, <1>4, <2>1 DEF EndedByFinal, NoOutputAfter
<1>5. NoOutputAfter(q, 0) => Head(q) # "output" /\ NoOutputAfter(u, 0)
  BY <1>1 DEF NoOutputAfter
<1>6. QED
  BY <1>1, <1>2, <1>3, <1>4, <1>5 DEF EndsWell, u

\* What Deliver does to the queues.
LEMMA DeliverIs ==
    ASSUME queue \in [Streams -> Seq(Items)], finished \in [Streams -> BOOLEAN],
           NEW give, NEW ended, Deliver(give, ended),
           \A st \in DOMAIN give : /\ give[st] \in Items \ {"end"}
                                   /\ give[st] = "final" => st \in ended
    PROVE  /\ queue' \in [Streams -> Seq(Items)] /\ finished' \in [Streams -> BOOLEAN]
           /\ \A st \in Streams : st \notin DOMAIN give /\ st \notin ended =>
                queue'[st] = queue[st] /\ finished'[st] = finished[st]
           /\ \A st \in Streams :
                EndsWell(queue[st])
                /\ (st \in ended => st \in DOMAIN give /\ give[st] \in {"final", "error"})
                => EndsWell(queue'[st])
           /\ \A st \in Streams : EndedByFinal(queue[st], finished[st]) =>
                EndedByFinal(queue'[st], finished'[st])
           /\ \A st \in Streams : finished[st] => finished'[st] /\ queue'[st] = queue[st]
<1> DEFINE Given(st) == IF st \in DOMAIN give THEN queue[st] \o <<give[st]>> ELSE queue[st]
<1>1. /\ \A st \in Streams : queue[st] \in Seq(Items)
      /\ \A st \in DOMAIN give : /\ give[st] \in Items /\ give[st] # "end"
                                 /\ give[st] = "final" => st \in ended
      /\ "end" \in Items
  BY DEF Items
<1>2. ASSUME NEW st \in Streams
      PROVE  /\ Given(st) \in Seq(Items)
             /\ st \notin DOMAIN give => Given(st) = queue[st]
             /\ EndsWell(queue[st]) => EndsWell(Given(st))
             /\ EndedByFinal(queue[st], FALSE) =>
                  EndedByFinal(Given(st), TRUE) /\ (st \notin ended => EndedByFinal(Given(st), FALSE))
             /\ st \in DOMAIN give /\ give[st] \in {"final", "error"} =>
                  \E i \in DOMAIN Given(st) : Given(st)[i] \in {"final", "error"}
  <2>1. CASE st \in DOMAIN give
    <3> DEFINE q == queue[st]
               x == give[st]
    <3>1. q \in Seq(Items) /\ x \in Items /\ x # "end" /\ (x = "final" => st \in ended)
      BY <1>1, <2>1
    <3>2. Given(st) = q \o <<x>>
      BY <2>1
    <3> HIDE DEF q, x, Given
    <3>3. /\ Given(st) \in Seq(Items)
          /\ EndsWell(q) => EndsWell(Given(st))
          /\ EndedByFinal(q, FALSE) => EndedByFinal(Given(st), TRUE)
          /\ EndedByFinal(q, FALSE) /\ x # "final" => EndedByFinal(Given(st), FALSE)
          /\ Given(st)[Len(q) + 1] = x /\ Len(q) + 1 \in DOMAIN Given(st)
      BY <3>1, <3>2, PutIs
    <3>4. QED
      BY <2>1, <3>1, <3>3 DEF q, x
  <2>2. CASE st \notin DOMAIN give
    BY <1>1, <2>2 DEF EndedByFinal
  <2>3. QED
    BY <2>1, <2>2
<1> HIDE DEF Given
<1>3. /\ queue' = [st \in Streams |-> IF finished[st] THEN queue[st]
                                    ELSE IF st \in ended THEN Given(st) \o <<"end">>
                                    ELSE Given(st)]
      /\ finished' = [st \in Streams |-> finished[st] \/ st \in ended]
  <2>1. ASSUME NEW st \in Streams
        PROVE  queue[st] \o (IF st \in DOMAIN give THEN <<give[st]>> ELSE << >>)
                         \o (IF st \in ended THEN <<"end">> ELSE << >>)
               = IF st \in ended THEN Given(st) \o <<"end">> ELSE Given(st)
    <3>1. queue[st] \o (IF st \in DOMAIN give THEN <<give[st]>> ELSE << >>) = Given(st)
      BY <1>1 DEF Given
    <3>2. Given(st) \o << >> = Given(st)
      BY <1>2
    <3>3. QED
      BY <3>1, <3>2
  <2>2. QED
    BY <2>1, Zenon DEF Deliver
<1>4. ASSUME NEW st \in Streams
      PROVE  /\ queue'[st] \in Seq(Items)
             /\ st \notin DOMAIN give /\ st \notin ended => queue'[st] = queue[st]
             /\ EndsWell(queue[st])
                /\ (st \in ended => st \in DOMAIN give /\ give[st] \in {"final", "error"})
                => EndsWell(queue'[st])
             /\ EndedByFinal(queue[st], finished[st]) => EndedByFinal(queue'[st], finished'[st])
             /\ finished[st] => finished'[st] /\ queue'[st] = queue[st]
  <2>1. CASE finished[st]
    BY <1>1, <1>3, <2>1
  <2>2. CASE ~finished[st] /\ st \in ended
    <3>1. queue'[st] = Given(st) \o <<"end">>
      BY <1>3, <2>2
    <3> DEFINE g == Given(st)
    <3>2. /\ g \in Seq(Items) /\ "end" \in Items
          /\ EndedByFinal(queue[st], FALSE) => EndedByFinal(g, TRUE)
      BY <1>1, <1>2
    <3> HIDE DEF g
    <3>3. /\ g \o <<"end">> \in Seq(Items)
          /\ EndsWell(g) /\ (\E i \in DOMAIN g : g[i] \in {"final", "error"})
             => EndsWell(g \o <<"end">>)
          /\ EndedByFinal(g, TRUE) => EndedByFinal(g \o <<"end">>, TRUE)
      BY <3>2, PutIs
    <3>4. finished'[st] = TRUE /\ finished[st] = FALSE
      BY <1>3, <2>2
    <3>5. QED
      BY <1>2, <2>2, <3>1, <3>2, <3>3, <3>4 DEF g
  <2>3. CASE ~finished[st] /\ st \notin ended
    BY <1>2, <1>3, <2>3
  <2>4. QED
    BY <2>1, <2>2, <2>3
<1>5. /\ \A st \in Streams : st \notin DOMAIN give /\ st \notin ended => finished'[st] = finished[st]
      /\ finished' \in [Streams -> BOOLEAN]
  BY <1>3
<1>6. queue' \in [Streams -> Seq(Items)]
  BY <1>3, <1>4
<1>7. QED
  BY <1>4, <1>5, <1>6
-----------------------------------------------------------------------------
(***************************************************************************)
(* The invariant                                                           *)
(***************************************************************************)

LEMMA InitAsyncInv ==
    AsyncInit => AsyncInv
<1> SUFFICES ASSUME AsyncInit
             PROVE  AsyncInv
  OBVIOUS
<1>1. InEngine = {} /\ Range(newRequests) = {} /\ << >> \in Seq(Items) /\ << >> \in Seq(Streams)
  BY DEF AsyncInit, InEngine, Range
<1>2. AsyncTypeOK
  <2>1. /\ requestStreams \in [Requests -> Nat] /\ attempt \in [Requests -> Nat]
        /\ queue \in [Streams -> Seq(Items)] /\ finished \in [Streams -> BOOLEAN]
    BY <1>1 DEF AsyncInit
  <2>2. client \in [Requests -> {"idle", "encoding", "reading", "last", "yielded",
                                "yieldedLast", "finished", "cut", "failed", "left", "closed"}]
    BY DEF AsyncInit
  <2>3. starts \in 0..2 /\ newRequests \in Seq(Streams)
    BY <1>1 DEF AsyncInit
  <2>4. QED
    BY <1>1, <2>1, <2>2, <2>3 DEF AsyncInit, AsyncTypeOK
<1>3. /\ LoopInv /\ EngineInv /\ CallerInv /\ AddedInv /\ NewInv /\ DropInv /\ AbortInv /\ QueueInv
      /\ FinalInv
  BY <1>1, AsyncEngineAssumption
     DEF AsyncInit, LoopInv, EngineInv, CallerInv, AddedInv, NewInv, DropInv, AbortInv, QueueInv,
         FinalInv, EndedByFinal
<1>4. EngineRequestsAreRegistered /\ NoStreamIsCutShort
  BY <1>1 DEF AsyncInit, EngineRequestsAreRegistered, NoStreamIsCutShort
<1>5. QED
  BY <1>2, <1>3, <1>4 DEF AsyncInv

\* The loop moves and nothing else does.
LEMMA QuietStep ==
    ASSUME AsyncInv,
           UNCHANGED <<requestStreams, finishedRequests, newRequests, streamVars, starts, outputs,
                       clientVars>>,
           newRequestsEvent' \in BOOLEAN,
           loop' \in {"none", "wait", "step", "executing", "done"},
           callbackDue' \in BOOLEAN, errored' \in BOOLEAN, LoopInv'
    PROVE  AsyncInv'
BY DEF streamVars, clientVars, AsyncInv, AsyncTypeOK, EngineInv, CallerInv, AddedInv, NewInv,
       DropInv, AbortInv, QueueInv, FinalInv, EngineRequestsAreRegistered, NoStreamIsCutShort,
       InEngine, WasAdded, StreamOf, Tainted

\* A caller aborts its request and leaves, or starts a call that fails at once.
LEMMA LeaveStep ==
    ASSUME AsyncInv, NEW r \in Requests, NEW how \in {"failed", "left"},
           \/ attempt' = attempt /\ client[r] # "idle"
           \/ attempt' = [attempt EXCEPT ![r] = @ + 1] /\ MayGenerate(r),
           client' = [client EXCEPT ![r] = how],
           aborted' = aborted \cup {<<r, attempt'[r]>>},
           finishedRequests' = finishedRequests \cup {r},
           Deliver(<< >>, Registered({r})),
           UNCHANGED <<requestStreams, newRequests, newRequestsEvent, loopVars, outputs>>
    PROVE  AsyncInv'
<1>1. /\ AsyncTypeOK /\ LoopInv /\ EngineInv /\ CallerInv /\ AddedInv /\ NewInv
      /\ DropInv /\ AbortInv /\ QueueInv /\ FinalInv
      /\ EngineRequestsAreRegistered /\ NoStreamIsCutShort
  BY DEF AsyncInv
<1>2. UNCHANGED <<requestStreams, newRequests, newRequestsEvent, loop, starts, callbackDue,
                  errored, outputs>>
  BY DEF loopVars
<1>3. /\ attempt' \in [Requests -> Nat] /\ attempt'[r] \in 1..MaxAttempts[r]
      /\ \A x \in Requests : attempt[x] <= attempt'[x] /\ attempt'[x] <= MaxAttempts[x]
      /\ \A x \in Requests \ {r} : attempt'[x] = attempt[x]
  <2>1. /\ attempt \in [Requests -> Nat] /\ attempt[r] \in Nat /\ MaxAttempts[r] \in Nat
        /\ \A x \in Requests : attempt[x] <= MaxAttempts[x]
        /\ client[r] = "idle" <=> attempt[r] = 0
    BY <1>1, AsyncEngineAssumption DEF AsyncTypeOK, CallerInv
  <2>2. CASE attempt' = attempt /\ client[r] # "idle"
    BY <2>1, <2>2
  <2>3. CASE attempt' = [attempt EXCEPT ![r] = @ + 1] /\ MayGenerate(r)
    BY <2>1, <2>3 DEF MayGenerate
  <2>4. QED
    BY <2>2, <2>3
<1>4. client'[r] = how /\ \A x \in Requests \ {r} : client'[x] = client[x]
  BY <1>1 DEF AsyncTypeOK
<1>5. /\ queue' \in [Streams -> Seq(Items)] /\ finished' \in [Streams -> BOOLEAN]
      /\ \A st \in Streams : st \notin Registered({r}) =>
           queue'[st] = queue[st] /\ finished'[st] = finished[st]
      /\ \A st \in Streams : EndedByFinal(queue[st], finished[st]) =>
           EndedByFinal(queue'[st], finished'[st])
  <2>1. DOMAIN << >> = {}
    OBVIOUS
  <2>2. queue \in [Streams -> Seq(Items)] /\ finished \in [Streams -> BOOLEAN]
    BY <1>1 DEF AsyncTypeOK
  <2>3. QED
    BY <2>1, <2>2, DeliverIs
<1>6. \A st \in Registered({r}) : Id(st) = r /\ st[2] = requestStreams[r] /\ st \in Streams
  BY DEF Registered
<1>7. AsyncTypeOK'
  <2>1. <<r, attempt'[r]>> \in Streams
    BY <1>3, StreamIs
  <2>2. QED
    BY <1>1, <1>2, <1>3, <1>5, <2>1 DEF AsyncTypeOK, InEngine
<1>8. LoopInv' /\ EngineInv' /\ EngineRequestsAreRegistered'
  BY <1>1, <1>2 DEF LoopInv, EngineInv, EngineRequestsAreRegistered, InEngine
<1>9. CallerInv'
  <2>1. \A x \in Requests : client'[x] = "idle" <=> attempt'[x] = 0
    BY <1>1, <1>3, <1>4 DEF CallerInv
  <2>2. ASSUME NEW st \in aborted'
        PROVE  /\ st[2] <= attempt'[Id(st)]
               /\ st = StreamOf(Id(st))' => client'[Id(st)] \in {"failed", "left"}
    <3>1. CASE Id(st) = r
      <4>1. st \in Streams
        BY <1>7 DEF AsyncTypeOK
      <4>2. st[2] <= attempt'[r]
        BY <1>1, <1>3, <3>1, <4>1, StreamIs DEF CallerInv, AsyncTypeOK
      <4>3. QED
        BY <1>4, <3>1, <4>2
    <3>2. CASE Id(st) # r
      <4>1. st \in aborted /\ Id(st) \in Requests \ {r}
        BY <1>1, <3>2, StreamIs DEF AsyncTypeOK
      <4>2. QED
        BY <1>1, <1>3, <1>4, <4>1 DEF CallerInv, StreamOf
    <3>3. QED
      BY <3>1, <3>2
  <2>3. QED
    BY <1>3, <2>1, <2>2 DEF CallerInv, StreamOf, Id
<1>10. \A st \in Streams : WasAdded(st) => WasAdded(st)'
  BY <1>1, <1>3, <1>4, StreamIs DEF WasAdded, AsyncTypeOK, Id
<1>11. AddedInv'
  <2>1. ASSUME NEW st \in Registered({r})
        PROVE  WasAdded(st)
    <3>1. st = <<r, requestStreams[r]>> /\ requestStreams[r] # 0
      BY <1>6, StreamIs
    <3>2. QED
      BY <1>1, <3>1 DEF AddedInv
  <2>2. \A st \in Streams : queue'[st] # << >> \/ finished'[st] => WasAdded(st)
    BY <1>1, <1>5, <2>1 DEF AddedInv
  <2>3. \A st \in Range(newRequests) : st \in Streams /\ WasAdded(st)
    BY <1>1 DEF AddedInv, AsyncTypeOK, Range
  <2>4. QED
    BY <1>1, <1>2, <1>10, <2>2, <2>3 DEF AddedInv
<1>12. NewInv'
  <2>1. ASSUME NEW st \in Range(newRequests)
        PROVE  /\ requestStreams[Id(st)] = 0 /\ queue'[st] = << >> /\ ~finished'[st]
               /\ \/ Id(st) \in finishedRequests'
                  \/ st = <<Id(st), attempt'[Id(st)]>> /\ client'[Id(st)] = "reading"
    <3>1. st \in Streams
      BY <1>1 DEF AsyncTypeOK, Range
    <3>2. requestStreams[Id(st)] = 0 /\ queue[st] = << >> /\ ~finished[st]
      BY <1>1 DEF NewInv
    <3>3. st \notin Registered({r})
      BY <3>1, <3>2, <1>6, StreamIs
    <3>4. CASE Id(st) = r
      BY <1>5, <3>1, <3>2, <3>3, <3>4
    <3>5. CASE Id(st) # r
      BY <1>1, <1>3, <1>4, <1>5, <3>1, <3>2, <3>3, <3>5, StreamIs DEF NewInv, StreamOf
    <3>6. QED
      BY <3>4, <3>5
  <2>2. QED
    BY <1>2, <2>1 DEF NewInv, StreamOf, Id
<1>13. DropInv'
  <2>1. ASSUME NEW x \in finishedRequests, requestStreams[x] = 0
        PROVE  \E k \in 1..attempt'[x] : <<x, k>> \in aborted'
    <3>1. PICK k \in 1..attempt[x] : <<x, k>> \in aborted
      BY <1>1, <2>1 DEF DropInv
    <3>2. x \in Requests /\ attempt[x] \in Nat /\ attempt'[x] \in Nat /\ attempt[x] <= attempt'[x]
      BY <1>1, <1>3 DEF AsyncTypeOK
    <3>3. k \in 1..attempt'[x]
      BY <3>2
    <3>4. QED
      BY <3>1, <3>3
  <2>2. attempt'[r] \in 1..attempt'[r] /\ <<r, attempt'[r]>> \in aborted'
    BY <1>3, AsyncEngineAssumption
  <2>3. QED
    BY <1>2, <2>1, <2>2 DEF DropInv
<1>14. AbortInv'
  BY <1>1, <1>2, StreamIs DEF AbortInv, InEngine
<1>15. QueueInv' /\ FinalInv' /\ NoStreamIsCutShort'
  <2>1. ASSUME NEW x \in Requests \ {r}, client[x] # "idle"
        PROVE  /\ StreamOf(x)' = StreamOf(x) /\ queue'[StreamOf(x)] = queue[StreamOf(x)]
               /\ finished'[StreamOf(x)] = finished[StreamOf(x)]
    <3>1. StreamOf(x) \in Streams /\ Id(StreamOf(x)) = x
      BY <1>1, <2>1, CallerHasStream
    <3>2. QED
      BY <1>3, <1>5, <1>6, <3>1 DEF StreamOf
  <2>2. QueueInv' /\ NoStreamIsCutShort'
    BY <1>1, <1>3, <1>4, <2>1 DEF QueueInv, NoStreamIsCutShort, Tainted
  <2>3. ASSUME NEW x \in Requests, client'[x] \in {"yieldedLast", "last"}
        PROVE  finished'[StreamOf(x)'] /\ NoOutputAfter(queue'[StreamOf(x)'], 0)
    BY <1>1, <1>4, <2>1, <2>3 DEF FinalInv
  <2>4. QED
    BY <1>1, <1>5, <2>2, <2>3 DEF FinalInv
<1>16. QED
  BY <1>7, <1>8, <1>9, <1>11, <1>12, <1>13, <1>14, <1>15 DEF AsyncInv

\* The callers that leave.
LEMMA LeavingSteps ==
    ASSUME AsyncInv, NEW r \in Requests,
           \/ EngineIsDead(r) \/ AlreadyExists(r) \/ ReadError(r) \/ Disconnect(r) \/ Cancel(r)
    PROVE  AsyncInv'
<1>1. CASE EngineIsDead(r)
  <2>1. attempt'[r] = attempt[r] + 1
    BY <1>1 DEF EngineIsDead, AsyncInv, AsyncTypeOK
  <2>2. QED
    BY <1>1, <2>1, LeaveStep DEF EngineIsDead
<1>2. ASSUME NEW how \in {"failed", "left"}, Leave(r, how), client[r] # "idle",
             UNCHANGED <<loopVars, outputs, attempt>>
      PROVE  AsyncInv'
  <2>1. aborted' = aborted \cup {<<r, attempt'[r]>>}
    BY <1>2 DEF Leave, StreamOf
  <2>2. QED
    BY <1>2, <2>1, LeaveStep DEF Leave, AbortRequest
<1>3. CASE AlreadyExists(r) \/ ReadError(r) \/ Disconnect(r) \/ Cancel(r)
  BY <1>2, <1>3 DEF AlreadyExists, ReadError, Disconnect, Cancel
<1>4. QED
  BY <1>1, <1>3

\* A call starts, and the background loop with it when none runs.
LEMMA GenerateStep ==
    ASSUME AsyncInv, NEW r \in Requests, Generate(r)
    PROVE  AsyncInv'
<1>1. /\ AsyncTypeOK /\ LoopInv /\ EngineInv /\ CallerInv /\ AddedInv /\ NewInv
      /\ DropInv /\ AbortInv /\ QueueInv /\ FinalInv
      /\ EngineRequestsAreRegistered /\ NoStreamIsCutShort
  BY DEF AsyncInv
<1>2. /\ MayGenerate(r) /\ attempt' = [attempt EXCEPT ![r] = @ + 1]
      /\ client' = [client EXCEPT ![r] = "encoding"]
      /\ UNCHANGED <<queue, finished, outputs, aborted>>
  BY DEF Generate, streamVars
<1>3. /\ attempt' \in [Requests -> Nat] /\ attempt'[r] = attempt[r] + 1 /\ attempt[r] \in Nat
      /\ \A x \in Requests \ {r} : attempt'[x] = attempt[x]
      /\ \A x \in Requests : attempt[x] <= attempt'[x] /\ attempt'[x] <= MaxAttempts[x]
      /\ client'[r] = "encoding" /\ \A x \in Requests \ {r} : client'[x] = client[x]
  <2>1. /\ attempt \in [Requests -> Nat] /\ attempt[r] \in Nat
        /\ \A x \in Requests : attempt[x] <= MaxAttempts[x] /\ MaxAttempts[x] \in Nat
        /\ attempt[r] < MaxAttempts[r]
    BY <1>1, <1>2, AsyncEngineAssumption DEF AsyncTypeOK, CallerInv, MayGenerate
  <2>2. client'[r] = "encoding" /\ \A x \in Requests \ {r} : client'[x] = client[x]
    BY <1>1, <1>2 DEF AsyncTypeOK
  <2>3. QED
    BY <1>2, <2>1, <2>2
<1>4. \/ /\ IsRunning
         /\ UNCHANGED <<requestStreams, finishedRequests, newRequests, newRequestsEvent,
                        loop, starts, callbackDue, errored>>
      \/ /\ ~IsRunning /\ ~errored
         /\ requestStreams' = [x \in Requests |-> 0]
         /\ finishedRequests' = {} /\ newRequests' = << >> /\ newRequestsEvent' = FALSE
         /\ loop' = "wait" /\ starts' = starts + 1
         /\ UNCHANGED <<callbackDue, errored>>
  BY DEF Generate, StartBackgroundLoop, trackerVars, loopVars
<1>5. /\ Range(newRequests') \subseteq Range(newRequests)
      /\ Range(newRequests') # {} => UNCHANGED <<requestStreams, finishedRequests>>
      /\ finishedRequests' # {} => UNCHANGED <<requestStreams, finishedRequests>>
      /\ \A x \in Requests : requestStreams'[x] # 0 => requestStreams'[x] = requestStreams[x]
      /\ UNCHANGED <<requestStreams, finishedRequests, newRequests, starts>>
         \/ (InEngine' = {} /\ starts' = 1 /\ Range(newRequests') = {}) \/ starts' = 2
  <2>1. CASE IsRunning
    BY <1>4, <2>1
  <2>2. CASE ~IsRunning
    <3>1. Range(<< >>) = {}
      BY DEF Range
    <3>2. starts = 0 \/ starts = 1
      BY <1>1, <1>4, <2>2 DEF LoopInv, IsRunning, AsyncTypeOK
    <3>3. starts = 0 => InEngine' = {}
      BY <1>1, <1>2 DEF EngineInv, InEngine
    <3>4. QED
      BY <1>4, <2>2, <3>1, <3>2, <3>3
  <2>3. QED
    BY <2>1, <2>2
<1>6. LoopInv' /\ starts' \in 0..2
  BY <1>1, <1>4 DEF LoopInv, IsRunning, AsyncTypeOK
<1>7. AsyncTypeOK'
  <2>1. /\ requestStreams' \in [Requests -> Nat] /\ finishedRequests' \subseteq Requests
        /\ newRequests' \in Seq(Streams) /\ newRequestsEvent' \in BOOLEAN
        /\ loop' \in {"none", "wait", "step", "executing", "done"}
        /\ callbackDue' \in BOOLEAN /\ errored' \in BOOLEAN
    <3>1. CASE IsRunning
      BY <1>1, <1>4, <3>1 DEF AsyncTypeOK
    <3>2. CASE ~IsRunning
      <4>1. << >> \in Seq(Streams) /\ [x \in Requests |-> 0] \in [Requests -> Nat]
        OBVIOUS
      <4>2. QED
        BY <1>1, <1>4, <3>2, <4>1 DEF AsyncTypeOK
    <3>3. QED
      BY <3>1, <3>2
  <2>2. client' \in [Requests -> {"idle", "encoding", "reading", "last", "yielded",
                                 "yieldedLast", "finished", "cut", "failed", "left", "closed"}]
    BY <1>1, <1>2 DEF AsyncTypeOK
  <2>3. QED
    BY <1>1, <1>2, <1>3, <1>6, <2>1, <2>2 DEF AsyncTypeOK, InEngine
<1>8. EngineInv' /\ EngineRequestsAreRegistered' /\ AbortInv'
  <2>1. EngineInv'
    BY <1>1, <1>2, <1>5, <1>6 DEF EngineInv, InEngine, LoopInv, AsyncTypeOK
  <2>2. CASE UNCHANGED <<requestStreams, finishedRequests, newRequests, starts>>
    BY <1>1, <1>2, <2>1, <2>2 DEF EngineRequestsAreRegistered, AbortInv, InEngine, Id
  <2>3. CASE InEngine' = {} /\ starts' = 1 /\ Range(newRequests') = {}
    BY <2>1, <2>3 DEF EngineRequestsAreRegistered, AbortInv
  <2>4. CASE starts' = 2
    BY <2>1, <2>4 DEF EngineRequestsAreRegistered, AbortInv
  <2>5. QED
    BY <1>5, <2>2, <2>3, <2>4
<1>9. ASSUME NEW st \in Streams, WasAdded(st)
      PROVE  WasAdded(st)'
  BY <1>1, <1>3, <1>9, StreamIs DEF WasAdded, AsyncTypeOK, Id
<1>10. CallerInv'
  <2>1. ASSUME NEW st \in aborted
        PROVE  /\ st[2] <= attempt'[Id(st)]
               /\ st = <<Id(st), attempt'[Id(st)]>> => client'[Id(st)] \in {"failed", "left"}
    <3>1. st \in Streams /\ st[2] <= attempt[Id(st)]
      BY <1>1 DEF AsyncTypeOK, CallerInv
    <3>2. CASE Id(st) = r
      BY <1>3, <3>1, <3>2, StreamIs
    <3>3. CASE Id(st) # r
      BY <1>1, <1>3, <3>1, <3>3, StreamIs DEF CallerInv, StreamOf
    <3>4. QED
      BY <3>2, <3>3
  <2>2. \A x \in Requests : client'[x] = "idle" <=> attempt'[x] = 0
    BY <1>1, <1>3 DEF CallerInv
  <2>3. QED
    BY <1>2, <1>3, <2>1, <2>2 DEF CallerInv, StreamOf, Id
<1>11. AddedInv'
  <2>1. \A st \in Range(newRequests) : st \in Streams /\ WasAdded(st)
    BY <1>1 DEF AddedInv, AsyncTypeOK, Range
  <2>2. \A x \in Requests : requestStreams[x] # 0 =>
           <<x, requestStreams[x]>> \in Streams /\ WasAdded(<<x, requestStreams[x]>>)
    BY <1>1 DEF AddedInv
  <2>3. \A st \in Streams : queue'[st] # << >> \/ finished'[st] => WasAdded(st)'
    BY <1>1, <1>2, <1>9 DEF AddedInv
  <2>4. QED
    BY <1>5, <1>9, <2>1, <2>2, <2>3 DEF AddedInv
<1>12. NewInv'
  <2>1. ASSUME NEW st \in Range(newRequests')
        PROVE  /\ requestStreams'[Id(st)] = 0 /\ queue'[st] = << >> /\ ~finished'[st]
               /\ \/ Id(st) \in finishedRequests'
                  \/ st = <<Id(st), attempt'[Id(st)]>> /\ client'[Id(st)] = "reading"
    <3>1. st \in Range(newRequests) /\ st \in Streams
      <4>1. Range(newRequests) \subseteq Streams
        BY <1>1 DEF AsyncTypeOK, Range
      <4>2. QED
        BY <1>5, <4>1
    <3>2. UNCHANGED <<requestStreams, finishedRequests>>
      BY <1>5
    <3>3. /\ requestStreams[Id(st)] = 0 /\ queue[st] = << >> /\ ~finished[st]
          /\ Id(st) \in finishedRequests \/ (st = StreamOf(Id(st)) /\ client[Id(st)] = "reading")
      BY <1>1, <3>1 DEF NewInv
    <3>4. client[r] # "reading"
      BY <1>2 DEF MayGenerate
    <3>5. QED
      BY <1>2, <1>3, <3>1, <3>2, <3>3, <3>4, StreamIs DEF StreamOf
  <2>2. QED
    BY <2>1 DEF NewInv, StreamOf, Id
<1>13. DropInv'
  <2>1. ASSUME NEW x \in finishedRequests', requestStreams'[x] = 0
        PROVE  \E k \in 1..attempt'[x] : <<x, k>> \in aborted
    <3>1. x \in finishedRequests /\ requestStreams[x] = 0
      BY <1>5, <2>1
    <3>2. PICK k \in 1..attempt[x] : <<x, k>> \in aborted
      BY <1>1, <3>1 DEF DropInv
    <3>3. x \in Requests /\ attempt[x] \in Nat /\ attempt'[x] \in Nat /\ attempt[x] <= attempt'[x]
      BY <1>1, <1>3, <3>1 DEF AsyncTypeOK
    <3>4. k \in 1..attempt'[x]
      BY <3>3
    <3>5. QED
      BY <3>2, <3>4
  <2>2. QED
    BY <1>2, <2>1 DEF DropInv
<1>14. QueueInv' /\ FinalInv' /\ NoStreamIsCutShort'
  BY <1>1, <1>2, <1>3 DEF QueueInv, FinalInv, NoStreamIsCutShort, Tainted, StreamOf
<1>15. QED
  BY <1>6, <1>7, <1>8, <1>10, <1>11, <1>12, <1>13, <1>14 DEF AsyncInv

\* A request whose prompt is encoded is new: no step and no other call knows it.
LEMMA AddRequestStep ==
    ASSUME AsyncInv, NEW r \in Requests, AddRequest(r)
    PROVE  AsyncInv'
<1> DEFINE new == StreamOf(r)
<1>1. /\ AsyncTypeOK /\ LoopInv /\ EngineInv /\ CallerInv /\ AddedInv /\ NewInv
      /\ DropInv /\ AbortInv /\ QueueInv /\ FinalInv
      /\ EngineRequestsAreRegistered /\ NoStreamIsCutShort
  BY DEF AsyncInv
<1>2. /\ client[r] = "encoding" /\ requestStreams[r] = 0
      /\ newRequests' = Append(newRequests, new) /\ newRequestsEvent' = TRUE
      /\ client' = [client EXCEPT ![r] = "reading"]
      /\ UNCHANGED <<requestStreams, finishedRequests, queue, finished, loop, starts,
                     callbackDue, errored, outputs, attempt, aborted>>
  BY DEF AddRequest, streamVars, loopVars
<1>3. /\ new \in Streams /\ Id(new) = r /\ new[2] = attempt[r] /\ attempt[r] # 0
  BY <1>1, <1>2, CallerHasStream, AsyncEngineAssumption
<1>4. queue[new] = << >> /\ ~finished[new] /\ new \notin aborted
  <2>1. ~WasAdded(new)
    BY <1>1, <1>2, <1>3 DEF WasAdded, AsyncTypeOK
  <2>2. new \notin aborted
    BY <1>1, <1>2, <1>3 DEF CallerInv
  <2>3. QED
    BY <1>1, <1>3, <2>1, <2>2 DEF AddedInv
<1>5. newRequests' \in Seq(Streams) /\ Range(newRequests') = Range(newRequests) \cup {new}
  <2> HIDE DEF new
  <2>1. newRequests \in Seq(Streams)
    BY <1>1 DEF AsyncTypeOK
  <2>2. QED
    BY <1>2, <1>3, <2>1, AppendProperties DEF Range
<1>6. client'[r] = "reading" /\ \A x \in Requests \ {r} : client'[x] = client[x]
  BY <1>1, <1>2 DEF AsyncTypeOK
<1>7. AsyncTypeOK'
  <2>1. client' \in [Requests -> {"idle", "encoding", "reading", "last", "yielded",
                                 "yieldedLast", "finished", "cut", "failed", "left", "closed"}]
    BY <1>1, <1>2 DEF AsyncTypeOK
  <2>2. QED
    BY <1>1, <1>2, <1>5, <2>1 DEF AsyncTypeOK, InEngine
<1>8. LoopInv' /\ EngineInv' /\ EngineRequestsAreRegistered' /\ DropInv'
  BY <1>1, <1>2 DEF LoopInv, EngineInv, EngineRequestsAreRegistered, InEngine, DropInv, Id
<1>9. AbortInv'
  BY <1>1, <1>2, <1>4, <1>5 DEF AbortInv, InEngine, Id
<1>10. CallerInv'
  <2>1. ASSUME NEW st \in aborted
        PROVE  st = StreamOf(Id(st)) => client'[Id(st)] \in {"failed", "left"}
    BY <1>1, <1>2, <1>6, StreamIs DEF CallerInv, AsyncTypeOK
  <2>2. QED
    BY <1>1, <1>2, <1>3, <1>6, <2>1 DEF CallerInv, StreamOf, Id
<1>11. ASSUME NEW st \in Streams
       PROVE  (WasAdded(st) => WasAdded(st)') /\ (st = new => WasAdded(st)')
  BY <1>2, <1>3, <1>6, StreamIs DEF WasAdded, Id
<1>12. AddedInv'
  <2>1. \A st \in Range(newRequests) : st \in Streams /\ WasAdded(st)
    BY <1>1 DEF AddedInv, AsyncTypeOK, Range
  <2>2. QED
    BY <1>1, <1>2, <1>3, <1>5, <1>11, <2>1 DEF AddedInv
<1>13. NewInv'
  <2>1. ASSUME NEW st \in Range(newRequests)
        PROVE  /\ requestStreams[Id(st)] = 0 /\ queue[st] = << >> /\ ~finished[st]
               /\ \/ Id(st) \in finishedRequests
                  \/ st = StreamOf(Id(st)) /\ client'[Id(st)] = "reading"
    <3>1. st \in Streams
      BY <1>1 DEF AsyncTypeOK, Range
    <3>2. QED
      BY <1>1, <1>6, <3>1, StreamIs DEF NewInv
  <2>2. QED
    BY <1>2, <1>3, <1>4, <1>5, <1>6, <2>1 DEF NewInv, StreamOf, Id
<1>14. QueueInv' /\ FinalInv' /\ NoStreamIsCutShort'
  <2>1. EndsWell(<< >>)
    BY DEF EndsWell
  <2>2. QED
    BY <1>1, <1>2, <1>4, <1>6, <2>1 DEF QueueInv, FinalInv, NoStreamIsCutShort, Tainted, StreamOf
<1>15. QED
  BY <1>7, <1>8, <1>9, <1>10, <1>12, <1>13, <1>14 DEF AsyncInv

\* A caller reads, asks for the next output or closes its generator.
LEMMA ReadingSteps ==
    ASSUME AsyncInv, NEW r \in Requests, Read(r) \/ NextOutput(r) \/ CloseGenerator(r)
    PROVE  AsyncInv'
<1> DEFINE st == StreamOf(r)
           q == queue[st]
<1>1. /\ AsyncTypeOK /\ LoopInv /\ EngineInv /\ CallerInv /\ AddedInv /\ NewInv
      /\ DropInv /\ AbortInv /\ QueueInv /\ FinalInv
      /\ EngineRequestsAreRegistered /\ NoStreamIsCutShort
  BY DEF AsyncInv
<1>2. /\ client[r] \in {"reading", "last", "yielded", "yieldedLast"}
      /\ UNCHANGED <<requestStreams, finishedRequests, newRequests, newRequestsEvent, finished,
                     loop, starts, callbackDue, errored, outputs, attempt, aborted>>
  BY DEF Read, NextOutput, CloseGenerator, trackerVars, streamVars, loopVars
<1>3. st \in Streams /\ Id(st) = r /\ st[2] = attempt[r] /\ attempt[r] # 0 /\ attempt[r] \in Nat
  BY <1>1, <1>2, CallerHasStream, AsyncEngineAssumption DEF AsyncTypeOK
<1>4. \/ /\ q # << >> /\ queue' = [queue EXCEPT ![st] = Tail(q)]
         /\ client[r] \in {"reading", "last"}
         /\ \/ Head(q) = "output" /\ client' = [client EXCEPT ![r] = "yielded"]
            \/ Head(q) = "final" /\ client' = [client EXCEPT ![r] = "yieldedLast"]
            \/ /\ Head(q) = "end"
               /\ client' = [client EXCEPT ![r] = IF client[r] = "last" THEN "finished" ELSE "cut"]
      \/ /\ queue' = queue /\ client[r] \in {"yielded", "yieldedLast"}
         /\ \/ client[r] = "yielded" /\ client' = [client EXCEPT ![r] = "reading"]
            \/ client[r] = "yieldedLast" /\ client' = [client EXCEPT ![r] = "last"]
            \/ client' = [client EXCEPT ![r] = "closed"]
  <2>1. CASE Read(r)
    <3>1. q \in Seq(Items) /\ q # << >>
      BY <1>1, <1>3, <2>1 DEF AsyncTypeOK, Read
    <3>2. Head(q) \in Items \ {"error"}
      BY <3>1, <2>1, TailIs DEF Read
    <3>3. Head(q) = "output" \/ Head(q) = "final" \/ Head(q) = "end"
      BY <3>2 DEF Items
    <3>4. QED
      BY <2>1, <3>1, <3>3 DEF Read
  <2>2. CASE NextOutput(r)
    BY <2>2 DEF NextOutput, streamVars
  <2>3. CASE CloseGenerator(r)
    BY <2>3 DEF CloseGenerator, streamVars
  <2>4. QED
    BY <2>1, <2>2, <2>3
<1> HIDE DEF st, q
<1>5. /\ client'[r] \notin {"idle", "encoding"} /\ DOMAIN client' = Requests
      /\ \A x \in Requests \ {r} : client'[x] = client[x]
      /\ client' \in [Requests -> {"idle", "encoding", "reading", "last", "yielded",
                                   "yieldedLast", "finished", "cut", "failed", "left", "closed"}]
  BY <1>1, <1>4 DEF AsyncTypeOK
<1>6. q = queue[st] /\ q \in Seq(Items)
  BY <1>1, <1>3 DEF q, AsyncTypeOK
<1>7. /\ queue' \in [Streams -> Seq(Items)]
      /\ \A x \in Streams \ {st} : queue'[x] = queue[x]
      /\ q = << >> => queue' = queue
      /\ queue'[st] = IF client[r] \in {"reading", "last"} THEN Tail(q) ELSE q
  <2>1. CASE client[r] \in {"reading", "last"} /\ q # << >> /\ queue' = [queue EXCEPT ![st] = Tail(q)]
    <3>1. Tail(q) \in Seq(Items)
      BY <1>6, <2>1, TailIs
    <3>2. QED
      BY <1>1, <1>3, <2>1, <3>1 DEF AsyncTypeOK
  <2>2. CASE queue' = queue /\ client[r] \in {"yielded", "yieldedLast"}
    BY <1>1, <1>6, <2>2 DEF AsyncTypeOK
  <2>3. QED
    BY <1>4, <2>1, <2>2
<1>8. AsyncTypeOK'
  BY <1>1, <1>2, <1>5, <1>7 DEF AsyncTypeOK, InEngine
<1>9. LoopInv' /\ EngineInv' /\ EngineRequestsAreRegistered' /\ DropInv' /\ AbortInv'
  BY <1>1, <1>2
     DEF LoopInv, EngineInv, EngineRequestsAreRegistered, InEngine, DropInv, AbortInv, Id
<1>10. st \notin aborted
  BY <1>1, <1>2, <1>3 DEF CallerInv, st
<1>11. CallerInv'
  <2>1. ASSUME NEW x \in aborted
        PROVE  x = StreamOf(Id(x)) => client'[Id(x)] \in {"failed", "left"}
    <3>1. x \in Streams /\ x # st
      BY <1>1, <1>10 DEF AsyncTypeOK
    <3>2. QED
      BY <1>1, <1>5, <3>1, StreamIs DEF CallerInv, st
  <2>2. QED
    BY <1>1, <1>2, <1>3, <1>5, <2>1 DEF CallerInv, StreamOf, Id
<1>12. ASSUME NEW x \in Streams, WasAdded(x)
       PROVE  WasAdded(x)'
  BY <1>2, <1>5, <1>12, StreamIs DEF WasAdded, Id
<1>13. AddedInv'
  <2>1. \A x \in Range(newRequests) : x \in Streams /\ WasAdded(x)
    BY <1>1 DEF AddedInv, AsyncTypeOK, Range
  <2>2. \A x \in Streams : queue'[x] # << >> \/ finished[x] => WasAdded(x)
    <3>1. client[r] # "encoding"
      BY <1>2
    <3>2. WasAdded(st)
      BY <1>3, <3>1 DEF WasAdded
    <3>3. QED
      BY <1>1, <1>7, <3>2 DEF AddedInv
  <2>3. QED
    BY <1>1, <1>2, <1>12, <2>1, <2>2 DEF AddedInv
<1>14. NewInv'
  <2>1. ASSUME NEW x \in Range(newRequests)
        PROVE  /\ requestStreams[Id(x)] = 0 /\ queue'[x] = << >> /\ ~finished[x]
               /\ \/ Id(x) \in finishedRequests
                  \/ x = StreamOf(Id(x)) /\ client'[Id(x)] = "reading"
    <3>1. x \in Streams
      BY <1>1 DEF AsyncTypeOK, Range
    <3>2. /\ requestStreams[Id(x)] = 0 /\ queue[x] = << >> /\ ~finished[x]
          /\ \/ Id(x) \in finishedRequests
             \/ x = StreamOf(Id(x)) /\ client[Id(x)] = "reading"
      BY <1>1 DEF NewInv
    <3>3. queue'[x] = << >>
      BY <1>6, <1>7, <3>1, <3>2
    <3>4. CASE x = st
      BY <1>3, <1>4, <1>6, <3>2, <3>3, <3>4
    <3>5. CASE x # st
      BY <1>5, <3>1, <3>2, <3>3, <3>5, StreamIs DEF st
    <3>6. QED
      BY <3>4, <3>5
  <2>2. QED
    BY <1>2, <2>1 DEF NewInv, StreamOf, Id
<1>15. \A x \in Requests : StreamOf(x)' = StreamOf(x) /\ (Tainted(x) => Tainted(x)')
  BY <1>2 DEF StreamOf, Tainted
<1>16. QueueInv'
  <2>1. ASSUME NEW x \in Requests, client'[x] \in {"reading", "yielded"}, ~Tainted(x)
        PROVE  EndsWell(queue'[StreamOf(x)])
    <3>1. CASE x = r
      <4>1. client[r] \in {"reading", "yielded"} => EndsWell(q)
        BY <1>1, <1>6, <2>1, <3>1 DEF QueueInv, st
      <4>2. client[r] = "last" => NoOutputAfter(q, 0)
        BY <1>1, <1>6 DEF FinalInv, st
      <4>3. \/ q # << >> /\ Head(q) = "output" /\ client[r] \in {"reading", "last"}
            \/ client[r] = "yielded" /\ queue' = queue
        BY <1>1, <1>4, <2>1, <3>1 DEF AsyncTypeOK
      <4>4. CASE q # << >> /\ Head(q) = "output" /\ client[r] \in {"reading", "last"}
        <5>1. client[r] = "reading"
          BY <1>6, <4>2, <4>4, TailIs
        <5>2. EndsWell(Tail(q))
          BY <1>6, <4>1, <4>4, <5>1, TailIs
        <5>3. QED
          BY <1>7, <3>1, <4>4, <5>2 DEF st
      <4>5. CASE client[r] = "yielded" /\ queue' = queue
        BY <1>6, <3>1, <4>1, <4>5 DEF st
      <4>6. QED
        BY <4>3, <4>4, <4>5
    <3>2. CASE x # r
      <4>1. client[x] \in {"reading", "yielded"}
        BY <1>5, <2>1, <3>2
      <4>2. StreamOf(x) \in Streams \ {st}
        BY <1>1, <3>2, <4>1, CallerHasStream, <1>3
      <4>3. QED
        BY <1>1, <1>7, <2>1, <4>1, <4>2 DEF QueueInv
    <3>3. QED
      BY <3>1, <3>2
  <2>2. QED
    BY <1>15, <2>1 DEF QueueInv
<1>17. FinalInv'
  <2>1. EndedByFinal(q, finished[st]) /\ finished[st] \in BOOLEAN
    BY <1>1, <1>3, <1>6 DEF FinalInv, AsyncTypeOK
  <2>2. EndedByFinal(queue'[st], finished[st])
    BY <1>3, <1>4, <1>6, <1>7, <2>1, TailIs
  <2>3. ASSUME NEW x \in Requests, client'[x] \in {"yieldedLast", "last"}
        PROVE  finished[StreamOf(x)] /\ NoOutputAfter(queue'[StreamOf(x)], 0)
    <3>1. CASE x = r
      <4>1. client[r] \in {"yieldedLast", "last"} => finished[st] /\ NoOutputAfter(q, 0)
        BY <1>1, <1>6 DEF FinalInv, st
      <4>2. \/ q # << >> /\ Head(q) = "final" /\ client[r] \in {"reading", "last"}
            \/ client[r] = "yieldedLast" /\ queue' = queue
        BY <1>1, <1>4, <2>3, <3>1 DEF AsyncTypeOK
      <4>3. CASE q # << >> /\ Head(q) = "final" /\ client[r] \in {"reading", "last"}
        <5>1. finished[st] /\ NoOutputAfter(Tail(q), 0)
          BY <1>6, <2>1, <4>3, TailIs
        <5>2. QED
          BY <1>7, <3>1, <4>3, <5>1 DEF st
      <4>4. CASE client[r] = "yieldedLast" /\ queue' = queue
        BY <1>6, <3>1, <4>1, <4>4 DEF st
      <4>5. QED
        BY <4>2, <4>3, <4>4
    <3>2. CASE x # r
      <4>1. client[x] \in {"yieldedLast", "last"}
        BY <1>5, <2>3, <3>2
      <4>2. StreamOf(x) \in Streams \ {st}
        BY <1>1, <1>3, <3>2, <4>1, CallerHasStream
      <4>3. QED
        BY <1>1, <1>7, <4>1, <4>2 DEF FinalInv
    <3>3. QED
      BY <3>1, <3>2
  <2>4. QED
    BY <1>1, <1>2, <1>7, <1>15, <2>2, <2>3 DEF FinalInv
<1>18. NoStreamIsCutShort'
  <2>1. ASSUME client'[r] = "cut"
        PROVE  Tainted(r)
    <3>1. client[r] = "reading" /\ q # << >> /\ Head(q) = "end"
      BY <1>1, <1>4, <2>1 DEF AsyncTypeOK
    <3>2. ~EndsWell(q)
      BY <1>6, <3>1, TailIs
    <3>3. QED
      BY <1>1, <1>6, <3>1, <3>2 DEF QueueInv, st
  <2>2. QED
    BY <1>1, <1>2, <1>5, <2>1 DEF NoStreamIsCutShort, Tainted
<1>19. QED
  BY <1>8, <1>9, <1>11, <1>13, <1>14, <1>16, <1>17, <1>18 DEF AsyncInv

\* What a step or the callback puts goes to registered streams, and a stream is
\* ended with its final output or an error.
LEMMA PutStep ==
    ASSUME AsyncInv, NEW give, NEW ended, NEW ids \in SUBSET Requests,
           Deliver(give, ended),
           DOMAIN give \subseteq Registered(Requests), ended \subseteq DOMAIN give,
           \A st \in DOMAIN give : give[st] \in Items \ {"end"},
           \A st \in DOMAIN give : give[st] = "final" => st \in ended,
           \A st \in ended : give[st] \in {"final", "error"},
           finishedRequests' = finishedRequests \cup ids,
           \A r \in ids : requestStreams[r] # 0,
           InEngine' \subseteq InEngine,
           \A st \in InEngine' : outputs'[st] \in Nat /\ outputs'[st] < MaxOutputs,
           UNCHANGED <<requestStreams, newRequests, newRequestsEvent, starts, clientVars>>,
           loop' \in {"none", "wait", "step", "executing", "done"},
           callbackDue' \in BOOLEAN, errored' \in BOOLEAN, LoopInv'
    PROVE  AsyncInv'
<1>1. /\ AsyncTypeOK /\ LoopInv /\ EngineInv /\ CallerInv /\ AddedInv /\ NewInv
      /\ DropInv /\ AbortInv /\ QueueInv /\ FinalInv
      /\ EngineRequestsAreRegistered /\ NoStreamIsCutShort
  BY DEF AsyncInv
<1>2. UNCHANGED <<requestStreams, newRequests, newRequestsEvent, starts, client, attempt, aborted>>
  BY DEF clientVars
<1>3. /\ queue' \in [Streams -> Seq(Items)] /\ finished' \in [Streams -> BOOLEAN]
      /\ \A st \in Streams : st \notin DOMAIN give /\ st \notin ended =>
           queue'[st] = queue[st] /\ finished'[st] = finished[st]
      /\ \A st \in Streams :
           EndsWell(queue[st])
           /\ (st \in ended => st \in DOMAIN give /\ give[st] \in {"final", "error"})
           => EndsWell(queue'[st])
      /\ \A st \in Streams : EndedByFinal(queue[st], finished[st]) =>
           EndedByFinal(queue'[st], finished'[st])
      /\ \A st \in Streams : finished[st] => finished'[st] /\ queue'[st] = queue[st]
  <2>1. queue \in [Streams -> Seq(Items)] /\ finished \in [Streams -> BOOLEAN]
    BY <1>1 DEF AsyncTypeOK
  <2>2. \A st \in DOMAIN give : /\ give[st] \in Items \ {"end"}
                                /\ give[st] = "final" => st \in ended
    OBVIOUS
  <2>3. QED
    BY <2>1, <2>2, DeliverIs
<1>4. ASSUME NEW st \in DOMAIN give
      PROVE  /\ st \in Streams /\ WasAdded(st) /\ requestStreams[Id(st)] # 0
  <2>1. st \in Streams /\ requestStreams[Id(st)] = st[2]
    BY DEF Registered
  <2>2. st = <<Id(st), requestStreams[Id(st)]>> /\ requestStreams[Id(st)] # 0 /\ Id(st) \in Requests
    BY <2>1, StreamIs
  <2>3. WasAdded(<<Id(st), requestStreams[Id(st)]>>)
    BY <1>1, <2>2 DEF AddedInv
  <2>4. QED
    BY <2>1, <2>2, <2>3
<1>5. AsyncTypeOK'
  <2>1. \A st \in InEngine' : outputs'[st] \in 0..MaxOutputs
    BY AsyncEngineAssumption
  <2>2. InEngine' \subseteq Streams
    BY <1>1 DEF AsyncTypeOK
  <2>3. QED
    BY <1>1, <1>2, <1>3, <2>1, <2>2 DEF AsyncTypeOK
<1>6. EngineInv' /\ EngineRequestsAreRegistered' /\ DropInv' /\ AbortInv'
  BY <1>1, <1>2 DEF EngineInv, EngineRequestsAreRegistered, DropInv, AbortInv, Id
<1>7. CallerInv' /\ NoStreamIsCutShort'
  BY <1>1, <1>2 DEF CallerInv, NoStreamIsCutShort, StreamOf
<1>8. AddedInv'
  <2>1. \A st \in Streams : queue'[st] # << >> \/ finished'[st] => WasAdded(st)
    BY <1>1, <1>3, <1>4 DEF AddedInv
  <2>2. QED
    BY <1>1, <1>2, <2>1 DEF AddedInv, WasAdded
<1>9. NewInv'
  <2>1. ASSUME NEW st \in Range(newRequests)
        PROVE  queue'[st] = << >> /\ ~finished'[st]
    <3>1. st \in Streams /\ requestStreams[Id(st)] = 0 /\ queue[st] = << >> /\ ~finished[st]
      BY <1>1 DEF NewInv, AsyncTypeOK, Range
    <3>2. QED
      BY <1>3, <1>4, <3>1
  <2>2. QED
    BY <1>1, <1>2, <2>1 DEF NewInv, StreamOf, Id
<1>10. \A r \in Requests : client[r] # "idle" => StreamOf(r) \in Streams
  BY <1>1, CallerHasStream
<1>11. QueueInv'
  BY <1>1, <1>2, <1>3, <1>10 DEF QueueInv, Tainted, StreamOf
<1>12. FinalInv'
  BY <1>1, <1>2, <1>3, <1>10 DEF FinalInv, StreamOf
<1>13. QED
  BY <1>5, <1>6, <1>7, <1>8, <1>9, <1>11, <1>12 DEF AsyncInv

\* process_request_output for the requests of a step.
LEMMA ProcessStep ==
    ASSUME AsyncInv, NEW out \in SUBSET InEngine, NEW last \in SUBSET out,
           {st \in out : outputs[st] + 1 = MaxOutputs} \subseteq last,
           \A st \in out : requestStreams[Id(st)] # 0,
           ProcessOutputs(out, last),
           UNCHANGED <<requestStreams, newRequests, newRequestsEvent, starts, clientVars>>,
           loop' \in {"none", "wait", "step", "executing", "done"},
           callbackDue' \in BOOLEAN, errored' \in BOOLEAN, LoopInv'
    PROVE  AsyncInv'
<1> DEFINE give == [st \in Registered(Ids(out)) |->
                       IF Id(st) \in Ids(last) THEN "final" ELSE "output"]
           ended == Registered(Ids(last))
<1>1. AsyncTypeOK /\ EngineInv
  BY DEF AsyncInv
<1>2. Ids(last) \subseteq Ids(out) /\ Ids(out) \subseteq Requests
  BY <1>1, StreamIs DEF Ids, AsyncTypeOK
<1>3. /\ DOMAIN give = Registered(Ids(out)) /\ DOMAIN give \subseteq Registered(Requests)
      /\ ended \subseteq DOMAIN give
  BY <1>2 DEF Registered
<1>4. /\ \A st \in DOMAIN give : give[st] \in Items \ {"end"}
      /\ \A st \in DOMAIN give : give[st] = "final" => st \in ended
      /\ \A st \in ended : give[st] \in {"final", "error"}
  BY <1>3 DEF Items, Registered
<1>5. /\ Deliver(give, ended) /\ finishedRequests' = finishedRequests \cup Ids(last)
      /\ outputs' = [st \in InEngine \ last |-> IF st \in out THEN outputs[st] + 1 ELSE outputs[st]]
  BY DEF ProcessOutputs
<1> HIDE DEF give, ended
<1>6. InEngine' \subseteq InEngine /\ InEngine' = InEngine \ last
  BY <1>5 DEF InEngine
<1>7. ASSUME NEW st \in InEngine'
      PROVE  outputs'[st] \in Nat /\ outputs'[st] < MaxOutputs
  <2>1. outputs[st] \in Nat /\ outputs[st] < MaxOutputs
    BY <1>1, <1>6 DEF AsyncTypeOK, EngineInv
  <2>2. outputs'[st] = IF st \in out THEN outputs[st] + 1 ELSE outputs[st]
    BY <1>5, <1>6
  <2>3. st \in out => outputs[st] + 1 # MaxOutputs
    BY <1>6
  <2>4. QED
    BY <2>1, <2>2, <2>3, AsyncEngineAssumption
<1>8. \A r \in Ids(last) : requestStreams[r] # 0
  BY DEF Ids
<1>9. Ids(last) \in SUBSET Requests
  BY <1>2
<1>10. QED
  BY <1>3, <1>4, <1>5, <1>6, <1>7, <1>8, <1>9, PutStep

\* The steps of the loop but the one that takes in the new requests.
LEMMA LoopSteps ==
    ASSUME AsyncInv,
           WakeUp \/ EndStep \/ UnknownRequest \/ StepFails \/ Timeout \/ ErrorCallback
    PROVE  AsyncInv'
<1>1. AsyncTypeOK /\ LoopInv
  BY DEF AsyncInv
<1>2. CASE WakeUp \/ StepFails \/ Timeout
  <2>1. /\ UNCHANGED <<requestStreams, finishedRequests, newRequests, streamVars, starts, outputs,
                       clientVars>>
        /\ newRequestsEvent' \in BOOLEAN
        /\ loop' \in {"none", "wait", "step", "executing", "done"}
        /\ callbackDue' \in BOOLEAN /\ errored' \in BOOLEAN
    BY <1>1, <1>2 DEF WakeUp, StepFails, Timeout, LoopEnds, trackerVars, AsyncTypeOK
  <2>2. LoopInv'
    BY <1>1, <1>2 DEF WakeUp, StepFails, Timeout, LoopEnds, LoopInv
  <2>3. QED
    BY <2>1, <2>2, QuietStep
<1>3. CASE EndStep
  <2>0. PICK out \in SUBSET InEngine : \E last \in SUBSET out :
          /\ {st \in out : outputs[st] + 1 = MaxOutputs} \subseteq last
          /\ \A st \in out : requestStreams[Id(st)] # 0
          /\ ProcessOutputs(out, last)
          /\ loop' = IF out = {} THEN "wait" ELSE "step"
    BY <1>3 DEF EndStep
  <2>1. PICK last \in SUBSET out :
          /\ {st \in out : outputs[st] + 1 = MaxOutputs} \subseteq last
          /\ \A st \in out : requestStreams[Id(st)] # 0
          /\ ProcessOutputs(out, last)
          /\ loop' = IF out = {} THEN "wait" ELSE "step"
    BY <2>0
  <2>2. /\ loop = "executing"
        /\ UNCHANGED <<requestStreams, newRequests, newRequestsEvent, starts, callbackDue,
                       errored, clientVars>>
    BY <1>3 DEF EndStep
  <2>3. LoopInv' /\ loop' \in {"wait", "step"}
    BY <1>1, <2>1, <2>2 DEF LoopInv
  <2>4. callbackDue' \in BOOLEAN /\ errored' \in BOOLEAN
    BY <1>1, <2>2 DEF AsyncTypeOK
  <2>5. QED
    BY <2>1, <2>2, <2>3, <2>4, ProcessStep
<1>4. CASE UnknownRequest
  <2>1. PICK out \in SUBSET {st \in InEngine : requestStreams[Id(st)] # 0} :
          ProcessOutputs(out, {st \in out : outputs[st] + 1 = MaxOutputs})
    BY <1>4 DEF UnknownRequest
  <2>2. /\ loop = "executing" /\ LoopEnds
        /\ UNCHANGED <<requestStreams, newRequests, newRequestsEvent, starts, errored, clientVars>>
    BY <1>4 DEF UnknownRequest, LoopEnds
  <2>3. LoopInv'
    BY <1>1, <2>2 DEF LoopInv, LoopEnds
  <2>4. callbackDue' \in BOOLEAN /\ errored' \in BOOLEAN /\ loop' = "done"
    BY <1>1, <2>2 DEF AsyncTypeOK, LoopEnds
  <2> DEFINE last == {st \in out : outputs[st] + 1 = MaxOutputs}
  <2>5. out \in SUBSET InEngine /\ last \in SUBSET out
    OBVIOUS
  <2>6. QED
    BY <2>1, <2>2, <2>3, <2>4, <2>5, ProcessStep
<1>5. CASE ErrorCallback
  <2> DEFINE all == {r \in Requests : requestStreams[r] # 0}
             give == Errors(Registered(all))
             ended == Registered(all)
  <2>1. /\ callbackDue' = FALSE /\ errored' = TRUE
        /\ Deliver(give, ended) /\ finishedRequests' = finishedRequests \cup all
        /\ UNCHANGED <<requestStreams, newRequests, newRequestsEvent, loop, starts, outputs,
                       clientVars>>
    BY <1>5 DEF ErrorCallback
  <2>2. /\ DOMAIN give = ended /\ ended \subseteq Registered(Requests)
        /\ \A st \in DOMAIN give : give[st] = "error"
    BY DEF Errors, Registered
  <2>3. LoopInv'
    BY <1>1, <2>1 DEF LoopInv
  <2>4. /\ InEngine' = InEngine
        /\ \A st \in InEngine : outputs'[st] \in Nat /\ outputs'[st] < MaxOutputs
    BY <2>1 DEF AsyncInv, AsyncTypeOK, EngineInv, InEngine
  <2>5. /\ \A st \in DOMAIN give : give[st] \in Items \ {"end"}
        /\ \A st \in DOMAIN give : give[st] = "final" => st \in ended
        /\ \A st \in ended : give[st] \in {"final", "error"}
    BY <2>2 DEF Items
  <2>6. all \in SUBSET Requests /\ \A r \in all : requestStreams[r] # 0
    OBVIOUS
  <2>7. loop' \in {"none", "wait", "step", "executing", "done"}
    BY <1>1, <2>1 DEF AsyncTypeOK
  <2> HIDE DEF give, ended, all
  <2>8. QED
    BY <2>1, <2>2, <2>3, <2>4, <2>5, <2>6, <2>7, PutStep
<1>6. QED
  BY <1>2, <1>3, <1>4, <1>5

\* A new request that is not to be dropped is read by the last caller of its id.
LEMMA FreshIs ==
    ASSUME AsyncInv, NEW st \in Fresh
    PROVE  /\ st \in Streams /\ Id(st) \in Requests /\ st \in Range(newRequests)
           /\ requestStreams[Id(st)] = 0 /\ st = StreamOf(Id(st)) /\ WasAdded(st)
           /\ Id(st) \notin finishedRequests
           /\ \A x \in Fresh : Id(x) = Id(st) => x = st
<1>1. AsyncTypeOK /\ NewInv /\ AddedInv
  BY DEF AsyncInv
<1>2. \A x \in Fresh : /\ x \in Range(newRequests) /\ Id(x) \notin finishedRequests
                       /\ x \in Streams /\ x = StreamOf(Id(x))
  BY <1>1 DEF Fresh, NewInv, AsyncTypeOK, Range
<1>3. QED
  BY <1>1, <1>2, StreamIs DEF NewInv, AddedInv

\* A step adds and drops what get_new_and_finished_requests has.
LEMMA StartStepKeeps ==
    ASSUME AsyncInv, StartStep
    PROVE  AsyncInv' /\ (starts < 2 => InEngine' \cap aborted = {})
<1>1. /\ AsyncTypeOK /\ LoopInv /\ EngineInv /\ CallerInv /\ AddedInv /\ NewInv
      /\ DropInv /\ AbortInv /\ QueueInv /\ FinalInv
      /\ EngineRequestsAreRegistered /\ NoStreamIsCutShort
  BY DEF AsyncInv
<1>2. PICK invalid \in SUBSET Fresh :
         /\ requestStreams' = [r \in Requests |->
               IF \E st \in Fresh : Id(st) = r
               THEN (CHOOSE st \in Fresh : Id(st) = r)[2]
               ELSE IF r \in finishedRequests THEN 0 ELSE requestStreams[r]]
         /\ outputs' = [st \in {s \in InEngine : Id(s) \notin finishedRequests}
                               \cup (Fresh \ invalid) |->
                           IF st \in InEngine THEN outputs[st] ELSE 0]
         /\ finishedRequests' = Ids(invalid)
         /\ Deliver(Errors(invalid), invalid \cup Dropped)
  BY DEF StartStep
<1>3. /\ loop = "step" /\ loop' = "executing" /\ newRequests' = << >>
      /\ UNCHANGED <<newRequestsEvent, starts, callbackDue, errored, client, attempt, aborted>>
  BY DEF StartStep, clientVars
<1> DEFINE Kept == {s \in InEngine : Id(s) \notin finishedRequests}
<1>4. ASSUME NEW st \in Fresh
      PROVE  requestStreams'[Id(st)] = st[2]
  <2>1. Id(st) \in Requests /\ \A x \in Fresh : Id(x) = Id(st) => x = st
    BY FreshIs
  <2> DEFINE c == CHOOSE x \in Fresh : Id(x) = Id(st)
  <2>2. c \in Fresh /\ Id(c) = Id(st)
    OBVIOUS
  <2>3. c = st
    BY <2>1, <2>2
  <2>4. requestStreams'[Id(st)] = c[2]
    BY <1>2, <2>1
  <2>5. QED
    BY <2>3, <2>4
<1>5. ASSUME NEW r \in Requests, \A st \in Fresh : Id(st) # r
      PROVE  requestStreams'[r] = IF r \in finishedRequests THEN 0 ELSE requestStreams[r]
  BY <1>2, <1>5
<1>6. ASSUME NEW st \in Streams, requestStreams[Id(st)] # 0
      PROVE  \A x \in Fresh : Id(x) # Id(st)
  BY <1>6, FreshIs
<1>7. /\ InEngine' = Kept \cup (Fresh \ invalid) /\ Kept \subseteq InEngine
      /\ InEngine \subseteq Streams /\ Fresh \subseteq Streams
      /\ \A st \in InEngine' : outputs'[st] = IF st \in InEngine THEN outputs[st] ELSE 0
  BY <1>1, <1>2, FreshIs DEF InEngine, AsyncTypeOK
<1>8. requestStreams' \in [Requests -> Nat]
  <2>1. ASSUME NEW r \in Requests
        PROVE  requestStreams'[r] \in Nat
    <3>1. CASE \E st \in Fresh : Id(st) = r
      <4>1. PICK st \in Fresh : Id(st) = r
        BY <3>1
      <4>2. requestStreams'[r] = st[2] /\ st \in Streams
        BY <1>4, <4>1, FreshIs
      <4>3. QED
        BY <4>2, StreamIs
    <3>2. CASE \A st \in Fresh : Id(st) # r
      <4>1. requestStreams[r] \in Nat
        BY <1>1 DEF AsyncTypeOK
      <4>2. requestStreams'[r] = IF r \in finishedRequests THEN 0 ELSE requestStreams[r]
        BY <1>5, <3>2
      <4>3. QED
        BY <4>1, <4>2
    <3>3. QED
      BY <3>1, <3>2
  <2>2. QED
    BY <1>2, <2>1
<1>9. /\ queue' \in [Streams -> Seq(Items)] /\ finished' \in [Streams -> BOOLEAN]
      /\ \A st \in Streams : st \notin invalid /\ st \notin Dropped =>
           queue'[st] = queue[st] /\ finished'[st] = finished[st]
      /\ \A st \in Streams : st \notin Dropped /\ EndsWell(queue[st]) => EndsWell(queue'[st])
      /\ \A st \in Streams : EndedByFinal(queue[st], finished[st]) =>
           EndedByFinal(queue'[st], finished'[st])
      /\ \A st \in Streams : finished[st] => finished'[st] /\ queue'[st] = queue[st]
  <2> DEFINE give == Errors(invalid)
             ended == invalid \cup Dropped
  <2>1. /\ DOMAIN give = invalid /\ \A st \in invalid : give[st] = "error"
        /\ queue \in [Streams -> Seq(Items)] /\ finished \in [Streams -> BOOLEAN]
        /\ Deliver(give, ended)
    BY <1>1, <1>2 DEF Errors, AsyncTypeOK
  <2>2. \A st \in DOMAIN give : /\ give[st] \in Items \ {"end"}
                                /\ give[st] = "final" => st \in ended
    BY <2>1 DEF Items
  <2> HIDE DEF give
  <2>3. /\ queue' \in [Streams -> Seq(Items)] /\ finished' \in [Streams -> BOOLEAN]
        /\ \A st \in Streams : st \notin DOMAIN give /\ st \notin ended =>
             queue'[st] = queue[st] /\ finished'[st] = finished[st]
        /\ \A st \in Streams :
             EndsWell(queue[st])
             /\ (st \in ended => st \in DOMAIN give /\ give[st] \in {"final", "error"})
             => EndsWell(queue'[st])
        /\ \A st \in Streams : EndedByFinal(queue[st], finished[st]) =>
             EndedByFinal(queue'[st], finished'[st])
        /\ \A st \in Streams : finished[st] => finished'[st] /\ queue'[st] = queue[st]
    <3> HIDE DEF ended
    <3>1. QED
      BY <2>1, <2>2, DeliverIs
  <2>4. QED
    BY <2>1, <2>3
<1>10. AsyncTypeOK'
  <2>1. Ids(invalid) \subseteq Requests
    BY FreshIs DEF Ids
  <2>2. \A st \in InEngine' : outputs'[st] \in 0..MaxOutputs
    <3>1. 0 \in 0..MaxOutputs /\ \A st \in InEngine : outputs[st] \in 0..MaxOutputs
      BY <1>1, AsyncEngineAssumption DEF AsyncTypeOK
    <3>2. QED
      BY <1>7, <3>1
  <2>3. newRequests' \in Seq(Streams) /\ InEngine' \subseteq Streams
    BY <1>3, <1>7
  <2>4. QED
    BY <1>1, <1>2, <1>3, <1>8, <1>9, <2>1, <2>2, <2>3 DEF AsyncTypeOK
<1>11. LoopInv' /\ EngineInv'
  <2>1. LoopInv'
    BY <1>1, <1>3 DEF LoopInv
  <2>2. starts' # 0
    BY <1>1, <1>3 DEF LoopInv
  <2>3. \A st \in InEngine' : outputs'[st] < MaxOutputs
    BY <1>1, <1>7, AsyncEngineAssumption DEF EngineInv
  <2>4. QED
    BY <2>1, <2>2, <2>3 DEF EngineInv
<1>12. CallerInv' /\ NoStreamIsCutShort'
  BY <1>1, <1>3 DEF CallerInv, NoStreamIsCutShort, StreamOf
<1>13. Range(newRequests') = {}
  BY <1>3 DEF Range
<1>14. AddedInv' /\ NewInv'
  <2>1. \A st \in invalid \cup Dropped : WasAdded(st)
    BY <1>1, FreshIs DEF Dropped, AddedInv
  <2>2. \A st \in Streams : queue'[st] # << >> \/ finished'[st] => WasAdded(st)
    BY <1>1, <1>9, <2>1 DEF AddedInv
  <2>3. ASSUME NEW r \in Requests, requestStreams'[r] # 0
        PROVE  <<r, requestStreams'[r]>> \in Streams /\ WasAdded(<<r, requestStreams'[r]>>)
    <3>1. CASE \E st \in Fresh : Id(st) = r
      <4>1. PICK st \in Fresh : Id(st) = r
        BY <3>1
      <4>2. st \in Streams /\ WasAdded(st) /\ requestStreams'[r] = st[2] /\ st = <<r, st[2]>>
        BY <1>4, <4>1, FreshIs, StreamIs
      <4>3. QED
        BY <4>2
    <3>2. CASE \A st \in Fresh : Id(st) # r
      <4>1. requestStreams'[r] = requestStreams[r]
        BY <1>5, <2>3, <3>2
      <4>2. QED
        BY <1>1, <2>3, <4>1 DEF AddedInv
    <3>3. QED
      BY <3>1, <3>2
  <2>4. QED
    BY <1>3, <1>13, <2>2, <2>3 DEF AddedInv, NewInv, WasAdded
<1>15. DropInv'
  <2>1. ASSUME NEW r \in Ids(invalid)
        PROVE  requestStreams'[r] # 0
    <3>1. PICK st \in invalid : Id(st) = r
      BY DEF Ids
    <3>2. st \in Fresh /\ st \in Streams
      BY FreshIs
    <3>3. QED
      BY <1>4, <3>1, <3>2, StreamIs
  <2>2. QED
    BY <1>2, <2>1 DEF DropInv
<1>16. starts < 2 => InEngine' \cap aborted = {}
  <2>1. ASSUME starts < 2, NEW st \in InEngine', st \in aborted
        PROVE  FALSE
    <3>1. CASE st \in Kept
      BY <1>1, <2>1, <3>1 DEF AbortInv
    <3>2. CASE st \in Fresh
      BY <1>1, <2>1, <3>2, FreshIs DEF AbortInv
    <3>3. QED
      BY <1>7, <2>1, <3>1, <3>2
  <2>2. QED
    BY <2>1
<1>17. AbortInv'
  BY <1>3, <1>13, <1>16 DEF AbortInv
<1>18. EngineRequestsAreRegistered'
  <2>1. ASSUME starts < 2, NEW st \in InEngine'
        PROVE  requestStreams'[Id(st)] = st[2]
    <3>1. CASE st \in Kept
      <4>1. st \in Streams /\ Id(st) \in Requests /\ st[2] # 0 /\ Id(st) \notin finishedRequests
        BY <1>7, <3>1, StreamIs
      <4>2. requestStreams[Id(st)] = st[2]
        BY <1>1, <2>1, <3>1 DEF EngineRequestsAreRegistered
      <4>3. \A x \in Fresh : Id(x) # Id(st)
        BY <1>6, <4>1, <4>2
      <4>4. QED
        BY <1>5, <4>1, <4>2, <4>3
    <3>2. CASE st \in Fresh
      BY <1>4, <3>2
    <3>3. QED
      BY <1>7, <2>1, <3>1, <3>2
  <2>2. QED
    BY <1>3, <2>1 DEF EngineRequestsAreRegistered, Id
<1>19. QueueInv'
  <2>1. ASSUME NEW r \in Requests, client[r] \in {"reading", "yielded"}, ~Tainted(r)
        PROVE  EndsWell(queue'[StreamOf(r)])
    <3>1. /\ StreamOf(r) \in Streams /\ Id(StreamOf(r)) = r /\ StreamOf(r) = <<r, attempt[r]>>
          /\ attempt[r] \in Nat
      BY <1>1, <2>1, CallerHasStream DEF StreamOf, AsyncTypeOK
    <3>2. EndsWell(queue[StreamOf(r)])
      BY <1>1, <2>1 DEF QueueInv
    <3>3. ASSUME StreamOf(r) \in Dropped
          PROVE  FALSE
      <4>1. StreamOf(r) \in Range(newRequests) /\ r \in finishedRequests
        BY <3>1, <3>3 DEF Dropped, Fresh
      <4>2. requestStreams[r] = 0
        BY <1>1, <3>1, <4>1 DEF NewInv
      <4>3. PICK k \in 1..attempt[r] : <<r, k>> \in aborted
        BY <1>1, <4>1, <4>2 DEF DropInv
      <4>4. k = attempt[r]
        BY <2>1, <3>1, <4>3 DEF Tainted
      <4>5. StreamOf(r) \in aborted
        BY <3>1, <4>3, <4>4
      <4>6. QED
        BY <1>1, <2>1, <3>1, <4>5 DEF CallerInv
    <3>4. QED
      BY <1>9, <3>1, <3>2, <3>3
  <2>2. QED
    BY <1>3, <2>1 DEF QueueInv, Tainted, StreamOf
<1>20. FinalInv'
  <2>1. \A r \in Requests : client[r] # "idle" => StreamOf(r) \in Streams
    BY <1>1, CallerHasStream
  <2>2. QED
    BY <1>1, <1>3, <1>9, <2>1 DEF FinalInv, StreamOf
<1>21. QED
  BY <1>10, <1>11, <1>12, <1>14, <1>15, <1>16, <1>17, <1>18, <1>19, <1>20 DEF AsyncInv

\* Every step keeps the invariant.
LEMMA NextAsyncInv ==
    AsyncInv /\ [AsyncNext]_asyncVars => AsyncInv'
<1> SUFFICES ASSUME AsyncInv, [AsyncNext]_asyncVars
             PROVE  AsyncInv'
  OBVIOUS
<1>1. ASSUME NEW r \in Requests, Caller(r)
      PROVE  AsyncInv'
  BY <1>1, GenerateStep, LeavingSteps, AddRequestStep, ReadingSteps DEF Caller
<1>2. CASE LoopStep \/ ErrorCallback
  BY <1>2, StartStepKeeps, LoopSteps DEF LoopStep
<1>3. CASE UNCHANGED asyncVars
  <2>1. /\ UNCHANGED <<requestStreams, finishedRequests, newRequests, streamVars, starts, outputs,
                       clientVars>>
        /\ UNCHANGED <<newRequestsEvent, loop, callbackDue, errored>>
    BY <1>3 DEF asyncVars, trackerVars, loopVars
  <2>2. LoopInv' /\ newRequestsEvent' \in BOOLEAN /\ callbackDue' \in BOOLEAN
        /\ errored' \in BOOLEAN /\ loop' \in {"none", "wait", "step", "executing", "done"}
    BY <2>1 DEF AsyncInv, LoopInv, AsyncTypeOK, streamVars
  <2>3. QED
    BY <2>1, <2>2, QuietStep
<1>4. QED
  BY <1>1, <1>2, <1>3 DEF AsyncNext
-----------------------------------------------------------------------------
LEMMA AsyncInvariant ==
    AsyncSpec => []AsyncInv
BY InitAsyncInv, NextAsyncInv, PTL DEF AsyncSpec

\* The loop, the tracker and the callers keep their types, so that at most two
\* background loops ever start (start_background_loop, _raise_exception_on_finish).
THEOREM AsyncTypes ==
    AsyncSpec => []AsyncTypeOK
<1>1. AsyncInv => AsyncTypeOK
  BY DEF AsyncInv
<1>2. QED
  BY <1>1, AsyncInvariant, PTL

\* As long as one background loop runs, an output has a stream and goes to the
\* call it is for: process_request_output raises no KeyError.
THEOREM OutputsHaveStreams ==
    AsyncSpec => []EngineRequestsAreRegistered
<1>1. AsyncInv => EngineRequestsAreRegistered
  BY DEF AsyncInv
<1>2. QED
  BY <1>1, AsyncInvariant, PTL

\* A caller whose stream ends got the final output before, unless an earlier call
\* with its id was aborted (get_new_and_finished_requests).
THEOREM StreamsAreComplete ==
    AsyncSpec => []NoStreamIsCutShort
<1>1. AsyncInv => NoStreamIsCutShort
  BY DEF AsyncInv
<1>2. QED
  BY <1>1, AsyncInvariant, PTL

\* What was aborted before a step is not in the engine while the step executes
\* (abort_request, engine_step).
THEOREM AbortsAreTaken ==
    AsyncSpec => AbortTakesEffectNextStep
<1>1. ASSUME AsyncInv, AsyncNext, loop = "step", loop' = "executing"
      PROVE  StartStep
  <2>1. \A r \in Requests : ~Caller(r)
    BY <1>1 DEF Caller, Generate, StartBackgroundLoop, EngineIsDead, AddRequest, AlreadyExists,
       Read, ReadError, NextOutput, Disconnect, CloseGenerator, Cancel, loopVars
  <2>2. ~(WakeUp \/ EndStep \/ UnknownRequest \/ StepFails \/ Timeout \/ ErrorCallback)
    BY <1>1 DEF WakeUp, EndStep, UnknownRequest, StepFails, Timeout, ErrorCallback
  <2>3. QED
    BY <1>1, <2>1, <2>2 DEF AsyncNext, LoopStep
<1>2. UNCHANGED asyncVars => loop' = loop
  BY DEF asyncVars, loopVars
<1>3. AsyncInv /\ [AsyncNext]_asyncVars =>
        [loop = "step" /\ loop' = "executing" /\ starts < 2 =>
          DOMAIN outputs' \cap aborted = {}]_asyncVars
  BY <1>1, <1>2, StartStepKeeps DEF InEngine
<1>4. QED
  BY <1>3, AsyncInvariant, PTL DEF AsyncSpec, AbortTakesEffectNextStep
=============================================================================
