------------------------- MODULE SessionProperties -------------------------
(* What a session promises its two callers. *)
EXTENDS Session, FiniteSetsExt, Functions

\* How many members of a queue satisfy P, are of a type, or carry a call id.
Count(q, P(_))      == Cardinality({i \in DOMAIN q : P(q[i])})
CountOf(q, type)    == Count(q, LAMBDA m : m.type = type)
CountCi(q, type, ci) == Count(q, LAMBDA m : m.type = type /\ m.ci = ci)

Indicator(b) == IF b THEN 1 ELSE 0
-----------------------------------------------------------------------------
CallIds == 1..MaxCi

-----------------------------------------------------------------------------
(* Calls of the client: set_max_runspaces, set_min_runspaces,              *)
(* reset_runspace_state, get_available_runspaces                           *)

\* CallsAccounted: a call whose handler the client keeps is in exactly one
\* place: its request on the way, its record at the server, or its response
\* on the way; and a call without a handler is nowhere.  So no response is
\* lost, none comes twice, and _ci_handlers.pop(ci) never fails, in whatever
\* order the server answers.
CallsAccounted ==
    \A ci \in CallIds :
        Indicator(\E h \in client.handlers : h.ci = ci) =
            CountCi(toServer[Pool], "Request", ci)
            + Cardinality({r \in server.requests : r.ci = ci})
            + CountCi(toClient[Pool], "RunspaceAvailability", ci)

\* The value a count of the client takes once it has processed all that is on
\* the way to it.
Settles(field) ==
    LET q == toClient[Pool]
        Sets(i) ==
            \/ q[i].type = "RunspacePoolInitData"
            \/ /\ q[i].type = "RunspaceAvailability" /\ q[i].response
               /\ \E h \in client.handlers : h.ci = q[i].ci /\ h.field = field
        last == {i \in DOMAIN q : Sets(i) /\ \A j \in DOMAIN q : Sets(j) => j <= i}
        ValueOf(m) ==
            IF m.type = "RunspacePoolInitData" THEN m[field]
            ELSE (CHOOSE h \in client.handlers : h.ci = m.ci).value
    IN  IF last = {} THEN client[field] ELSE ValueOf(q[Max(last)])

\* CountsAgree: however the requests and responses for the two counts cross,
\* a client that has caught up with its server has the counts the server has.
\* The server sets its count when it answers and the client when the answer
\* comes, with the value it kept.
CountsAgree ==
    (/\ client.state # "BeforeOpen" /\ server.rpid = client.rpid
     /\ CountOf(toServer[Pool], "InitRunspacePool") = 0
     /\ CountOf(toServer[Pool], "ConnectRunspacePool") = 0)
      => Settles("min") = server.min /\ Settles("max") = server.max

\* EveryCallAnswered: a call ends, if the server program responds to every
\* request it is shown.
EveryCallAnswered ==
    \A ci \in CallIds :
        (\E h \in client.handlers : h.ci = ci)
            ~> ~(\E h \in client.handlers : h.ci = ci)
-----------------------------------------------------------------------------
(* The key exchange *)

\* OneExchange: the client that has asked for the session key has exactly one
\* public key on the way, or one session key on the way back, or the key:
\* both sides may start an exchange at once and there still is only one.
OneExchange ==
    Indicator(client.keyRequested) =
        CountOf(toServer[Pool], "PublicKey")
        + CountOf(toClient[Pool], "EncryptedSessionKey")
        + Indicator(client.cipher)

\* KeyArrives: an exchange that was started ends with the key registered.
KeyArrives == client.keyRequested ~> client.cipher
-----------------------------------------------------------------------------
(* The states of the two pools *)

\* Accepted: a client that is Opened talks to a server that has taken its id
\* and has got past its own opening.
Accepted ==
    client.state = "Opened" =>
        /\ server.rpid = client.rpid
        /\ server.state \notin {"BeforeOpen", "Opening", "Connecting"}

\* NoFailure: with the documented use no message makes next_event() raise, on
\* either side.
NoFailure == client.raised = {} /\ server.raised = {}

\* OpeningEnds: the loop of docs/scenarios.md, "continue to send and receive
\* data until the state has changed", ends; and so does one for connect().
OpeningEnds ==
    client.state \in {"Opening", "Connecting"}
        ~> client.state \notin {"Opening", "Connecting"}

\* ClosedForGood: a client whose server has been closed is told, and then
\* stays closed.
ClosedForGood == server.state = "Closed" ~> [](client.state = "Closed")

\* BrokenIsSeen: what set_broken() says of the pool reaches the client.
BrokenIsSeen == server.state = "Broken" ~> client.state = "Broken"
-----------------------------------------------------------------------------
(* Pipelines *)

Final == {"Stopped", "Completed"}

\* PipelinesAgree: once the server's pipeline has ended and its states have
\* been processed, the client's pipeline has the same end, whatever begin_stop
\* the client made meanwhile.
PipelinesAgree ==
    \A p \in Pipelines :
        server.pipes[p] \in Final /\ CountOf(toClient[p], "PipelineState") = 0
          => client.pipes[p] = server.pipes[p]

\* OutputBeforeEnd: what a pipeline wrote comes before its end; nothing is left
\* on the way for a client that has seen the end and closed the pipeline.
OutputBeforeEnd ==
    \A p \in Pipelines :
        LET q == toClient[p]
            Ended(i)  == q[i].type = "PipelineState" /\ q[i].state \in Final
            Output(i) == q[i].type \in {"PipelineOutput", "InformationRecord"}
        IN  /\ \A i, j \in DOMAIN q : Ended(i) /\ Output(j) => j < i
            /\ client.pipes[p] \in Final => \A j \in DOMAIN q : ~Output(j)

\* PipelineEnds: a started pipeline comes to an end the client sees.
PipelineEnds ==
    \A p \in Pipelines : client.pipes[p] = "Running" ~> client.pipes[p] \in Final
=============================================================================
