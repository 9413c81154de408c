------------------------------ MODULE Session ------------------------------
(***************************************************************************)
(* A client and a server pool that talk to each other, and the programs    *)
(* around them.  Spec lets both programs call whatever the code accepts,   *)
(* at any moment.  DocumentedSpec keeps to what docs/scenarios.md and the  *)
(* tests do with the operations whose other half is the transport's: the   *)
(* two sides are told of a close, of a disconnection and of a new pipeline.*)
(***************************************************************************)
EXTENDS ClientRunspacePool, ServerRunspacePool

CONSTANT DrainFirst     \* assumed: a client is replaced when nothing is due to it any more

ASSUME SessionAssumption == DrainFirst \in BOOLEAN

Init ==
    /\ \E id \in PoolIds : client = NewClientPool(1, id)
    /\ server = NewServerPool
    /\ toServer = [t \in Targets |-> <<>>]
    /\ toClient = [t \in Targets |-> <<>>]
-----------------------------------------------------------------------------
(* The client process ends and another one takes its place.  Its own       *)
(* buffers and what was in flight are gone.  The server keeps what it has  *)
(* received, the front of toServer, and what it has not sent yet, the back *)
(* of toClient.                                                            *)
Fronts(q) == {SubSeq(q, 1, i) : i \in 0..Len(q)}
Backs(q)  == {SubSeq(q, i + 1, Len(q)) : i \in 0..Len(q)}

\* Every choice, for each target, of one of the parts of its queue.
Parts(queues, Of(_)) ==
    {cut \in [Targets -> UNION {Of(queues[t]) : t \in Targets}] :
        \A t \in Targets : cut[t] \in Of(queues[t])}

\* An assumption on the two programs, not a check of the code:
\* ServerRunspacePool.connect() looks at no buffer and at none of the requests in
\* _ci_events, and its TODO asks for the incoming ones only.
NothingPending ==
    /\ server.requests = {}
    /\ \A t \in Targets : toServer[t] = <<>> /\ toClient[t] = <<>>

ClientReplaced ==
    /\ Called("connect") /\ client.n < MaxClients
    /\ server.state = "Disconnected"
    /\ DrainFirst => NothingPending
    /\ \E id \in PoolIds : client' = NewClientPool(client.n + 1, id)
    /\ toServer' \in Parts(toServer, Fronts)
    /\ toClient' \in Parts(toClient, Backs)
    /\ UNCHANGED server
-----------------------------------------------------------------------------
(* Any call *)

ClientRequests ==
    \/ get_available_runspaces \/ reset_runspace_state
    \/ \E v \in Counts : set_max_runspaces(v) \/ set_min_runspaces(v)
    \/ exchange_key \/ ClientHostResponse

Responds == \E response \in BOOLEAN : runspace_availability_response(response)

ServerRequests ==
    \/ send_event \/ ServerHostCall \/ request_key
    \/ Responds

ClientCall ==
    \/ ClientOpen \/ ClientConnect \/ ClientBeginClose \/ ClientClose
    \/ ClientBeginDisconnect \/ ClientDisconnect \/ ClientReconnect
    \/ ClientRequests
    \/ \E p \in Pipelines : ClientPipelineCall(p)

ServerCall ==
    \/ ServerConnect \/ ServerBeginClose \/ ServerClose
    \/ ServerBeginDisconnect \/ ServerDisconnect \/ ServerReconnect
    \/ set_broken
    \/ ServerRequests
    \/ \E p \in Pipelines : ServerPipelineCall(p)

NextEvent == \E t \in Targets : ClientNextEvent(t) \/ ServerNextEvent(t)

Next ==
    \/ ClientCall /\ UNCHANGED toClient
    \/ ServerCall /\ UNCHANGED toServer
    \/ NextEvent
    \/ ClientReplaced

Spec == Init /\ [][Next]_vars

\* Both programs call next_event() as long as it returns events, and the
\* server program responds to the requests these events are.
Fairness ==
    /\ \A t \in Targets : WF_vars(ClientNextEvent(t)) /\ WF_vars(ServerNextEvent(t))
    /\ WF_vars(Responds /\ UNCHANGED toServer)

FairSpec == Spec /\ Fairness
-----------------------------------------------------------------------------
(* The documented use *)

DocumentedClientCall ==
    \/ client.n = 1 /\ ClientOpen
    \/ client.n > 1 /\ client.state = "BeforeOpen" /\ ClientConnect
    \/ client.state = "Opened" /\ (ClientBeginClose \/ ClientBeginDisconnect)
    \/ client.state = "Closing" /\ server.state = "Closed" /\ ClientClose
    \/ client.state = "Disconnecting" /\ ClientDisconnect
    \/ client.state = "Disconnected" /\ server.state = "Disconnected" /\ ClientReconnect
    \/ ClientRequests
    \/ \E p \in Pipelines :
         \/ client.state = "Opened" /\ (ClientNewPipeline(p) \/ ClientSend(p))
         \/ client.pipes[p] = "NotStarted" /\ ClientStart(p)
         \/ ClientBeginStop(p) \/ ClientPipelineHostResponse(p)
         \/ client.pipes[p] \in {"Stopped", "Completed"} /\ ClientClosePipeline(p)

\* A pipeline is created, started once its CreatePipeline is there, and ends.
ServerRuns(p) ==
    \/ p \in client.table /\ ServerNewPipeline(p)
    \/ p \in server.metadata /\ server.pipes[p] = "NotStarted" /\ ServerStart(p)
    \/ server.pipes[p] = "Running" /\ ServerComplete(p)
    \/ server.pipes[p] = "Stopping" /\ ServerStop(p)

DocumentedServerCall ==
    \/ client.n > 1 /\ client.state \in {"BeforeOpen", "Connecting"} /\ ServerConnect
    \/ client.state \in {"Closing", "Closed"} /\ server.state = "Opened" /\ ServerBeginClose
    \/ server.state = "Closing" /\ ServerClose
    \/ client.state \in {"Disconnecting", "Disconnected"} /\ server.state = "Opened"
         /\ (ServerBeginDisconnect \/ ServerDisconnect)
    \/ server.state = "Disconnecting" /\ ServerDisconnect
    \/ client.state = "Opened" /\ server.state = "Disconnected" /\ ServerReconnect
    \/ set_broken
    \/ ServerRequests
    \/ \E p \in Pipelines :
         \/ ServerRuns(p)
         \/ client.pipes[p] = "Stopping" /\ server.pipes[p] = "Running"
              /\ (ServerBeginStop(p) \/ ServerStop(p))
         \/ server.pipes[p] \in {"Stopped", "Completed"} /\ ServerClosePipeline(p)
         \/ ServerPipelineHostCall(p) \/ ServerWrite(p)

\* The server creates the pipeline before it looks at the message for it.
DocumentedEvent ==
    \E t \in Targets :
        \/ ClientNextEvent(t)
        \/ (t # Pool => server.pipes[t] # None) /\ ServerNextEvent(t)

DocumentedNext ==
    \/ DocumentedClientCall /\ UNCHANGED toClient
    \/ DocumentedServerCall /\ UNCHANGED toServer
    \/ DocumentedEvent
    \/ ClientReplaced

\* The server program also gets on with the pipelines it was asked to run.  The
\* code never holds it up; the bound MaxQueue does while what the pipeline wrote
\* fills the queue, so the fairness is strong.
DocumentedFairness ==
    /\ Fairness
    /\ \A p \in Pipelines : SF_vars(ServerRuns(p) /\ UNCHANGED toServer)

DocumentedSpec == Init /\ [][DocumentedNext]_vars /\ DocumentedFairness
=============================================================================
