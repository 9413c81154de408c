------------------------- MODULE ServerRunspacePool -------------------------
(***************************************************************************)
(* psrpcore._server: ServerRunspacePool and ServerPipeline, in the same    *)
(* conventions as ClientRunspacePool.                                      *)
(***************************************************************************)
EXTENDS RunspacePool

\* ServerRunspacePool().  requests stands for _ci_events and _ci_handlers,
\* which have the same keys and are read together; calls is history: how many
\* host calls were made.
NewServerPool ==
    [rpid |-> NoId, state |-> "BeforeOpen", cap |-> 0, min |-> 0, max |-> 0,
     ci |-> 1, requests |-> {}, keyRequested |-> FALSE, pipes |-> NoPipes,
     table |-> {}, metadata |-> {}, calls |-> 0, raised |-> {}]

\* The server becomes new and queues msgs for the target t.
ServerDoes(new, t, msgs) ==
    /\ server' = new
    /\ toClient' = Queue(toClient, t, msgs)
    /\ UNCHANGED client

ServerChanges(new) == ServerDoes(new, Pool, <<>>)

\* Mutants: emit is off unless it is asked for; emit is off for a close too.
StateMsgs_Never(s) == IF s \in PoolStates THEN <<>> ELSE <<RunspacePoolStateMsg(s)>>
StateMsgs_NoClose(s) ==
    IF s \in {"Disconnected", "Disconnecting", "Connecting", "Closing", "Closed"}
      THEN <<>> ELSE <<RunspacePoolStateMsg(s)>>

\* _change_state(s): a (dis)connection state is not sent to the client.
StateMsgs(s) ==
    IF s \in {"Disconnected", "Disconnecting", "Connecting"}
      THEN <<>> ELSE <<RunspacePoolStateMsg(s)>>

\* A step that queues msgs and then changes the state to s.
ServerTurns(new, msgs, s) ==
    ServerDoes(SetState(new, s), Pool, msgs \o StateMsgs(s))
-----------------------------------------------------------------------------
(* connect() is the pool's answer to a client that is to take over: only   *)
(* the two counters start again.  The object ids are PSRPFragments'.       *)
ServerConnect ==
    /\ Called("connect")
    /\ server.state = "Disconnected"
    /\ ServerTurns([server EXCEPT !.ci = 1], <<>>, "Connecting")

ServerBeginClose ==
    /\ Called("close") /\ Room(toClient, Pool)
    /\ ServerTurns(server, <<>>, "Closing")

ServerClose ==
    /\ Called("close") /\ Room(toClient, Pool)
    /\ CanClose(server)
    /\ ServerTurns(server, <<>>, "Closed")

ServerBeginDisconnect ==
    Called("disconnect") /\ ServerTurns(server, <<>>, "Disconnecting")

ServerDisconnect ==
    /\ Called("disconnect")
    /\ CanDisconnect(server)
    /\ ServerTurns(server, <<>>, "Disconnected")

ServerReconnect ==
    /\ Called("disconnect") /\ Room(toClient, Pool)
    /\ CanReconnect(server)
    /\ ServerTurns(server, <<>>, "Opened")

set_broken ==
    /\ Called("set_broken") /\ Room(toClient, Pool)
    /\ server.state \in {"Broken", "Opened"}
    /\ ServerTurns(server, <<>>, "Broken")

send_event ==
    /\ Called("send_event") /\ Room(toClient, Pool)
    /\ server.state = "Opened"
    /\ ServerDoes(server, Pool, <<Plain("UserEvent")>>)

\* host_call(method, parameters, pipeline_id): a method that returns nothing
\* has no call id.
host_call(t, isVoid) ==
    /\ server.calls < MaxCi
    /\ server.state = "Opened"
    /\ LET ci == IF isVoid THEN Void ELSE server.ci
       IN  ServerDoes([server EXCEPT !.calls = @ + 1, !.ci = IF isVoid THEN @ ELSE @ + 1],
                      t, <<HostCall(ci)>>)

ServerHostCall == Called("host_call") /\ \E v \in BOOLEAN : host_call(Pool, v)

request_key ==
    /\ Called("request_key")
    /\ ~server.keyRequested
    /\ server.state = "Opened"
    /\ ServerDoes([server EXCEPT !.keyRequested = TRUE], Pool,
                  <<Plain("PublicKeyRequest")>>)

\* The record of the request is gone, and a new count is in force, before the
\* response is queued.
Responded(r, response) ==
    LET done == [server EXCEPT !.requests = @ \ {r}]
    IN  IF ~response \/ r.kind \notin {"max", "min"} THEN done
        ELSE IF r.kind = "max" THEN [done EXCEPT !.max = r.count]
                               ELSE [done EXCEPT !.min = r.count]

\* Mutant: a bool is demanded for every request, also for the one that asks for
\* a number.
runspace_availability_response_Bool(response) ==
    \E r \in server.requests :
        /\ r.kind # "available"
        /\ ServerDoes(Responded(r, response), Pool,
                      <<RunspaceAvailability(r.ci, response, r.n)>>)

runspace_availability_response(response) ==
    \E r \in server.requests :
        ServerDoes(Responded(r, response), Pool,
                   <<RunspaceAvailability(r.ci, response, r.n)>>)
-----------------------------------------------------------------------------
(* ServerPipeline *)

\* The transport tells the server of the pipeline, which creates the object.
ServerNewPipeline(p) ==
    /\ Called("pipeline") /\ CanCreate(server, p)
    /\ ServerChanges(Created(server, p))

\* Mutants: the end of a pipeline that is stopped is not sent; every state is
\* sent again once it is in force.
PipelineTurns_Silent(p, s) ==
    ServerDoes(SetPipe(server, p, s), p,
               IF s = "Stopped" THEN <<>> ELSE <<PipelineState(s)>>)
PipelineTurns_Twice(p, s) ==
    ServerDoes(SetPipe(server, p, s), p, <<PipelineState(s), PipelineState(s)>>)

\* _change_state(s) of a pipeline sends the new state before it is in force.
PipelineTurns(p, s) ==
    ServerDoes(SetPipe(server, p, s), p, <<PipelineState(s)>>)

ServerStart(p) ==
    CanStart(server, p) /\ Room(toClient, p) /\ PipelineTurns(p, "Running")

ServerComplete(p) ==
    server.pipes[p] # None /\ Room(toClient, p) /\ PipelineTurns(p, "Completed")

\* stop() of a stopped pipeline returns at once.
ServerStop(p) ==
    /\ Called("stop") /\ Room(toClient, p)
    /\ server.pipes[p] \in {"Running", "Stopping"}
    /\ PipelineTurns(p, "Stopped")

ServerBeginStop(p) ==
    /\ Called("stop") /\ Room(toClient, p)
    /\ CanBeginStop(server, p)
    /\ PipelineTurns(p, "Stopping")

ServerClosePipeline(p) ==
    /\ Called("close_pipeline") /\ CanClosePipeline(server, p)
    /\ ServerChanges(ClosedPipeline(server, p))

ServerPipelineHostCall(p) ==
    /\ Called("pipeline_host_call")
    /\ server.pipes[p] = "Running"
    /\ \E v \in BOOLEAN : host_call(p, v)

\* Mutant: the state of the pipeline is not checked.
ServerWrite_Anytime(p) ==
    /\ Called("write") /\ Room(toClient, p)
    /\ server.pipes[p] # None
    /\ ServerDoes(server, p, <<Plain("PipelineOutput")>>)

\* write_output and the records; write_information needs protocol 2.3.
ServerWrite(p) ==
    /\ Called("write") /\ Room(toClient, p)
    /\ server.pipes[p] = "Running"
    /\ \/ ServerDoes(server, p, <<Plain("PipelineOutput")>>)
       \/ /\ TheirVersion(server) >= Pwsh5
          /\ ServerDoes(server, p, <<Plain("InformationRecord")>>)

ServerPipelineCall(p) ==
    \/ ServerNewPipeline(p) \/ ServerStart(p) \/ ServerComplete(p)
    \/ ServerStop(p) \/ ServerBeginStop(p) \/ ServerClosePipeline(p)
    \/ ServerPipelineHostCall(p) \/ ServerWrite(p)
-----------------------------------------------------------------------------
(* The _process_* methods *)

\* Mutant: the pool does not take the id of its client.
ServerProcessCapability_NoId(pool, m) ==
    /\ m.type = "SessionCapability"
    /\ ServerDoes([pool EXCEPT !.cap = m.version], Pool,
                  <<SessionCapability(ServerVersion, pool.rpid)>>)

\* The id of a client that connects must be the pool's; every other client
\* gives the pool its id and learns the server's capability.
ServerProcessCapability(pool, m) ==
    /\ m.type = "SessionCapability"
    /\ LET known == [pool EXCEPT !.cap = m.version]
       IN  IF pool.state = "Connecting"
             THEN ServerChanges(IF pool.rpid = m.rpid THEN known
                                ELSE Raise(known, m.type))
             ELSE ServerDoes([known EXCEPT !.rpid = m.rpid], Pool,
                             <<SessionCapability(ServerVersion, pool.rpid)>>)

ServerProcessInit(pool, m) ==
    /\ m.type = "InitRunspacePool"
    /\ ServerTurns([pool EXCEPT !.min = m.min, !.max = m.max],
                   <<Plain("ApplicationPrivateData")>>, "Opened")

\* Mutant: the client is not told the counts.
ServerProcessConnect_NoData(pool, m) ==
    /\ m.type = "ConnectRunspacePool"
    /\ ServerTurns(pool, <<Plain("ApplicationPrivateData")>>, "Opened")

\* A client of this package names no counts, which leaves the pool's.
ServerProcessConnect(pool, m) ==
    /\ m.type = "ConnectRunspacePool"
    /\ ServerTurns(pool, <<RunspacePoolInitData(pool.min, pool.max),
                           Plain("ApplicationPrivateData")>>, "Opened")

ServerProcessRequest(pool, m) ==
    /\ m.type = "Request"
    /\ ServerChanges([pool EXCEPT !.requests =
                        PutCi(@, [ci |-> m.ci, kind |-> m.kind,
                                  count |-> m.count, n |-> m.n])])

\* Mutant: a key that was requested is not sent again.
ServerProcessKey_Once(pool, m) ==
    /\ m.type = "PublicKey"
    /\ ServerDoes([pool EXCEPT !.keyRequested = TRUE], Pool,
                  IF pool.keyRequested THEN <<>> ELSE <<EncryptedSessionKey(m.key)>>)

ServerProcessKey(pool, m) ==
    /\ m.type = "PublicKey"
    /\ ServerDoes([pool EXCEPT !.keyRequested = TRUE], Pool,
                  <<EncryptedSessionKey(m.key)>>)

\* Mutant: the metadata of the pipeline is not kept.
ServerProcessCreate_Lost(pool, p, m) ==
    /\ m.type = "CreatePipeline"
    /\ ServerChanges(IF p \in pool.table THEN pool ELSE Raise(pool, m.type))

\* CreatePipeline and GetCommandMetadata
ServerProcessCreate(pool, p, m) ==
    /\ m.type = "CreatePipeline"
    /\ ServerChanges(IF p \in pool.table
                       THEN [pool EXCEPT !.metadata = @ \union {p}]
                       ELSE Raise(pool, m.type))

\* The response to a host call is the caller's to match with its call id.
ServerProcessOther(pool, m) ==
    /\ m.type \in {"HostResponse", "PipelineInput", "EndOfPipelineInput"}
    /\ ServerChanges(pool)

\* receive_data(), which leaves BeforeOpen, and next_event().
ServerNextEvent(t) ==
    /\ toServer[t] # <<>>
    /\ toServer' = [toServer EXCEPT ![t] = Tail(@)]
    /\ LET m    == Head(toServer[t])
           pool == IF server.state = "BeforeOpen" THEN SetState(server, "Opening")
                                                  ELSE server
       IN  \/ ServerProcessCapability(pool, m) \/ ServerProcessInit(pool, m)
           \/ ServerProcessConnect(pool, m) \/ ServerProcessRequest(pool, m)
           \/ ServerProcessKey(pool, m) \/ ServerProcessCreate(pool, t, m)
           \/ ServerProcessOther(pool, m)
=============================================================================
