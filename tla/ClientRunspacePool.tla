------------------------- MODULE ClientRunspacePool -------------------------
(***************************************************************************)
(* psrpcore._client: ClientRunspacePool and its pipelines.  A call that    *)
(* the code refuses with an exception, or that returns at once, changes    *)
(* nothing and is a step that is not enabled here; an exception raised in  *)
(* next_event() has consumed the message, and is kept in the field raised. *)
(***************************************************************************)
EXTENDS RunspacePool

\* ClientRunspacePool(runspace_pool_id), the n-th client object: ci is
\* _ci_count, handlers _ci_handlers, events _ci_events, key _exchange_key, and
\* cipher says whether the session key has been registered.  pipes has the
\* state of every pipeline object, table the pipelines of pipeline_table.
NewClientPool(n, id) ==
    [n |-> n, rpid |-> id, state |-> "BeforeOpen", cap |-> 0, min |-> 1, max |-> 1,
     ci |-> 1, handlers |-> {}, events |-> {}, keyRequested |-> FALSE, key |-> 0,
     cipher |-> FALSE, pipes |-> NoPipes, table |-> {}, raised |-> {}]

\* The client becomes new and queues msgs for the target t.
ClientDoes(new, t, msgs) ==
    /\ client' = new
    /\ toServer' = Queue(toServer, t, msgs)
    /\ UNCHANGED server

ClientChanges(new) == ClientDoes(new, Pool, <<>>)
-----------------------------------------------------------------------------
ClientOpen ==
    /\ Called("open")
    /\ client.state = "BeforeOpen"
    /\ ClientDoes(SetState(client, "Opening"), Pool,
                  <<SessionCapability(ClientVersion, client.rpid),
                    InitRunspacePool(client.min, client.max)>>)

ClientConnect ==
    /\ Called("connect") /\ Room(toServer, Pool) /\ Room(toClient, Pool)
    /\ client.state \in {"BeforeOpen", "Disconnected"}
    /\ ClientDoes(SetState(client, "Connecting"), Pool,
                  <<SessionCapability(ClientVersion, client.rpid),
                    Plain("ConnectRunspacePool")>>)

ClientBeginClose == Called("close") /\ ClientChanges(SetState(client, "Closing"))

ClientClose ==
    /\ Called("close")
    /\ CanClose(client)
    /\ ClientChanges(SetState(client, "Closed"))

ClientBeginDisconnect ==
    Called("disconnect") /\ ClientChanges(SetState(client, "Disconnecting"))

ClientDisconnect ==
    /\ Called("disconnect")
    /\ CanDisconnect(client)
    /\ ClientChanges(SetState(client, "Disconnected"))

ClientReconnect ==
    /\ Called("disconnect")
    /\ CanReconnect(client)
    /\ ClientChanges(SetState(client, "Opened"))

\* A request with a new call id; field is what its handler sets on success.
SendRequest(kind, field, value) ==
    /\ client.ci <= MaxCi
    /\ ClientDoes([client EXCEPT
                     !.ci = @ + 1,
                     !.handlers = @ \union {[ci |-> client.ci, field |-> field,
                                             value |-> value]}],
                  Pool, <<Request(kind, client.ci, value, client.n)>>)

get_available_runspaces ==
    /\ Called("get_available_runspaces")
    /\ client.state = "Opened"
    /\ SendRequest("available", None, 0)

reset_runspace_state ==
    /\ Called("reset_runspace_state")
    /\ TheirVersion(client) >= Pwsh5
    /\ client.state = "Opened"
    /\ SendRequest("reset", None, 0)

set_max_runspaces(value) ==
    /\ Called("set_runspaces")
    /\ IF client.state = "BeforeOpen" \/ client.max = value
         THEN ClientChanges([client EXCEPT !.max = value])
         ELSE SendRequest("max", "max", value)

set_min_runspaces(value) ==
    /\ Called("set_runspaces")
    /\ IF client.state = "BeforeOpen" \/ client.min = value
         THEN ClientChanges([client EXCEPT !.min = value])
         ELSE SendRequest("min", "min", value)

\* Mutant: an exchange already started does not stop another one.
CanExchangeKey_Again == client.state = "Opened"

CanExchangeKey == client.state = "Opened" /\ ~client.keyRequested

StartExchange ==
    ClientDoes([client EXCEPT !.keyRequested = TRUE, !.key = client.n],
               Pool, <<PublicKey(client.n)>>)

exchange_key == Called("exchange_key") /\ CanExchangeKey /\ StartExchange

\* The event kept for a host call says which target the response goes to.
host_response(event) ==
    /\ client.state = "Opened"
    /\ ClientDoes([client EXCEPT !.events = @ \ {event}],
                  event.target, <<HostResponse(event.ci)>>)

ClientHostResponse == \E event \in client.events : host_response(event)
-----------------------------------------------------------------------------
(* Pipelines: Pipeline, ClientPowerShell and ClientGetCommandMetadata *)

ClientNewPipeline(p) ==
    /\ Called("pipeline") /\ CanCreate(client, p)
    /\ ClientChanges(Created(client, p))

ClientStart(p) ==
    /\ CanStart(client, p) /\ Room(toServer, p)
    /\ ClientDoes(SetPipe(client, p, "Running"), p, <<Plain("CreatePipeline")>>)

\* send(data) and send_eof()
ClientSend(p) ==
    /\ Called("send") /\ Room(toServer, p)
    /\ client.pipes[p] = "Running"
    /\ \E m \in {"PipelineInput", "EndOfPipelineInput"} :
           ClientDoes(client, p, <<Plain(m)>>)

ClientBeginStop(p) ==
    /\ Called("stop") /\ CanBeginStop(client, p)
    /\ ClientChanges(SetPipe(client, p, "Stopping"))

ClientClosePipeline(p) ==
    /\ Called("close_pipeline") /\ CanClosePipeline(client, p)
    /\ ClientChanges(ClosedPipeline(client, p))

\* _ClientPipeline.host_response: any call id the pool has kept is accepted.
ClientPipelineHostResponse(p) ==
    client.pipes[p] = "Running" /\ ClientHostResponse

ClientPipelineCall(p) ==
    \/ ClientNewPipeline(p) \/ ClientStart(p) \/ ClientSend(p)
    \/ ClientBeginStop(p) \/ ClientClosePipeline(p)
    \/ ClientPipelineHostResponse(p)
-----------------------------------------------------------------------------
(* The _process_* methods: m is the message, t the target it came for *)

ClientProcessPool(m) ==
    \/ /\ m.type = "SessionCapability"
       /\ ClientChanges([client EXCEPT !.cap = m.version])
    \/ /\ m.type = "ApplicationPrivateData"
       /\ ClientChanges(IF client.state = "Connecting"
                          THEN SetState(client, "Opened") ELSE client)
    \/ /\ m.type = "RunspacePoolInitData"
       /\ ClientChanges([client EXCEPT !.min = m.min, !.max = m.max])
    \/ /\ m.type = "RunspacePoolState"
       /\ ClientChanges(SetState(client, m.state))
    \/ /\ m.type \in {"UserEvent", "PipelineOutput", "InformationRecord"}
       /\ ClientChanges(client)

\* Mutant: the handler is read and not removed.
Answered_Kept(h, response) ==
    IF ~response \/ h.field = None THEN client
    ELSE IF h.field = "max" THEN [client EXCEPT !.max = h.value]
                            ELSE [client EXCEPT !.min = h.value]

\* _ci_handlers.pop(ci): the call id must be one the client waits for, and
\* _set_runspaces_handler keeps the value the client asked for.
Answered(h, response) ==
    LET popped == [client EXCEPT !.handlers = @ \ {h}]
    IN  IF ~response \/ h.field = None THEN popped
        ELSE IF h.field = "max" THEN [popped EXCEPT !.max = h.value]
                                ELSE [popped EXCEPT !.min = h.value]

ClientProcessAvailability(m) ==
    /\ m.type = "RunspaceAvailability"
    /\ LET waiting == {h \in client.handlers : h.ci = m.ci}
       IN  IF waiting = {} THEN ClientChanges(Raise(client, m.type))
           ELSE \E h \in waiting : ClientChanges(Answered(h, m.response))

\* The session key is encrypted for the public key it answers.
ClientProcessKey(m) ==
    \/ /\ m.type = "EncryptedSessionKey"
       /\ ClientChanges(IF client.key = m.key THEN [client EXCEPT !.cipher = TRUE]
                                              ELSE Raise(client, m.type))
    \/ /\ m.type = "PublicKeyRequest"
       /\ IF CanExchangeKey THEN StartExchange
          ELSE ClientChanges(IF client.keyRequested THEN client
                                                    ELSE Raise(client, m.type))

ClientProcessHostCall(t, m) ==
    /\ m.type = "HostCall"
    /\ ClientChanges(IF m.ci = Void THEN client
                     ELSE [client EXCEPT !.events = PutCi(@, [ci |-> m.ci, target |-> t])])

ClientProcessPipelineState(p, m) ==
    /\ m.type = "PipelineState"
    /\ ClientChanges(IF p \in client.table THEN SetPipe(client, p, m.state)
                                           ELSE Raise(client, m.type))

\* next_event(): the head of a queue is gone before its handler runs.
ClientNextEvent(t) ==
    /\ toClient[t] # <<>>
    /\ toClient' = [toClient EXCEPT ![t] = Tail(@)]
    /\ LET m == Head(toClient[t])
       IN  \/ ClientProcessPool(m) \/ ClientProcessAvailability(m)
           \/ ClientProcessKey(m) \/ ClientProcessHostCall(t, m)
           \/ ClientProcessPipelineState(t, m)
=============================================================================
