---------------------------- MODULE SessionProofs ----------------------------
(***************************************************************************)
(* Proofs about Session, for every set of pipelines, pool ids and counts,  *)
(* both protocol versions, and any number of calls and of clients.  The    *)
(* second half is about the calls of a client and the key exchange:        *)
(* whatever order the server answers in and whatever else the two programs *)
(* do, every call and every exchange is in one place.                      *)
(***************************************************************************)
EXTENDS SessionProperties, SequenceTheorems, FiniteSetTheorems, TLAPS

(* Types *)

\* The pipelines of a pool, the handlers and requests of calls, and what a pool is.
Pipes == [Pipelines -> PipelineStates \union {None}]

Handlers == [ci : Nat, field : {None, "min", "max"}, value : Nat]
Events   == [ci : Nat, target : Targets]
Requests == [ci : Nat, kind : {"available", "reset", "min", "max"}, count : Nat, n : Nat]

\* The messages that next_event() may raise an exception for: of the client,
\* and of the server.
Refused  == {"RunspaceAvailability", "EncryptedSessionKey", "PublicKeyRequest",
             "PipelineState"}
Rejected == {"SessionCapability", "CreatePipeline"}

ClientPools ==
    [n : Nat \ {0}, rpid : PoolIds, state : PoolStates, cap : Nat, min : Nat, max : Nat,
     ci : Nat \ {0}, handlers : SUBSET Handlers, events : SUBSET Events,
     keyRequested : BOOLEAN, key : Nat, cipher : BOOLEAN,
     pipes : Pipes, table : SUBSET Pipelines, raised : SUBSET Refused]

ServerPools ==
    [rpid : PoolIds \union {NoId}, state : PoolStates, cap : Nat, min : Nat, max : Nat,
     ci : Nat \ {0}, requests : SUBSET Requests, keyRequested : BOOLEAN,
     pipes : Pipes, table : SUBSET Pipelines, metadata : SUBSET Pipelines,
     calls : Nat, raised : SUBSET Rejected]

Capabilities == [type : {"SessionCapability"}, version : Nat,
                 rpid : PoolIds \union {NoId}]

\* What the client sends for a target, and what the server sends.
ToServer == [t \in Targets |->
    IF t = Pool
      THEN Capabilities
           \union [type : {"InitRunspacePool"}, min : Nat, max : Nat]
           \union [type : {"ConnectRunspacePool"}]
           \union [type : {"Request"}, kind : {"available", "reset", "min", "max"},
                   ci : Nat, count : Nat, n : Nat]
           \union [type : {"PublicKey"}, key : Nat]
           \union [type : {"HostResponse"}, ci : Nat]
      ELSE [type : {"CreatePipeline", "PipelineInput", "EndOfPipelineInput"}]
           \union [type : {"HostResponse"}, ci : Nat]]

ToClient == [t \in Targets |->
    IF t = Pool
      THEN Capabilities
           \union [type : {"RunspacePoolInitData"}, min : Nat, max : Nat]
           \union [type : {"RunspacePoolState"}, state : PoolStates]
           \union [type : {"RunspaceAvailability"}, ci : Nat, response : BOOLEAN, n : Nat]
           \union [type : {"EncryptedSessionKey"}, key : Nat]
           \union [type : {"ApplicationPrivateData", "UserEvent", "PublicKeyRequest"}]
           \union [type : {"HostCall"}, ci : Nat]
      ELSE [type : {"PipelineState"}, state : PipelineStates]
           \union [type : {"PipelineOutput", "InformationRecord"}]
           \union [type : {"HostCall"}, ci : Nat]]

IsQueues(queues, Kinds) ==
    /\ queues = [t \in Targets |-> queues[t]]
    /\ \A t \in Targets : queues[t] \in Seq(Kinds[t])

TypeOK ==
    /\ client \in ClientPools
    /\ server \in ServerPools
    /\ IsQueues(toServer, ToServer)
    /\ IsQueues(toClient, ToClient)
-----------------------------------------------------------------------------
LEMMA QueueType ==
    ASSUME NEW queues, NEW Kinds, IsQueues(queues, Kinds),
           NEW t \in Targets, NEW msgs \in Seq(Kinds[t])
    PROVE  /\ IsQueues(Queue(queues, t, msgs), Kinds)
           /\ Queue(queues, t, msgs)[t] = queues[t] \o msgs
           /\ \A u \in Targets : u # t => Queue(queues, t, msgs)[u] = queues[u]
  <1> DEFINE new == Queue(queues, t, msgs)
  <1>1. new = [u \in Targets |-> IF u = t THEN queues[u] \o msgs ELSE queues[u]]
    BY DEF Queue, IsQueues
  <1>2. queues[t] \o msgs \in Seq(Kinds[t])
    BY DEF IsQueues
  <1> HIDE DEF new
  <1> QED
    BY <1>1, <1>2 DEF IsQueues, new

\* None of msgs is of one of the types.
Without(msgs, types) == \A i \in DOMAIN msgs : msgs[i].type \notin types

\* A call sends at most two messages.
LEMMA ShortQueues ==
    ASSUME NEW S
    PROVE  /\ <<>> \in Seq(S) /\ \A types : Without(<<>>, types)
           /\ \A m \in S : /\ <<m>> \in Seq(S)
                           /\ \A types : m.type \notin types => Without(<<m>>, types)
           /\ \A l, m \in S :
                /\ <<l, m>> \in Seq(S)
                /\ \A types : l.type \notin types /\ m.type \notin types
                                => Without(<<l, m>>, types)
  BY DEF Without

\* The messages that end a call or a key exchange.
Answers == {"RunspaceAvailability", "EncryptedSessionKey"}

\* The fields of a client that a call, or the key exchange, is about.
SameCalls(old, new) ==
    /\ new.n = old.n /\ new.ci = old.ci /\ new.handlers = old.handlers
    /\ new.keyRequested = old.keyRequested /\ new.key = old.key
    /\ new.cipher = old.cipher
    /\ new.raised \intersect Answers = old.raised \intersect Answers

\* A call of the client that neither sends a request nor a public key.
ClientQuiet ==
    \E new \in ClientPools, t \in Targets : \E msgs \in Seq(ToServer[t]) :
        /\ ClientDoes(new, t, msgs)
        /\ SameCalls(client, new)
        /\ Without(msgs, {"Request", "PublicKey"})

\* A quiet call that sends, and one that only changes the pool.
LEMMA ClientQuietDoes ==
    ASSUME NEW new \in ClientPools, NEW t \in Targets, NEW msgs \in Seq(ToServer[t]),
           SameCalls(client, new), Without(msgs, {"Request", "PublicKey"}),
           ClientDoes(new, t, msgs)
    PROVE  ClientQuiet
  BY DEF ClientQuiet

LEMMA ClientQuietChanges ==
    ASSUME NEW new \in ClientPools, SameCalls(client, new), ClientChanges(new)
    PROVE  ClientQuiet
  BY ShortQueues DEF ClientQuiet, ClientChanges, Targets

\* Opening a pool, or connecting to one, is quiet.
LEMMA ClientOpenQuiet ==
    ASSUME TypeOK, ClientOpen \/ ClientConnect
    PROVE  ClientQuiet
  <1> DEFINE new(s) == SetState(client, s)
             m1 == SessionCapability(ClientVersion, client.rpid)
             m2 == InitRunspacePool(client.min, client.max)
             m3 == Plain("ConnectRunspacePool")
  <1>1. \A s \in {"Opening", "Connecting"} :
          new(s) \in ClientPools /\ SameCalls(client, new(s))
    BY DEF TypeOK, ClientPools, SetState, PoolStates, SameCalls
  <1>2. Pool \in Targets
    BY DEF Targets
  <1>3. client.rpid \in PoolIds /\ client.min \in Nat /\ client.max \in Nat
    BY DEF TypeOK, ClientPools
  <1>4. m1 \in ToServer[Pool] /\ m2 \in ToServer[Pool] /\ m3 \in ToServer[Pool]
    BY <1>2, <1>3, RunspacePoolAssumption
    DEF SessionCapability, InitRunspacePool, Plain, ToServer, Capabilities
  <1>5. /\ m1.type = "SessionCapability" /\ m2.type = "InitRunspacePool"
        /\ m3.type = "ConnectRunspacePool"
    BY DEF SessionCapability, InitRunspacePool, Plain
  <1> HIDE DEF new, m1, m2, m3
  <1>6. /\ <<m1, m2>> \in Seq(ToServer[Pool]) /\ <<m1, m3>> \in Seq(ToServer[Pool])
        /\ Without(<<m1, m2>>, {"Request", "PublicKey"})
        /\ Without(<<m1, m3>>, {"Request", "PublicKey"})
    BY <1>4, <1>5, ShortQueues
  <1> QED
    BY <1>1, <1>2, <1>6, ClientQuietDoes DEF ClientOpen, ClientConnect, new, m1, m2, m3

\* Closing, disconnecting and reconnecting are quiet.
LEMMA ClientStateQuiet ==
    ASSUME TypeOK,
           \/ ClientBeginClose \/ ClientClose \/ ClientBeginDisconnect
           \/ ClientDisconnect \/ ClientReconnect
    PROVE  ClientQuiet
  <1> DEFINE new(s) == SetState(client, s)
  <1>1. \A s \in PoolStates : new(s) \in ClientPools /\ SameCalls(client, new(s))
    BY DEF TypeOK, ClientPools, SetState, SameCalls
  <1>2. \E s \in PoolStates : ClientChanges(new(s))
    BY DEF ClientBeginClose, ClientClose, ClientBeginDisconnect, ClientDisconnect,
           ClientReconnect, PoolStates
  <1> QED
    BY <1>1, <1>2, ClientQuietChanges

\* The response to a host call is quiet.
LEMMA HostResponseQuiet ==
    ASSUME TypeOK, ClientHostResponse
    PROVE  ClientQuiet
  <1>1. PICK event \in client.events : host_response(event)
    BY DEF ClientHostResponse
  <1>2. event \in Events
    BY DEF TypeOK, ClientPools
  <1>3. event.target \in Targets /\ event.ci \in Nat
    BY <1>2 DEF Events
  <1> DEFINE new == [client EXCEPT !.events = @ \ {event}]
             m   == HostResponse(event.ci)
  <1>4. new \in ClientPools /\ SameCalls(client, new)
    BY DEF TypeOK, ClientPools, SameCalls
  <1>5. m \in ToServer[event.target] /\ m.type = "HostResponse"
    BY <1>3 DEF HostResponse, ToServer
  <1> HIDE DEF new, m
  <1>6. <<m>> \in Seq(ToServer[event.target]) /\ Without(<<m>>, {"Request", "PublicKey"})
    BY <1>5, ShortQueues
  <1> QED
    BY <1>1, <1>3, <1>4, <1>6, ClientQuietDoes DEF host_response, new, m

\* The calls of a pipeline are quiet.
LEMMA ClientPipelineQuiet ==
    ASSUME TypeOK, NEW p \in Pipelines, ClientPipelineCall(p)
    PROVE  ClientQuiet
  <1> DEFINE piped(s) == SetPipe(client, p, s)
             m(type)  == Plain(type)
             types    == {"CreatePipeline", "PipelineInput", "EndOfPipelineInput"}
  <1>1. p \in Targets /\ p # Pool
    BY RunspacePoolAssumption DEF Targets
  <1>2. \A s \in PipelineStates : piped(s) \in ClientPools /\ SameCalls(client, piped(s))
    BY DEF TypeOK, ClientPools, SetPipe, Pipes, SameCalls
  <1>3. /\ Created(client, p) \in ClientPools /\ SameCalls(client, Created(client, p))
        /\ ClosedPipeline(client, p) \in ClientPools
        /\ SameCalls(client, ClosedPipeline(client, p))
        /\ client \in ClientPools /\ SameCalls(client, client)
    BY DEF TypeOK, ClientPools, Created, ClosedPipeline, SetPipe, Pipes,
           PipelineStates, SameCalls
  <1>4. \A type \in types : m(type) \in ToServer[p] /\ m(type).type = type
    BY <1>1 DEF Plain, ToServer
  <1>5. /\ "NotStarted" \in PipelineStates /\ "Running" \in PipelineStates
        /\ "Stopping" \in PipelineStates
    BY DEF PipelineStates
  <1> HIDE DEF piped, m
  <1>6. \A type \in types : /\ <<m(type)>> \in Seq(ToServer[p])
                            /\ Without(<<m(type)>>, {"Request", "PublicKey"})
    BY <1>4, ShortQueues
  <1>7. CASE ClientNewPipeline(p)
    BY <1>3, <1>7, ClientQuietChanges DEF ClientNewPipeline
  <1>8. CASE ClientStart(p)
    BY <1>1, <1>2, <1>5, <1>6, <1>8, ClientQuietDoes DEF ClientStart, piped, m
  <1>9. CASE ClientSend(p)
    BY <1>1, <1>3, <1>6, <1>9, ClientQuietDoes DEF ClientSend, m
  <1>10. CASE ClientBeginStop(p)
    BY <1>2, <1>5, <1>10, ClientQuietChanges DEF ClientBeginStop, piped
  <1>11. CASE ClientClosePipeline(p)
    BY <1>3, <1>11, ClientQuietChanges DEF ClientClosePipeline
  <1>12. CASE ClientPipelineHostResponse(p)
    BY <1>12, HostResponseQuiet DEF ClientPipelineHostResponse
  <1> QED
    BY <1>7, <1>8, <1>9, <1>10, <1>11, <1>12 DEF ClientPipelineCall

\* A call of the client sends a request, starts a key exchange, or is quiet.
Asks ==
    \E kind \in {"available", "reset", "min", "max"},
       field \in {None, "min", "max"}, value \in Nat :
        SendRequest(kind, field, value)

LEMMA ClientCallKinds ==
    ASSUME TypeOK, ClientCall
    PROVE  Asks \/ exchange_key \/ ClientQuiet
  <1>1. CASE ClientOpen \/ ClientConnect
    BY <1>1, ClientOpenQuiet
  <1>2. CASE \/ ClientBeginClose \/ ClientClose \/ ClientBeginDisconnect
             \/ ClientDisconnect \/ ClientReconnect
    BY <1>2, ClientStateQuiet
  <1>3. CASE get_available_runspaces \/ reset_runspace_state
    BY <1>3 DEF get_available_runspaces, reset_runspace_state, Asks
  <1>4. CASE \E v \in Counts : set_max_runspaces(v) \/ set_min_runspaces(v)
    <2>1. PICK v \in Counts : set_max_runspaces(v) \/ set_min_runspaces(v)
      BY <1>4
    <2>2. v \in Nat
      BY RunspacePoolAssumption
    <2> DEFINE newMax == [client EXCEPT !.max = v]
               newMin == [client EXCEPT !.min = v]
    <2>3. /\ newMax \in ClientPools /\ SameCalls(client, newMax)
          /\ newMin \in ClientPools /\ SameCalls(client, newMin)
      BY <2>2 DEF TypeOK, ClientPools, SameCalls
    <2>4. \/ ClientChanges(newMax) \/ ClientChanges(newMin)
          \/ SendRequest("max", "max", v) \/ SendRequest("min", "min", v)
      BY <2>1 DEF set_max_runspaces, set_min_runspaces
    <2> QED
      BY <2>2, <2>3, <2>4, ClientQuietChanges DEF Asks
  <1>5. CASE \E p \in Pipelines : ClientPipelineCall(p)
    BY <1>5, ClientPipelineQuiet
  <1> QED
    BY <1>1, <1>2, <1>3, <1>4, <1>5, HostResponseQuiet DEF ClientCall, ClientRequests
-----------------------------------------------------------------------------
\* A call of the server that neither answers a request nor sends a session key.
ServerQuiet ==
    \E new \in ServerPools, t \in Targets : \E msgs \in Seq(ToClient[t]) :
        /\ ServerDoes(new, t, msgs)
        /\ new.requests = server.requests
        /\ Without(msgs, {"RunspaceAvailability", "EncryptedSessionKey"})

\* A quiet call that sends, and one that only changes the pool.
LEMMA ServerQuietDoes ==
    ASSUME NEW new \in ServerPools, NEW t \in Targets, NEW msgs \in Seq(ToClient[t]),
           new.requests = server.requests, ServerDoes(new, t, msgs),
           Without(msgs, {"RunspaceAvailability", "EncryptedSessionKey"})
    PROVE  ServerQuiet
  BY DEF ServerQuiet

LEMMA ServerQuietChanges ==
    ASSUME NEW new \in ServerPools, new.requests = server.requests, ServerChanges(new)
    PROVE  ServerQuiet
  BY ShortQueues DEF ServerQuiet, ServerChanges, Targets

\* A new state and its message, if any, are of the types of a pool and a queue.
LEMMA TurnsType ==
    ASSUME NEW new \in ServerPools, NEW s \in PoolStates, NEW msgs \in Seq(ToClient[Pool]),
           Without(msgs, {"RunspaceAvailability", "EncryptedSessionKey"})
    PROVE  /\ SetState(new, s) \in ServerPools
           /\ SetState(new, s).requests = new.requests
           /\ msgs \o StateMsgs(s) \in Seq(ToClient[Pool])
           /\ Without(msgs \o StateMsgs(s), {"RunspaceAvailability", "EncryptedSessionKey"})
  <1>1. /\ SetState(new, s) \in ServerPools
        /\ SetState(new, s).requests = new.requests
    BY DEF ServerPools, SetState
  <1>2. RunspacePoolStateMsg(s) \in ToClient[Pool]
    BY DEF RunspacePoolStateMsg, ToClient, Targets
  <1>3. RunspacePoolStateMsg(s).type = "RunspacePoolState"
    BY DEF RunspacePoolStateMsg
  <1>4. /\ StateMsgs(s) \in Seq(ToClient[Pool])
        /\ Without(StateMsgs(s), {"RunspaceAvailability", "EncryptedSessionKey"})
    BY <1>2, <1>3, ShortQueues DEF StateMsgs
  <1>5. ASSUME NEW a \in Seq(ToClient[Pool]), NEW b \in Seq(ToClient[Pool]), NEW types,
               Without(a, types), Without(b, types)
        PROVE  a \o b \in Seq(ToClient[Pool]) /\ Without(a \o b, types)
    BY <1>5 DEF Without
  <1> QED
    BY <1>1, <1>4, <1>5

\* The calls that turn the state of the pool are quiet.
LEMMA ServerStateQuiet ==
    ASSUME TypeOK,
           \/ ServerConnect \/ ServerBeginClose \/ ServerClose
           \/ ServerBeginDisconnect \/ ServerDisconnect \/ ServerReconnect
           \/ set_broken
    PROVE  ServerQuiet
  <1> DEFINE fresh == [server EXCEPT !.ci = 1]
  <1>1. /\ server \in ServerPools /\ fresh \in ServerPools
        /\ fresh.requests = server.requests
    BY DEF TypeOK, ServerPools
  <1> HIDE DEF fresh
  <1>2. \E new \in {server, fresh}, s \in PoolStates : ServerTurns(new, <<>>, s)
    BY DEF ServerConnect, ServerBeginClose, ServerClose, ServerBeginDisconnect,
           ServerDisconnect, ServerReconnect, set_broken, PoolStates, fresh
  <1>3. PICK new \in {server, fresh}, s \in PoolStates : ServerTurns(new, <<>>, s)
    BY <1>2
  <1>4. new \in ServerPools /\ new.requests = server.requests
    BY <1>1
  <1> QED
    BY <1>3, <1>4, ShortQueues, TurnsType, ServerQuietDoes DEF ServerTurns, Targets

\* A host call of the pool or of a pipeline is quiet.
LEMMA HostCallQuiet ==
    ASSUME TypeOK, NEW t \in Targets, NEW v \in BOOLEAN, host_call(t, v)
    PROVE  ServerQuiet
  <1> DEFINE ci  == IF v THEN Void ELSE server.ci
             new == [server EXCEPT !.calls = @ + 1, !.ci = IF v THEN @ ELSE @ + 1]
             m   == HostCall(ci)
  <1>1. /\ server.ci \in Nat \ {0} /\ server.calls \in Nat
        /\ server.ci + 1 \in Nat \ {0} /\ server.calls + 1 \in Nat
    BY DEF TypeOK, ServerPools
  <1>2. new \in ServerPools /\ new.requests = server.requests /\ ci \in Nat
    <2>1. CASE v
      BY <1>1, <2>1 DEF TypeOK, ServerPools, Void
    <2>2. CASE ~v
      BY <1>1, <2>2 DEF TypeOK, ServerPools
    <2> QED
      BY <2>1, <2>2
  <1>3. m \in ToClient[t] /\ m.type = "HostCall"
    BY <1>2 DEF HostCall, ToClient
  <1> HIDE DEF new, m
  <1>4. /\ <<m>> \in Seq(ToClient[t])
        /\ Without(<<m>>, {"RunspaceAvailability", "EncryptedSessionKey"})
    BY <1>3, ShortQueues
  <1> QED
    BY <1>2, <1>4, ServerQuietDoes DEF host_call, new, m

\* An event, a host call and the request for a key are quiet.
LEMMA ServerSendsQuiet ==
    ASSUME TypeOK, send_event \/ ServerHostCall \/ request_key
    PROVE  ServerQuiet
  <1> DEFINE new == [server EXCEPT !.keyRequested = TRUE]
             m(type) == Plain(type)
             types == {"UserEvent", "PublicKeyRequest"}
  <1>1. Pool \in Targets
    BY DEF Targets
  <1>2. /\ server \in ServerPools /\ new \in ServerPools
        /\ new.requests = server.requests
    BY DEF TypeOK, ServerPools
  <1>3. \A type \in types : m(type) \in ToClient[Pool] /\ m(type).type = type
    BY <1>1 DEF Plain, ToClient
  <1> HIDE DEF new, m
  <1>4. ASSUME NEW type \in types
        PROVE  /\ <<m(type)>> \in Seq(ToClient[Pool])
               /\ Without(<<m(type)>>, {"RunspaceAvailability", "EncryptedSessionKey"})
    <2>1. /\ m(type) \in ToClient[Pool]
          /\ m(type).type \notin {"RunspaceAvailability", "EncryptedSessionKey"}
      BY <1>3
    <2> QED
      BY <2>1, ShortQueues
  <1>5. CASE send_event
    BY <1>1, <1>2, <1>4, <1>5, ServerQuietDoes DEF send_event, m
  <1>6. CASE request_key
    BY <1>1, <1>2, <1>4, <1>6, ServerQuietDoes DEF request_key, new, m
  <1>7. CASE ServerHostCall
    BY <1>1, <1>7, HostCallQuiet DEF ServerHostCall
  <1> QED
    BY <1>5, <1>6, <1>7

\* The calls of a pipeline are quiet.
LEMMA ServerPipelineQuiet ==
    ASSUME TypeOK, NEW p \in Pipelines, ServerPipelineCall(p)
    PROVE  ServerQuiet
  <1> DEFINE piped(s) == SetPipe(server, p, s)
             m(type)  == Plain(type)
             ended(s) == PipelineState(s)
             types    == {"PipelineOutput", "InformationRecord"}
  <1>1. p \in Targets /\ p # Pool
    BY RunspacePoolAssumption DEF Targets
  <1>2. \A s \in PipelineStates :
          piped(s) \in ServerPools /\ piped(s).requests = server.requests
    BY DEF TypeOK, ServerPools, SetPipe, Pipes
  <1>3. /\ Created(server, p) \in ServerPools
        /\ Created(server, p).requests = server.requests
        /\ ClosedPipeline(server, p) \in ServerPools
        /\ ClosedPipeline(server, p).requests = server.requests
        /\ server \in ServerPools
    BY DEF TypeOK, ServerPools, Created, ClosedPipeline, SetPipe, Pipes, PipelineStates
  <1>4. /\ \A type \in types : m(type) \in ToClient[p] /\ m(type).type = type
        /\ \A s \in PipelineStates :
              ended(s) \in ToClient[p] /\ ended(s).type = "PipelineState"
    BY <1>1 DEF Plain, PipelineState, ToClient
  <1> HIDE DEF piped, m, ended
  <1>5. /\ \A type \in types :
             /\ <<m(type)>> \in Seq(ToClient[p])
             /\ Without(<<m(type)>>, {"RunspaceAvailability", "EncryptedSessionKey"})
        /\ \A s \in PipelineStates :
             /\ <<ended(s)>> \in Seq(ToClient[p])
             /\ Without(<<ended(s)>>, {"RunspaceAvailability", "EncryptedSessionKey"})
    BY <1>4, ShortQueues
  <1>6. CASE ServerNewPipeline(p)
    BY <1>3, <1>6, ServerQuietChanges DEF ServerNewPipeline
  <1>7. CASE ServerStart(p) \/ ServerComplete(p) \/ ServerStop(p) \/ ServerBeginStop(p)
    <2>1. PICK s \in PipelineStates : PipelineTurns(p, s)
      BY <1>7 DEF ServerStart, ServerComplete, ServerStop, ServerBeginStop,
                  PipelineStates
    <2> QED
      BY <1>1, <1>2, <1>5, <2>1, ServerQuietDoes DEF PipelineTurns, piped, ended
  <1>8. CASE ServerClosePipeline(p)
    BY <1>3, <1>8, ServerQuietChanges DEF ServerClosePipeline
  <1>9. CASE ServerPipelineHostCall(p)
    BY <1>1, <1>9, HostCallQuiet DEF ServerPipelineHostCall
  <1>10. CASE ServerWrite(p)
    BY <1>1, <1>3, <1>5, <1>10, ServerQuietDoes DEF ServerWrite, m
  <1> QED
    BY <1>6, <1>7, <1>8, <1>9, <1>10 DEF ServerPipelineCall

\* A call of the server answers a request or is quiet.
LEMMA ServerCallKinds ==
    ASSUME TypeOK, ServerCall
    PROVE  Responds \/ ServerQuiet
  BY ServerStateQuiet, ServerSendsQuiet, ServerPipelineQuiet
  DEF ServerCall, ServerRequests
-----------------------------------------------------------------------------
(* What a message does to the pool that processes it *)

\* Of the fields for a call, the answer to it changes only the handlers.
SameExchange(old, new) ==
    /\ new.n = old.n /\ new.ci = old.ci
    /\ new.keyRequested = old.keyRequested /\ new.key = old.key
    /\ new.cipher = old.cipher

\* An exception only adds to what a pool has raised.
LEMMA RaiseType ==
    ASSUME TypeOK, NEW what \in Refused
    PROVE  /\ Raise(client, what) \in ClientPools
           /\ SameExchange(client, Raise(client, what))
           /\ Raise(client, what).handlers = client.handlers
           /\ what \notin Answers => SameCalls(client, Raise(client, what))
  BY DEF TypeOK, ClientPools, Raise, SameCalls, SameExchange

\* The client takes m from its queue for t and becomes new.
ClientTakes(t, m, new) ==
    /\ toClient[t] # <<>> /\ m = Head(toClient[t])
    /\ toClient' = [toClient EXCEPT ![t] = Tail(@)]
    /\ ClientChanges(new)

\* The client takes a message that is about no call and no key.
ClientTakesQuiet ==
    \E t \in Targets : \E m \in ToClient[t], new \in ClientPools :
        /\ ClientTakes(t, m, new)
        /\ SameCalls(client, new)
        /\ m.type \notin {"RunspaceAvailability", "EncryptedSessionKey"}

\* The public key is sent because the server asks for it.
AskedForKey ==
    /\ toClient[Pool] # <<>> /\ Head(toClient[Pool]).type = "PublicKeyRequest"
    /\ toClient' = [toClient EXCEPT ![Pool] = Tail(@)]
    /\ CanExchangeKey /\ StartExchange

\* The client takes a response, or the session key.
TakesAvailability ==
    /\ toClient[Pool] # <<>>
    /\ toClient' = [toClient EXCEPT ![Pool] = Tail(@)]
    /\ ClientProcessAvailability(Head(toClient[Pool]))

TakesKey ==
    /\ toClient[Pool] # <<>> /\ Head(toClient[Pool]).type = "EncryptedSessionKey"
    /\ toClient' = [toClient EXCEPT ![Pool] = Tail(@)]
    /\ ClientProcessKey(Head(toClient[Pool]))

\* An event of the client is one of these.
LEMMA ClientEventKinds ==
    ASSUME TypeOK, NEW t \in Targets, ClientNextEvent(t)
    PROVE  ClientTakesQuiet \/ AskedForKey \/ TakesAvailability \/ TakesKey
  <1> DEFINE m == Head(toClient[t])
  <1>1. toClient[t] # <<>> /\ toClient' = [toClient EXCEPT ![t] = Tail(@)]
    BY DEF ClientNextEvent
  <1>2. m \in ToClient[t]
    BY <1>1, HeadTailProperties DEF TypeOK, IsQueues
  <1>3. client \in ClientPools /\ SameCalls(client, client)
    BY DEF TypeOK, SameCalls
  <1>4. \/ ClientProcessPool(m) \/ ClientProcessAvailability(m)
        \/ ClientProcessKey(m) \/ ClientProcessHostCall(t, m)
        \/ ClientProcessPipelineState(t, m)
    BY DEF ClientNextEvent
  <1> HIDE DEF m
  <1>5. ASSUME NEW new \in ClientPools, SameCalls(client, new), ClientChanges(new),
               m.type \notin {"RunspaceAvailability", "EncryptedSessionKey"}
        PROVE  ClientTakesQuiet
    BY <1>1, <1>2, <1>5 DEF ClientTakesQuiet, ClientTakes, m
  <1>6. t # Pool => m.type \notin {"RunspaceAvailability", "EncryptedSessionKey",
                                   "PublicKeyRequest"}
    BY <1>2 DEF ToClient
  <1>7. CASE ClientProcessPool(m)
    <2>1. CASE m.type = "SessionCapability"
      <3> DEFINE new == [client EXCEPT !.cap = m.version]
      <3>1. m.version \in Nat
        BY <1>2, <2>1 DEF ToClient, Capabilities
      <3>2. new \in ClientPools /\ SameCalls(client, new)
        BY <3>1 DEF TypeOK, ClientPools, SameCalls
      <3>3. ClientChanges(new)
        BY <1>7, <2>1 DEF ClientProcessPool
      <3> QED
        BY <1>5, <2>1, <3>2, <3>3
    <2>2. CASE m.type = "ApplicationPrivateData"
      <3> DEFINE new == SetState(client, "Opened")
      <3>1. new \in ClientPools /\ SameCalls(client, new)
        BY DEF TypeOK, ClientPools, SetState, PoolStates, SameCalls
      <3>2. ClientChanges(new) \/ ClientChanges(client)
        BY <1>7, <2>2 DEF ClientProcessPool
      <3> QED
        BY <1>3, <1>5, <2>2, <3>1, <3>2
    <2>3. CASE m.type = "RunspacePoolInitData"
      <3> DEFINE new == [client EXCEPT !.min = m.min, !.max = m.max]
      <3>1. m.min \in Nat /\ m.max \in Nat
        BY <1>2, <2>3 DEF ToClient, Capabilities
      <3>2. new \in ClientPools /\ SameCalls(client, new)
        BY <3>1 DEF TypeOK, ClientPools, SameCalls
      <3>3. ClientChanges(new)
        BY <1>7, <2>3 DEF ClientProcessPool
      <3> QED
        BY <1>5, <2>3, <3>2, <3>3
    <2>4. CASE m.type = "RunspacePoolState"
      <3> DEFINE new == SetState(client, m.state)
      <3>1. m.state \in PoolStates
        BY <1>2, <2>4 DEF ToClient, Capabilities
      <3>2. new \in ClientPools /\ SameCalls(client, new)
        BY <3>1 DEF TypeOK, ClientPools, SetState, SameCalls
      <3>3. ClientChanges(new)
        BY <1>7, <2>4 DEF ClientProcessPool
      <3> QED
        BY <1>5, <2>4, <3>2, <3>3
    <2>5. CASE m.type \in {"UserEvent", "PipelineOutput", "InformationRecord"}
      BY <1>3, <1>5, <1>7, <2>5 DEF ClientProcessPool
    <2> QED
      BY <1>7, <2>1, <2>2, <2>3, <2>4, <2>5 DEF ClientProcessPool
  <1>8. CASE ClientProcessAvailability(m)
    BY <1>1, <1>6, <1>8 DEF ClientProcessAvailability, TakesAvailability, m
  <1>9. CASE ClientProcessKey(m)
    <2>1. CASE m.type = "EncryptedSessionKey"
      BY <1>1, <1>6, <1>9, <2>1 DEF TakesKey, m
    <2>2. CASE m.type = "PublicKeyRequest"
      <3> DEFINE new == Raise(client, m.type)
      <3>1. new \in ClientPools /\ SameCalls(client, new)
        <4>1. m.type \in Refused /\ m.type \notin Answers
          BY <2>2 DEF Refused, Answers
        <4> QED
          BY <4>1, RaiseType
      <3>2. \/ CanExchangeKey /\ StartExchange
            \/ ClientChanges(client) \/ ClientChanges(new)
        BY <1>9, <2>2 DEF ClientProcessKey
      <3> QED
        BY <1>1, <1>3, <1>5, <1>6, <2>2, <3>1, <3>2 DEF AskedForKey, m
    <2> QED
      BY <1>9, <2>1, <2>2 DEF ClientProcessKey
  <1>10. CASE ClientProcessHostCall(t, m)
    <2> DEFINE new == [client EXCEPT !.events = PutCi(@, [ci |-> m.ci, target |-> t])]
    <2>1. m.type = "HostCall" /\ m.ci \in Nat
      BY <1>2, <1>10 DEF ClientProcessHostCall, ToClient, Capabilities
    <2>2. PutCi(client.events, [ci |-> m.ci, target |-> t]) \subseteq Events
      BY <2>1 DEF TypeOK, ClientPools, PutCi, Events
    <2>3. new \in ClientPools /\ SameCalls(client, new)
      BY <2>2 DEF TypeOK, ClientPools, SameCalls
    <2>4. ClientChanges(new) \/ ClientChanges(client)
      BY <1>10 DEF ClientProcessHostCall
    <2> QED
      BY <1>3, <1>5, <2>1, <2>3, <2>4
  <1>11. CASE ClientProcessPipelineState(t, m)
    <2> DEFINE piped  == SetPipe(client, t, m.state)
               failed == Raise(client, m.type)
    <2>1. m.type = "PipelineState"
      BY <1>11 DEF ClientProcessPipelineState
    <2>2. t \in Pipelines /\ m.state \in PipelineStates
      BY <1>2, <2>1 DEF ToClient, Targets, Capabilities
    <2>3. /\ piped \in ClientPools /\ SameCalls(client, piped)
          /\ failed \in ClientPools /\ SameCalls(client, failed)
      <3>1. piped \in ClientPools /\ SameCalls(client, piped)
        BY <2>2 DEF TypeOK, ClientPools, SetPipe, Pipes, SameCalls
      <3>2. m.type \in Refused /\ m.type \notin Answers
        BY <2>1 DEF Refused, Answers
      <3> QED
        BY <3>1, <3>2, RaiseType
    <2>4. ClientChanges(piped) \/ ClientChanges(failed)
      BY <1>11 DEF ClientProcessPipelineState
    <2> QED
      BY <1>5, <2>1, <2>3, <2>4
  <1> QED
    BY <1>4, <1>7, <1>8, <1>9, <1>10, <1>11

\* The server takes m from its queue for t, becomes new and answers with msgs.
ServerTakes(t, m, new, msgs) ==
    /\ toServer[t] # <<>> /\ m = Head(toServer[t])
    /\ toServer' = [toServer EXCEPT ![t] = Tail(@)]
    /\ ServerDoes(new, Pool, msgs)

\* The server takes a message that is about no call and no key.
ServerTakesQuiet ==
    \E t \in Targets : \E m \in ToServer[t], new \in ServerPools,
                          msgs \in Seq(ToClient[Pool]) :
        /\ ServerTakes(t, m, new, msgs)
        /\ new.requests = server.requests
        /\ Without(msgs, {"RunspaceAvailability", "EncryptedSessionKey"})
        /\ m.type \notin {"Request", "PublicKey"}

\* The server takes a request, or the public key.
TakesRequest ==
    \E m \in ToServer[Pool], new \in ServerPools :
        /\ m.type = "Request"
        /\ ServerTakes(Pool, m, new, <<>>)
        /\ new.requests = PutCi(server.requests, [ci |-> m.ci, kind |-> m.kind,
                                                  count |-> m.count, n |-> m.n])

TakesPublicKey ==
    \E m \in ToServer[Pool], new \in ServerPools :
        /\ m.type = "PublicKey"
        /\ ServerTakes(Pool, m, new, <<EncryptedSessionKey(m.key)>>)
        /\ new.requests = server.requests

\* An event of the server is one of these.
LEMMA ServerEventKinds ==
    ASSUME TypeOK, NEW t \in Targets, ServerNextEvent(t)
    PROVE  ServerTakesQuiet \/ TakesRequest \/ TakesPublicKey
  <1> DEFINE m    == Head(toServer[t])
             pool == IF server.state = "BeforeOpen" THEN SetState(server, "Opening")
                                                    ELSE server
  <1>1. toServer[t] # <<>> /\ toServer' = [toServer EXCEPT ![t] = Tail(@)]
    BY DEF ServerNextEvent
  <1>2. m \in ToServer[t]
    BY <1>1, HeadTailProperties DEF TypeOK, IsQueues
  <1>3. pool \in ServerPools /\ pool.requests = server.requests
    BY DEF TypeOK, ServerPools, SetState, PoolStates
  <1>4. \/ ServerProcessCapability(pool, m) \/ ServerProcessInit(pool, m)
        \/ ServerProcessConnect(pool, m) \/ ServerProcessRequest(pool, m)
        \/ ServerProcessKey(pool, m) \/ ServerProcessCreate(pool, t, m)
        \/ ServerProcessOther(pool, m)
    BY DEF ServerNextEvent
  <1>5. t # Pool => m.type \notin {"Request", "PublicKey"}
    BY <1>2 DEF ToServer
  <1>6. Pool \in Targets
    BY DEF Targets
  <1> HIDE DEF m, pool
  <1>7. ASSUME NEW new \in ServerPools, new.requests = server.requests,
               NEW msgs \in Seq(ToClient[Pool]), ServerDoes(new, Pool, msgs),
               Without(msgs, {"RunspaceAvailability", "EncryptedSessionKey"}),
               m.type \notin {"Request", "PublicKey"}
        PROVE  ServerTakesQuiet
    BY <1>1, <1>2, <1>7 DEF ServerTakesQuiet, ServerTakes, m
  <1>8. ASSUME NEW new \in ServerPools, new.requests = server.requests,
               ServerChanges(new), m.type \notin {"Request", "PublicKey"}
        PROVE  ServerTakesQuiet
    BY <1>7, <1>8, ShortQueues DEF ServerChanges
  <1>9. /\ Plain("ApplicationPrivateData") \in ToClient[Pool]
        /\ Plain("ApplicationPrivateData").type = "ApplicationPrivateData"
    BY <1>6 DEF Plain, ToClient
  <1>10. "Opened" \in PoolStates
    BY DEF PoolStates
  <1>11. ASSUME ServerProcessCapability(pool, m)
         PROVE  ServerTakesQuiet
    <2> DEFINE known  == [pool EXCEPT !.cap = m.version]
               named  == [known EXCEPT !.rpid = m.rpid]
               failed == [known EXCEPT !.raised = @ \union {"SessionCapability"}]
               reply  == SessionCapability(ServerVersion, pool.rpid)
    <2>1. m.type = "SessionCapability"
      BY <1>11 DEF ServerProcessCapability
    <2>2. m.version \in Nat /\ m.rpid \in PoolIds \union {NoId}
      BY <1>2, <2>1 DEF ToServer, Capabilities
    <2>3. /\ known \in ServerPools /\ known.requests = server.requests
          /\ named \in ServerPools /\ named.requests = server.requests
          /\ failed \in ServerPools /\ failed.requests = server.requests
      BY <1>3, <2>2 DEF ServerPools, Rejected
    <2>4. reply \in ToClient[Pool] /\ reply.type = "SessionCapability"
      BY <1>3, <1>6, RunspacePoolAssumption
      DEF SessionCapability, ToClient, Capabilities, ServerPools
    <2>5. \/ ServerChanges(known) \/ ServerChanges(failed)
          \/ ServerDoes(named, Pool, <<reply>>)
      BY <1>11, <2>1 DEF ServerProcessCapability, Raise
    <2> HIDE DEF known, named, failed, reply
    <2>6. /\ <<reply>> \in Seq(ToClient[Pool])
          /\ Without(<<reply>>, {"RunspaceAvailability", "EncryptedSessionKey"})
      BY <2>4, ShortQueues
    <2>7. m.type \notin {"Request", "PublicKey"}
      BY <2>1
    <2> QED
      BY <1>7, <1>8, <2>3, <2>5, <2>6, <2>7
  <1>12. ASSUME ServerProcessInit(pool, m)
         PROVE  ServerTakesQuiet
    <2> DEFINE new  == [pool EXCEPT !.min = m.min, !.max = m.max]
               msgs == <<Plain("ApplicationPrivateData")>>
    <2>1. m.type = "InitRunspacePool"
      BY <1>12 DEF ServerProcessInit
    <2>2. m.min \in Nat /\ m.max \in Nat
      BY <1>2, <2>1 DEF ToServer, Capabilities
    <2>3. new \in ServerPools /\ new.requests = server.requests
      BY <1>3, <2>2 DEF ServerPools
    <2>4. ServerDoes(SetState(new, "Opened"), Pool, msgs \o StateMsgs("Opened"))
      BY <1>12 DEF ServerProcessInit, ServerTurns
    <2>5. /\ msgs \in Seq(ToClient[Pool])
          /\ Without(msgs, {"RunspaceAvailability", "EncryptedSessionKey"})
      BY <1>9, ShortQueues
    <2> HIDE DEF new, msgs
    <2>6. m.type \notin {"Request", "PublicKey"}
      BY <2>1
    <2> QED
      BY <1>7, <1>10, <2>3, <2>4, <2>5, <2>6, TurnsType
  <1>13. ASSUME ServerProcessConnect(pool, m)
         PROVE  ServerTakesQuiet
    <2> DEFINE data == RunspacePoolInitData(pool.min, pool.max)
               msgs == <<data, Plain("ApplicationPrivateData")>>
    <2>1. m.type = "ConnectRunspacePool"
      BY <1>13 DEF ServerProcessConnect
    <2>2. data \in ToClient[Pool] /\ data.type = "RunspacePoolInitData"
      BY <1>3, <1>6 DEF RunspacePoolInitData, ToClient, ServerPools
    <2>3. ServerDoes(SetState(pool, "Opened"), Pool, msgs \o StateMsgs("Opened"))
      BY <1>13 DEF ServerProcessConnect, ServerTurns
    <2> HIDE DEF data
    <2>4. /\ msgs \in Seq(ToClient[Pool])
          /\ Without(msgs, {"RunspaceAvailability", "EncryptedSessionKey"})
      <3>1. /\ data.type \notin {"RunspaceAvailability", "EncryptedSessionKey"}
            /\ Plain("ApplicationPrivateData").type
                 \notin {"RunspaceAvailability", "EncryptedSessionKey"}
        BY <1>9, <2>2
      <3> QED
        BY <1>9, <2>2, <3>1, ShortQueues
    <2> HIDE DEF msgs
    <2>5. m.type \notin {"Request", "PublicKey"}
      BY <2>1
    <2> QED
      BY <1>3, <1>7, <1>10, <2>3, <2>4, <2>5, TurnsType
  <1>14. ASSUME ServerProcessRequest(pool, m)
         PROVE  TakesRequest
    <2> DEFINE r   == [ci |-> m.ci, kind |-> m.kind, count |-> m.count, n |-> m.n]
               new == [pool EXCEPT !.requests = PutCi(@, r)]
    <2>1. m.type = "Request" /\ t = Pool
      BY <1>5, <1>14 DEF ServerProcessRequest
    <2>2. r \in Requests
      BY <1>2, <2>1 DEF ToServer, Capabilities, Requests
    <2> HIDE DEF r
    <2>3. PutCi(server.requests, r) \subseteq Requests
      BY <2>2 DEF PutCi, TypeOK, ServerPools
    <2>4. new \in ServerPools /\ new.requests = PutCi(server.requests, r)
      BY <1>3, <2>3 DEF ServerPools
    <2>5. ServerDoes(new, Pool, <<>>)
      BY <1>14 DEF ServerProcessRequest, ServerChanges, r
    <2> QED
      BY <1>1, <1>2, <2>1, <2>4, <2>5 DEF TakesRequest, ServerTakes, m, r
  <1>15. ASSUME ServerProcessKey(pool, m)
         PROVE  TakesPublicKey
    <2> DEFINE new == [pool EXCEPT !.keyRequested = TRUE]
    <2>1. m.type = "PublicKey" /\ t = Pool
      BY <1>5, <1>15 DEF ServerProcessKey
    <2>2. new \in ServerPools /\ new.requests = server.requests
      BY <1>3 DEF ServerPools
    <2>3. ServerDoes(new, Pool, <<EncryptedSessionKey(m.key)>>)
      BY <1>15 DEF ServerProcessKey
    <2> QED
      BY <1>1, <1>2, <2>1, <2>2, <2>3 DEF TakesPublicKey, ServerTakes, m
  <1>16. ASSUME ServerProcessCreate(pool, t, m)
         PROVE  ServerTakesQuiet
    <2> DEFINE new    == [pool EXCEPT !.metadata = @ \union {t}]
               failed == [pool EXCEPT !.raised = @ \union {"CreatePipeline"}]
    <2>1. m.type = "CreatePipeline"
      BY <1>16 DEF ServerProcessCreate
    <2>2. t \in Pipelines
      BY <1>2, <2>1 DEF ToServer, Targets, Capabilities
    <2>3. /\ new \in ServerPools /\ new.requests = server.requests
          /\ failed \in ServerPools /\ failed.requests = server.requests
      BY <1>3, <2>2 DEF ServerPools, Rejected
    <2>4. ServerChanges(new) \/ ServerChanges(failed)
      BY <1>16, <2>1 DEF ServerProcessCreate, Raise
    <2> HIDE DEF new, failed
    <2>5. m.type \notin {"Request", "PublicKey"}
      BY <2>1
    <2> QED
      BY <1>8, <2>3, <2>4, <2>5
  <1>17. ASSUME ServerProcessOther(pool, m)
         PROVE  ServerTakesQuiet
    BY <1>3, <1>8, <1>17 DEF ServerProcessOther
  <1> QED
    BY <1>4, <1>11, <1>12, <1>13, <1>14, <1>15, <1>16, <1>17
-----------------------------------------------------------------------------
(* Type correctness *)

\* A call of the client, or of the server, keeps the types.
LEMMA ClientDoesType ==
    ASSUME TypeOK, NEW new \in ClientPools, NEW t \in Targets,
           NEW msgs \in Seq(ToServer[t]), ClientDoes(new, t, msgs)
    PROVE  /\ client' \in ClientPools /\ server' \in ServerPools
           /\ IsQueues(toServer', ToServer)
  BY QueueType DEF TypeOK, ClientDoes

LEMMA ServerDoesType ==
    ASSUME TypeOK, NEW new \in ServerPools, NEW t \in Targets,
           NEW msgs \in Seq(ToClient[t]), ServerDoes(new, t, msgs)
    PROVE  /\ client' \in ClientPools /\ server' \in ServerPools
           /\ IsQueues(toClient', ToClient)
  BY QueueType DEF TypeOK, ServerDoes

\* A queue of which the first message is taken.
LEMMA TailType ==
    ASSUME NEW queues, NEW Kinds, IsQueues(queues, Kinds), NEW t \in Targets,
           queues[t] # <<>>
    PROVE  IsQueues([queues EXCEPT ![t] = Tail(@)], Kinds)
  <1> DEFINE new == [queues EXCEPT ![t] = Tail(@)]
  <1>1. new = [u \in Targets |-> IF u = t THEN Tail(queues[u]) ELSE queues[u]]
    BY DEF IsQueues
  <1>2. Tail(queues[t]) \in Seq(Kinds[t])
    BY HeadTailProperties DEF IsQueues
  <1> HIDE DEF new
  <1> QED
    BY <1>1, <1>2 DEF IsQueues, new

\* Each kind of call is a new pool and a message of the types.
LEMMA AsksDoes ==
    ASSUME TypeOK, NEW kind \in {"available", "reset", "min", "max"},
           NEW field \in {None, "min", "max"}, NEW value \in Nat,
           SendRequest(kind, field, value)
    PROVE  LET m == Request(kind, client.ci, value, client.n)
               h == [ci |-> client.ci, field |-> field, value |-> value]
           IN  \E new \in ClientPools :
                 /\ client.ci <= MaxCi
                 /\ new.ci = client.ci + 1 /\ new.n = client.n
                 /\ new.handlers = client.handlers \union {h}
                 /\ new.keyRequested = client.keyRequested
                 /\ new.key = client.key /\ new.cipher = client.cipher
                 /\ new.raised = client.raised
                 /\ m \in ToServer[Pool]
                 /\ ClientDoes(new, Pool, <<m>>)
  <1> DEFINE m == Request(kind, client.ci, value, client.n)
             h == [ci |-> client.ci, field |-> field, value |-> value]
             new == [client EXCEPT !.ci = @ + 1, !.handlers = @ \union {h}]
  <1>1. client.ci \in Nat \ {0} /\ client.n \in Nat /\ client \in ClientPools
    BY DEF TypeOK, ClientPools
  <1>2. h \in Handlers
    BY <1>1 DEF Handlers
  <1>3. m \in ToServer[Pool]
    BY <1>1 DEF Request, ToServer, Targets
  <1> HIDE DEF h, m
  <1>4. /\ new \in ClientPools
        /\ new.ci = client.ci + 1 /\ new.n = client.n
        /\ new.handlers = client.handlers \union {h}
        /\ new.keyRequested = client.keyRequested
        /\ new.key = client.key /\ new.cipher = client.cipher
        /\ new.raised = client.raised
    <2>1. client.ci + 1 \in Nat \ {0} /\ client.handlers \union {h} \in SUBSET Handlers
      BY <1>1, <1>2 DEF ClientPools
    <2> DEFINE next == client.ci + 1
               handlers == client.handlers \union {h}
    <2>2. new = [client EXCEPT !.ci = next, !.handlers = handlers]
      OBVIOUS
    <2> HIDE DEF next, handlers, new
    <2>3. /\ new \in ClientPools /\ new.ci = next /\ new.n = client.n
          /\ new.handlers = handlers
          /\ new.keyRequested = client.keyRequested
          /\ new.key = client.key /\ new.cipher = client.cipher
          /\ new.raised = client.raised
      BY <1>1, <2>1, <2>2 DEF ClientPools, next, handlers
    <2> QED
      BY <2>3 DEF next, handlers
  <1>5. client.ci <= MaxCi /\ ClientDoes(new, Pool, <<m>>)
    BY DEF SendRequest, m, h
  <1> HIDE DEF new
  <1> QED
    BY <1>3, <1>4, <1>5 DEF m, h

LEMMA ExchangeDoes ==
    ASSUME TypeOK, StartExchange
    PROVE  \E new \in ClientPools :
              /\ new.n = client.n /\ new.ci = client.ci
              /\ new.handlers = client.handlers /\ new.cipher = client.cipher
              /\ new.keyRequested = TRUE /\ new.key = client.n
              /\ new.raised = client.raised
              /\ PublicKey(client.n) \in ToServer[Pool]
              /\ ClientDoes(new, Pool, <<PublicKey(client.n)>>)
  <1> DEFINE new == [client EXCEPT !.keyRequested = TRUE, !.key = client.n]
  <1>1. client.n \in Nat /\ client \in ClientPools
    BY DEF TypeOK, ClientPools
  <1>2. /\ new \in ClientPools /\ new.n = client.n /\ new.ci = client.ci
        /\ new.handlers = client.handlers /\ new.cipher = client.cipher
        /\ new.keyRequested = TRUE /\ new.key = client.n
        /\ new.raised = client.raised
    BY <1>1 DEF ClientPools
  <1>3. PublicKey(client.n) \in ToServer[Pool]
    BY <1>1 DEF PublicKey, ToServer, Targets
  <1>4. ClientDoes(new, Pool, <<PublicKey(client.n)>>)
    BY DEF StartExchange
  <1> HIDE DEF new
  <1> QED
    BY <1>2, <1>3, <1>4

LEMMA RespondsDoes ==
    ASSUME TypeOK, Responds
    PROVE  \E r \in server.requests, response \in BOOLEAN, new \in ServerPools :
              /\ new.requests = server.requests \ {r}
              /\ RunspaceAvailability(r.ci, response, r.n) \in ToClient[Pool]
              /\ ServerDoes(new, Pool, <<RunspaceAvailability(r.ci, response, r.n)>>)
  <1>1. PICK response \in BOOLEAN, r \in server.requests :
          ServerDoes(Responded(r, response), Pool,
                     <<RunspaceAvailability(r.ci, response, r.n)>>)
    BY DEF Responds, runspace_availability_response
  <1>2. r \in Requests /\ server \in ServerPools
    BY DEF TypeOK, ServerPools
  <1>3. r.ci \in Nat /\ r.n \in Nat /\ r.count \in Nat
    BY <1>2 DEF Requests
  <1>4. RunspaceAvailability(r.ci, response, r.n) \in ToClient[Pool]
    BY <1>3 DEF RunspaceAvailability, ToClient, Targets
  <1> DEFINE done == [server EXCEPT !.requests = @ \ {r}]
             new  == Responded(r, response)
  <1>5. done \in ServerPools /\ done.requests = server.requests \ {r}
    BY <1>2 DEF ServerPools
  <1>6. /\ [done EXCEPT !.max = r.count] \in ServerPools
        /\ [done EXCEPT !.max = r.count].requests = done.requests
        /\ [done EXCEPT !.min = r.count] \in ServerPools
        /\ [done EXCEPT !.min = r.count].requests = done.requests
    <2> HIDE DEF done
    <2> QED
      BY <1>3, <1>5 DEF ServerPools
  <1>7. \/ new = done \/ new = [done EXCEPT !.max = r.count]
        \/ new = [done EXCEPT !.min = r.count]
    BY DEF Responded
  <1> HIDE DEF new, done
  <1>8. new \in ServerPools /\ new.requests = server.requests \ {r}
    BY <1>5, <1>6, <1>7
  <1> QED
    BY <1>1, <1>4, <1>8 DEF new

\* So is each kind of event.
LEMMA AvailabilityDoes ==
    ASSUME TypeOK, TakesAvailability
    PROVE  \E m \in ToClient[Pool], new \in ClientPools :
              /\ m.type = "RunspaceAvailability"
              /\ ClientTakes(Pool, m, new)
              /\ SameExchange(client, new)
              /\ \/ /\ \A h \in client.handlers : h.ci # m.ci
                    /\ new.handlers = client.handlers
                 \/ /\ new.raised = client.raised
                    /\ \E h \in client.handlers :
                         h.ci = m.ci /\ new.handlers = client.handlers \ {h}
  <1> DEFINE m == Head(toClient[Pool])
  <1>1. /\ toClient[Pool] # <<>> /\ toClient' = [toClient EXCEPT ![Pool] = Tail(@)]
        /\ ClientProcessAvailability(m)
    BY DEF TakesAvailability
  <1>2. m \in ToClient[Pool] /\ m.type = "RunspaceAvailability"
    BY <1>1, HeadTailProperties
    DEF TypeOK, IsQueues, Targets, ClientProcessAvailability
  <1>3. client \in ClientPools
    BY DEF TypeOK
  <1>4. ASSUME NEW new \in ClientPools, ClientChanges(new)
        PROVE  ClientTakes(Pool, m, new)
    BY <1>1, <1>4 DEF ClientTakes
  <1> HIDE DEF m
  <1>5. CASE {h \in client.handlers : h.ci = m.ci} = {}
    <2> DEFINE new == Raise(client, m.type)
    <2>1. m.type \in Refused
      BY <1>2 DEF Refused
    <2>2. /\ new \in ClientPools /\ SameExchange(client, new)
          /\ new.handlers = client.handlers
      BY <2>1, RaiseType
    <2>3. ClientChanges(new)
      BY <1>1, <1>5 DEF ClientProcessAvailability
    <2>4. \A h \in client.handlers : h.ci # m.ci
      BY <1>5
    <2> HIDE DEF new
    <2> QED
      BY <1>2, <1>4, <2>2, <2>3, <2>4
  <1>6. CASE {h \in client.handlers : h.ci = m.ci} # {}
    <2>1. PICK h \in client.handlers : h.ci = m.ci /\ ClientChanges(Answered(h, m.response))
      BY <1>1, <1>6 DEF ClientProcessAvailability
    <2>2. h \in Handlers
      BY <1>3 DEF ClientPools
    <2>3. h.value \in Nat
      BY <2>2 DEF Handlers
    <2> DEFINE popped == [client EXCEPT !.handlers = @ \ {h}]
               new    == Answered(h, m.response)
    <2>4. /\ popped \in ClientPools /\ SameExchange(client, popped)
          /\ popped.handlers = client.handlers \ {h} /\ popped.raised = client.raised
      BY <1>3 DEF ClientPools, SameExchange
    <2>5. /\ [popped EXCEPT !.max = h.value] \in ClientPools
          /\ SameExchange(popped, [popped EXCEPT !.max = h.value])
          /\ [popped EXCEPT !.max = h.value].handlers = popped.handlers
          /\ [popped EXCEPT !.max = h.value].raised = popped.raised
          /\ [popped EXCEPT !.min = h.value] \in ClientPools
          /\ SameExchange(popped, [popped EXCEPT !.min = h.value])
          /\ [popped EXCEPT !.min = h.value].handlers = popped.handlers
          /\ [popped EXCEPT !.min = h.value].raised = popped.raised
      <3> HIDE DEF popped
      <3> QED
        BY <2>3, <2>4 DEF ClientPools, SameExchange
    <2>6. \/ new = popped \/ new = [popped EXCEPT !.max = h.value]
          \/ new = [popped EXCEPT !.min = h.value]
      BY DEF Answered
    <2>7. ClientChanges(new)
      BY <2>1
    <2> HIDE DEF new, popped
    <2>8. /\ new \in ClientPools /\ SameExchange(client, new)
          /\ new.handlers = client.handlers \ {h} /\ new.raised = client.raised
      BY <2>4, <2>5, <2>6 DEF SameExchange
    <2> QED
      BY <1>2, <1>4, <2>1, <2>7, <2>8
  <1> QED
    BY <1>5, <1>6

LEMMA KeyDoes ==
    ASSUME TypeOK, TakesKey
    PROVE  \E m \in ToClient[Pool], new \in ClientPools :
              /\ m.type = "EncryptedSessionKey"
              /\ ClientTakes(Pool, m, new)
              /\ new.n = client.n /\ new.ci = client.ci
              /\ new.handlers = client.handlers
              /\ new.keyRequested = client.keyRequested /\ new.key = client.key
              /\ new.cipher = (client.cipher \/ client.key = m.key)
              /\ client.key = m.key => new.raised = client.raised
  <1> DEFINE m   == Head(toClient[Pool])
             new == IF client.key = m.key THEN [client EXCEPT !.cipher = TRUE]
                                          ELSE Raise(client, m.type)
  <1>1. /\ toClient[Pool] # <<>> /\ toClient' = [toClient EXCEPT ![Pool] = Tail(@)]
        /\ m.type = "EncryptedSessionKey" /\ ClientProcessKey(m)
    BY DEF TakesKey
  <1>2. m \in ToClient[Pool]
    BY <1>1, HeadTailProperties DEF TypeOK, IsQueues, Targets
  <1>3. client \in ClientPools /\ client.cipher \in BOOLEAN /\ client.key \in Nat
    BY DEF TypeOK, ClientPools
  <1>4. ClientTakes(Pool, m, new)
    BY <1>1 DEF ClientProcessKey, ClientTakes
  <1>5. m.type \in Refused
    BY <1>1 DEF Refused
  <1> HIDE DEF m
  <1>6. /\ new \in ClientPools /\ new.n = client.n /\ new.ci = client.ci
        /\ new.handlers = client.handlers
        /\ new.keyRequested = client.keyRequested /\ new.key = client.key
        /\ client.key = m.key => new.cipher = TRUE /\ new.raised = client.raised
        /\ client.key # m.key => new.cipher = client.cipher
    <2>1. CASE client.key = m.key
      BY <1>3, <2>1 DEF ClientPools
    <2>2. CASE client.key # m.key
      BY <1>5, <2>2, RaiseType DEF SameExchange
    <2> QED
      BY <2>1, <2>2
  <1>7. new.cipher \in BOOLEAN
    BY <1>6 DEF ClientPools
  <1> HIDE DEF new
  <1>8. new.cipher = (client.cipher \/ client.key = m.key)
    BY <1>3, <1>6, <1>7
  <1> QED
    BY <1>1, <1>2, <1>4, <1>6, <1>8 DEF m

\* A part of a queue has its types.
LEMMA SubSeqType ==
    ASSUME NEW S, NEW q \in Seq(S), NEW a \in Nat, NEW b \in Nat, a >= 1, b <= Len(q)
    PROVE  /\ SubSeq(q, a, b) \in Seq(S)
           /\ a > b => SubSeq(q, a, b) = <<>>
  <1>1. \A j \in a..b : q[j] \in S
    OBVIOUS
  <1>2. SubSeq(q, a, b) \in Seq(S)
    BY <1>1, SubSeqProperties
  <1>3. a > b => SubSeq(q, a, b) = <<>>
    BY SubSeqEmpty
  <1> QED
    BY <1>2, <1>3

\* What is left of the queues of a client that is replaced.
LEMMA PartsType ==
    ASSUME NEW queues, NEW Kinds, IsQueues(queues, Kinds), NEW new,
           new \in Parts(queues, Fronts) \/ new \in Parts(queues, Backs)
    PROVE  /\ IsQueues(new, Kinds)
           /\ \A t \in Targets : queues[t] = <<>> => new[t] = <<>>
  <1>1. new \in [Targets -> UNION {Fronts(queues[t]) : t \in Targets}]
        \/ new \in [Targets -> UNION {Backs(queues[t]) : t \in Targets}]
    BY DEF Parts
  <1>2. new = [t \in Targets |-> new[t]]
    BY <1>1
  <1>3. ASSUME NEW t \in Targets
        PROVE  new[t] \in Seq(Kinds[t]) /\ (queues[t] = <<>> => new[t] = <<>>)
    <2>1. queues[t] \in Seq(Kinds[t])
      BY DEF IsQueues
    <2>2. new[t] \in Fronts(queues[t]) \/ new[t] \in Backs(queues[t])
      BY DEF Parts
    <2>3. PICK i \in 0..Len(queues[t]) :
             \/ new[t] = SubSeq(queues[t], 1, i)
             \/ new[t] = SubSeq(queues[t], i + 1, Len(queues[t]))
      BY <2>2 DEF Fronts, Backs
    <2> DEFINE q == queues[t]
    <2>4. Len(q) \in Nat /\ i \in Nat
      BY <2>1
    <2>5. q \in Seq(Kinds[t])
      BY <2>1
    <2>6. q = <<>> => i = 0 /\ Len(q) = 0
      BY <2>1, <2>4
    <2>7. i + 1 \in Nat /\ 1 \in Nat
      BY <2>4
    <2> HIDE DEF q
    <2>8. new[t] = SubSeq(q, 1, i) \/ new[t] = SubSeq(q, i + 1, Len(q))
      BY <2>3 DEF q
    <2> DEFINE S == Kinds[t]
    <2> HIDE DEF S
    <2>9. q \in Seq(S)
      BY <2>5 DEF S
    <2>10. i <= Len(q) /\ Len(q) <= Len(q) /\ i + 1 >= 1 /\ 1 >= 1
      BY <2>3, <2>4 DEF q
    <2>11. SubSeq(q, 1, i) \in Seq(S) /\ (1 > i => SubSeq(q, 1, i) = <<>>)
      BY <2>4, <2>7, <2>9, <2>10, SubSeqType
    <2>12. /\ SubSeq(q, i + 1, Len(q)) \in Seq(S)
           /\ i + 1 > Len(q) => SubSeq(q, i + 1, Len(q)) = <<>>
      BY <2>4, <2>7, <2>9, <2>10, SubSeqType
    <2>13. q = <<>> => 1 > i /\ i + 1 > Len(q)
      BY <2>4, <2>6
    <2>14. new[t] \in Seq(S) /\ (q = <<>> => new[t] = <<>>)
      BY <2>8, <2>11, <2>12, <2>13
    <2> QED
      BY <2>14 DEF q, S
  <1> QED
    BY <1>2, <1>3 DEF IsQueues

\* Every call keeps the types.
LEMMA ClientCallTypes ==
    ASSUME TypeOK, ClientCall /\ UNCHANGED toClient
    PROVE  TypeOK'
  <1>1. ASSUME NEW new \in ClientPools, NEW t \in Targets, NEW msgs \in Seq(ToServer[t]),
               ClientDoes(new, t, msgs)
        PROVE  TypeOK'
    BY <1>1, ClientDoesType DEF TypeOK
  <1>2. Pool \in Targets
    BY DEF Targets
  <1>3. CASE ClientQuiet
    BY <1>1, <1>3 DEF ClientQuiet
  <1>4. CASE Asks
    <2>1. PICK kind \in {"available", "reset", "min", "max"},
               field \in {None, "min", "max"}, value \in Nat :
             SendRequest(kind, field, value)
      BY <1>4 DEF Asks
    <2> QED
      BY <1>1, <1>2, <2>1, AsksDoes, ShortQueues, ZenonT(30)
  <1>5. CASE exchange_key
    <2>1. StartExchange
      BY <1>5 DEF exchange_key
    <2> QED
      BY <1>1, <1>2, <2>1, ExchangeDoes, ShortQueues
  <1> QED
    BY <1>3, <1>4, <1>5, ClientCallKinds

LEMMA ServerCallTypes ==
    ASSUME TypeOK, ServerCall /\ UNCHANGED toServer
    PROVE  TypeOK'
  <1>1. ASSUME NEW new \in ServerPools, NEW t \in Targets, NEW msgs \in Seq(ToClient[t]),
               ServerDoes(new, t, msgs)
        PROVE  TypeOK'
    BY <1>1, ServerDoesType DEF TypeOK
  <1>2. Pool \in Targets
    BY DEF Targets
  <1>3. CASE ServerQuiet
    BY <1>1, <1>3 DEF ServerQuiet
  <1>4. CASE Responds
    BY <1>1, <1>2, <1>4, RespondsDoes, ShortQueues
  <1> QED
    BY <1>3, <1>4, ServerCallKinds

\* Every event keeps the types.
LEMMA ClientEventTypes ==
    ASSUME TypeOK, NEW t \in Targets, ClientNextEvent(t)
    PROVE  TypeOK'
  <1>1. ASSUME NEW u \in Targets, NEW m, NEW new \in ClientPools, ClientTakes(u, m, new)
        PROVE  TypeOK'
    <2>1. IsQueues(toClient', ToClient)
      BY <1>1, TailType DEF TypeOK, ClientTakes
    <2>2. client' \in ClientPools /\ server' \in ServerPools /\ IsQueues(toServer', ToServer)
      BY <1>1, ClientDoesType, ShortQueues DEF ClientTakes, ClientChanges, Targets
    <2> QED
      BY <2>1, <2>2 DEF TypeOK
  <1>2. Pool \in Targets
    BY DEF Targets
  <1>3. CASE ClientTakesQuiet
    BY <1>1, <1>3 DEF ClientTakesQuiet
  <1>4. CASE AskedForKey
    <2>1. IsQueues(toClient', ToClient)
      BY <1>2, <1>4, TailType DEF TypeOK, AskedForKey
    <2>2. client' \in ClientPools /\ server' \in ServerPools /\ IsQueues(toServer', ToServer)
      BY <1>2, <1>4, ClientDoesType, ExchangeDoes, ShortQueues DEF AskedForKey
    <2> QED
      BY <2>1, <2>2 DEF TypeOK
  <1>5. CASE TakesAvailability
    BY <1>1, <1>2, <1>5, AvailabilityDoes
  <1>6. CASE TakesKey
    BY <1>1, <1>2, <1>6, KeyDoes
  <1> QED
    BY <1>3, <1>4, <1>5, <1>6, ClientEventKinds

LEMMA ServerEventTypes ==
    ASSUME TypeOK, NEW t \in Targets, ServerNextEvent(t)
    PROVE  TypeOK'
  <1>1. ASSUME NEW u \in Targets, NEW m, NEW new \in ServerPools,
               NEW msgs \in Seq(ToClient[Pool]), ServerTakes(u, m, new, msgs)
        PROVE  TypeOK'
    <2>1. IsQueues(toServer', ToServer)
      BY <1>1, TailType DEF TypeOK, ServerTakes
    <2>2. client' \in ClientPools /\ server' \in ServerPools /\ IsQueues(toClient', ToClient)
      BY <1>1, ServerDoesType DEF ServerTakes, Targets
    <2> QED
      BY <2>1, <2>2 DEF TypeOK
  <1>2. Pool \in Targets /\ <<>> \in Seq(ToClient[Pool])
    BY DEF Targets
  <1>3. CASE ServerTakesQuiet
    BY <1>1, <1>3 DEF ServerTakesQuiet
  <1>4. CASE TakesRequest
    BY <1>1, <1>2, <1>4 DEF TakesRequest
  <1>5. CASE TakesPublicKey
    <2>1. PICK m \in ToServer[Pool], new \in ServerPools :
             m.type = "PublicKey" /\ ServerTakes(Pool, m, new, <<EncryptedSessionKey(m.key)>>)
      BY <1>5 DEF TakesPublicKey
    <2>2. EncryptedSessionKey(m.key) \in ToClient[Pool]
      BY <1>2, <2>1 DEF EncryptedSessionKey, ToServer, ToClient, Capabilities
    <2> QED
      BY <1>1, <1>2, <2>1, <2>2, ShortQueues
  <1> QED
    BY <1>3, <1>4, <1>5, ServerEventKinds

\* A client that replaces another keeps the types.
LEMMA NewClientType ==
    ASSUME NEW n \in Nat \ {0}, NEW id \in PoolIds
    PROVE  NewClientPool(n, id) \in ClientPools
  BY DEF NewClientPool, ClientPools, NoPipes, Pipes, PoolStates

LEMMA ReplacedTypes ==
    ASSUME TypeOK, ClientReplaced
    PROVE  TypeOK'
  <1>1. PICK id \in PoolIds : client' = NewClientPool(client.n + 1, id)
    BY DEF ClientReplaced
  <1>2. client.n + 1 \in Nat \ {0}
    BY DEF TypeOK, ClientPools
  <1>3. client' \in ClientPools
    BY <1>1, <1>2, NewClientType
  <1>4. IsQueues(toServer', ToServer) /\ IsQueues(toClient', ToClient)
    BY PartsType DEF TypeOK, ClientReplaced
  <1> QED
    BY <1>3, <1>4 DEF TypeOK, ClientReplaced

\* The types hold at first, and every step keeps them.
LEMMA InitTypes == Init => TypeOK
  <1> SUFFICES ASSUME Init PROVE TypeOK
    OBVIOUS
  <1>1. client \in ClientPools
    BY NewClientType DEF Init
  <1>2. server \in ServerPools
    BY DEF Init, NewServerPool, ServerPools, NoPipes, Pipes, PoolStates
  <1>3. IsQueues(toServer, ToServer) /\ IsQueues(toClient, ToClient)
    BY DEF Init, IsQueues
  <1> QED
    BY <1>1, <1>2, <1>3 DEF TypeOK

LEMMA NextTypes == TypeOK /\ [Next]_vars => TypeOK'
  <1> SUFFICES ASSUME TypeOK, [Next]_vars PROVE TypeOK'
    OBVIOUS
  <1>1. CASE ClientCall /\ UNCHANGED toClient
    BY <1>1, ClientCallTypes
  <1>2. CASE ServerCall /\ UNCHANGED toServer
    BY <1>2, ServerCallTypes
  <1>3. CASE NextEvent
    BY <1>3, ClientEventTypes, ServerEventTypes DEF NextEvent
  <1>4. CASE ClientReplaced
    BY <1>4, ReplacedTypes
  <1>5. CASE UNCHANGED vars
    BY <1>5 DEF vars, TypeOK, IsQueues
  <1> QED
    BY <1>1, <1>2, <1>3, <1>4, <1>5 DEF Next

\* TypesHold: in whatever order the two programs call, and however many
\* clients follow each other, both pools keep the states and fields their
\* classes declare, and each queue holds only messages that its reader has a
\* handler for: _base.next_event() never looks up a type it has no method for.
THEOREM TypesHold == Spec => []TypeOK
  BY InitTypes, NextTypes, PTL DEF Spec
-----------------------------------------------------------------------------
Held(requests, ci) == {r \in requests : r.ci = ci}

\* What CallsAccounted says of one call id.
Balanced(ci) ==
    Indicator(\E h \in client.handlers : h.ci = ci) =
        CountCi(toServer[Pool], "Request", ci)
        + Cardinality(Held(server.requests, ci))
        + CountCi(toClient[Pool], "RunspaceAvailability", ci)

\* The call ids a client has used are below its count, and each stands for one
\* handler: CallsAccounted alone would not let a new call id be new.
HandlersDiffer ==
    /\ \A h \in client.handlers : h.ci < client.ci
    /\ \A g, h \in client.handlers : g.ci = h.ci => g = h

CallsInv ==
    /\ HandlersDiffer
    /\ IsFiniteSet(server.requests)
    /\ \A ci \in Nat : Balanced(ci)
    /\ "RunspaceAvailability" \notin client.raised

\* What is on the way of a key exchange is about the key pair the client has:
\* the session key that comes back can be decrypted.
KeysMatch ==
    /\ \A i \in DOMAIN toServer[Pool] :
         toServer[Pool][i].type = "PublicKey" => toServer[Pool][i].key = client.key
    /\ \A i \in DOMAIN toClient[Pool] :
         toClient[Pool][i].type = "EncryptedSessionKey" => toClient[Pool][i].key = client.key

KeyInv == KeysMatch /\ OneExchange /\ "EncryptedSessionKey" \notin client.raised

\* An assumption on the two programs: the first client is still there, or every
\* client takes over a pool with nothing left that is due to the one before.
\* connect() does not check it, and without it a client gets answers to calls
\* that it did not make.
Undisturbed == DrainFirst \/ client.n = 1

SessionInv == TypeOK /\ (Undisturbed => CallsInv /\ KeyInv)
-----------------------------------------------------------------------------
(* Counting the messages of a queue *)

Places(q, T)  == {i \in DOMAIN q : q[i] \in T}
Counted(q, T) == Cardinality(Places(q, T))

\* A count is a number; it adds up over the parts of a queue.
LEMMA CountedType ==
    ASSUME NEW S, NEW q \in Seq(S), NEW T
    PROVE  /\ IsFiniteSet(Places(q, T)) /\ Counted(q, T) \in Nat
           /\ Counted(q, T) = 0 <=> \A i \in DOMAIN q : q[i] \notin T
  <1>1. IsFiniteSet(1..Len(q))
    BY FS_Interval
  <1>2. Places(q, T) \in SUBSET (1..Len(q))
    BY DEF Places
  <1>3. IsFiniteSet(Places(q, T))
    BY <1>1, <1>2, FS_Subset
  <1>4. Counted(q, T) \in Nat
    BY <1>3, FS_CardinalityType DEF Counted
  <1>5. Counted(q, T) = 0 <=> Places(q, T) = {}
    BY <1>3, FS_EmptySet DEF Counted
  <1> QED
    BY <1>3, <1>4, <1>5 DEF Places

LEMMA CountedJoin ==
    ASSUME NEW S, NEW q \in Seq(S), NEW r \in Seq(S), NEW T
    PROVE  Counted(q \o r, T) = Counted(q, T) + Counted(r, T)
  <1> DEFINE moved == {Len(q) + i : i \in Places(r, T)}
             shift == [i \in Places(r, T) |-> Len(q) + i]
  <1>1. IsFiniteSet(Places(q, T)) /\ IsFiniteSet(Places(r, T))
    BY CountedType
  <1>2. shift \in Bijection(Places(r, T), moved)
    <2>1. \A i \in Places(r, T) : i \in Nat
      BY DEF Places
    <2>2. \A i, j \in Places(r, T) : shift[i] = shift[j] => i = j
      BY <2>1
    <2>3. shift \in [Places(r, T) -> moved]
      OBVIOUS
    <2>4. \A k \in moved : \E i \in Places(r, T) : shift[i] = k
      OBVIOUS
    <2> QED
      BY <2>2, <2>3, <2>4 DEF Bijection, Injection, Surjection, IsInjective
  <1>3. IsFiniteSet(moved) /\ Cardinality(moved) = Counted(r, T)
    BY <1>1, <1>2, FS_Bijection DEF ExistsBijection, Counted
  <1>4. Places(q \o r, T) = Places(q, T) \union moved
    <2>1. DOMAIN (q \o r) = 1..(Len(q) + Len(r))
      BY ConcatProperties
    <2>2. \A i \in DOMAIN q : i \in DOMAIN (q \o r) /\ (q \o r)[i] = q[i]
      BY ConcatProperties
    <2>3. \A i \in DOMAIN r :
            Len(q) + i \in DOMAIN (q \o r) /\ (q \o r)[Len(q) + i] = r[i]
      BY ConcatProperties
    <2>4. \A k \in DOMAIN (q \o r) :
            k \in DOMAIN q \/ \E i \in DOMAIN r : k = Len(q) + i
      <3> SUFFICES ASSUME NEW k \in 1..(Len(q) + Len(r)), ~(k \in 1..Len(q))
                   PROVE  \E i \in DOMAIN r : k = Len(q) + i
        BY <2>1
      <3>1. k - Len(q) \in DOMAIN r /\ k = Len(q) + (k - Len(q))
        OBVIOUS
      <3> WITNESS k - Len(q) \in DOMAIN r
      <3> QED
        BY <3>1
    <2> QED
      BY <2>2, <2>3, <2>4 DEF Places
  <1>5. Places(q, T) \intersect moved = {}
    <2>1. \A i \in Places(q, T) : i \in Nat /\ i <= Len(q)
      BY DEF Places
    <2>2. \A i \in Places(r, T) : Len(q) + i > Len(q)
      BY DEF Places
    <2> QED
      BY <2>1, <2>2
  <1>6. /\ Cardinality(Places(q, T) \union moved)
             = Cardinality(Places(q, T)) + Cardinality(moved) - Cardinality({})
        /\ Cardinality({}) = 0
        /\ Counted(q, T) \in Nat /\ Counted(r, T) \in Nat
    BY <1>1, <1>3, <1>5, FS_Union, FS_EmptySet, CountedType
  <1> QED
    BY <1>3, <1>4, <1>6 DEF Counted

\* Taking the first message takes one place.
LEMMA TailPlaces ==
    ASSUME NEW S, NEW q \in Seq(S), q # <<>>
    PROVE  \A i \in DOMAIN Tail(q) : i + 1 \in DOMAIN q /\ Tail(q)[i] = q[i + 1]
  BY HeadTailProperties

LEMMA CountedOne ==
    ASSUME NEW m, NEW T
    PROVE  Counted(<<m>>, T) = Indicator(m \in T)
  <1>1. Places(<<m>>, T) = IF m \in T THEN {1} ELSE {}
    BY DEF Places
  <1> QED
    BY <1>1, FS_Singleton, FS_EmptySet DEF Counted, Indicator

LEMMA CountedTail ==
    ASSUME NEW S, NEW q \in Seq(S), q # <<>>, NEW T
    PROVE  Counted(q, T) = Indicator(Head(q) \in T) + Counted(Tail(q), T)
  <1>1. q = <<Head(q)>> \o Tail(q) /\ Head(q) \in S /\ Tail(q) \in Seq(S)
    <2>1. Head(q) \in S /\ Tail(q) \in Seq(S)
      BY HeadTailProperties
    <2> QED
      BY <2>1
  <1>2. Counted(<<Head(q)>> \o Tail(q), T) = Counted(<<Head(q)>>, T) + Counted(Tail(q), T)
    <2>1. <<Head(q)>> \in Seq(S)
      BY <1>1
    <2> QED
      BY <1>1, <2>1, CountedJoin
  <1> QED
    BY <1>1, <1>2, CountedOne

\* The counts of the properties.
OfType(S, type)     == {m \in S : m.type = type}
OfCall(S, type, ci) == {m \in S : m.type = type /\ m.ci = ci}

LEMMA CountsAre ==
    ASSUME NEW S, NEW q \in Seq(S), NEW type, NEW ci
    PROVE  /\ CountOf(q, type) = Counted(q, OfType(S, type))
           /\ CountCi(q, type, ci) = Counted(q, OfCall(S, type, ci))
  <1>1. \A i \in DOMAIN q : q[i] \in S
    OBVIOUS
  <1>2. {i \in DOMAIN q : q[i].type = type} = Places(q, OfType(S, type))
    BY <1>1 DEF Places, OfType
  <1>3. {i \in DOMAIN q : q[i].type = type /\ q[i].ci = ci} = Places(q, OfCall(S, type, ci))
    BY <1>1 DEF Places, OfCall
  <1> QED
    BY <1>2, <1>3 DEF CountOf, CountCi, Count, Counted

\* They are numbers, add up, and go down by one with a first message.
LEMMA CountsType ==
    ASSUME NEW S, NEW q \in Seq(S), NEW type, NEW ci
    PROVE  /\ CountOf(q, type) \in Nat /\ CountCi(q, type, ci) \in Nat
           /\ CountOf(q, type) = 0 <=> \A i \in DOMAIN q : q[i].type # type
           /\ CountCi(q, type, ci) = 0
                <=> \A i \in DOMAIN q : ~(q[i].type = type /\ q[i].ci = ci)
  <1> DEFINE A == OfType(S, type)
             B == OfCall(S, type, ci)
  <1>1. CountOf(q, type) = Counted(q, A) /\ CountCi(q, type, ci) = Counted(q, B)
    BY CountsAre
  <1>2. \A i \in DOMAIN q : /\ q[i] \in A <=> q[i].type = type
                            /\ q[i] \in B <=> q[i].type = type /\ q[i].ci = ci
    BY DEF OfType, OfCall
  <1> HIDE DEF A, B
  <1>3. /\ Counted(q, A) \in Nat /\ Counted(q, B) \in Nat
        /\ Counted(q, A) = 0 <=> \A i \in DOMAIN q : q[i] \notin A
        /\ Counted(q, B) = 0 <=> \A i \in DOMAIN q : q[i] \notin B
    BY CountedType
  <1> QED
    BY <1>1, <1>2, <1>3

LEMMA CountsJoin ==
    ASSUME NEW S, NEW q \in Seq(S), NEW r \in Seq(S), NEW type, NEW ci
    PROVE  /\ CountOf(q \o r, type) = CountOf(q, type) + CountOf(r, type)
           /\ CountCi(q \o r, type, ci) = CountCi(q, type, ci) + CountCi(r, type, ci)
  <1> DEFINE A == OfType(S, type)
             B == OfCall(S, type, ci)
             j == q \o r
  <1>1. j \in Seq(S)
    OBVIOUS
  <1>2. CountOf(q, type) = Counted(q, A) /\ CountCi(q, type, ci) = Counted(q, B)
    BY CountsAre
  <1>3. CountOf(r, type) = Counted(r, A) /\ CountCi(r, type, ci) = Counted(r, B)
    BY CountsAre
  <1>4. Counted(j, A) = Counted(q, A) + Counted(r, A)
    BY CountedJoin
  <1>5. Counted(j, B) = Counted(q, B) + Counted(r, B)
    BY CountedJoin
  <1> HIDE DEF j
  <1>6. CountOf(j, type) = Counted(j, A) /\ CountCi(j, type, ci) = Counted(j, B)
    BY <1>1, CountsAre
  <1> HIDE DEF A, B
  <1> QED
    BY <1>2, <1>3, <1>4, <1>5, <1>6 DEF j

LEMMA CountsOne ==
    ASSUME NEW m, NEW type, NEW ci
    PROVE  /\ CountOf(<<m>>, type) = Indicator(m.type = type)
           /\ CountCi(<<m>>, type, ci) = Indicator(m.type = type /\ m.ci = ci)
  <1> DEFINE S == {m}
             A == OfType(S, type)
             B == OfCall(S, type, ci)
  <1>1. <<m>> \in Seq(S)
    OBVIOUS
  <1>2. /\ m \in A <=> m.type = type
        /\ m \in B <=> m.type = type /\ m.ci = ci
    BY DEF OfType, OfCall
  <1>3. Counted(<<m>>, A) = Indicator(m \in A) /\ Counted(<<m>>, B) = Indicator(m \in B)
    BY CountedOne
  <1> DEFINE q == <<m>>
  <1> HIDE DEF S, q
  <1>4. CountOf(q, type) = Counted(q, A) /\ CountCi(q, type, ci) = Counted(q, B)
    BY <1>1, CountsAre DEF q
  <1> HIDE DEF A, B
  <1> QED
    BY <1>2, <1>3, <1>4 DEF q, Indicator

LEMMA CountsTail ==
    ASSUME NEW S, NEW q \in Seq(S), q # <<>>, NEW type, NEW ci
    PROVE  /\ CountOf(q, type) = Indicator(Head(q).type = type) + CountOf(Tail(q), type)
           /\ CountCi(q, type, ci) = Indicator(Head(q).type = type /\ Head(q).ci = ci)
                                     + CountCi(Tail(q), type, ci)
  <1> DEFINE h == <<Head(q)>>
             r == Tail(q)
  <1>1. Head(q) \in S /\ r \in Seq(S)
    BY HeadTailProperties
  <1>2. q = h \o r /\ h \in Seq(S)
    BY <1>1
  <1>3. /\ CountOf(h, type) = Indicator(Head(q).type = type)
        /\ CountCi(h, type, ci) = Indicator(Head(q).type = type /\ Head(q).ci = ci)
    BY CountsOne
  <1> HIDE DEF h, r
  <1>4. /\ CountOf(h \o r, type) = CountOf(h, type) + CountOf(r, type)
        /\ CountCi(h \o r, type, ci) = CountCi(h, type, ci) + CountCi(r, type, ci)
    BY <1>1, <1>2, CountsJoin
  <1> QED
    BY <1>2, <1>3, <1>4 DEF r

\* new has the messages of one of the types that old has.
SameOf(old, new, types) ==
    \A type \in types :
        /\ CountOf(new, type) = CountOf(old, type)
        /\ \A ci : CountCi(new, type, ci) = CountCi(old, type, ci)
        /\ \A i \in DOMAIN new :
             new[i].type = type => \E j \in DOMAIN old : new[i] = old[j]

\* What is added, or taken, of other types leaves the messages of one alone.
LEMMA JoinedWithout ==
    ASSUME NEW S, NEW q \in Seq(S), NEW msgs \in Seq(S), NEW types, Without(msgs, types)
    PROVE  SameOf(q, q \o msgs, types)
  <1> SUFFICES ASSUME NEW type \in types
               PROVE  /\ CountOf(q \o msgs, type) = CountOf(q, type)
                      /\ \A ci : CountCi(q \o msgs, type, ci) = CountCi(q, type, ci)
                      /\ \A i \in DOMAIN (q \o msgs) :
                           (q \o msgs)[i].type = type =>
                               \E j \in DOMAIN q : (q \o msgs)[i] = q[j]
    BY DEF SameOf
  <1>1. \A i \in DOMAIN msgs : msgs[i].type # type
    BY DEF Without
  <1> DEFINE joined == q \o msgs
  <1>2. ASSUME NEW ci
        PROVE  /\ CountOf(joined, type) = CountOf(q, type)
               /\ CountCi(joined, type, ci) = CountCi(q, type, ci)
    <2>1. CountOf(msgs, type) = 0 /\ CountCi(msgs, type, ci) = 0
      BY <1>1, CountsType
    <2>2. CountOf(q, type) \in Nat /\ CountCi(q, type, ci) \in Nat
      BY CountsType
    <2>3. /\ CountOf(joined, type) = CountOf(q, type) + CountOf(msgs, type)
          /\ CountCi(joined, type, ci) = CountCi(q, type, ci) + CountCi(msgs, type, ci)
      BY CountsJoin
    <2> QED
      BY <2>1, <2>2, <2>3
  <1>3. CountOf(joined, type) = CountOf(q, type)
    BY <1>2
  <1>4. ASSUME NEW i \in DOMAIN (q \o msgs), (q \o msgs)[i].type = type
        PROVE  \E j \in DOMAIN q : (q \o msgs)[i] = q[j]
    <2>1. CASE i <= Len(q)
      BY <2>1
    <2>2. CASE i > Len(q)
      <3>1. i - Len(q) \in DOMAIN msgs /\ (q \o msgs)[i] = msgs[i - Len(q)]
        BY <2>2
      <3> QED
        BY <1>1, <1>4, <3>1
    <2> QED
      BY <2>1, <2>2
  <1> QED
    BY <1>2, <1>3, <1>4

LEMMA TailWithout ==
    ASSUME NEW S, NEW q \in Seq(S), q # <<>>, NEW types, Head(q).type \notin types
    PROVE  SameOf(q, Tail(q), types)
  <1>1. \A i \in DOMAIN Tail(q) : i + 1 \in DOMAIN q /\ Tail(q)[i] = q[i + 1]
    BY HeadTailProperties
  <1>2. Tail(q) \in Seq(S)
    BY HeadTailProperties
  <1>3. ASSUME NEW type \in types, NEW ci
        PROVE  /\ CountOf(Tail(q), type) = CountOf(q, type)
               /\ CountCi(Tail(q), type, ci) = CountCi(q, type, ci)
    <2>1. /\ CountOf(q, type) = Indicator(Head(q).type = type) + CountOf(Tail(q), type)
          /\ CountCi(q, type, ci) = Indicator(Head(q).type = type /\ Head(q).ci = ci)
                                    + CountCi(Tail(q), type, ci)
      BY CountsTail
    <2>2. CountOf(Tail(q), type) \in Nat /\ CountCi(Tail(q), type, ci) \in Nat
      BY <1>2, CountsType
    <2>3. Head(q).type # type
      OBVIOUS
    <2> QED
      BY <2>1, <2>2, <2>3 DEF Indicator
  <1> QED
    BY <1>1, <1>3 DEF SameOf

\* Then the counts of that type are what they were.
LEMMA SameAlways ==
    ASSUME NEW types
    PROVE  /\ \A q : SameOf(q, q, types)
           /\ \A a, b, c : SameOf(a, b, types) /\ SameOf(b, c, types) => SameOf(a, c, types)
  <1>1. \A q : SameOf(q, q, types)
    BY DEF SameOf
  <1>2. ASSUME NEW a, NEW b, NEW c, SameOf(a, b, types), SameOf(b, c, types)
        PROVE  SameOf(a, c, types)
    <2>1. ASSUME NEW type \in types, NEW i \in DOMAIN c, c[i].type = type
          PROVE  \E j \in DOMAIN a : c[i] = a[j]
      <3>1. PICK k \in DOMAIN b : c[i] = b[k]
        BY <1>2, <2>1 DEF SameOf
      <3> QED
        BY <1>2, <2>1, <3>1 DEF SameOf
    <2> QED
      BY <1>2, <2>1 DEF SameOf
  <1> QED
    BY <1>1, <1>2

LEMMA QueueSame ==
    ASSUME NEW queues, NEW Kinds, IsQueues(queues, Kinds), NEW t \in Targets,
           NEW msgs \in Seq(Kinds[t]), NEW types, Without(msgs, types)
    PROVE  SameOf(queues[Pool], Queue(queues, t, msgs)[Pool], types)
  <1>1. Pool \in Targets
    BY DEF Targets
  <1>2. CASE t = Pool
    <2>1. Queue(queues, t, msgs)[Pool] = queues[Pool] \o msgs
      BY <1>2, QueueType
    <2>2. queues[Pool] \in Seq(Kinds[Pool]) /\ msgs \in Seq(Kinds[Pool])
      BY <1>1, <1>2 DEF IsQueues
    <2>3. SameOf(queues[Pool], queues[Pool] \o msgs, types)
      BY <2>2, JoinedWithout
    <2> QED
      BY <2>1, <2>3
  <1>3. CASE t # Pool
    <2>1. Queue(queues, t, msgs)[Pool] = queues[Pool]
      BY <1>1, <1>3, QueueType
    <2> QED
      BY <2>1, SameAlways
  <1> QED
    BY <1>2, <1>3

LEMMA TailSame ==
    ASSUME NEW queues, NEW Kinds, IsQueues(queues, Kinds), NEW t \in Targets,
           queues[t] # <<>>, NEW types, Head(queues[t]).type \notin types
    PROVE  SameOf(queues[Pool], [queues EXCEPT ![t] = Tail(@)][Pool], types)
  <1>1. Pool \in Targets
    BY DEF Targets
  <1>2. CASE t = Pool
    <2>1. [queues EXCEPT ![t] = Tail(@)][Pool] = Tail(queues[Pool])
      BY <1>1, <1>2 DEF IsQueues
    <2>2. queues[Pool] \in Seq(Kinds[Pool])
      BY <1>1 DEF IsQueues
    <2>3. SameOf(queues[Pool], Tail(queues[Pool]), types)
      BY <1>2, <2>2, TailWithout
    <2> QED
      BY <2>1, <2>3
  <1>3. CASE t # Pool
    <2>1. [queues EXCEPT ![t] = Tail(@)][Pool] = queues[Pool]
      BY <1>1, <1>3 DEF IsQueues
    <2> QED
      BY <2>1, SameAlways
  <1> QED
    BY <1>2, <1>3
-----------------------------------------------------------------------------
(* The requests that the server holds *)

\* A request is held once, and dropped when it is answered.
LEMMA HeldType ==
    ASSUME NEW R, IsFiniteSet(R), NEW ci
    PROVE  /\ IsFiniteSet(Held(R, ci)) /\ Cardinality(Held(R, ci)) \in Nat
           /\ Cardinality(Held(R, ci)) = 0 <=> \A r \in R : r.ci # ci
  <1>1. Held(R, ci) \in SUBSET R
    BY DEF Held
  <1>2. IsFiniteSet(Held(R, ci))
    BY <1>1, FS_Subset
  <1>3. /\ Cardinality(Held(R, ci)) \in Nat
        /\ Cardinality(Held(R, ci)) = 0 <=> Held(R, ci) = {}
    BY <1>2, FS_CardinalityType, FS_EmptySet
  <1> QED
    BY <1>2, <1>3 DEF Held

LEMMA HeldPut ==
    ASSUME NEW R, IsFiniteSet(R), NEW e
    PROVE  /\ IsFiniteSet(PutCi(R, e))
           /\ Cardinality(Held(PutCi(R, e), e.ci)) = 1
           /\ \A ci : ci # e.ci => Held(PutCi(R, e), ci) = Held(R, ci)
  <1> DEFINE rest == {x \in R : x.ci # e.ci}
  <1>1. IsFiniteSet(rest \union {e})
    <2>1. rest \in SUBSET R
      OBVIOUS
    <2>2. IsFiniteSet(rest)
      BY <2>1, FS_Subset
    <2> HIDE DEF rest
    <2> QED
      BY <2>2, FS_AddElement
  <1>2. Held(PutCi(R, e), e.ci) = {e}
    BY DEF Held, PutCi
  <1>3. \A ci : ci # e.ci => Held(PutCi(R, e), ci) = Held(R, ci)
    BY DEF Held, PutCi
  <1> QED
    BY <1>1, <1>2, <1>3, FS_Singleton DEF PutCi

LEMMA HeldDrop ==
    ASSUME NEW R, IsFiniteSet(R), NEW r \in R
    PROVE  /\ IsFiniteSet(R \ {r})
           /\ Cardinality(Held(R, r.ci)) = Cardinality(Held(R \ {r}, r.ci)) + 1
           /\ \A ci : ci # r.ci => Held(R \ {r}, ci) = Held(R, ci)
  <1>1. IsFiniteSet(R \ {r}) /\ IsFiniteSet(Held(R, r.ci))
    BY FS_RemoveElement, HeldType
  <1>2. Held(R \ {r}, r.ci) = Held(R, r.ci) \ {r} /\ r \in Held(R, r.ci)
    BY DEF Held
  <1>3. Cardinality(Held(R, r.ci) \ {r}) = Cardinality(Held(R, r.ci)) - 1
    BY <1>1, <1>2, FS_RemoveElement
  <1>4. Cardinality(Held(R, r.ci)) \in Nat
    BY HeldType
  <1>5. \A ci : ci # r.ci => Held(R \ {r}, ci) = Held(R, ci)
    BY DEF Held
  <1>6. Cardinality(Held(R, r.ci)) = Cardinality(Held(R \ {r}, r.ci)) + 1
    <2> DEFINE all == Cardinality(Held(R, r.ci))
               less == Cardinality(Held(R \ {r}, r.ci))
    <2>1. all \in Nat /\ less = all - 1
      BY <1>2, <1>3, <1>4
    <2> HIDE DEF all, less
    <2>2. all = less + 1
      BY <2>1
    <2> QED
      BY <2>2 DEF all, less
  <1> QED
    BY <1>1, <1>5, <1>6
-----------------------------------------------------------------------------
(* What leaves the calls, and the key exchange, alone *)

\* The calls, and the exchange, depend on these fields and counts only.
LEMMA CallsKept ==
    ASSUME CallsInv, client'.ci = client.ci, client'.handlers = client.handlers,
           client'.raised \intersect Answers = client.raised \intersect Answers,
           server'.requests = server.requests,
           SameOf(toServer[Pool], toServer'[Pool], {"Request"}),
           SameOf(toClient[Pool], toClient'[Pool], {"RunspaceAvailability"})
    PROVE  CallsInv'
  <1>1. /\ \A ci : CountCi(toServer'[Pool], "Request", ci) = CountCi(toServer[Pool], "Request", ci)
        /\ \A ci : CountCi(toClient'[Pool], "RunspaceAvailability", ci)
                    = CountCi(toClient[Pool], "RunspaceAvailability", ci)
    BY DEF SameOf
  <1>2. \A ci \in Nat : Balanced(ci)'
    BY <1>1 DEF CallsInv, Balanced
  <1> QED
    BY <1>2 DEF CallsInv, HandlersDiffer, Answers

LEMMA KeysKept ==
    ASSUME KeyInv, client'.keyRequested = client.keyRequested,
           client'.key = client.key, client'.cipher = client.cipher,
           client'.raised \intersect Answers = client.raised \intersect Answers,
           SameOf(toServer[Pool], toServer'[Pool], {"PublicKey"}),
           SameOf(toClient[Pool], toClient'[Pool], {"EncryptedSessionKey"})
    PROVE  KeyInv'
  <1>1. /\ CountOf(toServer'[Pool], "PublicKey") = CountOf(toServer[Pool], "PublicKey")
        /\ CountOf(toClient'[Pool], "EncryptedSessionKey")
             = CountOf(toClient[Pool], "EncryptedSessionKey")
    BY DEF SameOf
  <1>2. OneExchange'
    BY <1>1 DEF KeyInv, OneExchange
  <1>3. \A i \in DOMAIN toServer'[Pool] :
          toServer'[Pool][i].type = "PublicKey" =>
            \E j \in DOMAIN toServer[Pool] : toServer'[Pool][i] = toServer[Pool][j]
    BY DEF SameOf
  <1>4. \A i \in DOMAIN toClient'[Pool] :
          toClient'[Pool][i].type = "EncryptedSessionKey" =>
            \E j \in DOMAIN toClient[Pool] : toClient'[Pool][i] = toClient[Pool][j]
    BY DEF SameOf
  <1>5. KeysMatch'
    BY <1>3, <1>4 DEF KeyInv, KeysMatch
  <1> QED
    BY <1>2, <1>5 DEF KeyInv, Answers

QuietServerQueue == SameOf(toServer[Pool], toServer'[Pool], {"Request", "PublicKey"})
QuietClientQueue ==
    SameOf(toClient[Pool], toClient'[Pool], {"RunspaceAvailability", "EncryptedSessionKey"})

\* Both at once, for the steps that touch neither.
LEMMA AllKept ==
    ASSUME CallsInv, KeyInv, SameCalls(client, client'),
           server'.requests = server.requests, QuietServerQueue, QuietClientQueue
    PROVE  CallsInv' /\ KeyInv'
  <1>1. /\ SameOf(toServer[Pool], toServer'[Pool], {"Request"})
        /\ SameOf(toServer[Pool], toServer'[Pool], {"PublicKey"})
        /\ SameOf(toClient[Pool], toClient'[Pool], {"RunspaceAvailability"})
        /\ SameOf(toClient[Pool], toClient'[Pool], {"EncryptedSessionKey"})
    BY DEF QuietServerQueue, QuietClientQueue, SameOf
  <1> QED
    BY <1>1, CallsKept, KeysKept DEF SameCalls

LEMMA QueuesUnchanged ==
    /\ UNCHANGED toClient => QuietClientQueue
    /\ UNCHANGED toServer => QuietServerQueue
  BY SameAlways DEF QuietClientQueue, QuietServerQueue

\* A quiet call of either side leaves them alone.
LEMMA ClientQuietKept ==
    ASSUME TypeOK, CallsInv, KeyInv, ClientQuiet, UNCHANGED toClient
    PROVE  CallsInv' /\ KeyInv'
  <1>1. PICK new \in ClientPools, t \in Targets : \E msgs \in Seq(ToServer[t]) :
             /\ ClientDoes(new, t, msgs) /\ SameCalls(client, new)
             /\ Without(msgs, {"Request", "PublicKey"})
    BY DEF ClientQuiet
  <1>2. QuietServerQueue
    BY <1>1, QueueSame DEF TypeOK, ClientDoes, QuietServerQueue
  <1> QED
    BY <1>1, <1>2, AllKept, QueuesUnchanged DEF ClientDoes

LEMMA ServerQuietKept ==
    ASSUME TypeOK, CallsInv, KeyInv, ServerQuiet, UNCHANGED toServer
    PROVE  CallsInv' /\ KeyInv'
  <1>1. PICK new \in ServerPools, t \in Targets : \E msgs \in Seq(ToClient[t]) :
             /\ ServerDoes(new, t, msgs) /\ new.requests = server.requests
             /\ Without(msgs, {"RunspaceAvailability", "EncryptedSessionKey"})
    BY DEF ServerQuiet
  <1>2. QuietClientQueue
    BY <1>1, QueueSame DEF TypeOK, ServerDoes, QuietClientQueue
  <1>3. SameCalls(client, client')
    BY <1>1 DEF ServerDoes, SameCalls
  <1> QED
    BY <1>1, <1>2, <1>3, AllKept, QueuesUnchanged DEF ServerDoes

\* So does an event that is about no call and no key.
LEMMA ClientTakesQueue ==
    ASSUME TypeOK, NEW t \in Targets, NEW m, NEW new, ClientTakes(t, m, new)
    PROVE  /\ UNCHANGED server /\ client' = new /\ QuietServerQueue
           /\ \A types : m.type \notin types
                          => SameOf(toClient[Pool], toClient'[Pool], types)
  <1>1. ClientDoes(new, Pool, <<>>) /\ Pool \in Targets
    BY DEF ClientTakes, ClientChanges, Targets
  <1>2. QuietServerQueue
    BY <1>1, QueueSame, ShortQueues DEF TypeOK, ClientDoes, QuietServerQueue
  <1>3. \A types : m.type \notin types => SameOf(toClient[Pool], toClient'[Pool], types)
    BY TailSame DEF TypeOK, ClientTakes
  <1> QED
    BY <1>1, <1>2, <1>3 DEF ClientDoes

LEMMA ClientTakesQuietKept ==
    ASSUME TypeOK, CallsInv, KeyInv, ClientTakesQuiet
    PROVE  CallsInv' /\ KeyInv'
  <1>1. PICK t \in Targets : \E m \in ToClient[t], new \in ClientPools :
             /\ ClientTakes(t, m, new) /\ SameCalls(client, new)
             /\ m.type \notin {"RunspaceAvailability", "EncryptedSessionKey"}
    BY DEF ClientTakesQuiet
  <1>2. PICK m \in ToClient[t], new \in ClientPools :
             /\ ClientTakes(t, m, new) /\ SameCalls(client, new)
             /\ m.type \notin {"RunspaceAvailability", "EncryptedSessionKey"}
    BY <1>1
  <1>3. /\ UNCHANGED server /\ client' = new /\ QuietServerQueue /\ QuietClientQueue
    BY <1>2, ClientTakesQueue DEF QuietClientQueue
  <1> QED
    BY <1>2, <1>3, AllKept

LEMMA ServerTakesQueues ==
    ASSUME TypeOK, NEW t \in Targets, NEW m, NEW new, NEW msgs \in Seq(ToClient[Pool]),
           ServerTakes(t, m, new, msgs)
    PROVE  /\ UNCHANGED client /\ server' = new
           /\ \A types : m.type \notin types
                          => SameOf(toServer[Pool], toServer'[Pool], types)
           /\ \A types : Without(msgs, types)
                          => SameOf(toClient[Pool], toClient'[Pool], types)
  <1>1. ServerDoes(new, Pool, msgs) /\ Pool \in Targets
    BY DEF ServerTakes, Targets
  <1>2. \A types : m.type \notin types => SameOf(toServer[Pool], toServer'[Pool], types)
    BY TailSame DEF TypeOK, ServerTakes
  <1>3. \A types : Without(msgs, types) => SameOf(toClient[Pool], toClient'[Pool], types)
    BY <1>1, QueueSame DEF TypeOK, ServerDoes
  <1> QED
    BY <1>1, <1>2, <1>3 DEF ServerDoes

LEMMA ServerTakesQuietKept ==
    ASSUME TypeOK, CallsInv, KeyInv, ServerTakesQuiet
    PROVE  CallsInv' /\ KeyInv'
  <1>1. PICK t \in Targets : \E m \in ToServer[t], new \in ServerPools,
                                msgs \in Seq(ToClient[Pool]) :
             /\ ServerTakes(t, m, new, msgs) /\ new.requests = server.requests
             /\ Without(msgs, {"RunspaceAvailability", "EncryptedSessionKey"})
             /\ m.type \notin {"Request", "PublicKey"}
    BY DEF ServerTakesQuiet
  <1>2. PICK m \in ToServer[t], new \in ServerPools, msgs \in Seq(ToClient[Pool]) :
             /\ ServerTakes(t, m, new, msgs) /\ new.requests = server.requests
             /\ Without(msgs, {"RunspaceAvailability", "EncryptedSessionKey"})
             /\ m.type \notin {"Request", "PublicKey"}
    BY <1>1
  <1>3. /\ UNCHANGED client /\ server' = new /\ QuietServerQueue /\ QuietClientQueue
    BY <1>2, ServerTakesQueues DEF QuietClientQueue, QuietServerQueue
  <1>4. SameCalls(client, client')
    BY <1>3 DEF SameCalls
  <1> QED
    BY <1>2, <1>3, <1>4, AllKept
-----------------------------------------------------------------------------
(* What changes them *)

\* A queue with one message more, or less, counts one more, or less.
LEMMA OneMore ==
    ASSUME NEW queues, NEW Kinds, IsQueues(queues, Kinds), NEW m \in Kinds[Pool]
    PROVE  /\ Queue(queues, Pool, <<m>>)[Pool] = queues[Pool] \o <<m>>
           /\ queues[Pool] \in Seq(Kinds[Pool])
  <1>1. Pool \in Targets
    BY DEF Targets
  <1>2. <<m>> \in Seq(Kinds[Pool])
    BY ShortQueues
  <1>3. Queue(queues, Pool, <<m>>)[Pool] = queues[Pool] \o <<m>>
    BY <1>1, <1>2, QueueType, SMTT(30)
  <1> QED
    BY <1>1, <1>3 DEF IsQueues

LEMMA OneLess ==
    ASSUME NEW queues, NEW Kinds, IsQueues(queues, Kinds), queues[Pool] # <<>>
    PROVE  /\ [queues EXCEPT ![Pool] = Tail(@)][Pool] = Tail(queues[Pool])
           /\ queues[Pool] \in Seq(Kinds[Pool])
           /\ Head(queues[Pool]) \in Kinds[Pool]
  <1>1. Pool \in Targets
    BY DEF Targets
  <1>2. queues[Pool] \in Seq(Kinds[Pool])
    BY <1>1 DEF IsQueues
  <1> QED
    BY <1>1, <1>2, HeadTailProperties DEF IsQueues

LEMMA OneMoreOf ==
    ASSUME NEW queues, NEW Kinds, IsQueues(queues, Kinds), NEW m \in Kinds[Pool],
           NEW type
    PROVE  CountOf(Queue(queues, Pool, <<m>>)[Pool], type)
             = CountOf(queues[Pool], type) + (IF m.type = type THEN 1 ELSE 0)
  <1> DEFINE q   == queues[Pool]
             one == <<m>>
  <1>1. Queue(queues, Pool, <<m>>)[Pool] = q \o one
    BY OneMore
  <1>2. q \in Seq(Kinds[Pool]) /\ one \in Seq(Kinds[Pool])
    BY OneMore, ShortQueues
  <1>3. CountOf(one, type) = Indicator(m.type = type)
    BY CountsOne
  <1> HIDE DEF q, one
  <1>4. CountOf(q \o one, type) = CountOf(q, type) + CountOf(one, type)
    <2>1. \A ci : /\ CountOf(q \o one, type) = CountOf(q, type) + CountOf(one, type)
                  /\ CountCi(q \o one, type, ci) = CountCi(q, type, ci) + CountCi(one, type, ci)
      BY <1>2, CountsJoin
    <2> QED
      BY <2>1
  <1> QED
    BY <1>1, <1>3, <1>4 DEF q, one, Indicator

LEMMA OneMoreCi ==
    ASSUME NEW queues, NEW Kinds, IsQueues(queues, Kinds), NEW m \in Kinds[Pool],
           NEW type, NEW ci
    PROVE  CountCi(Queue(queues, Pool, <<m>>)[Pool], type, ci)
             = CountCi(queues[Pool], type, ci) + (IF m.type = type /\ m.ci = ci THEN 1 ELSE 0)
  <1> DEFINE q   == queues[Pool]
             one == <<m>>
  <1>1. Queue(queues, Pool, <<m>>)[Pool] = q \o one
    BY OneMore
  <1>2. q \in Seq(Kinds[Pool]) /\ one \in Seq(Kinds[Pool])
    BY OneMore, ShortQueues
  <1>3. CountCi(one, type, ci) = Indicator(m.type = type /\ m.ci = ci)
    BY CountsOne
  <1> HIDE DEF q, one
  <1>4. CountCi(q \o one, type, ci) = CountCi(q, type, ci) + CountCi(one, type, ci)
    BY <1>2, CountsJoin
  <1> QED
    BY <1>1, <1>3, <1>4 DEF q, one, Indicator

LEMMA OneMoreSame ==
    ASSUME NEW queues, NEW Kinds, IsQueues(queues, Kinds), NEW m \in Kinds[Pool],
           NEW types, m.type \notin types
    PROVE  SameOf(queues[Pool], Queue(queues, Pool, <<m>>)[Pool], types)
  <1>1. <<m>> \in Seq(Kinds[Pool]) /\ Without(<<m>>, types)
    BY ShortQueues
  <1> QED
    BY <1>1, QueueSame DEF Targets

LEMMA OneLessOf ==
    ASSUME NEW queues, NEW Kinds, IsQueues(queues, Kinds), queues[Pool] # <<>>,
           NEW type
    PROVE  CountOf(queues[Pool], type)
             = (IF Head(queues[Pool]).type = type THEN 1 ELSE 0)
               + CountOf([queues EXCEPT ![Pool] = Tail(@)][Pool], type)
  <1> DEFINE q == queues[Pool]
  <1>1. [queues EXCEPT ![Pool] = Tail(@)][Pool] = Tail(q)
    BY OneLess
  <1>2. q \in Seq(Kinds[Pool]) /\ q # <<>>
    BY OneLess
  <1> HIDE DEF q
  <1>3. CountOf(q, type) = Indicator(Head(q).type = type) + CountOf(Tail(q), type)
    <2>1. \A ci : /\ CountOf(q, type) = Indicator(Head(q).type = type) + CountOf(Tail(q), type)
                  /\ CountCi(q, type, ci)
                       = Indicator(Head(q).type = type /\ Head(q).ci = ci)
                         + CountCi(Tail(q), type, ci)
      BY <1>2, CountsTail
    <2> QED
      BY <2>1
  <1> QED
    BY <1>1, <1>3 DEF q, Indicator

LEMMA OneLessCi ==
    ASSUME NEW queues, NEW Kinds, IsQueues(queues, Kinds), queues[Pool] # <<>>,
           NEW type, NEW ci
    PROVE  CountCi(queues[Pool], type, ci)
             = (IF Head(queues[Pool]).type = type /\ Head(queues[Pool]).ci = ci THEN 1 ELSE 0)
               + CountCi([queues EXCEPT ![Pool] = Tail(@)][Pool], type, ci)
  <1> DEFINE q == queues[Pool]
  <1>1. [queues EXCEPT ![Pool] = Tail(@)][Pool] = Tail(q)
    BY OneLess
  <1>2. q \in Seq(Kinds[Pool]) /\ q # <<>>
    BY OneLess
  <1> HIDE DEF q
  <1>3. CountCi(q, type, ci) = Indicator(Head(q).type = type /\ Head(q).ci = ci)
                                 + CountCi(Tail(q), type, ci)
    BY <1>2, CountsTail
  <1> QED
    BY <1>1, <1>3 DEF q, Indicator

\* What sending each message does to the counts of its queue.
LEMMA RequestSent ==
    ASSUME TypeOK, NEW m \in ToServer[Pool], m.type = "Request",
           toServer' = Queue(toServer, Pool, <<m>>)
    PROVE  \A ci : CountCi(toServer'[Pool], "Request", ci)
                   = CountCi(toServer[Pool], "Request", ci) + (IF m.ci = ci THEN 1 ELSE 0)
  <1>1. IsQueues(toServer, ToServer)
    BY DEF TypeOK
  <1>2. \A type, ci : CountCi(Queue(toServer, Pool, <<m>>)[Pool], type, ci)
          = CountCi(toServer[Pool], type, ci) + (IF m.type = type /\ m.ci = ci THEN 1 ELSE 0)
    BY <1>1, OneMoreCi
  <1> QED
    BY <1>2

LEMMA ResponseSent ==
    ASSUME TypeOK, NEW m \in ToClient[Pool], m.type = "RunspaceAvailability",
           toClient' = Queue(toClient, Pool, <<m>>)
    PROVE  \A ci : CountCi(toClient'[Pool], "RunspaceAvailability", ci)
                   = CountCi(toClient[Pool], "RunspaceAvailability", ci)
                       + (IF m.ci = ci THEN 1 ELSE 0)
  <1>1. IsQueues(toClient, ToClient)
    BY DEF TypeOK
  <1>2. \A type, ci : CountCi(Queue(toClient, Pool, <<m>>)[Pool], type, ci)
          = CountCi(toClient[Pool], type, ci) + (IF m.type = type /\ m.ci = ci THEN 1 ELSE 0)
    BY <1>1, OneMoreCi
  <1> QED
    BY <1>2

LEMMA PublicKeySent ==
    ASSUME TypeOK, NEW m \in ToServer[Pool], m.type = "PublicKey",
           toServer' = Queue(toServer, Pool, <<m>>)
    PROVE  CountOf(toServer'[Pool], "PublicKey") = CountOf(toServer[Pool], "PublicKey") + 1
  <1>1. IsQueues(toServer, ToServer)
    BY DEF TypeOK
  <1>2. \A type : CountOf(Queue(toServer, Pool, <<m>>)[Pool], type)
                   = CountOf(toServer[Pool], type) + (IF m.type = type THEN 1 ELSE 0)
    BY <1>1, OneMoreOf
  <1> QED
    BY <1>2

LEMMA SessionKeySent ==
    ASSUME TypeOK, NEW m \in ToClient[Pool], m.type = "EncryptedSessionKey",
           toClient' = Queue(toClient, Pool, <<m>>)
    PROVE  CountOf(toClient'[Pool], "EncryptedSessionKey")
             = CountOf(toClient[Pool], "EncryptedSessionKey") + 1
  <1>1. IsQueues(toClient, ToClient)
    BY DEF TypeOK
  <1>2. \A type : CountOf(Queue(toClient, Pool, <<m>>)[Pool], type)
                   = CountOf(toClient[Pool], type) + (IF m.type = type THEN 1 ELSE 0)
    BY <1>1, OneMoreOf
  <1> QED
    BY <1>2

\* What taking each message does to the counts of its queue.
LEMMA RequestTaken ==
    ASSUME TypeOK, toServer[Pool] # <<>>, Head(toServer[Pool]).type = "Request",
           toServer' = [toServer EXCEPT ![Pool] = Tail(@)]
    PROVE  \A ci : CountCi(toServer[Pool], "Request", ci)
                   = (IF Head(toServer[Pool]).ci = ci THEN 1 ELSE 0)
                     + CountCi(toServer'[Pool], "Request", ci)
  <1> DEFINE m == Head(toServer[Pool])
             r == [toServer EXCEPT ![Pool] = Tail(@)]
  <1>1. IsQueues(toServer, ToServer)
    BY DEF TypeOK
  <1>2. \A type, ci : CountCi(toServer[Pool], type, ci)
          = (IF m.type = type /\ m.ci = ci THEN 1 ELSE 0) + CountCi(r[Pool], type, ci)
    BY <1>1, OneLessCi
  <1> QED
    BY <1>2

LEMMA ResponseTaken ==
    ASSUME TypeOK, toClient[Pool] # <<>>, Head(toClient[Pool]).type = "RunspaceAvailability",
           toClient' = [toClient EXCEPT ![Pool] = Tail(@)]
    PROVE  \A ci : CountCi(toClient[Pool], "RunspaceAvailability", ci)
                   = (IF Head(toClient[Pool]).ci = ci THEN 1 ELSE 0)
                     + CountCi(toClient'[Pool], "RunspaceAvailability", ci)
  <1> DEFINE m == Head(toClient[Pool])
             r == [toClient EXCEPT ![Pool] = Tail(@)]
  <1>1. IsQueues(toClient, ToClient)
    BY DEF TypeOK
  <1>2. \A type, ci : CountCi(toClient[Pool], type, ci)
          = (IF m.type = type /\ m.ci = ci THEN 1 ELSE 0) + CountCi(r[Pool], type, ci)
    BY <1>1, OneLessCi
  <1> QED
    BY <1>2

LEMMA PublicKeyTaken ==
    ASSUME TypeOK, toServer[Pool] # <<>>, Head(toServer[Pool]).type = "PublicKey",
           toServer' = [toServer EXCEPT ![Pool] = Tail(@)]
    PROVE  CountOf(toServer[Pool], "PublicKey") = 1 + CountOf(toServer'[Pool], "PublicKey")
  <1> DEFINE m == Head(toServer[Pool])
             r == [toServer EXCEPT ![Pool] = Tail(@)]
  <1>1. IsQueues(toServer, ToServer)
    BY DEF TypeOK
  <1>2. \A type : CountOf(toServer[Pool], type)
                   = (IF m.type = type THEN 1 ELSE 0) + CountOf(r[Pool], type)
    BY <1>1, OneLessOf
  <1> QED
    BY <1>2

LEMMA SessionKeyTaken ==
    ASSUME TypeOK, toClient[Pool] # <<>>, Head(toClient[Pool]).type = "EncryptedSessionKey",
           toClient' = [toClient EXCEPT ![Pool] = Tail(@)]
    PROVE  CountOf(toClient[Pool], "EncryptedSessionKey")
             = 1 + CountOf(toClient'[Pool], "EncryptedSessionKey")
  <1> DEFINE m == Head(toClient[Pool])
             r == [toClient EXCEPT ![Pool] = Tail(@)]
  <1>1. IsQueues(toClient, ToClient)
    BY DEF TypeOK
  <1>2. \A type : CountOf(toClient[Pool], type)
                   = (IF m.type = type THEN 1 ELSE 0) + CountOf(r[Pool], type)
    BY <1>1, OneLessOf
  <1> QED
    BY <1>2

\* Every number in a balance is a natural number.
LEMMA NumbersType ==
    ASSUME TypeOK, IsFiniteSet(server.requests), NEW ci
    PROVE  /\ CountCi(toServer[Pool], "Request", ci) \in Nat
           /\ Cardinality(Held(server.requests, ci)) \in Nat
           /\ CountCi(toClient[Pool], "RunspaceAvailability", ci) \in Nat
           /\ CountOf(toServer[Pool], "PublicKey") \in Nat
           /\ CountOf(toClient[Pool], "EncryptedSessionKey") \in Nat
  <1>1. toServer[Pool] \in Seq(ToServer[Pool]) /\ toClient[Pool] \in Seq(ToClient[Pool])
    BY DEF TypeOK, IsQueues, Targets
  <1> QED
    BY <1>1, CountsType, HeldType

\* A new request, with the call id that the count of the client gives it.
LEMMA AsksKept ==
    ASSUME TypeOK, CallsInv, KeyInv, Asks, UNCHANGED toClient
    PROVE  CallsInv' /\ KeyInv'
  <1>1. PICK kind \in {"available", "reset", "min", "max"},
             field \in {None, "min", "max"}, value \in Nat :
           SendRequest(kind, field, value)
    BY DEF Asks
  <1> DEFINE m == Request(kind, client.ci, value, client.n)
             h == [ci |-> client.ci, field |-> field, value |-> value]
  <1>2. PICK new \in ClientPools :
          /\ new.ci = client.ci + 1 /\ new.handlers = client.handlers \union {h}
          /\ new.raised = client.raised
          /\ new.keyRequested = client.keyRequested
          /\ new.key = client.key /\ new.cipher = client.cipher
          /\ m \in ToServer[Pool]
          /\ ClientDoes(new, Pool, <<m>>)
    BY <1>1, AsksDoes
  <1>3. m.type = "Request" /\ m.ci = client.ci /\ h.ci = client.ci
    BY DEF Request
  <1> HIDE DEF m, h
  <1>4. client' = new /\ UNCHANGED server /\ toServer' = Queue(toServer, Pool, <<m>>)
    BY <1>2 DEF ClientDoes
  <1>5. client.ci \in Nat /\ \A g \in client.handlers : g.ci \in Nat
    BY DEF TypeOK, ClientPools, Handlers
  <1>6. \A g \in client.handlers : g.ci < client.ci
    BY DEF CallsInv, HandlersDiffer
  <1>7. HandlersDiffer'
    BY <1>2, <1>3, <1>4, <1>5, <1>6 DEF CallsInv, HandlersDiffer
  <1>8. ASSUME NEW ci \in Nat
        PROVE  Balanced(ci)'
    <2> DEFINE a == CountCi(toServer[Pool], "Request", ci)
               b == Cardinality(Held(server.requests, ci))
               c == CountCi(toClient[Pool], "RunspaceAvailability", ci)
               next == CountCi(toServer'[Pool], "Request", ci)
    <2>1. a \in Nat /\ b \in Nat /\ c \in Nat
      BY NumbersType DEF CallsInv
    <2>2. next = a + Indicator(ci = client.ci)
      <3>1. next = a + (IF m.ci = ci THEN 1 ELSE 0)
        BY <1>2, <1>3, <1>4, RequestSent
      <3> QED
        BY <1>3, <3>1 DEF Indicator
    <2>3. Balanced(ci)' <=> Indicator(\E g \in new.handlers : g.ci = ci) = next + b + c
      BY <1>4 DEF Balanced
    <2>4. Balanced(ci) <=> Indicator(\E g \in client.handlers : g.ci = ci) = a + b + c
      BY DEF Balanced
    <2> HIDE DEF a, b, c, next
    <2>5. Balanced(ci)
      BY DEF CallsInv
    <2>6. CASE ci = client.ci
      <3>1. ~\E g \in client.handlers : g.ci = ci
        BY <1>5, <1>6, <2>6
      <3>2. a + b + c = 0
        BY <2>5, <2>4, <3>1 DEF Indicator
      <3>3. \E g \in new.handlers : g.ci = ci
        BY <1>2, <1>3, <2>6
      <3>4. next = a + 1
        BY <2>2, <2>6 DEF Indicator
      <3>5. next + b + c = 1
        BY <2>1, <3>2, <3>4
      <3> QED
        BY <2>3, <3>3, <3>5 DEF Indicator
    <2>7. CASE ci # client.ci
      <3>1. (\E g \in new.handlers : g.ci = ci) <=> \E g \in client.handlers : g.ci = ci
        BY <1>2, <1>3, <2>7
      <3>2. next = a
        BY <2>1, <2>2, <2>7 DEF Indicator
      <3> QED
        BY <2>5, <2>3, <2>4, <3>1, <3>2
    <2> QED
      BY <2>6, <2>7
  <1>9. SameOf(toServer[Pool], toServer'[Pool], {"PublicKey"})
    BY <1>2, <1>3, <1>4, OneMoreSame DEF TypeOK
  <1>10. KeyInv'
    BY <1>2, <1>4, <1>9, KeysKept, SameAlways
  <1> QED
    BY <1>2, <1>4, <1>7, <1>8, <1>10 DEF CallsInv

\* The client makes a key pair and sends its public key: nothing of an exchange
\* is on the way yet.
LEMMA ExchangeKept ==
    ASSUME TypeOK, CallsInv, KeyInv, ~client.keyRequested, StartExchange,
           QuietClientQueue
    PROVE  CallsInv' /\ KeyInv'
  <1>1. PICK new \in ClientPools :
          /\ new.ci = client.ci /\ new.handlers = client.handlers
          /\ new.cipher = client.cipher /\ new.keyRequested = TRUE /\ new.key = client.n
          /\ new.raised = client.raised
          /\ PublicKey(client.n) \in ToServer[Pool]
          /\ ClientDoes(new, Pool, <<PublicKey(client.n)>>)
    BY ExchangeDoes
  <1> DEFINE m == PublicKey(client.n)
             q == toServer[Pool]
             a == CountOf(q, "PublicKey")
             b == CountOf(toClient[Pool], "EncryptedSessionKey")
             next == CountOf(toServer'[Pool], "PublicKey")
  <1>2. m.type = "PublicKey" /\ m.key = client.n /\ m \in ToServer[Pool]
    BY <1>1 DEF PublicKey
  <1>3. client' = new /\ UNCHANGED server /\ toServer' = Queue(toServer, Pool, <<m>>)
    BY <1>1 DEF ClientDoes
  <1> HIDE DEF m
  <1>4. a \in Nat /\ b \in Nat
    BY NumbersType DEF CallsInv
  <1>5. Indicator(client.keyRequested) = a + b + Indicator(client.cipher)
    BY DEF KeyInv, OneExchange
  <1>6. CountOf(toClient'[Pool], "EncryptedSessionKey") = b
    BY DEF QuietClientQueue, SameOf
  <1>7. next = a + 1
    BY <1>2, <1>3, PublicKeySent
  <1>8. client.cipher \in BOOLEAN
    BY DEF TypeOK, ClientPools
  <1>9. /\ \A i \in DOMAIN q : a = 0 => q[i].type # "PublicKey"
        /\ \A i \in DOMAIN toClient[Pool] :
             b = 0 => toClient[Pool][i].type # "EncryptedSessionKey"
    <2>1. q \in Seq(ToServer[Pool]) /\ toClient[Pool] \in Seq(ToClient[Pool])
      BY DEF TypeOK, IsQueues, Targets
    <2> HIDE DEF q
    <2>2. \A type : CountOf(q, type) = 0 <=> \A i \in DOMAIN q : q[i].type # type
      BY <2>1, CountsType
    <2>3. \A type : CountOf(toClient[Pool], type) = 0
                      <=> \A i \in DOMAIN toClient[Pool] : toClient[Pool][i].type # type
      BY <2>1, CountsType
    <2> QED
      BY <2>2, <2>3
  <1>10. toServer'[Pool] = q \o <<m>> /\ q \in Seq(ToServer[Pool])
    BY <1>2, <1>3, OneMore DEF TypeOK
  <1>11. SameOf(toServer[Pool], toServer'[Pool], {"Request"})
    BY <1>2, <1>3, OneMoreSame DEF TypeOK
  <1>12. CallsInv'
    <2>1. SameOf(toClient[Pool], toClient'[Pool], {"RunspaceAvailability"})
      BY DEF QuietClientQueue, SameOf
    <2> QED
      BY <1>1, <1>3, <1>11, <2>1, CallsKept
  <1>13. \A i \in DOMAIN toClient'[Pool] :
           toClient'[Pool][i].type = "EncryptedSessionKey" =>
             \E j \in DOMAIN toClient[Pool] : toClient'[Pool][i] = toClient[Pool][j]
    BY DEF QuietClientQueue, SameOf
  <1> HIDE DEF a, b, next, q
  <1>14. a = 0 /\ b = 0 /\ ~client.cipher
    BY <1>4, <1>5, <1>8 DEF Indicator
  <1>15. OneExchange'
    <2>1. Indicator(new.keyRequested) = next + b + Indicator(new.cipher)
      BY <1>1, <1>7, <1>14 DEF Indicator
    <2> QED
      BY <1>3, <1>6, <2>1 DEF OneExchange, next
  <1>16. KeysMatch'
    <2>1. \A i \in DOMAIN (q \o <<m>>) :
            (q \o <<m>>)[i].type = "PublicKey" => (q \o <<m>>)[i] = m
      BY <1>9, <1>10, <1>14
    <2>2. \A i \in DOMAIN toClient'[Pool] : toClient'[Pool][i].type # "EncryptedSessionKey"
      BY <1>9, <1>13, <1>14
    <2> QED
      BY <1>1, <1>2, <1>3, <1>10, <2>1, <2>2 DEF KeysMatch
  <1> QED
    BY <1>1, <1>3, <1>12, <1>15, <1>16 DEF KeyInv

\* The server program answers one of the requests.
LEMMA RespondsKept ==
    ASSUME TypeOK, CallsInv, KeyInv, Responds, UNCHANGED toServer
    PROVE  CallsInv' /\ KeyInv'
  <1>1. PICK r \in server.requests, response \in BOOLEAN, new \in ServerPools :
          /\ new.requests = server.requests \ {r}
          /\ RunspaceAvailability(r.ci, response, r.n) \in ToClient[Pool]
          /\ ServerDoes(new, Pool, <<RunspaceAvailability(r.ci, response, r.n)>>)
    BY RespondsDoes
  <1> DEFINE m == RunspaceAvailability(r.ci, response, r.n)
  <1>2. m.type = "RunspaceAvailability" /\ m.ci = r.ci /\ m \in ToClient[Pool]
    BY <1>1 DEF RunspaceAvailability
  <1>3. server' = new /\ UNCHANGED client /\ toClient' = Queue(toClient, Pool, <<m>>)
    BY <1>1 DEF ServerDoes
  <1> HIDE DEF m
  <1>4. /\ IsFiniteSet(new.requests)
        /\ Cardinality(Held(server.requests, r.ci))
             = Cardinality(Held(new.requests, r.ci)) + 1
        /\ \A ci : ci # r.ci => Held(new.requests, ci) = Held(server.requests, ci)
    BY <1>1, HeldDrop DEF CallsInv
  <1>5. ASSUME NEW ci \in Nat
        PROVE  Balanced(ci)'
    <2> DEFINE a == CountCi(toServer[Pool], "Request", ci)
               b == Cardinality(Held(server.requests, ci))
               c == CountCi(toClient[Pool], "RunspaceAvailability", ci)
               less == Cardinality(Held(new.requests, ci))
               next == CountCi(toClient'[Pool], "RunspaceAvailability", ci)
    <2>1. a \in Nat /\ b \in Nat /\ c \in Nat /\ less \in Nat
      BY <1>4, NumbersType, HeldType DEF CallsInv
    <2>2. Balanced(ci)
      BY DEF CallsInv
    <2>3. next = c + (IF m.ci = ci THEN 1 ELSE 0)
      BY <1>2, <1>3, ResponseSent
    <2>4. b = less + (IF m.ci = ci THEN 1 ELSE 0)
      <3>1. CASE r.ci = ci
        BY <1>2, <1>4, <3>1
      <3>2. CASE r.ci # ci
        <4>1. less = b
          BY <1>4, <3>2
        <4> HIDE DEF less, b
        <4> QED
          BY <1>2, <2>1, <3>2, <4>1
      <3> QED
        BY <3>1, <3>2
    <2>5. Balanced(ci)' <=> Indicator(\E h \in client.handlers : h.ci = ci) = a + less + next
      BY <1>3 DEF Balanced
    <2>6. Balanced(ci) <=> Indicator(\E h \in client.handlers : h.ci = ci) = a + b + c
      BY DEF Balanced
    <2> HIDE DEF a, b, c, less, next
    <2>7. a + less + next = a + b + c
      BY <2>1, <2>3, <2>4
    <2> QED
      BY <2>2, <2>5, <2>6, <2>7
  <1>6. SameOf(toClient[Pool], toClient'[Pool], {"EncryptedSessionKey"})
    BY <1>2, <1>3, OneMoreSame DEF TypeOK
  <1>7. KeyInv'
    BY <1>3, <1>6, KeysKept, SameAlways
  <1> QED
    BY <1>3, <1>4, <1>5, <1>7 DEF CallsInv, HandlersDiffer

\* The request of a call becomes its record at the server.
LEMMA RequestTakenKept ==
    ASSUME TypeOK, CallsInv, KeyInv, TakesRequest
    PROVE  CallsInv' /\ KeyInv'
  <1>1. PICK m \in ToServer[Pool], new \in ServerPools :
          /\ m.type = "Request" /\ ServerTakes(Pool, m, new, <<>>)
          /\ new.requests = PutCi(server.requests, [ci |-> m.ci, kind |-> m.kind,
                                                    count |-> m.count, n |-> m.n])
    BY DEF TakesRequest
  <1> DEFINE e == [ci |-> m.ci, kind |-> m.kind, count |-> m.count, n |-> m.n]
  <1>2. /\ Pool \in Targets /\ <<>> \in Seq(ToClient[Pool])
        /\ Without(<<>>, {"RunspaceAvailability", "EncryptedSessionKey"})
        /\ m.type \notin {"PublicKey"}
    BY <1>1, ShortQueues DEF Targets
  <1>3. /\ UNCHANGED client /\ server' = new /\ QuietClientQueue
        /\ SameOf(toServer[Pool], toServer'[Pool], {"PublicKey"})
    BY <1>1, <1>2, ServerTakesQueues DEF QuietClientQueue
  <1>4. /\ toServer[Pool] # <<>> /\ m = Head(toServer[Pool])
        /\ toServer' = [toServer EXCEPT ![Pool] = Tail(@)]
    BY <1>1 DEF ServerTakes
  <1>5. e.ci = m.ci /\ new.requests = PutCi(server.requests, e)
    BY <1>1
  <1> HIDE DEF e
  <1>6. /\ IsFiniteSet(new.requests)
        /\ Cardinality(Held(new.requests, m.ci)) = 1
        /\ \A ci : ci # m.ci => Held(new.requests, ci) = Held(server.requests, ci)
    BY <1>5, HeldPut DEF CallsInv
  <1>7. ASSUME NEW ci \in Nat
        PROVE  Balanced(ci)'
    <2> DEFINE a == CountCi(toServer[Pool], "Request", ci)
               b == Cardinality(Held(server.requests, ci))
               c == CountCi(toClient[Pool], "RunspaceAvailability", ci)
               more == Cardinality(Held(new.requests, ci))
               next == CountCi(toServer'[Pool], "Request", ci)
               waits == \E h \in client.handlers : h.ci = ci
    <2>1. a \in Nat /\ b \in Nat /\ c \in Nat
      BY NumbersType DEF CallsInv
    <2>2. Balanced(ci)
      BY DEF CallsInv
    <2>3. a = (IF m.ci = ci THEN 1 ELSE 0) + next
      BY <1>1, <1>4, RequestTaken
    <2>4. CountCi(toClient'[Pool], "RunspaceAvailability", ci) = c
      BY <1>3 DEF QuietClientQueue, SameOf
    <2>5. Balanced(ci)' <=> Indicator(waits) = next + more + c
      BY <1>3, <2>4 DEF Balanced
    <2>6. Balanced(ci) <=> Indicator(waits) = a + b + c
      BY DEF Balanced
    <2>7. next \in Nat
      <3>1. toServer'[Pool] \in Seq(ToServer[Pool])
        BY <1>2, <1>4, TailType DEF TypeOK, IsQueues
      <3> HIDE DEF next
      <3> QED
        BY <3>1, CountsType DEF next
    <2>8. m.ci = ci => more = 1
      BY <1>6
    <2>9. m.ci # ci => more = b
      BY <1>6
    <2> HIDE DEF a, b, c, more, next, waits
    <2>10. Indicator(waits) \in {0, 1}
      BY DEF Indicator
    <2>11. CASE m.ci = ci
      <3>1. a = 1 + next /\ Indicator(waits) = a + b + c
        BY <2>2, <2>3, <2>6, <2>11
      <3>2. a = 1 /\ b = 0 /\ c = 0 /\ next = 0 /\ Indicator(waits) = 1
        BY <2>1, <2>7, <2>10, <3>1
      <3> QED
        BY <2>5, <2>8, <2>11, <3>2
    <2>12. CASE m.ci # ci
      BY <2>1, <2>2, <2>3, <2>5, <2>6, <2>7, <2>9, <2>12
    <2> QED
      BY <2>11, <2>12
  <1>8. SameOf(toClient[Pool], toClient'[Pool], {"EncryptedSessionKey"})
    BY <1>3 DEF QuietClientQueue, SameOf
  <1>9. KeyInv'
    BY <1>3, <1>8, KeysKept
  <1> QED
    BY <1>3, <1>6, <1>7, <1>9 DEF CallsInv, HandlersDiffer

\* The server answers a public key with the session key, encrypted for it.
LEMMA PublicKeyTakenKept ==
    ASSUME TypeOK, CallsInv, KeyInv, TakesPublicKey
    PROVE  CallsInv' /\ KeyInv'
  <1>1. PICK m \in ToServer[Pool], new \in ServerPools :
          /\ m.type = "PublicKey"
          /\ ServerTakes(Pool, m, new, <<EncryptedSessionKey(m.key)>>)
          /\ new.requests = server.requests
    BY DEF TakesPublicKey
  <1> DEFINE k == EncryptedSessionKey(m.key)
  <1>2. Pool \in Targets /\ m.type \notin {"Request"}
    BY <1>1 DEF Targets
  <1>3. k \in ToClient[Pool] /\ k.type = "EncryptedSessionKey" /\ k.key = m.key
    BY <1>1, <1>2 DEF EncryptedSessionKey, ToServer, ToClient, Capabilities
  <1>4. /\ toServer[Pool] # <<>> /\ m = Head(toServer[Pool])
        /\ toServer' = [toServer EXCEPT ![Pool] = Tail(@)]
        /\ server' = new /\ UNCHANGED client /\ toClient' = Queue(toClient, Pool, <<k>>)
    BY <1>1 DEF ServerTakes, ServerDoes
  <1> HIDE DEF k
  <1>5. SameOf(toServer[Pool], toServer'[Pool], {"Request"})
    BY <1>2, <1>4, TailSame DEF TypeOK
  <1>6. SameOf(toClient[Pool], toClient'[Pool], {"RunspaceAvailability"})
    BY <1>3, <1>4, OneMoreSame DEF TypeOK
  <1>7. CallsInv'
    BY <1>1, <1>4, <1>5, <1>6, CallsKept
  <1> DEFINE a == CountOf(toServer[Pool], "PublicKey")
             b == CountOf(toClient[Pool], "EncryptedSessionKey")
             less == CountOf(toServer'[Pool], "PublicKey")
             more == CountOf(toClient'[Pool], "EncryptedSessionKey")
  <1>8. a = 1 + less
    BY <1>1, <1>4, PublicKeyTaken
  <1>9. more = b + 1
    BY <1>3, <1>4, SessionKeySent
  <1>10. Indicator(client.keyRequested) = a + b + Indicator(client.cipher)
    BY DEF KeyInv, OneExchange
  <1>11. /\ toServer[Pool] \in Seq(ToServer[Pool])
         /\ toClient[Pool] \in Seq(ToClient[Pool])
         /\ toServer'[Pool] = Tail(toServer[Pool])
         /\ toClient'[Pool] = toClient[Pool] \o <<k>>
    BY <1>3, <1>4, OneMore, OneLess DEF TypeOK
  <1>12. a \in Nat /\ b \in Nat /\ less \in Nat
    <2>1. Tail(toServer[Pool]) \in Seq(ToServer[Pool])
      BY <1>4, <1>11, HeadTailProperties
    <2>2. less \in Nat
      BY <1>11, <2>1, CountsType
    <2> QED
      BY <2>2, NumbersType DEF CallsInv
  <1>13. m.key = client.key
    <2>1. 1 \in DOMAIN toServer[Pool] /\ m = toServer[Pool][1]
      BY <1>4, <1>11
    <2> QED
      BY <1>1, <2>1 DEF KeyInv, KeysMatch
  <1>14. KeysMatch'
    <2>1. \A i \in DOMAIN Tail(toServer[Pool]) :
            \E j \in DOMAIN toServer[Pool] : Tail(toServer[Pool])[i] = toServer[Pool][j]
      <3>1. \A i \in DOMAIN Tail(toServer[Pool]) :
              i + 1 \in DOMAIN toServer[Pool] /\ Tail(toServer[Pool])[i] = toServer[Pool][i + 1]
        BY <1>4, <1>11, HeadTailProperties
      <3> QED
        BY <3>1
    <2>2. \A i \in DOMAIN (toClient[Pool] \o <<k>>) :
            \/ \E j \in DOMAIN toClient[Pool] : (toClient[Pool] \o <<k>>)[i] = toClient[Pool][j]
            \/ (toClient[Pool] \o <<k>>)[i] = k
      BY <1>11
    <2>3. \A i \in DOMAIN toServer'[Pool] : toServer'[Pool][i].type = "PublicKey"
            => toServer'[Pool][i].key = client.key
      <3>1. \A i \in DOMAIN toServer[Pool] :
              toServer[Pool][i].type = "PublicKey" => toServer[Pool][i].key = client.key
        BY DEF KeyInv, KeysMatch
      <3> QED
        BY <1>11, <2>1, <3>1
    <2>4. \A i \in DOMAIN toClient'[Pool] : toClient'[Pool][i].type = "EncryptedSessionKey"
            => toClient'[Pool][i].key = client.key
      <3>1. \A i \in DOMAIN toClient[Pool] :
              toClient[Pool][i].type = "EncryptedSessionKey" => toClient[Pool][i].key = client.key
        BY DEF KeyInv, KeysMatch
      <3> QED
        BY <1>3, <1>11, <1>13, <2>2, <3>1
    <2> QED
      BY <1>4, <2>3, <2>4 DEF KeysMatch
  <1> HIDE DEF a, b, less, more
  <1>15. Indicator(client.cipher) \in {0, 1} /\ Indicator(client.keyRequested) \in {0, 1}
    BY DEF Indicator
  <1>16. Indicator(client.keyRequested) = less + more + Indicator(client.cipher)
    BY <1>8, <1>9, <1>10, <1>12, <1>15
  <1>17. OneExchange'
    BY <1>4, <1>16 DEF OneExchange, less, more
  <1> QED
    BY <1>4, <1>7, <1>14, <1>17 DEF KeyInv

\* A response reaches the client: the handler it pops was that of its call.
LEMMA AvailabilityKept ==
    ASSUME TypeOK, CallsInv, KeyInv, TakesAvailability
    PROVE  CallsInv' /\ KeyInv'
  <1>1. PICK m \in ToClient[Pool], new \in ClientPools :
          /\ m.type = "RunspaceAvailability"
          /\ ClientTakes(Pool, m, new)
          /\ SameExchange(client, new)
          /\ \/ \A h \in client.handlers : h.ci # m.ci
             \/ /\ new.raised = client.raised
                /\ \E h \in client.handlers :
                     h.ci = m.ci /\ new.handlers = client.handlers \ {h}
    BY AvailabilityDoes
  <1>2. Pool \in Targets /\ m.type \notin {"EncryptedSessionKey"}
    BY <1>1 DEF Targets
  <1>3. /\ UNCHANGED server /\ client' = new /\ QuietServerQueue
        /\ SameOf(toClient[Pool], toClient'[Pool], {"EncryptedSessionKey"})
    BY <1>1, <1>2, ClientTakesQueue
  <1>4. /\ toClient[Pool] # <<>> /\ m = Head(toClient[Pool])
        /\ toClient' = [toClient EXCEPT ![Pool] = Tail(@)]
    BY <1>1 DEF ClientTakes
  <1>5. \E h \in client.handlers : h.ci = m.ci
    <2> DEFINE a == CountCi(toServer[Pool], "Request", m.ci)
               b == Cardinality(Held(server.requests, m.ci))
               c == CountCi(toClient[Pool], "RunspaceAvailability", m.ci)
               less == CountCi(toClient'[Pool], "RunspaceAvailability", m.ci)
               waits == \E h \in client.handlers : h.ci = m.ci
    <2>1. a \in Nat /\ b \in Nat /\ c \in Nat
      BY NumbersType DEF CallsInv
    <2>2. c = 1 + less
      BY <1>1, <1>4, ResponseTaken
    <2>3. less \in Nat
      <3>1. toClient'[Pool] \in Seq(ToClient[Pool])
        BY <1>2, <1>4, TailType DEF TypeOK, IsQueues
      <3> HIDE DEF less
      <3> QED
        BY <3>1, CountsType DEF less
    <2>4. m.ci \in Nat
      BY <1>1, <1>2 DEF ToClient, Capabilities
    <2>5. Indicator(waits) = a + b + c
      BY <2>4 DEF CallsInv, Balanced
    <2> HIDE DEF a, b, c, less, waits
    <2>6. Indicator(waits) # 0
      BY <2>1, <2>2, <2>3, <2>5
    <2>7. waits
      BY <2>6 DEF Indicator
    <2> QED
      BY <2>7 DEF waits
  <1>6. /\ new.handlers \subseteq client.handlers
        /\ \A h \in client.handlers : h.ci # m.ci => h \in new.handlers
        /\ \A h \in new.handlers : h.ci # m.ci
    BY <1>1, <1>5 DEF CallsInv, HandlersDiffer
  <1>7. ASSUME NEW ci \in Nat
        PROVE  Balanced(ci)'
    <2> DEFINE a == CountCi(toServer[Pool], "Request", ci)
               b == Cardinality(Held(server.requests, ci))
               c == CountCi(toClient[Pool], "RunspaceAvailability", ci)
               less == CountCi(toClient'[Pool], "RunspaceAvailability", ci)
               waits == \E h \in client.handlers : h.ci = ci
               waiting == \E h \in new.handlers : h.ci = ci
    <2>1. a \in Nat /\ b \in Nat /\ c \in Nat
      BY NumbersType DEF CallsInv
    <2>2. Balanced(ci)
      BY DEF CallsInv
    <2>3. c = (IF m.ci = ci THEN 1 ELSE 0) + less
      BY <1>1, <1>4, ResponseTaken
    <2>4. CountCi(toServer'[Pool], "Request", ci) = a
      BY <1>3 DEF QuietServerQueue, SameOf
    <2>5. Balanced(ci)' <=> Indicator(waiting) = a + b + less
      BY <1>3, <2>4 DEF Balanced
    <2>6. Balanced(ci) <=> Indicator(waits) = a + b + c
      BY DEF Balanced
    <2>7. less \in Nat
      <3>1. toClient'[Pool] \in Seq(ToClient[Pool])
        BY <1>2, <1>4, TailType DEF TypeOK, IsQueues
      <3> HIDE DEF less
      <3> QED
        BY <3>1, CountsType DEF less
    <2>8. m.ci = ci => ~waiting
      BY <1>6
    <2>9. m.ci # ci => (waiting <=> waits)
      BY <1>6
    <2> HIDE DEF a, b, c, less, waits, waiting
    <2>10. Indicator(waits) \in {0, 1}
      BY DEF Indicator
    <2>11. CASE m.ci = ci
      <3>1. c = 1 + less /\ Indicator(waits) = a + b + c
        BY <2>2, <2>3, <2>6, <2>11
      <3>2. a = 0 /\ b = 0 /\ less = 0
        BY <2>1, <2>7, <2>10, <3>1
      <3>3. Indicator(waiting) = 0
        BY <2>8, <2>11 DEF Indicator
      <3> QED
        BY <2>5, <3>2, <3>3
    <2>12. CASE m.ci # ci
      <3>1. c = less
        BY <2>1, <2>3, <2>7, <2>12
      <3>2. Indicator(waiting) = Indicator(waits)
        BY <2>9, <2>12 DEF Indicator
      <3> QED
        BY <2>2, <2>5, <2>6, <3>1, <3>2
    <2> QED
      BY <2>11, <2>12
  <1>8. HandlersDiffer'
    BY <1>1, <1>3, <1>6 DEF CallsInv, HandlersDiffer, SameExchange
  <1>9. SameOf(toServer[Pool], toServer'[Pool], {"PublicKey"})
    BY <1>3 DEF QuietServerQueue, SameOf
  <1>10. KeyInv'
    BY <1>1, <1>3, <1>5, <1>9, KeysKept DEF SameExchange
  <1> QED
    BY <1>1, <1>3, <1>5, <1>7, <1>8, <1>10 DEF CallsInv

\* The session key reaches the client, which has the key pair it is meant for.
LEMMA KeyKept ==
    ASSUME TypeOK, CallsInv, KeyInv, TakesKey
    PROVE  CallsInv' /\ KeyInv'
  <1>1. PICK m \in ToClient[Pool], new \in ClientPools :
          /\ m.type = "EncryptedSessionKey"
          /\ ClientTakes(Pool, m, new)
          /\ new.ci = client.ci /\ new.handlers = client.handlers
          /\ new.keyRequested = client.keyRequested /\ new.key = client.key
          /\ new.cipher = (client.cipher \/ client.key = m.key)
          /\ client.key = m.key => new.raised = client.raised
    BY KeyDoes
  <1>2. Pool \in Targets /\ m.type \notin {"RunspaceAvailability"}
    BY <1>1 DEF Targets
  <1>3. /\ UNCHANGED server /\ client' = new /\ QuietServerQueue
        /\ SameOf(toClient[Pool], toClient'[Pool], {"RunspaceAvailability"})
    BY <1>1, <1>2, ClientTakesQueue
  <1>4. /\ toClient[Pool] # <<>> /\ m = Head(toClient[Pool])
        /\ toClient' = [toClient EXCEPT ![Pool] = Tail(@)]
    BY <1>1 DEF ClientTakes
  <1> DEFINE a == CountOf(toServer[Pool], "PublicKey")
             b == CountOf(toClient[Pool], "EncryptedSessionKey")
             less == CountOf(toClient'[Pool], "EncryptedSessionKey")
  <1>5. b = 1 + less
    BY <1>1, <1>4, SessionKeyTaken
  <1>6. Indicator(client.keyRequested) = a + b + Indicator(client.cipher)
    BY DEF KeyInv, OneExchange
  <1>7. /\ toClient[Pool] \in Seq(ToClient[Pool])
        /\ toClient'[Pool] = Tail(toClient[Pool])
    BY <1>4, OneLess DEF TypeOK
  <1>8. a \in Nat /\ b \in Nat /\ less \in Nat
    <2>1. Tail(toClient[Pool]) \in Seq(ToClient[Pool])
      BY <1>4, <1>7, HeadTailProperties
    <2>2. less \in Nat
      BY <1>7, <2>1, CountsType
    <2> QED
      BY <2>2, NumbersType DEF CallsInv
  <1>9. m.key = client.key
    <2>1. 1 \in DOMAIN toClient[Pool] /\ m = toClient[Pool][1]
      BY <1>4, <1>7
    <2> QED
      BY <1>1, <2>1 DEF KeyInv, KeysMatch
  <1>10. CallsInv'
    <2>1. SameOf(toServer[Pool], toServer'[Pool], {"Request"})
      BY <1>3 DEF QuietServerQueue, SameOf
    <2> QED
      BY <1>1, <1>3, <1>9, <2>1, CallsKept
  <1>11. CountOf(toServer'[Pool], "PublicKey") = a
    BY <1>3 DEF QuietServerQueue, SameOf
  <1>12. KeysMatch'
    <2>1. \A i \in DOMAIN toServer'[Pool] : toServer'[Pool][i].type = "PublicKey"
            => \E j \in DOMAIN toServer[Pool] : toServer'[Pool][i] = toServer[Pool][j]
      BY <1>3 DEF QuietServerQueue, SameOf
    <2>2. \A i \in DOMAIN toClient'[Pool] :
            i + 1 \in DOMAIN toClient[Pool] /\ toClient'[Pool][i] = toClient[Pool][i + 1]
      BY <1>4, <1>7, TailPlaces
    <2> QED
      BY <1>1, <1>3, <2>1, <2>2 DEF KeyInv, KeysMatch
  <1> HIDE DEF a, b, less
  <1>13. Indicator(client.cipher) \in {0, 1} /\ Indicator(client.keyRequested) \in {0, 1}
    BY DEF Indicator
  <1>14. less = 0 /\ a = 0 /\ Indicator(client.keyRequested) = 1
    BY <1>5, <1>6, <1>8, <1>13
  <1>15. new.cipher = TRUE
    BY <1>1, <1>9
  <1>16. OneExchange'
    <2>1. Indicator(new.cipher) = 1
      BY <1>15 DEF Indicator
    <2>2. Indicator(new.keyRequested) = a + less + Indicator(new.cipher)
      BY <1>1, <1>14, <2>1
    <2> QED
      BY <1>3, <1>11, <2>2 DEF OneExchange, less
  <1> QED
    BY <1>1, <1>3, <1>10, <1>9, <1>12, <1>16 DEF KeyInv
-----------------------------------------------------------------------------
(* Calls and key exchanges *)

\* A queue without messages counts nothing.
LEMMA NothingCounts ==
    ASSUME NEW type, NEW ci
    PROVE  CountOf(<<>>, type) = 0 /\ CountCi(<<>>, type, ci) = 0
  <1> DEFINE q == <<>>
  <1>1. q \in Seq({}) /\ DOMAIN q = {}
    OBVIOUS
  <1> HIDE DEF q
  <1>2. /\ CountOf(q, type) = 0 <=> \A i \in DOMAIN q : q[i].type # type
        /\ CountCi(q, type, ci) = 0
             <=> \A i \in DOMAIN q : ~(q[i].type = type /\ q[i].ci = ci)
    BY <1>1, CountsType
  <1> QED
    BY <1>1, <1>2 DEF q

\* A client that is new to a pool with nothing left to do.
LEMMA FreshHolds ==
    ASSUME NEW n \in Nat, NEW id, client' = NewClientPool(n, id),
           server'.requests = {}, toServer'[Pool] = <<>>, toClient'[Pool] = <<>>
    PROVE  CallsInv' /\ KeyInv'
  <1>1. /\ client'.handlers = {} /\ client'.keyRequested = FALSE
        /\ client'.cipher = FALSE /\ client'.raised = {}
    BY DEF NewClientPool
  <1>2. \A type : CountOf(<<>>, type) = 0 /\ \A ci : CountCi(<<>>, type, ci) = 0
    BY NothingCounts
  <1>3. IsFiniteSet({}) /\ \A ci : Cardinality(Held({}, ci)) = 0
    BY FS_EmptySet, HeldType
  <1>4. \A ci \in Nat : Balanced(ci)'
    BY <1>1, <1>2, <1>3 DEF Balanced, Indicator
  <1>5. OneExchange'
    BY <1>1, <1>2 DEF OneExchange, Indicator
  <1> QED
    BY <1>1, <1>3, <1>4, <1>5 DEF CallsInv, KeyInv, HandlersDiffer, KeysMatch

\* Every call of either side keeps the invariant.
LEMMA ClientCallKept ==
    ASSUME TypeOK, CallsInv, KeyInv, ClientCall, UNCHANGED toClient
    PROVE  CallsInv' /\ KeyInv'
  <1>1. ASSUME exchange_key
        PROVE  ~client.keyRequested /\ StartExchange
    BY <1>1 DEF exchange_key, CanExchangeKey
  <1> QED
    BY <1>1, ClientCallKinds, AsksKept, ExchangeKept, ClientQuietKept, QueuesUnchanged

LEMMA ServerCallKept ==
    ASSUME TypeOK, CallsInv, KeyInv, ServerCall, UNCHANGED toServer
    PROVE  CallsInv' /\ KeyInv'
  BY ServerCallKinds, RespondsKept, ServerQuietKept

\* Every event of either side keeps it.
LEMMA ClientEventKept ==
    ASSUME TypeOK, CallsInv, KeyInv, NEW t \in Targets, ClientNextEvent(t)
    PROVE  CallsInv' /\ KeyInv'
  <1>1. ASSUME AskedForKey
        PROVE  ~client.keyRequested /\ StartExchange /\ QuietClientQueue
    <2>1. Head(toClient[Pool]).type \notin {"RunspaceAvailability", "EncryptedSessionKey"}
      BY <1>1 DEF AskedForKey
    <2>2. QuietClientQueue
      BY <1>1, <2>1, TailSame DEF AskedForKey, QuietClientQueue, TypeOK, Targets
    <2> QED
      BY <1>1, <2>2 DEF AskedForKey, CanExchangeKey
  <1> QED
    BY <1>1, ClientEventKinds, ClientTakesQuietKept, ExchangeKept, AvailabilityKept, KeyKept

LEMMA ServerEventKept ==
    ASSUME TypeOK, CallsInv, KeyInv, NEW t \in Targets, ServerNextEvent(t)
    PROVE  CallsInv' /\ KeyInv'
  BY ServerEventKinds, ServerTakesQuietKept, RequestTakenKept, PublicKeyTakenKept

\* Which client it is changes only when one is replaced.
LEMMA SameClient ==
    ASSUME TypeOK,
           \/ ClientCall \/ ServerCall
           \/ \E t \in Targets : ClientNextEvent(t) \/ ServerNextEvent(t)
    PROVE  client'.n = client.n
  <1>1. CASE ClientCall
    <2>1. CASE exchange_key
      BY <2>1, ExchangeDoes DEF exchange_key, ClientDoes
    <2>2. CASE Asks
      BY <2>2, AsksDoes DEF Asks, ClientDoes
    <2>3. CASE ClientQuiet
      BY <2>3 DEF ClientQuiet, ClientDoes, SameCalls
    <2> QED
      BY <1>1, <2>1, <2>2, <2>3, ClientCallKinds
  <1>2. CASE ServerCall
    BY <1>2, ServerCallKinds, RespondsDoes DEF ServerQuiet, ServerDoes
  <1>3. ASSUME NEW t \in Targets, ClientNextEvent(t)
        PROVE  client'.n = client.n
    <2>1. CASE AskedForKey
      BY <2>1, ExchangeDoes DEF AskedForKey, ClientDoes
    <2>2. CASE TakesAvailability
      BY <2>2, AvailabilityDoes DEF ClientTakes, ClientChanges, ClientDoes, SameExchange
    <2>3. CASE TakesKey
      BY <2>3, KeyDoes DEF ClientTakes, ClientChanges, ClientDoes
    <2>4. CASE ClientTakesQuiet
      BY <2>4 DEF ClientTakesQuiet, ClientTakes, ClientChanges, ClientDoes, SameCalls
    <2> QED
      BY <1>3, <2>1, <2>2, <2>3, <2>4, ClientEventKinds
  <1>4. ASSUME NEW t \in Targets, ServerNextEvent(t)
        PROVE  client'.n = client.n
    BY <1>4, ServerEventKinds
    DEF ServerTakesQuiet, TakesRequest, TakesPublicKey, ServerTakes, ServerDoes
  <1> QED
    BY <1>1, <1>2, <1>3, <1>4

\* The invariant holds at first, and every step keeps it.
LEMMA SessionInitially == Init => SessionInv
  <1> SUFFICES ASSUME Init PROVE TypeOK /\ CallsInv /\ KeyInv
    BY DEF SessionInv
  <1>1. PICK id \in PoolIds : client = NewClientPool(1, id)
    BY DEF Init
  <1>2. /\ client.handlers = {} /\ client.keyRequested = FALSE
        /\ client.cipher = FALSE /\ client.raised = {}
    BY <1>1 DEF NewClientPool
  <1>3. server.requests = {} /\ toServer[Pool] = <<>> /\ toClient[Pool] = <<>>
    BY DEF Init, NewServerPool, Targets
  <1>4. \A type : CountOf(<<>>, type) = 0 /\ \A ci : CountCi(<<>>, type, ci) = 0
    BY NothingCounts
  <1>5. IsFiniteSet({}) /\ \A ci : Cardinality(Held({}, ci)) = 0
    BY FS_EmptySet, HeldType
  <1>6. \A ci \in Nat : Balanced(ci)
    BY <1>2, <1>3, <1>4, <1>5 DEF Balanced, Indicator
  <1>7. OneExchange
    BY <1>2, <1>3, <1>4 DEF OneExchange, Indicator
  <1>8. TypeOK
    BY InitTypes
  <1> QED
    BY <1>2, <1>3, <1>5, <1>6, <1>7, <1>8
    DEF CallsInv, KeyInv, HandlersDiffer, KeysMatch

LEMMA SessionStep == SessionInv /\ [Next]_vars => SessionInv'
  <1> SUFFICES ASSUME SessionInv, [Next]_vars PROVE SessionInv'
    OBVIOUS
  <1>1. TypeOK /\ TypeOK'
    BY NextTypes DEF SessionInv
  <1> SUFFICES ASSUME Undisturbed' PROVE CallsInv' /\ KeyInv'
    BY <1>1 DEF SessionInv
  <1>2. ASSUME client'.n = client.n
        PROVE  CallsInv /\ KeyInv
    BY <1>2 DEF SessionInv, Undisturbed
  <1>3. CASE ClientCall /\ UNCHANGED toClient
    BY <1>1, <1>2, <1>3, SameClient, ClientCallKept
  <1>4. CASE ServerCall /\ UNCHANGED toServer
    BY <1>1, <1>2, <1>4, SameClient, ServerCallKept
  <1>5. CASE NextEvent
    <2>1. PICK t \in Targets : ClientNextEvent(t) \/ ServerNextEvent(t)
      BY <1>5 DEF NextEvent
    <2> QED
      BY <1>1, <1>2, <2>1, SameClient, ClientEventKept, ServerEventKept
  <1>6. CASE ClientReplaced
    <2>1. PICK id \in PoolIds : client' = NewClientPool(client.n + 1, id)
      BY <1>6 DEF ClientReplaced
    <2>2. client.n \in Nat \ {0} /\ client'.n = client.n + 1
      BY <1>1, <2>1 DEF TypeOK, ClientPools, NewClientPool
    <2>3. DrainFirst
      BY <2>2 DEF Undisturbed
    <2>4. /\ server.requests = {} /\ UNCHANGED server
          /\ \A t \in Targets : toServer[t] = <<>> /\ toClient[t] = <<>>
      BY <1>6, <2>3 DEF ClientReplaced, NothingPending
    <2>5. \A t \in Targets : toServer'[t] = <<>> /\ toClient'[t] = <<>>
      BY <1>1, <1>6, <2>4, PartsType DEF ClientReplaced, TypeOK
    <2>6. client.n + 1 \in Nat /\ Pool \in Targets
      BY <2>2 DEF Targets
    <2> QED
      BY <2>1, <2>4, <2>5, <2>6, FreshHolds
  <1>7. CASE UNCHANGED vars
    <2>1. UNCHANGED <<client, server, toServer, toClient>>
      BY <1>7 DEF vars
    <2>2. CallsInv /\ KeyInv
      BY <1>2, <2>1
    <2>3. CallsInv'
      BY <2>1, <2>2, CallsKept, SameAlways
    <2>4. KeyInv'
      BY <2>1, <2>2, KeysKept, SameAlways
    <2> QED
      BY <2>3, <2>4
  <1> QED
    BY <1>3, <1>4, <1>5, <1>6, <1>7 DEF Next

\* What it says of the properties that are checked.
LEMMA SessionPromises ==
    SessionInv => /\ Undisturbed => CallsAccounted
                  /\ Undisturbed => OneExchange
                  /\ Undisturbed => client.raised \intersect Answers = {}
  <1>1. \A ci \in CallIds : ci \in Nat
    BY DEF CallIds
  <1> QED
    BY <1>1 DEF SessionInv, CallsInv, KeyInv, Balanced, Held, CallsAccounted, Answers

\* CallsAreAccounted: as long as no client takes over from one that something
\* is still due to, every call whose handler _ci_handlers keeps is in exactly
\* one place, its request on the way, its record at the server or its response
\* on the way, and a call without a handler is in none: no response is lost or
\* comes twice, for any number of calls and any order of the answers.
THEOREM CallsAreAccounted == Spec => [](Undisturbed => CallsAccounted)
  BY SessionInitially, SessionStep, SessionPromises, PTL DEF Spec

\* OneKeyExchange: whichever side starts it, and if both do at once, a client
\* that has asked for the session key has one public key on the way, or one
\* session key on the way back, or the key.
THEOREM OneKeyExchange == Spec => [](Undisturbed => OneExchange)
  BY SessionInitially, SessionStep, SessionPromises, PTL DEF Spec

\* AnswersAccepted: next_event() of a client never raises for a response or a
\* session key: _ci_handlers.pop(ci) finds the call, and the key decrypts with
\* the key pair the client has kept.
THEOREM AnswersAccepted ==
    Spec => [](Undisturbed => client.raised \intersect Answers = {})
  BY SessionInitially, SessionStep, SessionPromises, PTL DEF Spec
-----------------------------------------------------------------------------
(* The documented use *)

\* What the documents show the two programs do is part of what they may do.
LEMMA DocumentedIsAllowed == DocumentedNext => Next
  <1>1. DocumentedClientCall => ClientCall
    BY DEF DocumentedClientCall, ClientCall, ClientPipelineCall
  <1>2. DocumentedServerCall => ServerCall
    BY DEF DocumentedServerCall, ServerCall, ServerPipelineCall, ServerRuns
  <1>3. DocumentedEvent => NextEvent
    BY DEF DocumentedEvent, NextEvent
  <1> QED
    BY <1>1, <1>2, <1>3 DEF DocumentedNext, Next

\* DocumentedCalls: so the promises about calls and keys hold for the documented
\* use too, and with the fairness assumed for either.
THEOREM DocumentedCalls ==
    DocumentedSpec \/ FairSpec =>
        [](Undisturbed => CallsAccounted /\ OneExchange)
  <1>1. [DocumentedNext]_vars => [Next]_vars
    BY DocumentedIsAllowed
  <1>2. DocumentedSpec \/ FairSpec => Spec
    BY <1>1, PTL DEF DocumentedSpec, FairSpec, Spec
  <1> QED
    BY <1>2, CallsAreAccounted, OneKeyExchange, PTL
=============================================================================
