---------------------------- MODULE RunspacePool ----------------------------
(***************************************************************************)
(* What the client and the server pool share: psrpcore._base, the states   *)
(* of a pool and of a pipeline, and the messages.  Each pool is a record of*)
(* the fields of its object.  Between the two, every target (the pool and  *)
(* each pipeline) has a queue in each direction: the PSRPChannel that the  *)
(* fragment layer implements (PSRPFragments).  prepare_message() appends to*)
(* one of them, next_event() takes the head of one and runs its handler.   *)
(***************************************************************************)
EXTENDS Naturals, Sequences, FiniteSets

CONSTANTS
    Pool,           \* the target of a message without a pipeline id
    Pipelines,      \* the pipeline ids
    PoolIds,        \* the runspace pool ids of the clients
    Counts,         \* runspace counts a caller asks for
    ClientVersion,  \* protocol version of each side, 23 for 2.3
    ServerVersion,
    Calls,          \* the operations the two programs use in an instance
    MaxCi,          \* bound: call ids and host calls in a session
    MaxQueue,       \* bound: a caller adds to a queue shorter than this
    MaxClients      \* bound: client objects, one after the other

NoId  == "EMPTY_UUID"
Void  == 0              \* the ci -100 of a host call that has no result
None  == "None"

ASSUME RunspacePoolAssumption ==
    /\ Pool \notin Pipelines
    /\ NoId \notin PoolIds
    /\ Counts \subseteq Nat \ {0}
    /\ ClientVersion \in 20..23 /\ ServerVersion \in 20..23
    /\ MaxCi \in Nat /\ MaxQueue \in Nat /\ MaxClients \in Nat

VARIABLES client, server, toServer, toClient

vars == <<client, server, toServer, toClient>>

Targets == {Pool} \union Pipelines

PoolStates == {"BeforeOpen", "Opening", "Opened", "Closed", "Closing", "Broken",
               "Disconnecting", "Disconnected", "Connecting"}

\* PSInvocationState without Failed and Disconnected, which no server of this
\* package reaches.
PipelineStates == {"NotStarted", "Running", "Stopping", "Stopped", "Completed"}

\* The protocol versions of _payload.ProtocolVersion.
Win7RC == 20
Pwsh5  == 23

\* getattr(their_capability, "protocolversion", Win7RC)
TheirVersion(pool) == IF pool.cap = 0 THEN Win7RC ELSE pool.cap
-----------------------------------------------------------------------------
(* Messages *)

SessionCapability(version, id) ==
    [type |-> "SessionCapability", version |-> version, rpid |-> id]
InitRunspacePool(min, max) ==
    [type |-> "InitRunspacePool", min |-> min, max |-> max]
RunspacePoolInitData(min, max) ==
    [type |-> "RunspacePoolInitData", min |-> min, max |-> max]
RunspacePoolStateMsg(s) == [type |-> "RunspacePoolState", state |-> s]
PipelineState(s)        == [type |-> "PipelineState", state |-> s]

\* SetMaxRunspaces, SetMinRunspaces, ResetRunspaceState, GetAvailableRunspaces.
\* n, here and below, is the client object the message comes from or answers.
Request(kind, ci, count, n) ==
    [type |-> "Request", kind |-> kind, ci |-> ci, count |-> count, n |-> n]
RunspaceAvailability(ci, response, n) ==
    [type |-> "RunspaceAvailability", ci |-> ci, response |-> response, n |-> n]

PublicKey(n)           == [type |-> "PublicKey", key |-> n]
EncryptedSessionKey(n) == [type |-> "EncryptedSessionKey", key |-> n]

\* PipelineHostCall or RunspacePoolHostCall, by the queue it is in.
HostCall(ci)     == [type |-> "HostCall", ci |-> ci]
HostResponse(ci) == [type |-> "HostResponse", ci |-> ci]

Plain(type) == [type |-> type]
-----------------------------------------------------------------------------
(* Fields and operations of both pools *)

NoPipes == [p \in Pipelines |-> None]

Called(op)      == op \in Calls
Room(queues, t) == Len(queues[t]) < MaxQueue
Queue(queues, t, msgs) == [queues EXCEPT ![t] = @ \o msgs]

CanClose(pool) ==
    /\ pool.table = {}
    /\ pool.state \in {"Closed", "Closing", "Opened"}
CanDisconnect(pool) == pool.state \in {"Opened", "Disconnecting", "Disconnected"}
CanReconnect(pool)  == pool.state \in {"Disconnected", "Opened"}

SetState(pool, s)     == [pool EXCEPT !.state = s]
Raise(pool, what)     == [pool EXCEPT !.raised = @ \union {what}]
SetPipe(pool, p, s)   == [pool EXCEPT !.pipes[p] = s]

\* An entry of a dict keyed by the call id replaces the one already there.
PutCi(dict, entry) == {e \in dict : e.ci # entry.ci} \union {entry}

\* Pipeline.__init__, begin_stop and close
CanCreate(pool, p) == pool.pipes[p] = None
Created(pool, p)   == [SetPipe(pool, p, "NotStarted") EXCEPT !.table = @ \union {p}]
CanBeginStop(pool, p) == pool.pipes[p] \in {"Running", "Stopping"}
CanStart(pool, p) == pool.pipes[p] \in {"NotStarted", "Stopped", "Completed"}
CanClosePipeline(pool, p) ==
    pool.pipes[p] \in {"NotStarted", "Stopped", "Stopping", "Completed"}
ClosedPipeline(pool, p) == [pool EXCEPT !.table = @ \ {p}]
=============================================================================
