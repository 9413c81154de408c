# Verification of psrpcore

psrpcore implements the PowerShell Remoting Protocol without doing any I/O. A
program feeds bytes into a `ClientRunspacePool` or a `ServerRunspacePool`, takes
bytes out, and calls methods on it; everything between (fragments, messages, the
state machines of the pool and of its pipelines, call ids, key exchange, CLIXML)
is this package's. The modules here model that logic in TLA+, check it with TLC
on small instances, and prove part of it with TLAPS for every instance.

## 1. The system

| component | source | state it keeps | operations |
|-|-|-|-|
| fragment layer | `_base.py`, `_payload.py` | send buffer, fragment counter, receive buffer, chunks per object id, combined messages | `prepare_message`, `data_to_send`, `receive_data`, `next_event` |
| client pool | `_client.py`, `_base.py` | state, capability, runspace counts, `_ci_count`, `_ci_handlers`, `_ci_events`, key, pipeline table | `open` ... `close`, the requests with a call id, `exchange_key`, `host_response`, one `_process_` handler per message |
| server pool | `_server.py`, `_base.py` | state, counts, `_ci_events`, `_ci_handlers`, `_ci_count`, `_key_requested`, pipeline table | `connect` ... `close`, `set_broken`, `host_call`, `request_key`, `runspace_availability_response`, the `_process_` handlers |
| pipelines | `_client.py`, `_server.py`, `_base.py` | state, membership of the pool's table, metadata on the server | `start`, `send`, `begin_stop`, `stop`, `complete`, `close`, `write_*`, `host_call` |
| session key | `_crypto.py` | the registered key | `register_key`, `encrypt`, `decrypt` |
| messages | `types/_psrp.py`, `_payload.py` | none | `create_message`, `unpack_message` |
| CLIXML serializer | `types/_serializer.py` | reference tables of one document | `serialize`, `deserialize` |
| PowerShell types | `types/_base.py`, `_primitive.py`, `_collection.py`, `_complex.py`, `_enum.py` | properties and type names of a class and of an object, the registry of type names | `PSType`, `add_member`, reading and setting properties, `rehydrate`, arithmetic and bounds of numbers |
| events | `_events.py` | none | message type to event class, decoding of the parameters and results of host calls |
| commands | `_command.py`, `_pipeline.py`, `_client.py` | commands with their parameters and redirections, settings of a `PowerShell` or `GetMetadata` | `add_command`, `add_script`, `add_parameter`, `add_statement`, the `redirect_` methods, `start` |
| host calls | `_host.py`, `types/_host.py` | none | one method per host method on both sides, conversion of their values, void methods |
| CLIXML shell | `_clixml_shell.py` | values not sent yet, whether the marker was written | `write_*`, `data_to_send`, `from_clixml` |

Components interact in four ways: by method calls inside one process (pipeline to
pool, pool to fragment layer), by messages between the two processes, by tables
keyed with numbers both sides count (object ids, call ids), and by handlers kept
for a call id and run when its response is processed.

What is hard here, and where tests hardly reach: payloads of two targets overtake
each other and are lost with a connection; `next_event()` runs a handler for a
message sent before a local state change; both sides begin the same exchange;
responses come in another order than the calls; a second client takes over a pool
that keeps records of the first, while both kinds of number start again at 1; the
handler of a message raises after the message is gone. The `hazards` of
`PROJECT.json` list them by line.

Correct means:

* fragment layer: what `next_event()` returns is, for each target, what the peer
  queued, once, whole and in order; a payload has one target and fits its amount;
* pools: a call has one handler and one response; the counts and the states of the
  two sides meet; a client that is Opened has been accepted; opening ends;
* pipelines: both sides see the same end, after all the output;
* key: one exchange, which ends; host calls: answered once and not forgotten, with the
  parameters and the result they were given;
* commands: the server reads the statements, redirections and settings the client
  program has put together;
* objects: what is set is read, on that object and no other; the object that is read
  back has its values, groups and class;
* serializer: what is read is what was written, sharing included, to a tick of time;
* shell: what was sent is read once, in its stream and in order;
* times: dates and durations add up to the nanosecond.

## 2. Modules

```
PSRPChannel          one queue per target: the promise of the fragment layer
PSRPFragments        prepare_message ... next_event over a transport; implements PSRPChannel
PSRPFragmentsProofs  TypeOK, Integrity, OneTarget, PayloadFits, NoFragmentError and
                     ImplementsChannel, proved
RunspacePool         what both pools share; a session runs over the queues of PSRPChannel
ClientRunspacePool   EXTENDS RunspacePool: the client and its pipelines
ServerRunspacePool   EXTENDS RunspacePool: the server and its pipelines
Session              EXTENDS both: the composition, and who may call what
SessionProperties    EXTENDS Session: what the two callers are promised
SessionProofs        TypeOK of a session, CallsAccounted and OneExchange, proved
DocumentedSessionProofs  pipelines, opening, failures and counts of the documented use, proved
HostTypes            the types of a host, as they are sent and read
ServerHostRequestor  EXTENDS HostTypes: the call each method makes
ClientHostResponder  EXTENDS HostTypes: what each method answers
HostCalls            EXTENDS HostTypes, with an INSTANCE of the two: calls, events, answers
HostCallsProofs      CallsAwaited, ParametersKept, OptionsKept and ResultIsOwn, proved
Commands             EXTENDS HostTypes: the builder of a pipeline and its reader
PipelinePrograms     EXTENDS Commands, HostCalls: the two programs of one pipeline
CommandsProofs       StatementsKept, RedirectionsKept and SettingsKept, proved
MCPipelinePrograms   the settings, hosts and buffers of the run
PSObjects            classes, their objects and properties, and the copy read back
PSObjectsProofs      SetIsRead, OneChanges, ReadAsSent and KindKept, proved
MCPSObjects          the declarations of the runs
ClixmlReferences     one document: shared objects and type names, written and read
ClixmlReferencesProofs  ReferencesKnown, GraphKept and NamesKept, proved
PSTimes              the arithmetic of PSDateTime and PSDuration
ClixmlValues         EXTENDS PSTimes: the text of strings, durations, dates and ints
ClixmlShell          EXTENDS ClixmlValues: a program, its ClixmlShell and the reader
ClixmlShellProofs    the arithmetic of PSTimes and ClockExact, proved
MCClixmlShell        the strings and times of the runs
```

### PSRPFragments

A message is the interval of its bytes; a fragment carries `[lo, hi)` of it with
its object id, fragment id and end flag. `prepare_message` counts the object id
and appends to `send_buffer`. `data_to_send(amount)` is the loop of the code in one
step: `IsRoom` is the value of `amount` in each round (the code takes away the whole
message, also when only a part of it fits), `StopsAfter` the condition the loop
ends on. `receive_data(c)` appends the fragments of one payload to the receive
buffer. `UnpackFragment` is one round of the first loop of `next_event()` and
`ReturnEvent` the return of one combined message. `Reconnect` is
`ServerRunspacePool.connect()` with a blank client at the other end: the server
counts object ids from 1 again and leaves its buffers, the client is a new object.

`Lose` and `Duplicate` are external: the transport. It keeps the order of one
target's payloads and nothing else; with `SplitStreams` it also delivers each
stream type on its own.

### The session

A pool is a record with the fields of its object. A call that the code refuses
with an exception, or that returns at once, changes nothing and is not enabled; an
exception raised by a handler in `next_event()` has consumed its message and is
kept in the field `raised`. `ClientNextEvent(t)` and `ServerNextEvent(t)` take the
head of one target's queue and run the whole handler, with every message it queues.
`receive_data()` of a server that is BeforeOpen makes it Opening; that is part of
`ServerNextEvent`, since nothing else can be seen in between. `requests` of the
server stands for `_ci_events` and `_ci_handlers`, which have the same keys;
`handlers` of the client for `_ci_handlers`, with the value and the field the
handler will set; `answered` and `calls` are history. `n` numbers the client
objects, so that a message remembers which client it comes from or answers.

`ClientReplaced` ends the client's process at any moment the server is
Disconnected: of each queue to the server any front part has been received, of each
queue to the client any back part had not been sent.

Two specifications differ in who calls what. `Spec` lets both programs call
anything the code accepts at any moment. `DocumentedSpec` keeps to
`docs/scenarios.md` for the operations whose other half is done by the transport:
the two sides are told of a close, of a disconnection and of a new pipeline. `DrainFirst`,
here and in `PSRPFragments`, is an assumption on the programs and not a check of the
code: a client is replaced only when nothing is due to it any more (`NothingPending`),
or nothing of it is unprocessed (`Drained`). `ServerRunspacePool.connect()` neither checks nor
ensures it. Its TODO asks for the part about incoming fragments and messages; that the server holds
no request of the client before, and has nothing left to send to it, is more than the TODO says.
What happens otherwise is under "Disagreements".

### The two programs of a pipeline

`Session` knows of a host call and of a pipeline that they are there; what is in them
is here. A value is tagged with its type (`HostTypes`), since what a conversion may
confuse is a colour with an int, or one overload with another. `ForHost` is what the
methods make of a value before they send it; the `_From` operators and
`_decode_host_call_parameters` get the types back, by the method and the place alone.
`ServerHostRequestor` and `ClientHostResponder` have one operator per method.

In `HostCalls` a server program calls any method with any of its overloads, for the
pool or the pipeline. `host_call` counts the id, `ProcessHostCall` is the client's
handler together with the event its program reads, `Answer` the client program with
`host_response` of the pool or the pipeline, which keeps the call if the answer cannot
be sent: a secure string before `KeyExchanged`, or an array without rows.
`ProcessHostResponse` is the event the server program reads. `waiting` and `answered`
are history: the ids a program was given and what was answered to them.

In `Commands` a `Command` is an object that a program may keep and add twice, so
`commands` are indices into `objects`. `meant` and `wanted` are history: the statements
and redirections the program asked for, in its own terms. `PowerShell_To` and
`Command_To` are the message of `start`, by the protocol version of the peer;
`PowerShell_From` is `metadata` of the server's pipeline.

`PipelinePrograms` puts the two together: first one pipeline is built, started and read
(`Building`), then the server starts it and the host calls begin (`Calling`). The
settings of a pipeline do not depend on its commands and are varied for one command only; a
redirection is of the command added last, which a program has at hand as the
last of `metadata.commands`.

### Objects

A property is a Python object, and whether two lists hold the same one or a copy is
what can go wrong: `props` has all of them and lists are indices into it. `Meta` is
what the decorator `PSType` makes (lists of its own, with the properties of the base
in them), `Instance` what `PSObject.__new__` copies, `Inserted` the list that
`add_member` leaves. `Get` and `Place` are `__getattribute__` and `__setattr__`, which
look for a name in different orders: `Seen` and `Chosen`. They follow aliases and
script properties from name to name (`Lookup`, `Setting`); a chain that has not ended after as
many names as there are (`Depth`) never does. The getter and setter of a script property are any functions in
the code and here those of the docs, which read and set another name. `Remote` is
`serialize` and `deserialize` of one object: `Blank` the object `rehydrate` makes, and
`Merged` the values that are put into it. Arguments of `__init__` are `SetAttr` after
`New`. An undecorated subclass, which has its base's properties for its own, is not
modelled.

### CLIXML

The graph and the text of a document are modelled apart, since they have nothing in
common. `ClixmlReferences` takes the program's objects, with any properties, entries
and type names, and writes and reads one element in a step: `WriteObj` and `ReadObj`
are what `serialize` and `deserialize` of `_Serializer` do before they go into the
children. `Children` has their order, which is not the same on the two sides:
the reader meets entries first, properties last, and the value of a dict entry before
its key. `Key` is what the writer looks a reference up by. The conditions of the
properties (`Straight`, `NamesByFirst`, `Referable`) say for which graphs the format
keeps what they state; what happens outside of them is under "Disagreements".

`ClixmlValues` has the text. A string is a sequence of code points, escaped by the
two substitutions of `_serialize_string` and read through its UTF-16 bytes, where a
match may start at any byte, as in the code. Numbers are digits only where the code
looks at digits (`rstrip(".0")`, `ljust(7, "0")`, the number of digits of a
fraction). The number of digits is a constant: with one digit of microseconds and two
of nanoseconds TLC meets every unit and every carry within its integers. Dates
count from the year 1000, since what is before cannot be read (`ShortYear`).

`ClixmlShell` is the object with its buffer and marker, the program that writes to it and
puts each piece that `data_to_send()` returns on its stdout or stderr, and the reader of the two.
As in `docs/minishell.md` the reader passes both to `from_clixml`, each as one text: all
the pieces written to it. `deserialize_clixml` parses a text as one document, and two pieces are two
root elements (`OneRoot`). The program also keeps a `PSDateTime` that it sets
forward and back and writes, with the time elapsed: that is how a program comes by
one with any nanoseconds. `Supported` says which values the format takes; what it
leaves out is under "Disagreements".

### Fairness

`next_event()` is called as long as it returns something (weak fairness on both
sides and every target): every example of the docs has that loop. The server program
answers the requests it is shown (`Responds`); without it no call could end. In
`DocumentedSpec` the server program also starts and completes the pipelines it was
asked to run; that fairness is strong only because the bound `MaxQueue` can disable
the step while the queue is full, which the code never does. In `PSRPFragments` the
caller sends, delivers and processes; nothing is assumed of faults. `serialize` and
`deserialize` are loops: `DocumentEnds` assumes that they go on.

## 3. Runs

| run | asks | bounds |
|-|-|-|
| `fragments_in_order` | does the layer implement `PSRPChannel`, does every message arrive, does a payload fit and keep to one target | 2 messages of 1 or 4 bytes, header 1, amounts 2, 3 and 7, 2 targets, 2 streams |
| `fragments_faults` | are only whole messages returned under loss, duplication, delivery by stream and a drained reconnection | 2 messages, 2 faults, 1 reconnection |
| `session_calls` | calls with handlers and counts, and the key exchange started from both sides | 2 call ids, 2 counts, queues of 3 |
| `session_lifecycle` | open, disconnect, reconnect, break, close, a second client with nothing due to the first (assumed) | 2 clients, 2 call ids, 2 counts |
| `session_pipelines` | a pipeline created, run, stopped, closed, with host calls of it and of the pool | 1 pipeline, 1 host call, queues of 3 |
| `pipeline_programs` | what a program builds, calls and answers: is it what the other reads | 4 commands, parameters and redirections (`MaxCalls`), 3 up to the last redirection (`MaxRedirected`); 3 peers; every host method; 2 call ids (`MaxCi`), 2 calls outstanding (`MaxOpen`) of the 6 methods in `Together`; 7 buffers |
| `objects` | what is set is read, by one object only, and by its copy; the copy has its class | 2 classes under PSObject, 3 declarations, 2 objects, 2 names, 2 values, 1 added property |
| `clixml_references` | are shared objects, cycles and type names read as they were written, and does writing end | 3 objects with up to 2 members, 1 text, 1 list of type names for custom objects besides those of the containers; documents of 22 elements, more than any `Referable` one has |
| `clixml_shell` | are values read as written, in their streams, from a piece on stdout and one on stderr; is the clock exact | 2 values, 2 changes of the time; strings of 2 out of 9 pieces that matter to the escapes, 28 durations around every unit |

A header of 1 and messages of 1 and 4 bytes with amounts from 2 to 7 reach every
branch of `data_to_send()`: a message that fits exactly, one cut into three, an
amount with just a header left, two messages in one payload. Two messages are what
two targets and two object ids need to be mixed up; the proof covers the rest. Two
call ids let two calls for the same count cross; two clients are what a take-over
needs. `MaxQueue` bounds what a caller adds to a queue, never what a handler does.

Four calls of a builder are two statements of two commands, a statement that ends with
the last command, or one between two; three are two redirections of one stream, in any
order, and of two commands. Peers are one that is not known, one without the
information stream and one with it. Two calls outstanding can be answered in either order,
for either target; which of them come together matters to the ids only, so six methods
stand for all: with and without an answer, with a converted and a plain one, and with one
that needs the key. Every other method is called alone. Buffers have every shape
up to two by two, a ragged one, one without cells and one without rows.

Two declared classes can claim one type name or redeclare one property, and two objects
are an original and its copy or two instances; the declarations have one name as
adapted, as extended, as both, and as a script; what is added is a note or an alias,
which may close a circle.

Three objects are a cycle with something outside of it, two members tell the order of
entries, keys and properties. Two pieces of a string are any two neighbours that an
escape could be confused by; two writes may share a document or not.

Three runs end in a counterexample, and are kept for what they show about the code:

* `session_other_pool`: a client refused for its pool id is told Opened all the same;
* `clixml_duration`: a whole number of seconds that ends in a zero loses the zero:
  ten seconds are written as `PT1S`;
* `objects_redefined`: a class that declares a property of its base again: setting it
  changes the class's, reading it gives the base's.

### Disagreements met while modelling, not kept as runs

* The TODO in `ServerRunspacePool.connect()` (`_server.py:115`) asks to verify that no
  fragments are left of the client before: without it a message is combined from two
  clients'. `fragments_faults` assumes what the check would ensure (`Drained`).
* A reference to what was first written in a property or in a dict key may come before
  it in the reader's order, and raises `KeyError` (`_serializer.py:1102`): `{x: [x]}`
  with an object `x`. `ReferencesKnown` leaves it out (`Straight`).
* An attribute set before a property of its name is added hides it (`_base.py:678` of
  `types`), and so does an attribute or method of the class on reading; the property
  is what is sent. An extended property that only the reader's class has hides the
  adapted one that was sent (`Hidden`).
* A class without a type name of its own registers itself for its base's if no class
  has it (`_base.py:790`): after `@PSType()` on a subclass of `PSObject`, every
  `System.Object` is read as that class.
* `add_member` on an undecorated subclass changes its base; an alias of itself is a
  `RecursionError`; a mutable default value is shared by all instances.
* A payload is labelled with the stream type of its first message and may hold
  messages of both (`_base.py:260-265`).
* A RunspacePoolState message processed after the client's `close()` takes the client
  out of Closed again (`_client.py:408`); the same holds for a pipeline's Running
  message after `begin_stop()` (`_client.py:368`).
* `connect()` starts the call ids again and keeps the requests of the client before
  (`_ci_events`, `_ci_handlers`; `_server.py:116`). In the documented use without `DrainFirst`: the first
  client asks for the available runspaces with call 1, the server keeps the request, the client
  disconnects and ends, a second one connects, is Opened and asks with its own call 1; the
  server responds to the request it kept, and the second client runs the handler of its call
  with that. The TODO speaks of fragments and messages only.
* What the server had not sent to the client before, a state or a response, is sent to the
  next one: a client that has not called `connect()` yet is told Opened.
* `complete()` after `stop()` ends a pipeline again, as Completed (`_server.py:460`); CreatePipeline
  before the server has the pipeline raises and is gone (`_server.py:339`). The documented use does neither.
* `connect()` starts the call ids of host calls again; a client object that
  disconnects and connects itself loses the open host call of that id
  (`_client.py:395`).
* A pipeline closed before `start()` runs without being in the table that `close()`
  of the pool looks at (`_base.py:193`).
* The server sends its capability only when it is not Connecting: a client that used
  `connect()` never has `their_capability` (`_server.py:427`).
* Type names are looked up by the first name alone (`_serializer.py:866`): of two lists
  that agree there, the second is read as the first. Objects that are equal but not
  the same, such as strings with properties, become one (`_get_ref_id`), while lists
  and dicts are never shared and a list that holds itself does not end.
* `serialize()` empties the queue it is given (`_serializer.py:914`).
* A `ClientPowerShell` created with `ApartmentState.STA` gets the pool's apartment state:
  STA is 0 and so taken for none (`_client.py:558`). `SettingsKept` leaves it out.
* A client that used `connect()` does not know its peer's version, and its redirections
  are left out of the message (`_command.py:231`), but for the error stream's.
* A `Command` that is added twice is one object: parameters and ends of statement go to
  both places. `StatementsKept` leaves it out (`NoneTwice`).
* `redirect_error` with Output and then with Null leaves version 2's fields merging the
  error stream with the output (`_command.py:147`). `RedirectionsKept` asks nothing of
  these two fields after Null.
* The server's last command ends its statement though the builder's did not
  (`_pipeline.py:100`).
* The rows of a buffer must have one length: cells of longer rows are lost or
  the event raises when it is read. No rows raise in the method, rows without cells in
  the reader (`_host.py:48`, `_events.py:186`). `ParametersKept` and `ResultIsOwn` are
  stated for rectangular ones.
* The attributes and the default value of a `FieldDescription` are not sent
  (`types/_host.py:424`).
* An int below Int32 is tagged I32, and one above Int64 I64 (`_serializer.py:741`): both
  are refused by the reader. A year below 1000 is written without its zeros and is
  refused too (`_serializer.py:521`).
* U+D900 to U+DBFF, U+FFFE and U+FFFF are not escaped (`_serializer.py:74`); the search
  for escapes may match at an odd byte (`_serializer.py:78`), which needs characters
  whose low byte is zero.
* `data_to_send()` of an empty shell, or one that raises, uses up the marker
  (`_clixml_shell.py:325`).
* A shell that is asked twice leaves two root elements on its stdout
  (`tests/clixml_shell_runner.py` does so, and "this can be called multiple times",
  `_clixml_shell.py:271`). PowerShell reads both; `ClixmlOutput.from_clixml` of that stdout raises in
  `ElementTree.fromstring` (`types/_serializer.py:189`), "junk after document element", and what the first
  piece holds is not read either. Given each piece as a string of a list, `from_clixml` reads
  them. `OutputKept` is stated for one piece on each of stdout and stderr.

## 4. Proofs

`PSRPFragmentsProofs` proves, for all targets, streams, sizes, header lengths,
amounts and bounds (only `FragmentsAssumption` is used):

* `TypeCorrect`: `Spec => []TypeOK`;
* `IntegrityHolds`: `Spec => [](reconnects = 0 => Integrity)`: under any loss,
  duplication and reordering, `next_event()` combines nothing but whole messages.

`Integrity` speaks of combined messages only and is not inductive. `IInv` says what
is true of everything on its way there. `cuts[m]` is the history of where the
fragments of message `m` end. Every fragment on the wire or in the receive buffer is
`Genuine`: its fragment id indexes `cuts[m]` and its interval lies between two
neighbouring cuts. The chunks kept for an object id are the first fragments of that
message, in order (`ChunksInv`): the code's check of the fragment id against the
number of chunks is exactly what carries this over a step. When the fragment with
the end flag joins, the last cut is the size of the message. A lost or repeated
payload disturbs none of this, because `IInv` says nothing about which genuine
fragments exist. `reconnects = 0` is a conjunct: afterwards one object id names two
messages, and without `DrainFirst` Integrity then fails.

Its second half goes on from `IInv` to what the layer promises:

* `PayloadsHaveOneTarget`: `Spec => []OneTarget`, under every fault. `TargetsInv` is the
  invariant: a fragment in a payload belongs to a message of the payload's target.
* `PayloadsFit`: `Spec => PayloadFits`. `LeftInv` is needed for the part that a payload does
  not begin with an empty fragment: an entry of the send buffer has something left.
* `NothingRefused`: `Spec => [](Calm => NoFragmentError)`.
* `ChannelImplemented`: `Spec /\ []Calm => ImplementsChannel`.

`Calm` says that no stream is delivered apart, nothing was lost or repeated and no client
was replaced: without it the layer refuses fragments and loses messages, as it
should, and `fragments_faults` is the run for that. `TransitInv` says what order is under `Calm`:
of two fragments of one target the one that precedes is nearer to the reader
(`OrderInv`, over the send buffer, the payloads and the receive buffer); of a message that is
not finished the fragments on the way are those that were not unpacked, without a gap
(`PartsInv`), and the last one has the end flag (`EndsInv`); the messages of a target are finished
in their order, and nothing of a finished one is on the way (`DoneInv`).
`ListingInv` relates the queues of `PSRPChannel` to what was sent and returned: for each target
what is received is the front part of what was sent. What is sent and received for a target (`SentTo`, `ReceivedBy`) is
selected by a recursive function over the messages (`ForTarget`). That such a function exists and
what it is after one more message is shown by the least index where it would not be, since
the induction theorems cannot be used. Each step of `PSRPFragments` is then a `Send`, a
`Receive` or a stutter of `PSRPChannel`.

For the session there are two modules; only `RunspacePoolAssumption` is
used. `SessionProofs` proves `TypesHold`: `Spec => []TypeOK`, once for every
handler, and of `Spec`, in which both programs call anything the code
accepts,

* `CallsAreAccounted`, `OneKeyExchange`:
  `Spec => [](Undisturbed => CallsAccounted)`, and so for `OneExchange`;
* `AnswersAccepted`: no response and no session key makes the client's `next_event()` raise;
* `DocumentedCalls`: `DocumentedSpec` and `FairSpec` only take steps of `Spec`, so all of it holds there.

`Undisturbed` is `DrainFirst`, or the first client is still there. For one client it
is no restriction; for several it is an assumption on the programs, which the code does not
check: a take-over with something still due breaks these (see "Disagreements"). `CallsInv` counts, per call id, requests, records and responses: one if there is a
handler, none otherwise (`Balanced`), and no two handlers share an id (`HandlersDiffer`); it needs lemmas about
the number of places of a queue that hold a message (`Counted`). `KeyInv` adds that what is on the way
of an exchange is about the key pair the client has.

`DocumentedSessionProofs` is about `DocumentedSpec`. The handlers are first sorted by what they do
to one pipeline (`PipeSteps`) and to the pool and its queues (`PoolSteps`), and the
invariants are carried over these cases rather than over each handler:

* `OutputIsFirst`: `[]OutputBeforeEnd`, for any number of clients. `EndsLast`: the end of a
  pipeline is the last message in its queue and the state the server's object has.
* `SameEnd`: `[](client.n = 1 => PipelinesAgree)`. `Paired` says for each state of the client's object
  which states of the server's and which messages go with it; `CreatedOnce` that
  a pipeline is created once. A second client does not know the pipelines of the first.
* `IsAccepted`: `[](Undisturbed /\ OneId => Accepted)`. `OpenInv` has the order of the opening messages in both
  queues (`AsksInOrder`, `ToldInOrder`), the states of the server that go with them
  (`StatesInOrder`), and that the server has the client's pool id if all clients are about one pool
  (`OneId`). Without `OneId` a client is told Opened though it was refused: that is
  the counterexample `session_other_pool`.
* `OnlyLateKeys`: with one client the only message `next_event()` ever raises for is the request for a key,
  which a client that is not Opened refuses; `NothingFails`:
  `[](client.n = 1 /\ "request_key" \notin Calls => NoFailure)`, with `KeyUnasked`. A server program that calls
  `request_key` while its client leaves does make the client raise, so the hypothesis is needed.
* `CountsSettle`: `[](Undisturbed => CountsAgree)`. `CountsInv` says that every request and record is for what its
  handler will set, that the first message of an opening carries the client's counts, and that
  what the messages to the client will set, in their order, ends in the server's counts (`Settled`).

TLC checked these invariants from `Init` before they were proved: `ChannelInv` and `ListingInv` with two
messages in 155 597 states and with three in 105 609, the invariants of the documented
use in 325 788 (two clients, `DrainFirst`), 90 935 (pipelines and keys) and 14 034
(pipelines, two clients) states. Every safety invariant that a run of the fragment layer or
of the session checks is so proved, for any number of pipelines, calls, answers, clients and
messages.

`ClixmlShellProofs` proves, for any number of nanoseconds in a microsecond
(`PSTimesAssumption`), that `PSDuration(n)` is normalised and `n` long
(`PSDurationExact`, from what div and mod are), and from it that sums, differences and
negatives of durations (`DurationsExact`), a date plus or minus a duration
(`AddToDateExact`, `SubFromDateExact`) and the difference of two dates
(`ElapsedExact`) are exact and normalised. It concludes
`ClockIsExact`: `Spec => []ClockExact`, for any start and steps
(`ClixmlShellAssumption`). `ClockInv` adds that the time is normalised: without it a
single carry would not be enough.

`HostCallsProofs` proves `CallsAreAccountedFor`: `Spec => []CallsAwaited` of
`PipelinePrograms`, for any number of calls, hosts, buffers and pipelines
(`HostCallsAssumption`, `CommandsAssumption`). `CallsInv` adds to it what keeps ids
apart: an id that is held was counted before (`< ci_counter`), so the next call has a
new one; no id is twice in a queue or in the queues of both targets (`QueuesOK`), so that
taking the head of a queue takes the id away; and -100 is no id. That a method is void
exactly if its requestor returns nothing (`CallsAreAwaited`) is a lemma over all the
methods. The facts about queues are lemmas on sequences of anything, since the messages
have values of every kind.

Its second half proves what the two programs show each other, for any colours
and cells and any buffers of them, and for any number of calls:

* `ParametersAreKept`: `Spec => []ParametersKept`;
* `OptionsAreKept`: `Spec => []OptionsKept`;
* `ResultsAreOwn`: `Spec => []ResultIsOwn`.

They come in two halves. `CallsWhole`, a lemma over all the methods of the requestor, says
that the decoding by method undoes the conversion (`IsKept`) and that an overload has the
arguments that were given (`HasOptions`); `AnswersKept` is the same of the responder.
Their hardest part is arrays: `FlattenIsFlat` says that the library's `FlattenSeq`, a
recursive function whose value is found by taking the least row where it could differ, puts
element j of row i at `(i - 1) * w + j`, and `GroupedFlat` that grouping by w takes the rows
apart again (`ArraysKept`), which needs rows of one length w > 0. The other half is the
inductive invariant, `CallsInv` with `MessagesInv`: a message of a call is what `host_call` made
of the call that its id is waited for with, an open call has that call's method and target, and
a message of an answer is what `host_response` made of the answer of its id. It needs
`CallsInv`, since a table entry may only change when no message has its id. TLC checked
`MessagesInv` on the run `pipeline_programs` first (356 629 states). `HostCallsAssumption`
says that the colours are members of `ConsoleColor`, that a cell is a character, two colours and
a type (`IsCell`), and that a buffer is rows of such cells, of any length and number.

`CommandsProofs` proves what the server reads of a pipeline, for any number of commands,
parameters, redirections and ends of statements, any peer version, host and settings:

* `StatementsAreKept`: `Spec => []StatementsKept`;
* `RedirectionsAreKept`: `Spec => []RedirectionsKept`;
* `SettingsAreKept`: `Spec => []SettingsKept`.

They follow from `CommandsCorrect`: `Spec => []CommandsInv`. `BuilderInv` says that a
pipeline's commands are objects of the program and that the fields of each, those of version 2
included, are where its streams were last redirected to (`Redirected`; `Merges` is the lemma over the
`redirect_` methods). `ReadInv` says what a message and `metadata` are made of. `StatementsInv` says that
the history `meant` splits the commands into consecutive pieces, each but the last ending at an
end of statement (`MeantBy`): the pieces are given by offsets (`Splits`), because a statement
that another command joins and one that begins are then the same step, one offset moving. It holds
as long as no object is in the pipeline twice: a parameter of such a one would go to two places
of `meant`.

The rest is about the message. The batches of `PowerShell_To` and the list of `PowerShell_From` are
folds of the community modules, defined by a recursion over the list: `FoldExists` shows that a
fold is a function of the number of elements folded, by taking the least number where it
would not be, and `JoinedOneByOne` and `ReadOneByOne` are what one more element does to it. From them
`Batches` says that the batches split the commands at their ends, `CommandsRead` that reading
them gives each command once, in its place, with the end it had (the last one with an end
whatever it had), and `StatementsRead` that counting the ends before a command, as `Statements`
does, gives the pieces of `meant` again. `HostRead` is the round trip of a host through its numbered
fields. `CommandsAssumption` and `HostCallsAssumption` say that a host has the fields of its class with
their types (`IsHost`), that settings have the arguments of the constructor, and that a peer's
version is one of the protocol's. TLC checked `CommandsInv` on the run `pipeline_programs` first.

`ClixmlReferencesProofs` proves what `ClixmlReferences` says of a document, for any number
of objects, members, elements and type names (`ClixmlReferencesAssumption`), cycles included:

* `ReferencesAreKnown`: `Spec => []ReferencesKnown`;
* `GraphIsKept`: `Spec => []GraphKept`;
* `NamesAreKept`: `Spec => []NamesKept`.

They follow from `TablesAgree`: `Spec => []CInv`. `Writing` is about the document alone, and has two
functions that no variable keeps: the parent of each element, and for each slot of `todo`
the place it will have. The document is a tree in the order of writing (`Tree`): members come after their parent,
in order, and everything in a branch before whatever follows it. An element stands for the member of the caller's object
in the same place (`Faithful`). `RefsOk` says that a key has one reference, which is that of one Obj
element, and that a Ref comes after it; `NamesOk` says the same of lists of type names and
their ids. `ReadOk` says that an id in a table of the reader stands for the element or the list
that the writer gave the id to, in whatever order it was read. That is enough
for `GraphKept` and `NamesKept`. `ReferencesKnown` is about the order: the reader goes into entries before properties and
into a value before its key, so `OrderOf` says that for a `Straight` graph what is to be
read is in the order of writing, leaving out plain strings, that nothing written later was read, and that
what is not read yet is due or has a parent that is not read (`AllBefore`: then everything
that can be referred to was read before). The members of an object that is
read come before the rest of `toread` because of the order of a tree. No induction over the
graph is needed: one element is written or read in a step, and each step carries `CInv` on.

`PSObjectsProofs` proves what `PSObjects` says of objects, for any declarations, members, names
and values, and any number of classes, objects and additions (`PSObjectsAssumption`):

* `OthersAreKept`: `Spec => OneChanges`;
* `KindsAreKept`: `Spec => KindKept`;
* `CopiesReadAsSent`: `Spec => ReadAsSent`;
* `SetsAreRead`: `Spec => SetIsRead`.

They follow from `ObjectsAgree`: `Spec => []PSObjectsInv`. Its `OwnInv` is the strengthening
that carries the others: no object shares a property with another object or with a class, which
is what the copies of `set_instance` are for. Classes do share theirs. `RegistryInv` says
that the class of a type name has it first, and `NamesInv` that an object has the names of its
class or is a PSObject; `KindKept` needs both. A property is followed by its lookups: where a
list has several of one name, `LastOf` and `IsFirst` say which one counts, and `InsertedIs` and
`MergedIs` what is left of it after one and after any number of insertions. A chain of aliases and scripts is
followed for as many names as there are (`Depth`), a recursive function over that number; that it
exists is shown by the least number where it would not, and what follows from two lookups that
agree, or end alike, by the least number where they would differ (`FollowEnds`). `ReadAsSent` and
`SetIsRead` then compare two such lookups: that of the copy ends where that of the object does, and
that after a step at what the step has set. TLC checked `PSObjectsInv` on the constants of
the run `objects` first (172 043 states).

Only model-checked:

* liveness (`AllArrive`, `EveryCallAnswered`, `KeyArrives`, `OpeningEnds`, `ClosedForGood`,
  `BrokenIsSeen`, `PipelineEnds`, `DocumentEnds`): TLAPS has neither `ENABLED` nor rules for
  fairness;
* the text of CLIXML (`TextKept`, `TimesKept`, `OutputKept`): digits, escapes and
  streams are recursions and folds over the characters of a text, which needs induction over data.

## 5. Not modelled

* RSA, AES and the bytes of the headers (`_crypto.py`, `struct` layouts).
* Records of the output streams (`ErrorRecord`, `InformationRecord` and their
  invocation info, the `write_` methods' arguments): that they are sent, and
  before the end, is in `Session`; their fields are data. The text of exceptions, logging.
* Of a pipeline's settings, `remote_stream_options` and `redirect_shell_error_to_out`,
  which travel like the others.
* What a pipeline runs, `Failed` and `Disconnected` pipelines (no server of this
  package reports them).
* Of CLIXML: floats, chars, secure strings, enums, progress records, time zones, and
  the layout of XML. Records written to the shell as objects.
* Of objects: casts to `ps_type`, mandatory properties, type names changed by hand,
  `ps_isinstance`.
* A server that speaks an older protocol than this package's (`ServerVersion` is a
  parameter; the instances use 2.3).

## 6. Plan

1. (done) the fragment layer, the two pools, their pipelines, and a first proof.
2. (done) CLIXML: references, the text of strings, times and ints, the shell.
3. (done) `HostTypes`, the two host classes, `HostCalls`, `Commands` and their
   composition `PipelinePrograms`.
4. (done) `PSObjects`: declaring, adding, reading and setting properties, and reading an
   object back.
5. (done) proofs of the fragment layer, with the refinement of `PSRPChannel`, and of all the safety
   invariants of the session.
6. (done) proofs of all the safety invariants of the host calls.
7. (done) proofs of all the safety invariants of the builder of pipelines (`Commands`) and of
   the graph of a document (`ClixmlReferences`).
8. (done) proofs of all the safety invariants and action properties of `PSObjects`.
9. Proofs about the text of CLIXML, as far as they need no induction over its characters;
   shorter proofs for the slowest steps.
