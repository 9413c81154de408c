--------------------------- MODULE PSRPFragments ---------------------------
(***************************************************************************)
(* One direction of the fragment layer of psrpcore._base.RunspacePool:     *)
(* prepare_message() and data_to_send() of the sending pool, a transport,  *)
(* receive_data() and next_event() of the receiving pool.                  *)
(*                                                                         *)
(* The bytes of a message are abstracted to the interval 0..size-1; a      *)
(* fragment carries the interval [lo, hi) of the message msg.  msg is the  *)
(* position of the message in the history variable prepared and stands for *)
(* the content, oid is the object id the code puts on the wire: the two    *)
(* part once the object ids start again.                                   *)
(*                                                                         *)
(* The transport is not code of this package.  It keeps the order of the   *)
(* payloads of one target, as the PSRP transports do, and nothing more: a  *)
(* pipeline's payloads may overtake the pool's.  With SplitStreams it also *)
(* sends the payloads of each stream type on their own.  MaxFaults payloads*)
(* are lost or delivered twice, MaxReconnects times the connection is      *)
(* replaced by one from a blank client.                                    *)
(***************************************************************************)
EXTENDS Naturals, Sequences, Functions

CONSTANTS
    Targets,        \* the Runspace Pool and its pipelines
    Streams,        \* StreamType
    Sizes,          \* the lengths a packed message may have
    Header,         \* length of a fragment header, 21 in the code
    Amounts,        \* what the caller passes to data_to_send()
    Sender,         \* "client" or "server": whose send buffer this is
    SplitStreams,   \* the transport also splits the payloads by stream type
    DrainFirst,     \* assumed: what the TODO in connect() asks to verify
    MaxMessages, MaxFaults, MaxReconnects       \* bounds

ASSUME FragmentsAssumption ==
    /\ Sizes \subseteq Nat \ {0}
    /\ Header \in Nat \ {0}
    /\ Amounts \subseteq {a \in Nat : a > Header}
    /\ Sender \in {"client", "server"}
    /\ SplitStreams \in BOOLEAN /\ DrainFirst \in BOOLEAN
    /\ MaxMessages \in Nat /\ MaxFaults \in Nat /\ MaxReconnects \in Nat

VARIABLES
    prepared,           \* history: every message given to prepare_message()
    cuts,               \* history: where the fragments of each message end
    fragment_count,     \* the object id of the next message
    send_buffer,        \* messages not yet completely fragmented
    wire,               \* payloads in flight on each channel of the transport
    faults,             \* history: payloads lost or duplicated
    reconnects,         \* history: connections replaced
    receive_buffer,     \* fragments received and not yet unpacked
    incoming_fragments, \* for each object id the chunks unpacked so far
    incoming_messages,  \* messages combined and not yet returned
    delivered,          \* history: messages returned by next_event()
    raised              \* history: next_event() refused a fragment

senderVars   == <<prepared, cuts, fragment_count, send_buffer>>
networkVars  == <<wire, faults, reconnects>>
receiverVars == <<receive_buffer, incoming_fragments, incoming_messages,
                  delivered, raised>>
vars == <<senderVars, networkVars, receiverVars>>

MessageIds == 1..MaxMessages
ObjectIds  == 1..MaxMessages
Channels   == Targets \X Streams

\* The route of a payload: by pipeline id, and by stream type when the
\* transport gives the prompt_response payloads a stream of their own.
Route(target, stream) ==
    IF SplitStreams THEN <<target, stream>>
                    ELSE <<target, CHOOSE s \in Streams : TRUE>>

Min(a, b) == IF a < b THEN a ELSE b

Init ==
    /\ prepared = <<>>
    /\ cuts = [m \in MessageIds |-> <<>>]
    /\ fragment_count = 1
    /\ send_buffer = <<>>
    /\ wire = [c \in Channels |-> <<>>]
    /\ faults = 0
    /\ reconnects = 0
    /\ receive_buffer = <<>>
    /\ incoming_fragments = [o \in ObjectIds |-> <<>>]
    /\ incoming_messages = <<>>
    /\ delivered = <<>>
    /\ raised = FALSE
-----------------------------------------------------------------------------
(* The sending pool *)

\* Mutant: the property _fragment_counter is read twice, for the log line too.
prepare_message_ReadTwice(target, stream, size) ==
    /\ Len(prepared) < MaxMessages
    /\ prepared' = Append(prepared,
                          [target |-> target, stream |-> stream, size |-> size])
    /\ send_buffer' = Append(send_buffer, [msg |-> Len(prepared) + 1,
                                           oid |-> fragment_count + 1,
                                           at |-> 0, fid |-> 0])
    /\ fragment_count' = fragment_count + 2
    /\ UNCHANGED <<cuts, networkVars, receiverVars>>

prepare_message(target, stream, size) ==
    /\ Len(prepared) < MaxMessages
    /\ prepared' = Append(prepared,
                          [target |-> target, stream |-> stream, size |-> size])
    /\ send_buffer' = Append(send_buffer, [msg |-> Len(prepared) + 1,
                                           oid |-> fragment_count,
                                           at |-> 0, fid |-> 0])
    /\ fragment_count' = fragment_count + 1
    /\ UNCHANGED <<cuts, networkVars, receiverVars>>

Message(entry) == prepared[entry.msg]
Left(entry)    == Message(entry).size - entry.at

\* PSRPMessage.fragment(length)
fragment(entry, length) ==
    LET n == Min(length, Left(entry))
    IN  [msg |-> entry.msg, oid |-> entry.oid, fid |-> entry.fid,
         lo |-> entry.at, hi |-> entry.at + n, end |-> n = Left(entry)]

\* Mutant: the fragment is not counted.
Rest_NotCounted(entry, f) == [entry EXCEPT !.at = f.hi]

\* What is left of the message once f has been cut from it.
Rest(entry, f) == [entry EXCEPT !.at = f.hi, !.fid = @ + 1]

\* Mutant: the headers of the messages before are not counted.
IsRoom_NoHeader(room, amount) ==
    \A i \in DOMAIN room :
        room[i] = IF i = 1 THEN amount ELSE room[i - 1] - Left(send_buffer[i - 1])

\* room[i] is the value of amount when the loop of data_to_send() reaches the
\* i-th message of the send buffer.
IsRoom(room, amount) ==
    \A i \in DOMAIN room :
        room[i] = IF i = 1 THEN amount
                  ELSE room[i - 1] - (Header + Left(send_buffer[i - 1]))

\* Mutant: every message of the send buffer is combined.
SameTarget_Any(k) == k \in DOMAIN send_buffer

SameTarget(k) ==
    \A i \in 1..k : Message(send_buffer[i]).target = Message(send_buffer[1]).target

\* The loop stops before the message k + 1: there is none, it is for another
\* target, or what is left of amount cannot hold a header.
StopsAfter(k, room) ==
    k < Len(send_buffer) =>
        \/ ~SameTarget(k + 1)
        \/ room[k] < 2 * Header + Left(send_buffer[k])

\* data_to_send(amount); the call without an amount gives the same payload as
\* one with an amount that no send buffer fills.
data_to_send(amount) ==
    \E k \in 1..Len(send_buffer) : \E room \in [1..k -> Header..amount] :
        /\ IsRoom(room, amount)
        /\ SameTarget(k)
        /\ StopsAfter(k, room)
        /\ LET frags == [i \in 1..k |-> fragment(send_buffer[i], room[i] - Header)]
               rest  == Rest(send_buffer[k], frags[k])
               later == SubSeq(send_buffer, k + 1, Len(send_buffer))
               head  == Message(send_buffer[1])
               route == Route(head.target, head.stream)
           IN  /\ send_buffer' = IF frags[k].end THEN later ELSE <<rest>> \o later
               /\ wire' = [wire EXCEPT ![route] =
                             Append(@, [target |-> head.target,
                                        stream |-> head.stream, data |-> frags])]
               /\ cuts' = [m \in MessageIds |->
                             IF \E i \in 1..k : frags[i].msg = m
                               THEN Append(cuts[m], (CHOOSE f \in Range(frags) : f.msg = m).hi)
                               ELSE cuts[m]]
        /\ UNCHANGED <<prepared, fragment_count, faults, reconnects, receiverVars>>
-----------------------------------------------------------------------------
(* The transport *)

\* receive_data() with the oldest payload of a channel.
receive_data(c) ==
    /\ wire[c] # <<>>
    /\ receive_buffer' = receive_buffer \o Head(wire[c]).data
    /\ wire' = [wire EXCEPT ![c] = Tail(@)]
    /\ UNCHANGED <<senderVars, faults, reconnects, incoming_fragments,
                   incoming_messages, delivered, raised>>

Lose(c) ==
    /\ faults < MaxFaults /\ wire[c] # <<>>
    /\ wire' = [wire EXCEPT ![c] = Tail(@)]
    /\ faults' = faults + 1
    /\ UNCHANGED <<senderVars, reconnects, receiverVars>>

Duplicate(c) ==
    /\ faults < MaxFaults /\ wire[c] # <<>>
    /\ receive_buffer' = receive_buffer \o Head(wire[c]).data
    /\ faults' = faults + 1
    /\ UNCHANGED <<senderVars, wire, reconnects, incoming_fragments,
                   incoming_messages, delivered, raised>>

\* The condition the TODO in ServerRunspacePool.connect() asks to verify.  The code
\* does not: it is an assumption on the program that replaces the client.
Drained ==
    /\ Sender = "server" => send_buffer = <<>>
    /\ receive_buffer = <<>> /\ incoming_messages = <<>>
    /\ \A o \in ObjectIds : incoming_fragments[o] = <<>>

\* The server pool, disconnected, accepts a blank client with connect(), which
\* starts its own counter again and touches no buffer; every buffer of the
\* client is a new pool's.  What was in flight is lost with the connection.
Reconnect ==
    /\ reconnects < MaxReconnects
    /\ DrainFirst => Drained
    /\ reconnects' = reconnects + 1
    /\ fragment_count' = 1
    /\ wire' = [c \in Channels |-> <<>>]
    /\ IF Sender = "client"
         THEN /\ send_buffer' = <<>>
              /\ UNCHANGED receiverVars
         ELSE /\ receive_buffer' = <<>>
              /\ incoming_fragments' = [o \in ObjectIds |-> <<>>]
              /\ incoming_messages' = <<>>
              /\ UNCHANGED <<send_buffer, delivered, raised>>
    /\ UNCHANGED <<prepared, cuts, faults>>
-----------------------------------------------------------------------------
(* The receiving pool.  next_event() first unpacks every fragment of the    *)
(* receive buffer and then returns one message.  An iteration of its loop   *)
(* is a step here: nothing but receive_data(), which appends to the buffer, *)
(* can be seen to happen between two of them, and the second half waits for *)
(* the buffer to be empty.                                                  *)

\* Mutant: the last message combined is the first to be returned.
Put_First(queue, oid, data) ==
    <<[oid |-> oid, data |-> data]>> \o SelectSeq(queue, LAMBDA e : e.oid # oid)

\* An entry of the dict _incoming_messages keeps its place when it is
\* assigned again.
Put(queue, oid, data) ==
    IF \E i \in DOMAIN queue : queue[i].oid = oid
      THEN [i \in DOMAIN queue |->
              IF queue[i].oid = oid THEN [oid |-> oid, data |-> data] ELSE queue[i]]
      ELSE Append(queue, [oid |-> oid, data |-> data])

Chunk(f) == [msg |-> f.msg, lo |-> f.lo, hi |-> f.hi]

\* Mutant: only a fragment seen before is refused.
Expected_OrLater(f) == f.fid >= Len(incoming_fragments[f.oid])

\* The fragment id must be the number of chunks kept for the object id.
Expected(f) == f.fid = Len(incoming_fragments[f.oid])

UnpackFragment ==
    /\ receive_buffer # <<>>
    /\ receive_buffer' = Tail(receive_buffer)
    /\ LET f      == Head(receive_buffer)
           joined == Append(incoming_fragments[f.oid], Chunk(f))
       IN  \/ /\ ~Expected(f)
              /\ raised' = TRUE
              /\ UNCHANGED <<incoming_fragments, incoming_messages>>
           \/ /\ Expected(f) /\ ~f.end
              /\ incoming_fragments' = [incoming_fragments EXCEPT ![f.oid] = joined]
              /\ UNCHANGED <<incoming_messages, raised>>
           \/ /\ Expected(f) /\ f.end
              /\ incoming_fragments' = [incoming_fragments EXCEPT ![f.oid] = <<>>]
              /\ incoming_messages' = Put(incoming_messages, f.oid, joined)
              /\ UNCHANGED raised
    /\ UNCHANGED <<senderVars, networkVars, delivered>>

\* Mutant: the messages not returned by this call are dropped.
ReturnEvent_Clears ==
    /\ receive_buffer = <<>> /\ incoming_messages # <<>>
    /\ delivered' = Append(delivered, Head(incoming_messages).data)
    /\ incoming_messages' = <<>>
    /\ UNCHANGED <<senderVars, networkVars, receive_buffer, incoming_fragments, raised>>

ReturnEvent ==
    /\ receive_buffer = <<>> /\ incoming_messages # <<>>
    /\ delivered' = Append(delivered, Head(incoming_messages).data)
    /\ incoming_messages' = Tail(incoming_messages)
    /\ UNCHANGED <<senderVars, networkVars, receive_buffer, incoming_fragments, raised>>
-----------------------------------------------------------------------------
Send      == \E amount \in Amounts : data_to_send(amount)
NextEvent == UnpackFragment \/ ReturnEvent

Next ==
    \/ \E t \in Targets, s \in Streams, n \in Sizes : prepare_message(t, s, n)
    \/ Send
    \/ \E c \in Channels : receive_data(c) \/ Lose(c) \/ Duplicate(c)
    \/ Reconnect
    \/ NextEvent

Spec == Init /\ [][Next]_vars

\* The program around the two pools calls data_to_send() while it returns
\* payloads, hands every payload over, and calls next_event() after it.
Fairness ==
    /\ WF_vars(Send)
    /\ \A c \in Channels : WF_vars(receive_data(c))
    /\ WF_vars(NextEvent)

FairSpec == Spec /\ Fairness

-----------------------------------------------------------------------------
Messages  == [target : Targets, stream : Streams, size : Sizes]
Entries   == [msg : MessageIds, oid : ObjectIds, at : Nat, fid : Nat]
Chunks    == [msg : MessageIds, lo : Nat, hi : Nat]
Fragments == [msg : MessageIds, oid : ObjectIds, fid : Nat,
              lo : Nat, hi : Nat, end : BOOLEAN]
Payloads  == [target : Targets, stream : Streams, data : Seq(Fragments)]

\* The variables have the types the fields of RunspacePool have.
TypeOK ==
    /\ prepared \in Seq(Messages)
    /\ cuts \in [MessageIds -> Seq(Nat)]
    /\ fragment_count \in 1..(Len(prepared) + 1)
    /\ send_buffer \in Seq(Entries)
    /\ wire \in [Channels -> Seq(Payloads)]
    /\ faults \in 0..MaxFaults
    /\ reconnects \in 0..MaxReconnects
    /\ receive_buffer \in Seq(Fragments)
    /\ incoming_fragments \in [ObjectIds -> Seq(Chunks)]
    /\ incoming_messages \in Seq([oid : ObjectIds, data : Seq(Chunks)])
    /\ delivered \in Seq(Seq(Chunks))
    /\ raised \in BOOLEAN

\* data is the content of one queued message, all of it and in order.
IsWhole(data) ==
    LET n == Len(data)
    IN  /\ n > 0
        /\ data[1].lo = 0
        /\ data[1].msg \in DOMAIN prepared
        /\ data[n].hi = prepared[data[1].msg].size
        /\ \A i \in 1..(n - 1) : /\ data[i + 1].msg = data[i].msg
                                 /\ data[i + 1].lo = data[i].hi

\* Integrity: whatever the transport loses, repeats or reorders, next_event()
\* never combines fragments into anything but a message the peer queued: the
\* check of the fragment id against the chunks kept for the object id is all
\* that stands between a lost fragment and a corrupt message.
Integrity ==
    /\ \A i \in DOMAIN incoming_messages : IsWhole(incoming_messages[i].data)
    /\ \A i \in DOMAIN delivered : IsWhole(delivered[i])

\* NoFragmentError: the pieces of a message reach the peer in order even when
\* the payloads of two targets overtake each other, so next_event() never
\* raises "Expecting fragment with a fragment id of ...".
NoFragmentError == ~raised

\* OneTarget: no payload mixes the messages of two targets, and its
\* pipeline_id is that of every fragment in it ("guaranteed to not mix
\* messages targeted towards different pipelines", docs/scenarios.md).
OneTarget ==
    \A c \in Channels : \A i \in DOMAIN wire[c] : \A j \in DOMAIN wire[c][i].data :
        prepared[wire[c][i].data[j].msg].target = wire[c][i].target

\* The bytes of the first k fragments of a payload, headers included.
Length(frags) ==
    LET upTo[k \in 0..Len(frags)] ==
          IF k = 0 THEN 0 ELSE upTo[k - 1] + Header + (frags[k].hi - frags[k].lo)
    IN  upTo[Len(frags)]

NewPayload(c) == wire'[c][Len(wire'[c])]

\* PayloadFits: data_to_send(amount) returns at most amount bytes and moves
\* at least one byte of the oldest message, so that a caller that repeats it
\* ends, also when exactly a header of the amount is left.
PayloadFits ==
    [][\A amount \in Amounts, c \in Channels :
         data_to_send(amount) /\ wire'[c] # wire[c]
           => LET frags == NewPayload(c).data
              IN  Length(frags) <= amount /\ frags[1].hi > frags[1].lo]_vars
-----------------------------------------------------------------------------
(* The promise of the layer: PSRPChannel. *)

\* Those of msgs that are for the target t, in the same order.
ForTarget(msgs, t) ==
    LET upTo[n \in 0..Len(msgs)] ==
          IF n = 0 THEN <<>>
          ELSE IF prepared[msgs[n]].target = t THEN Append(upTo[n - 1], msgs[n])
          ELSE upTo[n - 1]
    IN  upTo[Len(msgs)]

AllSent     == [i \in DOMAIN prepared |-> i]
AllReceived == [i \in DOMAIN delivered |-> delivered[i][1].msg]

SentTo(t)     == ForTarget(AllSent, t)
ReceivedBy(t) == ForTarget(AllReceived, t)

Channel == INSTANCE PSRPChannel WITH
    Values   <- 1..MaxMessages,
    sent     <- [t \in Targets |-> SentTo(t)],
    received <- [t \in Targets |-> ReceivedBy(t)]

\* ImplementsChannel: on a transport that keeps each target's order, the
\* buffers, object ids and fragment ids of both pools implement one queue per
\* target.
ImplementsChannel == Channel!Spec

\* AllArrive: a queued message is returned by the peer's next_event() in the
\* end, however small the amounts data_to_send() is called with.
AllArrive ==
    \A t \in Targets : \A n \in 1..MaxMessages :
        Len(SentTo(t)) >= n ~> Len(ReceivedBy(t)) >= n
=============================================================================
