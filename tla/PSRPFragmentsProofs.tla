------------------------ MODULE PSRPFragmentsProofs ------------------------
(***************************************************************************)
(* Proofs about PSRPFragments, for every set of targets, sizes and amounts,*)
(* and any number of messages and faults.  The second half is about a      *)
(* transport that keeps the order of each target's payloads: no fragment   *)
(* is ever refused, and the buffers of the two pools implement PSRPChannel.*)
(***************************************************************************)
EXTENDS PSRPFragments, SequenceTheorems, WellFoundedInduction, TLAPS

\* No entry of the send buffer is past the end of its message.
EntriesOK ==
    \A i \in DOMAIN send_buffer :
        /\ send_buffer[i].msg \in DOMAIN prepared
        /\ send_buffer[i].at <= Message(send_buffer[i]).size

TypeInv == TypeOK /\ EntriesOK
-----------------------------------------------------------------------------
LEMMA MessageType ==
    ASSUME prepared \in Seq(Messages), NEW e \in Entries, e.msg \in DOMAIN prepared
    PROVE  Message(e) \in Messages /\ Message(e).size \in Nat
  <1>1. prepared[e.msg] \in Messages
    OBVIOUS
  <1> QED
    BY <1>1, FragmentsAssumption DEF Message, Messages

\* fragment() returns the next length bytes of the message, or what is left.
LEMMA FragmentType ==
    ASSUME prepared \in Seq(Messages),
           NEW e \in Entries, e.msg \in DOMAIN prepared, e.at <= Message(e).size,
           NEW length \in Nat
    PROVE  LET f == fragment(e, length)
           IN  /\ f \in Fragments
               /\ f.msg = e.msg /\ f.oid = e.oid /\ f.fid = e.fid /\ f.lo = e.at
               /\ e.at <= f.hi /\ f.hi <= Message(e).size
               /\ f.end <=> f.hi = Message(e).size
  <1>1. Message(e).size \in Nat
    BY MessageType
  <1>2. e.at \in Nat /\ e.msg \in MessageIds /\ e.oid \in ObjectIds /\ e.fid \in Nat
    BY DEF Entries
  <1> DEFINE n == Min(length, Left(e))
  <1>3. Left(e) \in Nat /\ n \in 0..Left(e)
    BY <1>1, <1>2 DEF Min, Left
  <1>4. /\ e.at + n \in Nat /\ e.at <= e.at + n /\ e.at + n <= Message(e).size
        /\ n = Left(e) <=> e.at + n = Message(e).size
    BY <1>1, <1>2, <1>3 DEF Left
  <1>5. (n = Left(e)) \in BOOLEAN
    OBVIOUS
  <1>6. fragment(e, length) = [msg |-> e.msg, oid |-> e.oid, fid |-> e.fid,
                               lo |-> e.at, hi |-> e.at + n, end |-> n = Left(e)]
    BY DEF fragment
  <1> HIDE DEF n
  <1>7. fragment(e, length) \in Fragments
    BY <1>2, <1>4, <1>5, <1>6 DEF Fragments
  <1>8. fragment(e, length).hi = e.at + n
    BY <1>6
  <1>9. fragment(e, length).end = (n = Left(e))
    BY <1>6
  <1>10. /\ fragment(e, length).msg = e.msg /\ fragment(e, length).oid = e.oid
         /\ fragment(e, length).fid = e.fid /\ fragment(e, length).lo = e.at
    BY <1>6
  <1> QED
    BY <1>4, <1>7, <1>8, <1>9, <1>10

LEMMA RestType ==
    ASSUME NEW e \in Entries, NEW f \in Fragments
    PROVE  /\ Rest(e, f) \in Entries
           /\ Rest(e, f).msg = e.msg /\ Rest(e, f).oid = e.oid
           /\ Rest(e, f).at = f.hi /\ Rest(e, f).fid = e.fid + 1
  <1>1. f.hi \in Nat /\ e.fid + 1 \in Nat
    BY DEF Entries, Fragments
  <1>2. Rest(e, f) \in Entries
    BY <1>1 DEF Rest, Entries
  <1>3. Rest(e, f).msg = e.msg /\ Rest(e, f).oid = e.oid
    BY DEF Rest, Entries
  <1>4. Rest(e, f).at = f.hi
    BY DEF Rest, Entries
  <1>5. Rest(e, f).fid = e.fid + 1
    BY DEF Rest, Entries
  <1> QED
    BY <1>2, <1>3, <1>4, <1>5

\* Put() leaves every other entry of the dict as it is.
QueuedMessages == [oid : ObjectIds, data : Seq(Chunks)]

LEMMA PutType ==
    ASSUME NEW queue \in Seq(QueuedMessages), NEW o \in ObjectIds,
           NEW data \in Seq(Chunks)
    PROVE  /\ Put(queue, o, data) \in Seq(QueuedMessages)
           /\ \A i \in DOMAIN Put(queue, o, data) :
                 \/ Put(queue, o, data)[i] = [oid |-> o, data |-> data]
                 \/ i \in DOMAIN queue /\ Put(queue, o, data)[i] = queue[i]
  <1> DEFINE e == [oid |-> o, data |-> data]
  <1>1. e \in QueuedMessages
    BY DEF QueuedMessages
  <1>2. CASE \E i \in DOMAIN queue : queue[i].oid = o
    <2>0. Put(queue, o, data) =
            [i \in DOMAIN queue |-> IF queue[i].oid = o THEN e ELSE queue[i]]
      BY <1>2, Zenon DEF Put
    <2>1. Put(queue, o, data) =
            [i \in 1..Len(queue) |-> IF queue[i].oid = o THEN e ELSE queue[i]]
      <3>1. DOMAIN queue = 1..Len(queue)
        OBVIOUS
      <3> QED
        BY <2>0, <3>1, Zenon
    <2>2. \A i \in 1..Len(queue) : queue[i] \in QueuedMessages
      OBVIOUS
    <2> HIDE DEF e
    <2>3. Put(queue, o, data) \in [1..Len(queue) -> QueuedMessages]
      BY <1>1, <2>1, <2>2
    <2>4. \A i \in 1..Len(queue) : Put(queue, o, data)[i] = e
                                \/ Put(queue, o, data)[i] = queue[i]
      BY <2>1
    <2>5. Len(queue) \in Nat /\ DOMAIN queue = 1..Len(queue)
      OBVIOUS
    <2> QED
      BY <2>3, <2>4, <2>5 DEF e
  <1>3. CASE ~ \E i \in DOMAIN queue : queue[i].oid = o
    <2>1. Put(queue, o, data) = Append(queue, e)
      BY <1>3 DEF Put
    <2> HIDE DEF e
    <2>2. /\ Append(queue, e) \in Seq(QueuedMessages)
          /\ \A i \in DOMAIN Append(queue, e) :
                \/ Append(queue, e)[i] = e
                \/ i \in DOMAIN queue /\ Append(queue, e)[i] = queue[i]
      BY <1>1
    <2> QED
      BY <2>1, <2>2 DEF e
  <1> QED
    BY <1>2, <1>3

\* Every payload has a place on the transport.
LEMMA RouteType ==
    ASSUME NEW t \in Targets, NEW s \in Streams
    PROVE  Route(t, s) \in Channels
  BY DEF Route, Channels

\* frags are the fragments of the k oldest messages, put into one payload.
Cut(k, frags) ==
    \A i \in 1..k :
        LET e == send_buffer[i]
            f == frags[i]
        IN  /\ f.msg = e.msg /\ f.oid = e.oid /\ f.fid = e.fid /\ f.lo = e.at
            /\ e.at <= f.hi /\ f.hi <= Message(e).size
            /\ f.end <=> f.hi = Message(e).size

\* What data_to_send() leaves in the send buffer, puts on the wire, and adds to
\* the history.
Sent(k, frags) ==
    LET rest  == Rest(send_buffer[k], frags[k])
        later == SubSeq(send_buffer, k + 1, Len(send_buffer))
        head  == Message(send_buffer[1])
        route == Route(head.target, head.stream)
    IN  /\ send_buffer' = IF frags[k].end THEN later ELSE <<rest>> \o later
        /\ wire' = [wire EXCEPT ![route] =
                      Append(@, [target |-> head.target,
                                 stream |-> head.stream, data |-> frags])]
        /\ cuts' = [m \in MessageIds |->
                      IF \E i \in 1..k : frags[i].msg = m
                        THEN Append(cuts[m], (CHOOSE f \in Range(frags) : f.msg = m).hi)
                        ELSE cuts[m]]
        /\ UNCHANGED <<prepared, fragment_count, faults, reconnects, receiverVars>>

LEMMA SentFragments ==
    ASSUME TypeInv, NEW amount \in Amounts, data_to_send(amount)
    PROVE  \E k \in 1..Len(send_buffer) : \E frags \in [1..k -> Fragments] :
               Cut(k, frags) /\ Sent(k, frags)
  <1>0. PICK k \in 1..Len(send_buffer) : \E room \in [1..k -> Header..amount] :
          Sent(k, [i \in 1..k |-> fragment(send_buffer[i], room[i] - Header)])
    BY DEF data_to_send, Sent
  <1>1. PICK room \in [1..k -> Header..amount] :
          Sent(k, [i \in 1..k |-> fragment(send_buffer[i], room[i] - Header)])
    BY <1>0
  <1> DEFINE frags == [i \in 1..k |-> fragment(send_buffer[i], room[i] - Header)]
  <1>2. ASSUME NEW i \in 1..k
        PROVE  /\ send_buffer[i] \in Entries
               /\ send_buffer[i].msg \in DOMAIN prepared
               /\ send_buffer[i].at <= Message(send_buffer[i]).size
               /\ room[i] - Header \in Nat
    <2>1. send_buffer \in Seq(Entries) /\ i \in DOMAIN send_buffer
      BY DEF TypeInv, TypeOK
    <2>2. send_buffer[i] \in Entries
      BY <2>1
    <2>3. room[i] \in Header..amount /\ amount \in Nat /\ Header \in Nat
      BY FragmentsAssumption
    <2> QED
      BY <2>1, <2>2, <2>3 DEF TypeInv, EntriesOK
  <1>3. prepared \in Seq(Messages)
    BY DEF TypeInv, TypeOK
  <1>4. frags \in [1..k -> Fragments]
    BY <1>2, <1>3, FragmentType
  <1>5. Cut(k, frags)
    <2> SUFFICES ASSUME NEW i \in 1..k
                 PROVE  LET e == send_buffer[i]
                            f == fragment(e, room[i] - Header)
                        IN  /\ f.msg = e.msg /\ f.oid = e.oid
                            /\ f.fid = e.fid /\ f.lo = e.at
                            /\ e.at <= f.hi /\ f.hi <= Message(e).size
                            /\ f.end <=> f.hi = Message(e).size
      BY DEF Cut
    <2> QED
      BY <1>2, <1>3, FragmentType
  <1> QED
    BY <1>1, <1>4, <1>5
-----------------------------------------------------------------------------
(* Type correctness *)

LEMMA InitType == Init => TypeInv
  <1> SUFFICES ASSUME Init PROVE TypeInv
    OBVIOUS
  <1>1. /\ \A S : <<>> \in Seq(S)
        /\ Len(<<>>) = 0 /\ DOMAIN <<>> = {}
    OBVIOUS
  <1>2. /\ fragment_count = 1 /\ Len(prepared) = 0
        /\ faults = 0 /\ reconnects = 0 /\ raised \in BOOLEAN
    BY <1>1 DEF Init
  <1>3. /\ cuts \in [MessageIds -> Seq(Nat)]
        /\ wire \in [Channels -> Seq(Payloads)]
        /\ incoming_fragments \in [ObjectIds -> Seq(Chunks)]
    BY <1>1 DEF Init
  <1>4. /\ fragment_count \in 1..(Len(prepared) + 1)
        /\ faults \in 0..MaxFaults /\ reconnects \in 0..MaxReconnects
    BY <1>2, FragmentsAssumption
  <1> QED
    BY <1>1, <1>2, <1>3, <1>4 DEF Init, TypeInv, TypeOK, EntriesOK

LEMMA PrepareType ==
    ASSUME TypeInv, NEW t \in Targets, NEW s \in Streams, NEW n \in Sizes,
           prepare_message(t, s, n)
    PROVE  TypeInv'
  <1> DEFINE new   == [target |-> t, stream |-> s, size |-> n]
             entry == [msg |-> Len(prepared) + 1, oid |-> fragment_count,
                       at |-> 0, fid |-> 0]
  <1>1. /\ prepared \in Seq(Messages) /\ send_buffer \in Seq(Entries)
        /\ fragment_count \in 1..(Len(prepared) + 1) /\ Len(prepared) < MaxMessages
        /\ n \in Nat /\ MaxMessages \in Nat
    BY FragmentsAssumption DEF TypeInv, TypeOK, prepare_message
  <1>2. new \in Messages
    BY DEF Messages
  <1>3. entry \in Entries
    BY <1>1 DEF Entries, MessageIds, ObjectIds
  <1>4. /\ prepared' = Append(prepared, new) /\ send_buffer' = Append(send_buffer, entry)
        /\ fragment_count' = fragment_count + 1
        /\ UNCHANGED <<cuts, networkVars, receiverVars>>
    BY DEF prepare_message
  <1> HIDE DEF new, entry
  <1>5. TypeOK'
    BY <1>1, <1>2, <1>3, <1>4
    DEF TypeInv, TypeOK, networkVars, receiverVars
  <1>6. EntriesOK'
    <2> SUFFICES ASSUME NEW i \in DOMAIN send_buffer'
                 PROVE  /\ send_buffer'[i].msg \in DOMAIN prepared'
                        /\ send_buffer'[i].at <= prepared'[send_buffer'[i].msg].size
      BY DEF EntriesOK, Message
    <2>1. CASE i \in DOMAIN send_buffer
      BY <1>1, <1>2, <1>4, <2>1 DEF TypeInv, EntriesOK, Message
    <2>2. CASE i = Len(send_buffer) + 1
      <3>1. send_buffer'[i] = entry /\ prepared'[Len(prepared) + 1] = new
        BY <1>1, <1>2, <1>3, <1>4, <2>2
      <3> QED
        BY <1>1, <1>2, <1>4, <3>1 DEF entry, new
    <2> QED
      BY <1>1, <1>3, <1>4, <2>1, <2>2
  <1> QED
    BY <1>5, <1>6 DEF TypeInv

LEMMA SendTypeOf ==
    ASSUME TypeInv, NEW k \in 1..Len(send_buffer), NEW frags \in [1..k -> Fragments],
           Cut(k, frags), Sent(k, frags)
    PROVE  TypeInv'
  <1> DEFINE rest  == Rest(send_buffer[k], frags[k])
             later == SubSeq(send_buffer, k + 1, Len(send_buffer))
             head  == Message(send_buffer[1])
             route == Route(head.target, head.stream)
             payload == [target |-> head.target, stream |-> head.stream, data |-> frags]
  <1>3. /\ prepared \in Seq(Messages) /\ send_buffer \in Seq(Entries)
        /\ k \in Nat /\ k >= 1 /\ k <= Len(send_buffer)
        /\ wire \in [Channels -> Seq(Payloads)]
        /\ cuts \in [MessageIds -> Seq(Nat)]
    BY DEF TypeInv, TypeOK
  <1>4. /\ send_buffer[k] \in Entries /\ send_buffer[1] \in Entries
        /\ send_buffer[1].msg \in DOMAIN prepared
        /\ send_buffer[k].msg \in DOMAIN prepared
    BY <1>3 DEF TypeInv, EntriesOK
  <1>5. head \in Messages
    BY <1>3, <1>4, MessageType
  <1>6. frags[k] \in Fragments /\ frags[k].hi \in Nat
    BY <1>3 DEF Fragments
  <1>7. later \in Seq(Entries) /\ Len(later) = Len(send_buffer) - k
        /\ \A i \in 1..Len(later) : later[i] = send_buffer[k + i]
    <2>1. \A i \in (k + 1)..Len(send_buffer) : send_buffer[i] \in Entries
      BY <1>3
    <2> QED
      BY <1>3, <2>1, SubSeqProperties, SMTT(30)
  <1>8. rest \in Entries /\ rest.msg = send_buffer[k].msg /\ rest.at = frags[k].hi
    BY <1>4, <1>6, RestType
  <1>9. payload \in Payloads /\ route \in Channels
    <2>1. frags \in Seq(Fragments)
      BY <1>3
    <2> QED
      BY <1>5, <2>1, RouteType DEF Payloads, Messages
  <1>10. /\ send_buffer' = IF frags[k].end THEN later ELSE <<rest>> \o later
         /\ wire' = [wire EXCEPT ![route] = Append(@, payload)]
         /\ cuts' = [m \in MessageIds |->
                       IF \E i \in 1..k : frags[i].msg = m
                         THEN Append(cuts[m], (CHOOSE f \in Range(frags) : f.msg = m).hi)
                         ELSE cuts[m]]
         /\ UNCHANGED <<prepared, fragment_count, faults, reconnects, receiverVars>>
    BY DEF Sent
  <1> HIDE DEF rest, later, head, route, payload
  <1>11. send_buffer' \in Seq(Entries)
    BY <1>7, <1>8, <1>10
  <1>12. wire' \in [Channels -> Seq(Payloads)]
    BY <1>3, <1>9, <1>10
  <1>13. cuts' \in [MessageIds -> Seq(Nat)]
    <2> SUFFICES ASSUME NEW m \in MessageIds, \E i \in 1..k : frags[i].msg = m
                 PROVE  (CHOOSE f \in Range(frags) : f.msg = m).hi \in Nat
      BY <1>3, <1>10
    <2>1. \E f \in Range(frags) : f.msg = m
      BY DEF Range
    <2>2. \A f \in Range(frags) : f.hi \in Nat
      BY DEF Range, Fragments
    <2> QED
      BY <2>1, <2>2
  <1>14. TypeOK'
    BY <1>10, <1>11, <1>12, <1>13 DEF TypeInv, TypeOK, receiverVars
  <1>15. EntriesOK'
    <2> SUFFICES ASSUME NEW i \in DOMAIN send_buffer'
                 PROVE  /\ send_buffer'[i].msg \in DOMAIN prepared
                        /\ send_buffer'[i].at <= prepared[send_buffer'[i].msg].size
      BY <1>10 DEF EntriesOK, Message
    <2>1. \A j \in 1..Len(later) :
            /\ later[j].msg \in DOMAIN prepared
            /\ later[j].at <= prepared[later[j].msg].size
      <3> SUFFICES ASSUME NEW j \in 1..Len(later)
                   PROVE  /\ later[j].msg \in DOMAIN prepared
                          /\ later[j].at <= prepared[later[j].msg].size
        OBVIOUS
      <3>1. k + j \in DOMAIN send_buffer
        BY <1>3, <1>7
      <3>2. later[j] = send_buffer[k + j]
        BY <1>7
      <3> QED
        BY <3>1, <3>2 DEF TypeInv, EntriesOK, Message
    <2>2. rest.msg \in DOMAIN prepared /\ rest.at <= prepared[rest.msg].size
      BY <1>3, <1>4, <1>8 DEF Cut, Message
    <2>3. CASE frags[k].end
      BY <1>7, <1>10, <2>1, <2>3
    <2>4. CASE ~frags[k].end
      <3>1. \/ i = 1 /\ send_buffer'[i] = rest
            \/ i - 1 \in 1..Len(later) /\ send_buffer'[i] = later[i - 1]
        BY <1>7, <1>8, <1>10, <2>4
      <3> QED
        BY <2>1, <2>2, <3>1
    <2> QED
      BY <2>3, <2>4
  <1> QED
    BY <1>14, <1>15 DEF TypeInv

LEMMA SendType ==
    ASSUME TypeInv, NEW amount \in Amounts, data_to_send(amount)
    PROVE  TypeInv'
  <1>1. PICK k \in 1..Len(send_buffer) : \E frags \in [1..k -> Fragments] :
               Cut(k, frags) /\ Sent(k, frags)
    BY SentFragments
  <1> QED
    BY <1>1, SendTypeOf

LEMMA HeadOfChannel ==
    ASSUME TypeOK, NEW c \in Channels, wire[c] # <<>>
    PROVE  /\ Head(wire[c]).data \in Seq(Fragments)
           /\ [wire EXCEPT ![c] = Tail(@)] \in [Channels -> Seq(Payloads)]
  <1>1. wire[c] \in Seq(Payloads) /\ wire \in [Channels -> Seq(Payloads)]
    BY DEF TypeOK
  <1>2. Head(wire[c]) \in Payloads /\ Tail(wire[c]) \in Seq(Payloads)
    BY <1>1, HeadTailProperties
  <1> QED
    BY <1>1, <1>2 DEF Payloads

LEMMA TransportType ==
    ASSUME TypeInv, NEW c \in Channels, receive_data(c) \/ Lose(c) \/ Duplicate(c)
    PROVE  TypeInv'
  <1>1. wire[c] # <<>> /\ UNCHANGED senderVars
    BY DEF receive_data, Lose, Duplicate
  <1>2. /\ Head(wire[c]).data \in Seq(Fragments)
        /\ [wire EXCEPT ![c] = Tail(@)] \in [Channels -> Seq(Payloads)]
    BY <1>1, HeadOfChannel DEF TypeInv
  <1>3. EntriesOK'
    BY <1>1 DEF TypeInv, EntriesOK, Message, senderVars
  <1>4. wire' \in [Channels -> Seq(Payloads)] /\ receive_buffer' \in Seq(Fragments)
    <2>1. /\ wire \in [Channels -> Seq(Payloads)] /\ receive_buffer \in Seq(Fragments)
      BY DEF TypeInv, TypeOK
    <2>2. /\ wire' = wire \/ wire' = [wire EXCEPT ![c] = Tail(@)]
          /\ \/ receive_buffer' = receive_buffer
             \/ receive_buffer' = receive_buffer \o Head(wire[c]).data
      BY DEF receive_data, Lose, Duplicate, receiverVars
    <2>3. receive_buffer \o Head(wire[c]).data \in Seq(Fragments)
      BY <1>2, <2>1
    <2> QED
      BY <1>2, <2>1, <2>2, <2>3
  <1>5. faults' \in 0..MaxFaults
    BY FragmentsAssumption DEF TypeInv, TypeOK, receive_data, Lose, Duplicate
  <1>6. TypeOK'
    BY <1>4, <1>5
    DEF TypeInv, TypeOK, receive_data, Lose, Duplicate, senderVars, receiverVars
  <1> QED
    BY <1>3, <1>6 DEF TypeInv

LEMMA ReconnectType ==
    ASSUME TypeInv, Reconnect
    PROVE  TypeInv'
  <1>1. \A S : <<>> \in Seq(S)
    OBVIOUS
  <1>2. /\ wire' \in [Channels -> Seq(Payloads)]
        /\ incoming_fragments' \in [ObjectIds -> Seq(Chunks)]
        /\ receive_buffer' \in Seq(Fragments)
        /\ incoming_messages' \in Seq([oid : ObjectIds, data : Seq(Chunks)])
        /\ send_buffer' \in Seq(Entries)
        /\ UNCHANGED <<prepared, cuts, faults, delivered, raised>>
    BY <1>1 DEF TypeInv, TypeOK, Reconnect, receiverVars
  <1>3. fragment_count' \in 1..(Len(prepared) + 1) /\ reconnects' \in 0..MaxReconnects
    BY FragmentsAssumption DEF TypeInv, TypeOK, Reconnect
  <1>4. EntriesOK'
    BY DEF TypeInv, EntriesOK, Reconnect, Message
  <1> QED
    BY <1>2, <1>3, <1>4 DEF TypeInv, TypeOK

LEMMA UnpackType ==
    ASSUME TypeInv, UnpackFragment
    PROVE  TypeInv'
  <1> DEFINE f      == Head(receive_buffer)
             joined == Append(incoming_fragments[f.oid], Chunk(f))
             entry  == [oid |-> f.oid, data |-> joined]
  <1>1. /\ receive_buffer \in Seq(Fragments) /\ receive_buffer # <<>>
        /\ incoming_fragments \in [ObjectIds -> Seq(Chunks)]
        /\ incoming_messages \in Seq([oid : ObjectIds, data : Seq(Chunks)])
        /\ UNCHANGED <<senderVars, networkVars, delivered>>
    BY DEF TypeInv, TypeOK, UnpackFragment
  <1>2. f \in Fragments /\ receive_buffer' \in Seq(Fragments)
    BY <1>1, HeadTailProperties DEF UnpackFragment
  <1>3. f.oid \in ObjectIds /\ Chunk(f) \in Chunks
    BY <1>2 DEF Fragments, Chunks, Chunk
  <1>4. joined \in Seq(Chunks) /\ entry \in [oid : ObjectIds, data : Seq(Chunks)]
    BY <1>1, <1>3
  <1>5. Put(incoming_messages, f.oid, joined)
          \in Seq([oid : ObjectIds, data : Seq(Chunks)])
    BY <1>1, <1>3, <1>4, PutType DEF QueuedMessages
  <1>6. /\ incoming_fragments' \in [ObjectIds -> Seq(Chunks)]
        /\ incoming_messages' \in Seq([oid : ObjectIds, data : Seq(Chunks)])
        /\ raised' \in BOOLEAN
    <2>1. raised \in BOOLEAN
      BY DEF TypeInv, TypeOK
    <2>2. \/ /\ raised' = TRUE
             /\ UNCHANGED <<incoming_fragments, incoming_messages>>
          \/ /\ incoming_fragments' = [incoming_fragments EXCEPT ![f.oid] = joined]
             /\ UNCHANGED <<incoming_messages, raised>>
          \/ /\ incoming_fragments' = [incoming_fragments EXCEPT ![f.oid] = <<>>]
             /\ incoming_messages' = Put(incoming_messages, f.oid, joined)
             /\ UNCHANGED raised
      BY DEF UnpackFragment
    <2>3. <<>> \in Seq(Chunks)
      OBVIOUS
    <2> HIDE DEF joined, f
    <2> QED
      BY <1>1, <1>3, <1>4, <1>5, <2>1, <2>2, <2>3
  <1> QED
    BY <1>1, <1>2, <1>6
    DEF TypeInv, TypeOK, EntriesOK, Message, senderVars, networkVars

LEMMA ReturnType ==
    ASSUME TypeInv, ReturnEvent
    PROVE  TypeInv'
  <1> DEFINE Queued == [oid : ObjectIds, data : Seq(Chunks)]
  <1>1. incoming_messages \in Seq(Queued) /\ incoming_messages # <<>>
    BY DEF TypeInv, TypeOK, ReturnEvent
  <1>2. Head(incoming_messages) \in Queued /\ Tail(incoming_messages) \in Seq(Queued)
    BY <1>1, HeadTailProperties
  <1>3. Head(incoming_messages).data \in Seq(Chunks)
    BY <1>2
  <1> QED
    BY <1>2, <1>3, SMTT(30)
    DEF TypeInv, TypeOK, EntriesOK, Message, ReturnEvent, senderVars, networkVars

LEMMA NextType == TypeInv /\ [Next]_vars => TypeInv'
  <1> SUFFICES ASSUME TypeInv, [Next]_vars PROVE TypeInv'
    OBVIOUS
  <1>1. CASE \E t \in Targets, s \in Streams, n \in Sizes : prepare_message(t, s, n)
    BY <1>1, PrepareType
  <1>2. CASE Send
    BY <1>2, SendType DEF Send
  <1>3. CASE \E c \in Channels : receive_data(c) \/ Lose(c) \/ Duplicate(c)
    BY <1>3, TransportType
  <1>4. CASE Reconnect
    BY <1>4, ReconnectType
  <1>5. CASE UnpackFragment
    BY <1>5, UnpackType
  <1>6. CASE ReturnEvent
    BY <1>6, ReturnType
  <1>7. CASE UNCHANGED vars
    BY <1>7 DEF vars, senderVars, networkVars, receiverVars, TypeInv, TypeOK,
                EntriesOK, Message
  <1> QED
    BY <1>1, <1>2, <1>3, <1>4, <1>5, <1>6, <1>7 DEF Next, NextEvent

\* TypeCorrect: the fields of both pools keep their types, and no message is
\* cut past its end, for all faults and reconnections.
THEOREM TypeCorrect == Spec => []TypeOK
  <1>1. Spec => []TypeInv
    BY InitType, NextType, PTL DEF Spec
  <1> QED
    BY <1>1, PTL DEF TypeInv
-----------------------------------------------------------------------------
(* Integrity.  The history variable cuts fixes where each message is cut    *)
(* the first time, so two fragments with the same object id and fragment id *)
(* are the same fragment, be it a duplicate; and the chunks kept for an     *)
(* object id are the first fragments of that message, without a gap.        *)

\* Where the fragment after the first k ones begins.
Start(m, k) == IF k = 0 THEN 0 ELSE cuts[m][k]

\* f was cut from the message that its object id says.
Genuine(f) ==
    /\ f.oid = f.msg /\ f.msg \in DOMAIN prepared
    /\ f.fid + 1 \in DOMAIN cuts[f.msg]
    /\ f.lo = Start(f.msg, f.fid) /\ f.hi = cuts[f.msg][f.fid + 1]
    /\ f.end => f.hi = prepared[f.msg].size

\* A message of the send buffer goes on where it was cut last, under the object
\* id of its place in prepared.
SenderInv ==
    /\ fragment_count = Len(prepared) + 1
    /\ \A i, j \in DOMAIN send_buffer : send_buffer[i].msg = send_buffer[j].msg => i = j
    /\ \A i \in DOMAIN send_buffer :
          LET e == send_buffer[i]
          IN  e.oid = e.msg /\ e.fid = Len(cuts[e.msg]) /\ e.at = Start(e.msg, e.fid)
    /\ \A m \in MessageIds : m \notin DOMAIN prepared => cuts[m] = <<>>

WireInv ==
    \A c \in Channels : \A i \in DOMAIN wire[c] : \A j \in DOMAIN wire[c][i].data :
        Genuine(wire[c][i].data[j])

BufferInv == \A i \in DOMAIN receive_buffer : Genuine(receive_buffer[i])

\* The i-th chunk kept for an object id is the i-th fragment of that message.
IsChunk(o, i, chunk) ==
    /\ o \in DOMAIN prepared /\ chunk.msg = o
    /\ i \in DOMAIN cuts[o]
    /\ chunk.lo = Start(o, i - 1) /\ chunk.hi = cuts[o][i]

ChunksInv ==
    \A o \in ObjectIds : \A i \in DOMAIN incoming_fragments[o] :
        IsChunk(o, i, incoming_fragments[o][i])

IInv == /\ TypeInv /\ reconnects = 0
        /\ SenderInv /\ WireInv /\ BufferInv /\ ChunksInv /\ Integrity

\* UntilReconnect: up to the first blank client the inductive invariant holds,
\* under every fault of the transport.
UntilReconnect == reconnects = 0 => IInv

LEMMA InitInv == Init => IInv
  <1> SUFFICES ASSUME Init PROVE IInv
    OBVIOUS
  <1>1. TypeInv
    BY InitType
  <1>2. Len(<<>>) = 0 /\ DOMAIN <<>> = {}
    OBVIOUS
  <1>3. SenderInv
    BY <1>2 DEF Init, SenderInv
  <1>4. WireInv /\ BufferInv
    BY <1>2 DEF Init, WireInv, BufferInv
  <1>5. ChunksInv
    BY <1>2 DEF Init, ChunksInv
  <1>6. Integrity
    BY <1>2 DEF Init, Integrity
  <1> QED
    BY <1>1, <1>3, <1>4, <1>5, <1>6 DEF IInv, Init

\* Messages are only added, and messages are only cut further.
Grows ==
    /\ \A m \in DOMAIN prepared : m \in DOMAIN prepared' /\ prepared'[m] = prepared[m]
    /\ \A m \in MessageIds : \A i \in DOMAIN cuts[m] :
          i \in DOMAIN cuts'[m] /\ cuts'[m][i] = cuts[m][i]

LEMMA GenuineStable ==
    ASSUME TypeOK, Grows, NEW f \in Fragments, Genuine(f)
    PROVE  Genuine(f)'
  <1>1. /\ f.msg \in MessageIds /\ f.fid \in Nat
        /\ cuts[f.msg] \in Seq(Nat) /\ f.fid + 1 \in DOMAIN cuts[f.msg]
    BY DEF TypeOK, Fragments, Genuine
  <1>2. f.fid # 0 => f.fid \in DOMAIN cuts[f.msg]
    BY <1>1
  <1>3. Start(f.msg, f.fid)' = Start(f.msg, f.fid)
    BY <1>1, <1>2 DEF Grows, Start
  <1> QED
    BY <1>1, <1>3 DEF Grows, Genuine

LEMMA ChunkStable ==
    ASSUME TypeOK, Grows, NEW o \in ObjectIds, NEW i \in Nat \ {0}, NEW chunk \in Chunks,
           IsChunk(o, i, chunk)
    PROVE  IsChunk(o, i, chunk)'
  <1>1. o \in MessageIds /\ cuts[o] \in Seq(Nat) /\ i \in DOMAIN cuts[o]
    BY DEF TypeOK, IsChunk, MessageIds, ObjectIds
  <1>2. i - 1 # 0 => i - 1 \in DOMAIN cuts[o]
    BY <1>1
  <1>3. Start(o, i - 1)' = Start(o, i - 1)
    BY <1>1, <1>2 DEF Grows, Start
  <1> QED
    BY <1>1, <1>3 DEF Grows, IsChunk

LEMMA WholeStable ==
    ASSUME Grows, NEW data \in Seq(Chunks), IsWhole(data)
    PROVE  IsWhole(data)'
  BY DEF Grows, IsWhole

\* What has been received stays what it was when the sender moves on.
LEMMA ReceivedStable ==
    ASSUME IInv, Grows, TypeOK', UNCHANGED receiverVars
    PROVE  (BufferInv /\ ChunksInv /\ Integrity)'
  <1>1. TypeOK
    BY DEF IInv, TypeInv
  <1>2. BufferInv'
    <2> SUFFICES ASSUME NEW i \in DOMAIN receive_buffer
                 PROVE  Genuine(receive_buffer[i])'
      BY DEF BufferInv, receiverVars
    <2>1. receive_buffer[i] \in Fragments /\ Genuine(receive_buffer[i])
      BY <1>1, SMTT(30) DEF TypeOK, IInv, BufferInv
    <2>2. receive_buffer'[i] = receive_buffer[i]
      BY DEF receiverVars
    <2> QED
      BY <1>1, <2>1, <2>2, GenuineStable DEF Genuine, Start
  <1>3. ChunksInv'
    <2> SUFFICES ASSUME NEW o \in ObjectIds, NEW i \in DOMAIN incoming_fragments[o]
                 PROVE  IsChunk(o, i, incoming_fragments[o][i])'
      BY DEF ChunksInv, receiverVars
    <2>0. incoming_fragments[o] \in Seq(Chunks)
      BY <1>1 DEF TypeOK
    <2>1. /\ i \in Nat \ {0} /\ incoming_fragments[o][i] \in Chunks
          /\ IsChunk(o, i, incoming_fragments[o][i])
      <3>1. i \in Nat \ {0} /\ incoming_fragments[o][i] \in Chunks
        BY <2>0
      <3>2. IsChunk(o, i, incoming_fragments[o][i])
        BY DEF IInv, ChunksInv
      <3> QED
        BY <3>1, <3>2
    <2>2. incoming_fragments'[o][i] = incoming_fragments[o][i]
      BY DEF receiverVars
    <2> QED
      BY <1>1, <2>1, <2>2, ChunkStable DEF IsChunk, Start
  <1>4. Integrity'
    <2>1. ASSUME NEW i \in DOMAIN incoming_messages
          PROVE  IsWhole(incoming_messages[i].data)'
      <3>1. /\ incoming_messages[i].data \in Seq(Chunks)
            /\ IsWhole(incoming_messages[i].data)
        <4>1. incoming_messages \in Seq(QueuedMessages)
          BY <1>1 DEF TypeOK, QueuedMessages
        <4>2. incoming_messages[i] \in QueuedMessages
          BY <4>1
        <4> QED
          BY <4>2 DEF IInv, Integrity, QueuedMessages
      <3>2. incoming_messages'[i] = incoming_messages[i]
        BY DEF receiverVars
      <3> QED
        BY <3>1, <3>2, WholeStable DEF IsWhole
    <2>2. ASSUME NEW i \in DOMAIN delivered
          PROVE  IsWhole(delivered[i])'
      <3>1. delivered[i] \in Seq(Chunks) /\ IsWhole(delivered[i])
        BY <1>1, SMTT(30) DEF TypeOK, IInv, Integrity
      <3>2. delivered'[i] = delivered[i]
        BY DEF receiverVars
      <3> QED
        BY <3>1, <3>2, WholeStable DEF IsWhole
    <2> QED
      BY <2>1, <2>2 DEF Integrity, receiverVars
  <1> QED
    BY <1>2, <1>3, <1>4
LEMMA WireStable ==
    ASSUME IInv, Grows, NEW c \in Channels, NEW i \in DOMAIN wire[c],
           NEW j \in DOMAIN wire[c][i].data, NEW f, f = wire[c][i].data[j]
    PROVE  f \in Fragments /\ Genuine(f)'
  <1>1. TypeOK
    BY DEF IInv, TypeInv
  <1>2. wire[c] \in Seq(Payloads)
    BY <1>1 DEF TypeOK
  <1>3. wire[c][i] \in Payloads
    BY <1>2
  <1>4. wire[c][i].data \in Seq(Fragments)
    BY <1>3 DEF Payloads
  <1>5. f \in Fragments
    BY <1>4
  <1>6. Genuine(f)
    BY DEF IInv, WireInv
  <1> QED
    BY <1>1, <1>5, <1>6, GenuineStable

LEMMA PrepareInv ==
    ASSUME IInv, NEW t \in Targets, NEW s \in Streams, NEW n \in Sizes,
           prepare_message(t, s, n)
    PROVE  IInv'
  <1> DEFINE new   == [target |-> t, stream |-> s, size |-> n]
             entry == [msg |-> Len(prepared) + 1, oid |-> fragment_count,
                       at |-> 0, fid |-> 0]
  <1>1. TypeInv /\ TypeInv' /\ SenderInv
    BY PrepareType DEF IInv
  <1>2. /\ prepared \in Seq(Messages) /\ send_buffer \in Seq(Entries)
        /\ fragment_count = Len(prepared) + 1 /\ Len(prepared) < MaxMessages
        /\ new \in Messages /\ cuts \in [MessageIds -> Seq(Nat)]
        /\ Len(prepared) + 1 \in MessageIds
    <2>1. /\ prepared \in Seq(Messages) /\ send_buffer \in Seq(Entries)
          /\ cuts \in [MessageIds -> Seq(Nat)]
      BY <1>1 DEF TypeInv, TypeOK
    <2>2. fragment_count = Len(prepared) + 1 /\ Len(prepared) < MaxMessages
      BY <1>1 DEF prepare_message, SenderInv
    <2>3. new \in Messages
      BY DEF Messages
    <2>4. Len(prepared) + 1 \in MessageIds
      BY <2>1, <2>2, FragmentsAssumption DEF MessageIds
    <2> QED
      BY <2>1, <2>2, <2>3, <2>4
  <1>3. /\ prepared' = Append(prepared, new) /\ send_buffer' = Append(send_buffer, entry)
        /\ fragment_count' = fragment_count + 1
        /\ UNCHANGED <<cuts, networkVars, receiverVars>>
    BY DEF prepare_message
  <1>4. /\ entry.msg = Len(prepared) + 1 /\ entry.oid = Len(prepared) + 1
        /\ entry.at = 0 /\ entry.fid = 0
    BY <1>2
  <1> HIDE DEF new, entry
  <1>5. Grows
    BY <1>2, <1>3 DEF Grows
  <1>6. cuts[Len(prepared) + 1] = <<>>
    BY <1>1, <1>2 DEF SenderInv
  <1>7. \A i \in DOMAIN send_buffer' :
          \/ i \in DOMAIN send_buffer /\ send_buffer'[i] = send_buffer[i]
          \/ i = Len(send_buffer) + 1 /\ send_buffer'[i] = entry
    BY <1>2, <1>3
  <1>8. \A i \in DOMAIN send_buffer : send_buffer[i].msg \in 1..Len(prepared)
    BY <1>1, <1>2 DEF TypeInv, EntriesOK
  <1>9. SenderInv'
    <2>1. fragment_count' = Len(prepared') + 1
      BY <1>2, <1>3
    <2>2. \A i, j \in DOMAIN send_buffer' :
            send_buffer'[i].msg = send_buffer'[j].msg => i = j
      BY <1>1, <1>2, <1>4, <1>7, <1>8, SMTT(30) DEF SenderInv
    <2>3. ASSUME NEW i \in DOMAIN send_buffer'
          PROVE  LET e == send_buffer'[i]
                 IN  /\ e.oid = e.msg /\ e.fid = Len(cuts[e.msg])
                     /\ e.at = Start(e.msg, e.fid)
      <3>1. CASE i \in DOMAIN send_buffer /\ send_buffer'[i] = send_buffer[i]
        BY <1>1, <3>1 DEF SenderInv
      <3>2. CASE i = Len(send_buffer) + 1 /\ send_buffer'[i] = entry
        <4>1. Len(cuts[Len(prepared) + 1]) = 0
          BY <1>6
        <4> QED
          BY <1>4, <3>2, <4>1 DEF Start
      <3> QED
        BY <1>7, <3>1, <3>2
    <2>4. \A m \in MessageIds : m \notin DOMAIN prepared' => cuts'[m] = <<>>
      BY <1>1, <1>2, <1>3 DEF SenderInv
    <2> QED
      BY <1>3, <2>1, <2>2, <2>3, <2>4 DEF SenderInv, Start
  <1>10. WireInv'
    <2> SUFFICES ASSUME NEW c \in Channels, NEW i \in DOMAIN wire[c],
                        NEW j \in DOMAIN wire[c][i].data
                 PROVE  Genuine(wire[c][i].data[j])'
      BY <1>3 DEF WireInv, networkVars
    <2>1. PICK f : f = wire[c][i].data[j]
      OBVIOUS
    <2>2. Genuine(f)'
      BY <1>5, <2>1, WireStable
    <2>3. wire'[c][i].data[j] = f
      BY <1>3, <2>1 DEF networkVars
    <2> QED
      BY <2>2, <2>3 DEF Genuine, Start
  <1>11. (BufferInv /\ ChunksInv /\ Integrity)'
    BY <1>1, <1>3, <1>5, ReceivedStable DEF TypeInv
  <1> QED
    BY <1>1, <1>3, <1>9, <1>10, <1>11 DEF IInv, networkVars
\* data_to_send() notes one cut for each of the k messages, and no other.
LEMMA SentCuts ==
    ASSUME IInv, NEW k \in 1..Len(send_buffer), NEW frags \in [1..k -> Fragments],
           Cut(k, frags), Sent(k, frags)
    PROVE  /\ \A i \in 1..k : /\ send_buffer[i].msg \in MessageIds
                             /\ cuts'[send_buffer[i].msg]
                                  = Append(cuts[send_buffer[i].msg], frags[i].hi)
           /\ \A m \in MessageIds :
                 (\A i \in 1..k : send_buffer[i].msg # m) => cuts'[m] = cuts[m]
           /\ Grows
  <1>1. /\ send_buffer \in Seq(Entries) /\ cuts \in [MessageIds -> Seq(Nat)]
        /\ k \in Nat /\ k <= Len(send_buffer)
    BY DEF IInv, TypeInv, TypeOK
  <1>2. \A i \in 1..k : i \in DOMAIN send_buffer /\ send_buffer[i] \in Entries
    BY <1>1
  <1>3. \A i \in 1..k : send_buffer[i].msg \in MessageIds
    BY <1>2 DEF Entries
  <1>4. \A i \in 1..k : frags[i].msg = send_buffer[i].msg
    BY DEF Cut
  <1>5. /\ cuts' = [m \in MessageIds |->
                      IF \E i \in 1..k : frags[i].msg = m
                        THEN Append(cuts[m], (CHOOSE f \in Range(frags) : f.msg = m).hi)
                        ELSE cuts[m]]
        /\ UNCHANGED prepared
    BY DEF Sent
  <1>6. ASSUME NEW i \in 1..k
        PROVE  cuts'[send_buffer[i].msg] = Append(cuts[send_buffer[i].msg], frags[i].hi)
    <2> DEFINE m == send_buffer[i].msg
    <2>1. frags[i] \in Range(frags) /\ frags[i].msg = m
      BY <1>4 DEF Range
    <2>2. \A f \in Range(frags) : f.msg = m => f = frags[i]
      <3> SUFFICES ASSUME NEW j \in 1..k, frags[j].msg = m PROVE j = i
        BY DEF Range
      <3>1. send_buffer[j].msg = send_buffer[i].msg
        BY <1>4
      <3> QED
        BY <1>2, <3>1 DEF IInv, SenderInv
    <2>3. (CHOOSE f \in Range(frags) : f.msg = m) = frags[i]
      BY <2>1, <2>2
    <2>4. m \in MessageIds /\ \E j \in 1..k : frags[j].msg = m
      BY <1>3, <2>1
    <2> HIDE DEF m
    <2>5. cuts'[m] = Append(cuts[m], (CHOOSE f \in Range(frags) : f.msg = m).hi)
      BY <1>5, <2>4, Zenon
    <2>6. cuts'[m] = Append(cuts[m], frags[i].hi)
      BY <2>3, <2>5, Zenon
    <2> QED
      BY <2>6 DEF m
  <1>7. ASSUME NEW m \in MessageIds, \A i \in 1..k : send_buffer[i].msg # m
        PROVE  cuts'[m] = cuts[m]
    <2>1. ~ \E i \in 1..k : frags[i].msg = m
      BY <1>4, <1>7
    <2> QED
      BY <1>5, <2>1, Zenon
  <1>8. Grows
    <2>1. ASSUME NEW m \in MessageIds, NEW j \in DOMAIN cuts[m]
          PROVE  j \in DOMAIN cuts'[m] /\ cuts'[m][j] = cuts[m][j]
      <3>1. CASE \E i \in 1..k : send_buffer[i].msg = m
        <4>1. PICK i \in 1..k : send_buffer[i].msg = m
          BY <3>1
        <4>2. cuts'[m] = Append(cuts[m], frags[i].hi)
          BY <1>6, <4>1
        <4>3. cuts[m] \in Seq(Nat) /\ frags[i].hi \in Nat
          BY <1>1 DEF Fragments
        <4> QED
          BY <4>2, <4>3
      <3>2. CASE \A i \in 1..k : send_buffer[i].msg # m
        BY <1>7, <3>2
      <3> QED
        BY <3>1, <3>2
    <2> QED
      BY <1>5, <2>1 DEF Grows
  <1> QED
    BY <1>3, <1>6, <1>7, <1>8

\* The fragments put on the wire are the ones that cuts now tells of.
LEMMA SentGenuine ==
    ASSUME IInv, NEW k \in 1..Len(send_buffer), NEW frags \in [1..k -> Fragments],
           Cut(k, frags), Sent(k, frags), NEW i \in 1..k, NEW f, f = frags[i]
    PROVE  Genuine(f)'
  <1> DEFINE e == send_buffer[i]
  <1>1. /\ e.msg \in MessageIds /\ cuts'[e.msg] = Append(cuts[e.msg], f.hi)
    BY SentCuts
  <1>2. i \in DOMAIN send_buffer /\ send_buffer \in Seq(Entries)
    BY DEF IInv, TypeInv, TypeOK
  <1>3. e \in Entries /\ e.fid \in Nat
    <2>1. send_buffer[i] \in Entries
      BY <1>2
    <2> QED
      BY <2>1 DEF Entries
  <1>4. /\ e.oid = e.msg /\ e.fid = Len(cuts[e.msg]) /\ e.at = Start(e.msg, e.fid)
        /\ e.msg \in DOMAIN prepared
    BY <1>2 DEF IInv, TypeInv, EntriesOK, SenderInv
  <1>5. /\ f.msg = e.msg /\ f.oid = e.oid /\ f.fid = e.fid /\ f.lo = e.at
        /\ f.end => f.hi = prepared[e.msg].size
    BY DEF Cut, Message
  <1>6. f.hi \in Nat /\ cuts[e.msg] \in Seq(Nat) /\ prepared' = prepared
    BY <1>1 DEF Fragments, IInv, TypeInv, TypeOK, Sent
  <1> HIDE DEF e
  <1>7. /\ f.fid + 1 \in DOMAIN cuts'[f.msg] /\ f.hi = cuts'[f.msg][f.fid + 1]
    BY <1>1, <1>4, <1>5, <1>6
  <1>8. f.lo = Start(f.msg, f.fid)'
    <2>1. ASSUME f.fid # 0
          PROVE  cuts'[f.msg][f.fid] = cuts[f.msg][f.fid]
      <3>1. f.fid \in 1..Len(cuts[e.msg])
        BY <1>3, <1>4, <1>5, <1>6, <2>1
      <3>2. Append(cuts[e.msg], f.hi)[f.fid] = cuts[e.msg][f.fid]
        BY <1>6, <3>1
      <3> QED
        BY <1>1, <1>5, <3>2
    <2> QED
      BY <1>4, <1>5, <2>1 DEF Start
  <1> QED
    BY <1>4, <1>5, <1>6, <1>7, <1>8 DEF Genuine
\* Every message left in the send buffer was there before, and only the one
\* that was cut has moved on.
LEMMA SentLeft ==
    ASSUME TypeInv, NEW k \in 1..Len(send_buffer), NEW frags \in [1..k -> Fragments],
           Cut(k, frags), Sent(k, frags)
    PROVE  \E shift \in {k, k - 1} : \A i \in DOMAIN send_buffer' :
              /\ i + shift \in k..Len(send_buffer)
              /\ \/ i + shift # k /\ send_buffer'[i] = send_buffer[i + shift]
                 \/ /\ i + shift = k /\ ~frags[k].end
                    /\ send_buffer'[i] = Rest(send_buffer[k], frags[k])
  <1> DEFINE rest  == Rest(send_buffer[k], frags[k])
             later == SubSeq(send_buffer, k + 1, Len(send_buffer))
  <1>1. send_buffer \in Seq(Entries) /\ k \in Nat /\ k >= 1 /\ k <= Len(send_buffer)
    BY DEF TypeInv, TypeOK
  <1>2. later \in Seq(Entries) /\ Len(later) = Len(send_buffer) - k
        /\ \A i \in 1..Len(later) : later[i] = send_buffer[k + i]
    <2>1. \A i \in (k + 1)..Len(send_buffer) : send_buffer[i] \in Entries
      BY <1>1
    <2> QED
      BY <1>1, <2>1, SubSeqProperties
  <1>3. rest \in Entries
    <2>1. send_buffer[k] \in Entries
      BY <1>1
    <2> QED
      BY <2>1, RestType
  <1>4. send_buffer' = IF frags[k].end THEN later ELSE <<rest>> \o later
    BY DEF Sent
  <1> HIDE DEF rest, later
  <1>5. CASE frags[k].end
    <2>1. \A i \in DOMAIN send_buffer' :
             i + k \in (k + 1)..Len(send_buffer) /\ send_buffer'[i] = send_buffer[i + k]
      BY <1>1, <1>2, <1>4, <1>5
    <2> QED
      BY <1>1, <2>1
  <1>6. CASE ~frags[k].end
    <2>1. \A i \in DOMAIN send_buffer' :
             \/ i = 1 /\ send_buffer'[i] = rest
             \/ i - 1 \in 1..Len(later) /\ send_buffer'[i] = later[i - 1]
      BY <1>2, <1>3, <1>4, <1>6
    <2>2. \A i \in DOMAIN send_buffer' : i \in Nat
      BY <1>2, <1>3, <1>4, <1>6
    <2>3. \A i \in DOMAIN send_buffer' :
             \/ i + (k - 1) = k /\ send_buffer'[i] = rest
             \/ /\ i + (k - 1) \in (k + 1)..Len(send_buffer)
                /\ send_buffer'[i] = send_buffer[i + (k - 1)]
      <3> SUFFICES ASSUME NEW i \in DOMAIN send_buffer',
                          i - 1 \in 1..Len(later), send_buffer'[i] = later[i - 1]
                   PROVE  /\ i + (k - 1) \in (k + 1)..Len(send_buffer)
                          /\ send_buffer'[i] = send_buffer[i + (k - 1)]
        BY <1>1, <2>1
      <3>1. later[i - 1] = send_buffer[k + (i - 1)] /\ k + (i - 1) = i + (k - 1)
        BY <1>1, <1>2, <2>2
      <3>2. i + (k - 1) \in (k + 1)..Len(send_buffer)
        BY <1>1, <1>2, <2>2
      <3> QED
        BY <3>1, <3>2
    <2> QED
      BY <1>1, <1>6, <2>3 DEF rest
  <1> QED
    BY <1>5, <1>6

LEMMA SentSender ==
    ASSUME IInv, NEW k \in 1..Len(send_buffer), NEW frags \in [1..k -> Fragments],
           Cut(k, frags), Sent(k, frags)
    PROVE  SenderInv'
  <1>1. /\ send_buffer \in Seq(Entries) /\ k \in Nat /\ k >= 1 /\ k <= Len(send_buffer)
        /\ cuts \in [MessageIds -> Seq(Nat)] /\ SenderInv
    BY DEF IInv, TypeInv, TypeOK
  <1>2. UNCHANGED <<prepared, fragment_count>>
    BY DEF Sent
  <1>3. PICK shift \in {k, k - 1} : \A i \in DOMAIN send_buffer' :
              /\ i + shift \in k..Len(send_buffer)
              /\ \/ i + shift # k /\ send_buffer'[i] = send_buffer[i + shift]
                 \/ i + shift = k /\ send_buffer'[i] = Rest(send_buffer[k], frags[k])
    BY SentLeft DEF IInv
  <1>4. ASSUME NEW i \in k..Len(send_buffer)
        PROVE  /\ i \in DOMAIN send_buffer /\ send_buffer[i] \in Entries
               /\ send_buffer[i].msg \in MessageIds /\ send_buffer[i].fid \in Nat
               /\ send_buffer[i].oid = send_buffer[i].msg
               /\ send_buffer[i].fid = Len(cuts[send_buffer[i].msg])
               /\ send_buffer[i].at = Start(send_buffer[i].msg, send_buffer[i].fid)
    <2>1. i \in DOMAIN send_buffer
      BY <1>1
    <2>2. send_buffer[i] \in Entries
      BY <1>1, <2>1
    <2>3. send_buffer[i].msg \in MessageIds /\ send_buffer[i].fid \in Nat
      BY <2>2 DEF Entries
    <2> QED
      BY <1>1, <2>1, <2>2, <2>3 DEF SenderInv
  <1>5. frags[k] \in Fragments /\ frags[k].hi \in Nat
    BY <1>1 DEF Fragments
  <1> DEFINE rest == Rest(send_buffer[k], frags[k])
  <1>6. /\ rest.msg = send_buffer[k].msg /\ rest.oid = send_buffer[k].oid
        /\ rest.at = frags[k].hi /\ rest.fid = send_buffer[k].fid + 1
    BY <1>1, <1>4, <1>5, RestType
  <1> HIDE DEF rest
  <1>7. \A i \in DOMAIN send_buffer' : send_buffer'[i].msg = send_buffer[i + shift].msg
    BY <1>3, <1>6 DEF rest
  <1>8. \A i, j \in DOMAIN send_buffer' :
           send_buffer'[i].msg = send_buffer'[j].msg => i = j
    <2> SUFFICES ASSUME NEW i \in DOMAIN send_buffer', NEW j \in DOMAIN send_buffer',
                        send_buffer'[i].msg = send_buffer'[j].msg
                 PROVE  i = j
      OBVIOUS
    <2>1. i + shift \in DOMAIN send_buffer /\ j + shift \in DOMAIN send_buffer
      BY <1>3, <1>4
    <2>2. i + shift = j + shift
      BY <1>1, <1>7, <2>1 DEF SenderInv
    <2>3. i \in Nat /\ j \in Nat /\ shift \in Int
      <3>1. TypeOK'
        BY SendTypeOf DEF IInv, TypeInv
      <3> QED
        BY <1>1, <3>1 DEF TypeOK
    <2> QED
      BY <2>2, <2>3
  <1>9. ASSUME NEW i \in DOMAIN send_buffer', NEW e, e = send_buffer'[i]
        PROVE  /\ e.oid = e.msg /\ e.fid = Len(cuts'[e.msg])
               /\ e.at = IF e.fid = 0 THEN 0 ELSE cuts'[e.msg][e.fid]
    <2>1. CASE i + shift = k
      <3>1. e = rest
        BY <1>3, <1>9, <2>1 DEF rest
      <3>2. k \in k..Len(send_buffer) /\ k \in 1..k
        BY <1>1
      <3>3. cuts'[rest.msg] = Append(cuts[rest.msg], frags[k].hi)
        BY <1>6, <3>2, SentCuts
      <3>4. cuts[rest.msg] \in Seq(Nat) /\ rest.fid = Len(cuts[rest.msg]) + 1
            /\ rest.oid = rest.msg
        BY <1>1, <1>4, <1>6, <3>2
      <3>5. rest.fid = Len(cuts'[rest.msg]) /\ cuts'[rest.msg][rest.fid] = rest.at
            /\ rest.fid # 0
        BY <1>5, <1>6, <3>3, <3>4
      <3> QED
        BY <3>1, <3>4, <3>5
    <2>2. CASE i + shift # k
      <3>1. e = send_buffer[i + shift] /\ i + shift \in k..Len(send_buffer)
        BY <1>3, <1>9, <2>2
      <3>2. /\ e.msg \in MessageIds /\ e.oid = e.msg
            /\ e.fid = Len(cuts[e.msg]) /\ e.at = Start(e.msg, e.fid)
        BY <1>4, <3>1, Zenon
      <3>3. \A j \in 1..k : send_buffer[j].msg # e.msg
        BY <1>1, <1>4, <2>2, <3>1 DEF SenderInv
      <3>4. cuts'[e.msg] = cuts[e.msg]
        BY <3>2, <3>3, SentCuts
      <3> QED
        BY <3>2, <3>4 DEF Start
    <2> QED
      BY <2>1, <2>2
  <1>10. \A m \in MessageIds : m \notin DOMAIN prepared => cuts'[m] = <<>>
    <2> SUFFICES ASSUME NEW m \in MessageIds, m \notin DOMAIN prepared
                 PROVE  cuts'[m] = <<>>
      OBVIOUS
    <2>1. \A i \in 1..k : send_buffer[i].msg # m
      BY <1>1 DEF IInv, TypeInv, EntriesOK
    <2> QED
      BY <1>1, <2>1, SentCuts DEF SenderInv
  <1> QED
    BY <1>1, <1>2, <1>8, <1>9, <1>10 DEF SenderInv, Start
LEMMA SendInv ==
    ASSUME IInv, NEW amount \in Amounts, data_to_send(amount)
    PROVE  IInv'
  <1>1. PICK k \in 1..Len(send_buffer) : \E frags \in [1..k -> Fragments] :
               Cut(k, frags) /\ Sent(k, frags)
    BY SentFragments DEF IInv
  <1>2. PICK frags \in [1..k -> Fragments] : Cut(k, frags) /\ Sent(k, frags)
    BY <1>1
  <1>3. TypeInv /\ TypeInv'
    BY SendType DEF IInv
  <1>4. Grows /\ SenderInv'
    BY <1>2, SentCuts, SentSender
  <1>5. UNCHANGED reconnects /\ UNCHANGED receiverVars
    BY <1>2 DEF Sent
  <1>6. (BufferInv /\ ChunksInv /\ Integrity)'
    BY <1>3, <1>4, <1>5, ReceivedStable DEF TypeInv
  <1>7. WireInv'
    <2> SUFFICES ASSUME NEW c \in Channels, NEW i \in DOMAIN wire'[c],
                        NEW j \in DOMAIN wire'[c][i].data,
                        NEW f, f = wire'[c][i].data[j]
                 PROVE  Genuine(f)'
      BY DEF WireInv, Genuine, Start
    <2> DEFINE head    == Message(send_buffer[1])
               route   == Route(head.target, head.stream)
               payload == [target |-> head.target, stream |-> head.stream,
                           data |-> frags]
    <2>1. wire' = [wire EXCEPT ![route] = Append(@, payload)]
      BY <1>2 DEF Sent
    <2>2. payload.data = frags
      OBVIOUS
    <2> HIDE DEF payload, route
    <2>3. wire \in [Channels -> Seq(Payloads)] /\ wire[c] \in Seq(Payloads)
      BY <1>3 DEF TypeInv, TypeOK
    <2>4. \/ i \in DOMAIN wire[c] /\ wire'[c][i] = wire[c][i]
          \/ wire'[c][i] = payload
      BY <2>1, <2>3
    <2>5. CASE i \in DOMAIN wire[c] /\ wire'[c][i] = wire[c][i]
      BY <1>4, <2>5, WireStable
    <2>6. CASE wire'[c][i] = payload
      <3>1. j \in 1..k /\ f = frags[j]
        BY <2>2, <2>6
      <3> QED
        BY <1>2, <3>1, SentGenuine
    <2> QED
      BY <2>4, <2>5, <2>6
  <1> QED
    BY <1>3, <1>4, <1>5, <1>6, <1>7 DEF IInv

\* While the sender rests nothing becomes less genuine.
LEMMA GenuineRests ==
    ASSUME UNCHANGED senderVars, NEW f
    PROVE  Genuine(f)' = Genuine(f)
  BY Zenon DEF senderVars, Genuine, Start

LEMMA SenderRests ==
    ASSUME IInv, UNCHANGED senderVars, UNCHANGED wire
    PROVE  SenderInv' /\ WireInv'
  <1>1. SenderInv'
    BY DEF IInv, SenderInv, senderVars, Start
  <1>2. WireInv'
    <2> SUFFICES ASSUME NEW c \in Channels, NEW i \in DOMAIN wire[c],
                        NEW j \in DOMAIN wire[c][i].data,
                        NEW f, f = wire[c][i].data[j]
                 PROVE  Genuine(f)'
      BY DEF WireInv, Genuine, Start
    <2>1. Genuine(f)
      BY DEF IInv, WireInv
    <2> QED
      BY <2>1, GenuineRests
  <1> QED
    BY <1>1, <1>2

LEMMA TransportInv ==
    ASSUME IInv, NEW c \in Channels, receive_data(c) \/ Lose(c) \/ Duplicate(c)
    PROVE  IInv'
  <1>1. TypeInv /\ TypeInv'
    BY TransportType DEF IInv
  <1>2. /\ wire[c] # <<>> /\ UNCHANGED senderVars
        /\ UNCHANGED <<reconnects, incoming_fragments, incoming_messages, delivered>>
        /\ wire' = wire \/ wire' = [wire EXCEPT ![c] = Tail(@)]
        /\ \/ receive_buffer' = receive_buffer
           \/ receive_buffer' = receive_buffer \o Head(wire[c]).data
    BY DEF receive_data, Lose, Duplicate, receiverVars
  <1>3. /\ wire \in [Channels -> Seq(Payloads)] /\ wire[c] \in Seq(Payloads)
        /\ receive_buffer \in Seq(Fragments) /\ Head(wire[c]).data \in Seq(Fragments)
    BY <1>1, <1>2, HeadOfChannel DEF TypeInv, TypeOK
  <1>4. SenderInv'
    BY <1>2 DEF IInv, SenderInv, senderVars, Start
  <1>5. WireInv'
    <2> SUFFICES ASSUME NEW d \in Channels, NEW i \in DOMAIN wire'[d],
                        NEW j \in DOMAIN wire'[d][i].data,
                        NEW f, f = wire'[d][i].data[j]
                 PROVE  Genuine(f)'
      BY DEF WireInv, Genuine, Start
    <2>1. \E n \in DOMAIN wire[d] : wire'[d][i] = wire[d][n]
      <3>1. CASE wire' = wire
        BY <3>1
      <3>2. CASE wire' = [wire EXCEPT ![c] = Tail(@)]
        <4>1. CASE d # c
          BY <1>3, <3>2, <4>1
        <4>2. CASE d = c
          <5>1. wire'[d] = Tail(wire[c])
            BY <1>3, <3>2, <4>2
          <5>2. i + 1 \in DOMAIN wire[c] /\ Tail(wire[c])[i] = wire[c][i + 1]
            BY <1>2, <1>3, <5>1
          <5> QED
            BY <4>2, <5>1, <5>2
        <4> QED
          BY <4>1, <4>2
      <3> QED
        BY <1>2, <3>1, <3>2
    <2>2. Genuine(f)
      BY <2>1 DEF IInv, WireInv
    <2> QED
      BY <1>2, <2>2, GenuineRests
  <1>6. BufferInv'
    <2> SUFFICES ASSUME NEW i \in DOMAIN receive_buffer', NEW f, f = receive_buffer'[i]
                 PROVE  Genuine(f)'
      BY DEF BufferInv, Genuine, Start
    <2> DEFINE data == Head(wire[c]).data
    <2>1. \/ i \in DOMAIN receive_buffer /\ f = receive_buffer[i]
          \/ \E j \in DOMAIN data : f = data[j]
      <3>1. CASE receive_buffer' = receive_buffer
        BY <3>1
      <3>2. CASE receive_buffer' = receive_buffer \o data
        <4> HIDE DEF data
        <4>1. i \in 1..(Len(receive_buffer) + Len(data))
          BY <1>3, <3>2 DEF data
        <4>2. CASE i <= Len(receive_buffer)
          BY <1>3, <3>2, <4>1, <4>2 DEF data
        <4>3. CASE i > Len(receive_buffer)
          <5>1. i - Len(receive_buffer) \in DOMAIN data
                /\ f = data[i - Len(receive_buffer)]
            BY <1>3, <3>2, <4>1, <4>3 DEF data
          <5> QED
            BY <5>1
        <4> QED
          BY <1>3, <4>1, <4>2, <4>3
      <3> QED
        BY <1>2, <3>1, <3>2
    <2>2. 1 \in DOMAIN wire[c] /\ Head(wire[c]) = wire[c][1]
      BY <1>2, <1>3
    <2>3. Genuine(f)
      BY <2>1, <2>2 DEF IInv, WireInv, BufferInv
    <2> QED
      BY <1>2, <2>3, GenuineRests
  <1>7. (ChunksInv /\ Integrity)'
    BY <1>2 DEF IInv, ChunksInv, IsChunk, Start, Integrity, IsWhole, senderVars
  <1> QED
    BY <1>1, <1>2, <1>4, <1>5, <1>6, <1>7 DEF IInv
\* A fragment with the expected id is the next one of its message.
LEMMA JoinedChunks ==
    ASSUME IInv, NEW f \in Fragments, Genuine(f), Expected(f),
           NEW joined, joined = Append(incoming_fragments[f.oid], Chunk(f))
    PROVE  /\ joined \in Seq(Chunks) /\ Len(joined) = f.fid + 1
           /\ joined[f.fid + 1].hi = f.hi
           /\ \A i \in DOMAIN joined : IsChunk(f.oid, i, joined[i])
  <1> DEFINE kept == incoming_fragments[f.oid]
  <1>1. f.oid \in ObjectIds /\ f.fid \in Nat /\ Chunk(f) \in Chunks
    BY DEF Fragments, Chunks, Chunk
  <1>2. kept \in Seq(Chunks) /\ Len(kept) = f.fid
    BY <1>1 DEF IInv, TypeInv, TypeOK, Expected
  <1>3. /\ joined \in Seq(Chunks) /\ Len(joined) = f.fid + 1
        /\ joined[f.fid + 1] = Chunk(f)
        /\ \A i \in 1..f.fid : joined[i] = kept[i]
    <2> HIDE DEF kept
    <2> QED
      BY <1>1, <1>2 DEF kept
  <1>4. Chunk(f).msg = f.msg /\ Chunk(f).lo = f.lo /\ Chunk(f).hi = f.hi
    BY DEF Chunk
  <1>5. IsChunk(f.oid, f.fid + 1, joined[f.fid + 1])
    <2>1. (f.fid + 1) - 1 = f.fid
      BY <1>1
    <2> QED
      BY <1>3, <1>4, <2>1 DEF IsChunk, Genuine
  <1>6. ASSUME NEW i \in 1..f.fid
        PROVE  IsChunk(f.oid, i, joined[i])
    <2>1. i \in DOMAIN kept
      BY <1>2
    <2> QED
      BY <1>1, <1>3, <2>1 DEF IInv, ChunksInv
  <1>7. \A i \in DOMAIN joined : i = f.fid + 1 \/ i \in 1..f.fid
    BY <1>1, <1>3
  <1> QED
    BY <1>3, <1>4, <1>5, <1>6, <1>7

LEMMA JoinedWhole ==
    ASSUME IInv, NEW f \in Fragments, Genuine(f), Expected(f), f.end,
           NEW joined, joined = Append(incoming_fragments[f.oid], Chunk(f))
    PROVE  IsWhole(joined)
  <1>1. /\ joined \in Seq(Chunks) /\ Len(joined) = f.fid + 1 /\ f.fid \in Nat
        /\ joined[f.fid + 1].hi = f.hi
        /\ \A i \in DOMAIN joined : IsChunk(f.oid, i, joined[i])
    BY JoinedChunks DEF Fragments
  <1>2. \A i \in 1..(f.fid + 1) : IsChunk(f.oid, i, joined[i])
    BY <1>1, SMTT(30)
  <1>3. /\ joined[1].msg = f.oid /\ f.oid \in DOMAIN prepared
        /\ joined[1].lo = Start(f.oid, 0)
    <2>1. 1 \in 1..(f.fid + 1) /\ 1 - 1 = 0
      BY <1>1
    <2> QED
      BY <1>2, <2>1 DEF IsChunk
  <1>4. joined[f.fid + 1].hi = prepared[joined[1].msg].size
    BY <1>1, <1>3 DEF Genuine
  <1>5. ASSUME NEW i \in 1..f.fid
        PROVE  joined[i + 1].msg = joined[i].msg /\ joined[i + 1].lo = joined[i].hi
    <2>1. i \in 1..(f.fid + 1) /\ i + 1 \in 1..(f.fid + 1) /\ (i + 1) - 1 = i /\ i # 0
      BY <1>1
    <2>2. IsChunk(f.oid, i, joined[i]) /\ IsChunk(f.oid, i + 1, joined[i + 1])
      BY <1>2, <2>1
    <2>3. joined[i].hi = cuts[f.oid][i] /\ joined[i + 1].lo = Start(f.oid, i)
      BY <2>1, <2>2 DEF IsChunk
    <2> QED
      BY <2>1, <2>2, <2>3 DEF IsChunk, Start
  <1>6. (f.fid + 1) - 1 = f.fid
    BY <1>1
  <1> QED
    BY <1>1, <1>3, <1>4, <1>5, <1>6, SMTT(30) DEF IsWhole, Start

LEMMA UnpackInv ==
    ASSUME IInv, UnpackFragment
    PROVE  IInv'
  <1> DEFINE f      == Head(receive_buffer)
             joined == Append(incoming_fragments[f.oid], Chunk(f))
             new    == [oid |-> f.oid, data |-> joined]
  <1>1. TypeInv /\ TypeInv'
    BY UnpackType DEF IInv
  <1>2. /\ receive_buffer \in Seq(Fragments) /\ receive_buffer # <<>>
        /\ receive_buffer' = Tail(receive_buffer)
        /\ incoming_fragments \in [ObjectIds -> Seq(Chunks)]
        /\ incoming_messages \in Seq(QueuedMessages)
        /\ UNCHANGED senderVars /\ UNCHANGED <<wire, reconnects, delivered>>
    BY <1>1 DEF TypeInv, TypeOK, QueuedMessages, UnpackFragment, networkVars
  <1>3. f \in Fragments /\ Genuine(f)
    <2>1. f \in Fragments /\ 1 \in DOMAIN receive_buffer /\ f = receive_buffer[1]
      BY <1>2
    <2> HIDE DEF f
    <2> QED
      BY <2>1 DEF IInv, BufferInv
  <1>4. SenderInv' /\ WireInv'
    BY <1>2, SenderRests
  <1>5. BufferInv'
    <2> SUFFICES ASSUME NEW i \in DOMAIN receive_buffer', NEW g, g = receive_buffer'[i]
                 PROVE  Genuine(g)'
      BY DEF BufferInv, Genuine, Start
    <2>1. i + 1 \in DOMAIN receive_buffer /\ g = receive_buffer[i + 1]
      BY <1>2
    <2> QED
      BY <1>2, <2>1, GenuineRests DEF IInv, BufferInv
  <1>6. \A data : IsWhole(data)' = IsWhole(data)
    BY <1>2 DEF IsWhole, senderVars
  <1>7. ASSUME UNCHANGED <<incoming_fragments, incoming_messages>>
        PROVE  (ChunksInv /\ Integrity)'
    BY <1>2, <1>7 DEF IInv, ChunksInv, IsChunk, Start, Integrity, IsWhole, senderVars
  <1>8. ASSUME NEW chunks, \A i \in DOMAIN chunks : IsChunk(f.oid, i, chunks[i]),
               incoming_fragments' = [incoming_fragments EXCEPT ![f.oid] = chunks]
        PROVE  ChunksInv'
    <2> SUFFICES ASSUME NEW o \in ObjectIds, NEW i \in DOMAIN incoming_fragments'[o]
                 PROVE  IsChunk(o, i, incoming_fragments'[o][i])
      BY <1>2 DEF ChunksInv, IsChunk, Start, senderVars
    <2> HIDE DEF f
    <2>1. CASE o = f.oid
      <3>1. incoming_fragments'[o] = chunks
        BY <1>2, <1>8, <2>1
      <3> QED
        BY <1>8, <2>1, <3>1
    <2>2. CASE o # f.oid
      <3>1. incoming_fragments'[o] = incoming_fragments[o]
        BY <1>2, <1>8, <2>2
      <3> QED
        BY <3>1 DEF IInv, ChunksInv
    <2> QED
      BY <2>1, <2>2
  <1>9. ASSUME ~Expected(f)
        PROVE  (ChunksInv /\ Integrity)'
    BY <1>7, <1>9 DEF UnpackFragment
  <1>10. ASSUME Expected(f) /\ ~f.end
         PROVE  (ChunksInv /\ Integrity)'
    <2>1. /\ incoming_fragments' = [incoming_fragments EXCEPT ![f.oid] = joined]
          /\ UNCHANGED incoming_messages
      BY <1>10 DEF UnpackFragment
    <2>2. \A i \in DOMAIN joined : IsChunk(f.oid, i, joined[i])
      BY <1>3, <1>10, JoinedChunks
    <2>3. Integrity'
      BY <1>2, <1>6, <2>1 DEF IInv, Integrity
    <2> HIDE DEF joined
    <2> QED
      BY <1>8, <2>1, <2>2, <2>3
  <1>11. ASSUME Expected(f) /\ f.end
         PROVE  (ChunksInv /\ Integrity)'
    <2>1. /\ incoming_fragments' = [incoming_fragments EXCEPT ![f.oid] = <<>>]
          /\ incoming_messages' = Put(incoming_messages, f.oid, joined)
      BY <1>11 DEF UnpackFragment
    <2>2. IsWhole(joined)
      BY <1>3, <1>11, JoinedWhole
    <2>3. f.oid \in ObjectIds /\ joined \in Seq(Chunks)
      <3>1. f.oid \in ObjectIds
        BY <1>3 DEF Fragments
      <3> QED
        BY <1>3, <1>11, <3>1, JoinedChunks
    <2>4. new.data = joined
      OBVIOUS
    <2>5. \A i \in DOMAIN <<>> : IsChunk(f.oid, i, <<>>[i])
      OBVIOUS
    <2> HIDE DEF joined, new, f
    <2>6. \A i \in DOMAIN incoming_messages' :
             \/ incoming_messages'[i] = new
             \/ i \in DOMAIN incoming_messages /\ incoming_messages'[i] = incoming_messages[i]
      BY <1>2, <2>1, <2>3, PutType DEF new
    <2>7. Integrity'
      <3>1. \A i \in DOMAIN incoming_messages' : IsWhole(incoming_messages'[i].data)
        BY <2>2, <2>4, <2>6 DEF IInv, Integrity
      <3>2. \A i \in DOMAIN delivered' : IsWhole(delivered'[i])
        BY <1>2 DEF IInv, Integrity
      <3> QED
        BY <1>6, <3>1, <3>2 DEF Integrity
    <2> QED
      BY <1>8, <2>1, <2>5, <2>7
  <1> QED
    BY <1>1, <1>2, <1>4, <1>5, <1>9, <1>10, <1>11 DEF IInv

LEMMA ReturnInv ==
    ASSUME IInv, ReturnEvent
    PROVE  IInv'
  <1>1. TypeInv /\ TypeInv'
    BY ReturnType DEF IInv
  <1>2. /\ incoming_messages \in Seq(QueuedMessages) /\ incoming_messages # <<>>
        /\ delivered \in Seq(Seq(Chunks))
        /\ delivered' = Append(delivered, Head(incoming_messages).data)
        /\ incoming_messages' = Tail(incoming_messages)
        /\ UNCHANGED senderVars
        /\ UNCHANGED <<wire, reconnects, receive_buffer, incoming_fragments>>
    BY <1>1 DEF TypeInv, TypeOK, QueuedMessages, ReturnEvent, networkVars
  <1>3. (SenderInv /\ WireInv /\ BufferInv /\ ChunksInv)'
    <2>1. SenderInv' /\ WireInv'
      BY <1>2, SenderRests
    <2>2. BufferInv'
      BY <1>2 DEF IInv, BufferInv, Genuine, senderVars, Start
    <2>3. ChunksInv'
      BY <1>2 DEF IInv, ChunksInv, IsChunk, senderVars, Start
    <2> QED
      BY <2>1, <2>2, <2>3
  <1>4. \A data : IsWhole(data)' = IsWhole(data)
    BY <1>2 DEF IsWhole, senderVars
  <1>5. \A i \in DOMAIN incoming_messages' :
           i + 1 \in DOMAIN incoming_messages
             /\ incoming_messages'[i] = incoming_messages[i + 1]
    BY <1>2
  <1>6. Head(incoming_messages) = incoming_messages[1] /\ 1 \in DOMAIN incoming_messages
    BY <1>2
  <1>7. \A i \in DOMAIN incoming_messages' : IsWhole(incoming_messages'[i].data)
    BY <1>5 DEF IInv, Integrity
  <1>8. \A i \in DOMAIN delivered' : IsWhole(delivered'[i])
    <2>1. \A i \in DOMAIN delivered' :
             \/ i \in DOMAIN delivered /\ delivered'[i] = delivered[i]
             \/ delivered'[i] = incoming_messages[1].data
      <3>1. Head(incoming_messages).data \in Seq(Chunks)
        <4>1. Head(incoming_messages) \in QueuedMessages
          BY <1>2
        <4> QED
          BY <4>1 DEF QueuedMessages
      <3> QED
        BY <1>2, <1>6, <3>1
    <2> QED
      BY <1>6, <2>1 DEF IInv, Integrity
  <1>9. Integrity'
    BY <1>4, <1>7, <1>8 DEF Integrity
  <1> QED
    BY <1>1, <1>2, <1>3, <1>9 DEF IInv

LEMMA NextInv == IInv /\ [Next]_vars /\ reconnects' = 0 => IInv'
  <1> SUFFICES ASSUME IInv, [Next]_vars, reconnects' = 0 PROVE IInv'
    OBVIOUS
  <1>1. CASE \E t \in Targets, s \in Streams, n \in Sizes : prepare_message(t, s, n)
    BY <1>1, PrepareInv
  <1>2. CASE Send
    BY <1>2, SendInv DEF Send
  <1>3. CASE \E c \in Channels : receive_data(c) \/ Lose(c) \/ Duplicate(c)
    BY <1>3, TransportInv
  <1>4. CASE Reconnect
    <2>1. reconnects = 0 /\ reconnects' = reconnects + 1
      BY <1>4 DEF IInv, Reconnect
    <2> QED
      BY <2>1
  <1>5. CASE UnpackFragment
    BY <1>5, UnpackInv
  <1>6. CASE ReturnEvent
    BY <1>6, ReturnInv
  <1>7. CASE UNCHANGED vars
    <2>1. TypeInv'
      BY <1>7, NextType DEF IInv
    <2>2. UNCHANGED senderVars /\ UNCHANGED <<wire, reconnects>>
          /\ UNCHANGED receiverVars
      BY <1>7 DEF vars, networkVars
    <2>3. SenderInv' /\ WireInv'
      BY <2>2, SenderRests
    <2>4. BufferInv'
      BY <2>2 DEF IInv, BufferInv, Genuine, senderVars, receiverVars, Start
    <2>5. ChunksInv'
      BY <2>2 DEF IInv, ChunksInv, IsChunk, senderVars, receiverVars, Start
    <2>6. Integrity'
      BY <2>2 DEF IInv, Integrity, IsWhole, senderVars, receiverVars
    <2> QED
      BY <2>1, <2>2, <2>3, <2>4, <2>5, <2>6 DEF IInv
  <1> QED
    BY <1>1, <1>2, <1>3, <1>4, <1>5, <1>6, <1>7 DEF Next, NextEvent

LEMMA UntilStep == TypeInv /\ UntilReconnect /\ [Next]_vars => UntilReconnect'
  <1> SUFFICES ASSUME TypeInv, UntilReconnect, [Next]_vars PROVE UntilReconnect'
    OBVIOUS
  <1>1. reconnects' = 0 => reconnects = 0
    <2>1. reconnects \in Nat
      BY DEF TypeInv, TypeOK
    <2>2. reconnects' = reconnects \/ reconnects' = reconnects + 1
      BY DEF Next, Send, NextEvent, prepare_message, data_to_send, receive_data,
             Lose, Duplicate, Reconnect, UnpackFragment, ReturnEvent,
             vars, networkVars
    <2> QED
      BY <2>1, <2>2
  <1> QED
    BY <1>1, NextInv DEF UntilReconnect

\* InvariantHolds: the inductive invariant holds up to the first blank client,
\* under every fault of the transport.
THEOREM InvariantHolds == Spec => []UntilReconnect
  <1>1. Init => TypeInv /\ UntilReconnect
    BY InitType, InitInv DEF UntilReconnect
  <1> QED
    BY <1>1, NextType, UntilStep, PTL DEF Spec

\* IntegrityHolds: until the server accepts a blank client, next_event() of
\* either pool returns nothing but whole messages of its peer, however the
\* messages are cut and whatever payloads are lost, repeated or overtaken.
THEOREM IntegrityHolds == Spec => [](reconnects = 0 => Integrity)
  <1>1. UntilReconnect => (reconnects = 0 => Integrity)
    BY DEF UntilReconnect, IInv
  <1> QED
    BY <1>1, InvariantHolds, PTL
-----------------------------------------------------------------------------
(* Payloads in order *)

\* A set of numbers has a smallest one: what induction over the length of a list
\* comes down to here.
LEMMA Least ==
    ASSUME NEW T \in SUBSET Nat, T # {}
    PROVE  \E n \in T : \A m \in T : n <= m
  <1>1. IsWellFoundedOn(OpToRel(<, Nat), Nat)
    BY NatLessThanWellFounded
  <1>2. PICK x \in T : \A y \in T : ~(<<y, x>> \in OpToRel(<, Nat))
    BY <1>1, WFMin
  <1>3. \A y \in T : ~(y < x)
    BY <1>2 DEF OpToRel
  <1> QED
    BY <1>3

\* What data_to_send() puts into one payload: the fragments of messages for one
\* target, and every message but the last one to its end.
LEMMA SentTogether ==
    ASSUME TypeInv, NEW amount \in Amounts, data_to_send(amount)
    PROVE  \E k \in 1..Len(send_buffer) : \E frags \in [1..k -> Fragments] :
              /\ Cut(k, frags) /\ Sent(k, frags) /\ SameTarget(k)
              /\ \A i \in 1..(k - 1) : frags[i].end
  <1>1. PICK k \in 1..Len(send_buffer) : \E room \in [1..k -> Header..amount] :
          /\ IsRoom(room, amount) /\ SameTarget(k)
          /\ Sent(k, [i \in 1..k |-> fragment(send_buffer[i], room[i] - Header)])
    BY DEF data_to_send, Sent
  <1>2. PICK room \in [1..k -> Header..amount] :
          /\ IsRoom(room, amount) /\ SameTarget(k)
          /\ Sent(k, [i \in 1..k |-> fragment(send_buffer[i], room[i] - Header)])
    BY <1>1
  <1> DEFINE frags == [i \in 1..k |-> fragment(send_buffer[i], room[i] - Header)]
  <1>3. /\ prepared \in Seq(Messages) /\ send_buffer \in Seq(Entries)
        /\ amount \in Nat /\ Header \in Nat \ {0}
        /\ k \in Nat /\ k >= 1 /\ k <= Len(send_buffer)
    BY FragmentsAssumption DEF TypeInv, TypeOK
  <1>4. ASSUME NEW i \in 1..k
        PROVE  /\ send_buffer[i] \in Entries
               /\ send_buffer[i].msg \in DOMAIN prepared
               /\ send_buffer[i].at <= Message(send_buffer[i]).size
               /\ room[i] - Header \in Nat
               /\ Left(send_buffer[i]) \in Nat
    <2>1. i \in DOMAIN send_buffer /\ send_buffer[i] \in Entries
      BY <1>3
    <2>2. /\ send_buffer[i].msg \in DOMAIN prepared
          /\ send_buffer[i].at <= Message(send_buffer[i]).size
      BY <2>1 DEF TypeInv, EntriesOK
    <2>3. room[i] \in Header..amount
      OBVIOUS
    <2>4. send_buffer[i].at \in Nat /\ Message(send_buffer[i]).size \in Nat
      BY <1>3, <2>1, <2>2, MessageType DEF Entries
    <2> QED
      BY <1>3, <2>1, <2>2, <2>3, <2>4, SMTT(30) DEF Left
  <1>5. frags \in [1..k -> Fragments] /\ Cut(k, frags)
    <2>1. \A i \in 1..k :
            LET e == send_buffer[i]
                f == fragment(e, room[i] - Header)
            IN  /\ f \in Fragments
                /\ f.msg = e.msg /\ f.oid = e.oid /\ f.fid = e.fid /\ f.lo = e.at
                /\ e.at <= f.hi /\ f.hi <= Message(e).size
                /\ f.end <=> f.hi = Message(e).size
      BY <1>3, <1>4, FragmentType
    <2> QED
      BY <2>1 DEF Cut
  <1>6. ASSUME NEW i \in 1..(k - 1)
        PROVE  frags[i].end
    <2>1. i \in 1..k /\ i + 1 \in 1..k /\ i + 1 # 1 /\ (i + 1) - 1 = i
      BY <1>3
    <2>2. room[i + 1] = room[i] - (Header + Left(send_buffer[i]))
      BY <1>2, <2>1 DEF IsRoom
    <2>3. room[i] \in Header..amount /\ room[i + 1] \in Header..amount
      BY <2>1
    <2>4. Left(send_buffer[i]) \in Nat
      BY <1>4, <2>1
    <2>5. room[i] - Header > Left(send_buffer[i])
      BY <1>3, <2>2, <2>3, <2>4
    <2>6. Min(room[i] - Header, Left(send_buffer[i])) = Left(send_buffer[i])
      <3>1. room[i] - Header \in Nat
        BY <1>4, <2>1
      <3> QED
        BY <2>4, <2>5, <3>1 DEF Min
    <2> QED
      BY <2>1, <2>6 DEF fragment
  <1> QED
    BY <1>2, <1>5, <1>6
-----------------------------------------------------------------------------
(* One target to a payload *)

\* Every fragment in a payload is of a message for the target of the payload.
TargetsInv ==
    \A c \in Channels : \A i \in DOMAIN wire[c] : \A j \in DOMAIN wire[c][i].data :
        /\ wire[c][i].data[j].msg \in DOMAIN prepared
        /\ prepared[wire[c][i].data[j].msg].target = wire[c][i].target

\* A message that is queued does not change those before it.
LEMMA PreparedGrows ==
    ASSUME TypeInv, NEW t \in Targets, NEW s \in Streams, NEW n \in Sizes,
           prepare_message(t, s, n)
    PROVE  \A m \in DOMAIN prepared : m \in DOMAIN prepared' /\ prepared'[m] = prepared[m]
  <1> DEFINE new == [target |-> t, stream |-> s, size |-> n]
  <1>1. prepared \in Seq(Messages) /\ new \in Messages /\ prepared' = Append(prepared, new)
    BY DEF TypeInv, TypeOK, prepare_message, Messages
  <1> HIDE DEF new
  <1> QED
    BY <1>1

\* A payload of the transport now was there before, in the same channel.
LEMMA FewerPayloads ==
    ASSUME TypeOK, NEW c \in Channels, wire[c] # <<>>, NEW d \in Channels,
           NEW new, new = [wire EXCEPT ![c] = Tail(@)]
    PROVE  /\ \A i \in DOMAIN new[d] :
                 /\ IF d = c THEN i + 1 \in DOMAIN wire[d] /\ new[d][i] = wire[d][i + 1]
                             ELSE i \in DOMAIN wire[d] /\ new[d][i] = wire[d][i]
           /\ \A i \in DOMAIN wire[d] :
                 IF d = c THEN i # 1 => i - 1 \in DOMAIN new[d] /\ new[d][i - 1] = wire[d][i]
                          ELSE i \in DOMAIN new[d] /\ new[d][i] = wire[d][i]
  <1>1. wire \in [Channels -> Seq(Payloads)] /\ wire[c] \in Seq(Payloads)
    BY DEF TypeOK
  <1>2. new[d] = IF d = c THEN Tail(wire[c]) ELSE wire[d]
    BY <1>1
  <1> DEFINE q == wire[c]
  <1>3. /\ \A i \in DOMAIN Tail(q) : i + 1 \in DOMAIN q /\ Tail(q)[i] = q[i + 1]
        /\ \A i \in DOMAIN q : i # 1 => i - 1 \in DOMAIN Tail(q) /\ Tail(q)[i - 1] = q[i]
    <2> HIDE DEF q
    <2>1. q \in Seq(Payloads) /\ q # <<>>
      BY <1>1 DEF q
    <2>2. Tail(q) \in Seq(Payloads) /\ Len(Tail(q)) = Len(q) - 1 /\ Len(q) \in Nat
          /\ \A i \in 1..Len(Tail(q)) : Tail(q)[i] = q[i + 1]
      BY <2>1, HeadTailProperties
    <2> QED
      BY <2>1, <2>2
  <1> QED
    BY <1>2, <1>3

\* A payload is only taken whole off the wire, or added by data_to_send().
LEMMA TargetsStep == TypeInv /\ TargetsInv /\ [Next]_vars => TargetsInv'
  <1> SUFFICES ASSUME TypeInv, TargetsInv, [Next]_vars PROVE TargetsInv'
    OBVIOUS
  <1>1. ASSUME NEW t \in Targets, NEW s \in Streams, NEW n \in Sizes,
               prepare_message(t, s, n)
        PROVE  TargetsInv'
    <2>1. wire' = wire
      BY <1>1 DEF prepare_message, networkVars
    <2> QED
      BY <1>1, <2>1, PreparedGrows DEF TargetsInv
  <1>2. CASE Send
    <2>1. PICK amount \in Amounts : data_to_send(amount)
      BY <1>2 DEF Send
    <2>2. PICK k \in 1..Len(send_buffer) : \E frags \in [1..k -> Fragments] :
               Cut(k, frags) /\ Sent(k, frags) /\ SameTarget(k)
      BY <2>1, SentTogether
    <2>3. PICK frags \in [1..k -> Fragments] :
               Cut(k, frags) /\ Sent(k, frags) /\ SameTarget(k)
      BY <2>2
    <2> DEFINE head    == Message(send_buffer[1])
               route   == Route(head.target, head.stream)
               payload == [target |-> head.target, stream |-> head.stream, data |-> frags]
    <2>4. wire' = [wire EXCEPT ![route] = Append(@, payload)] /\ prepared' = prepared
      BY <2>3 DEF Sent
    <2>5. ASSUME NEW j \in 1..k
          PROVE  /\ frags[j].msg \in DOMAIN prepared
                 /\ prepared[frags[j].msg].target = head.target
      <3>1. send_buffer \in Seq(Entries) /\ k <= Len(send_buffer)
        BY DEF TypeInv, TypeOK
      <3>2. j \in DOMAIN send_buffer
        BY <3>1
      <3> QED
        BY <2>3, <3>2 DEF Cut, SameTarget, Message, TypeInv, EntriesOK
    <2>6. payload.data = frags /\ payload.target = head.target
      OBVIOUS
    <2> HIDE DEF payload, route, head
    <2>7. ASSUME NEW c \in Channels, NEW i \in DOMAIN wire'[c]
          PROVE  \/ i \in DOMAIN wire[c] /\ wire'[c][i] = wire[c][i]
                 \/ wire'[c][i] = payload
      <3>1. wire \in [Channels -> Seq(Payloads)] /\ wire[c] \in Seq(Payloads)
        BY DEF TypeInv, TypeOK
      <3> QED
        BY <2>4, <2>7, <3>1
    <2>8. DOMAIN frags = 1..k
      OBVIOUS
    <2> QED
      BY <2>4, <2>5, <2>6, <2>7, <2>8, SMTT(30) DEF TargetsInv
  <1>3. ASSUME NEW c \in Channels, receive_data(c) \/ Lose(c) \/ Duplicate(c)
        PROVE  TargetsInv'
    <2>1. /\ wire[c] # <<>> /\ prepared' = prepared
          /\ wire' = wire \/ wire' = [wire EXCEPT ![c] = Tail(@)]
      BY <1>3 DEF receive_data, Lose, Duplicate, senderVars
    <2> QED
      BY <2>1, FewerPayloads DEF TargetsInv, TypeInv
  <1>4. CASE Reconnect
    <2>1. prepared' = prepared /\ \A c \in Channels : wire'[c] = <<>>
      BY <1>4 DEF Reconnect
    <2> QED
      BY <2>1 DEF TargetsInv
  <1>5. CASE NextEvent
    <2>1. UNCHANGED <<prepared, wire>>
      BY <1>5 DEF NextEvent, UnpackFragment, ReturnEvent, senderVars, networkVars
    <2> QED
      BY <2>1 DEF TargetsInv
  <1>6. CASE UNCHANGED vars
    BY <1>6 DEF vars, senderVars, networkVars, TargetsInv
  <1> QED
    BY <1>1, <1>2, <1>3, <1>4, <1>5, <1>6 DEF Next

\* PayloadsHaveOneTarget: whatever the amounts, faults and reconnections, no
\* payload of data_to_send() mixes the messages of two targets.
THEOREM PayloadsHaveOneTarget == Spec => []OneTarget
  <1>1. Init => TargetsInv
    BY DEF Init, TargetsInv
  <1>2. TargetsInv => OneTarget
    BY DEF TargetsInv, OneTarget
  <1> QED
    BY <1>1, <1>2, InitType, NextType, TargetsStep, PTL DEF Spec
-----------------------------------------------------------------------------
(* The size of a payload *)

\* No message stays in the send buffer once all of it is cut.
LeftInv == \A i \in DOMAIN send_buffer : send_buffer[i].at < Message(send_buffer[i]).size

\* data_to_send() drops an entry of which nothing is left.
LEMMA LeftStep == TypeInv /\ LeftInv /\ [Next]_vars => LeftInv'
  <1> SUFFICES ASSUME TypeInv, LeftInv, [Next]_vars PROVE LeftInv'
    OBVIOUS
  <1>1. ASSUME NEW t \in Targets, NEW s \in Streams, NEW n \in Sizes,
               prepare_message(t, s, n)
        PROVE  LeftInv'
    <2> DEFINE text  == [target |-> t, stream |-> s, size |-> n]
               entry == [msg |-> Len(prepared) + 1, oid |-> fragment_count,
                         at |-> 0, fid |-> 0]
    <2>1. /\ prepared \in Seq(Messages) /\ send_buffer \in Seq(Entries)
          /\ prepared' = Append(prepared, text) /\ send_buffer' = Append(send_buffer, entry)
          /\ text \in Messages /\ n \in Nat /\ n > 0
      BY <1>1, FragmentsAssumption DEF TypeInv, TypeOK, prepare_message, Messages
    <2>2. entry.msg = Len(prepared) + 1 /\ entry.at = 0 /\ text.size = n
      OBVIOUS
    <2> HIDE DEF text, entry
    <2>3. prepared'[Len(prepared) + 1] = text
      BY <2>1
    <2>4. \A i \in DOMAIN send_buffer' :
             \/ i \in DOMAIN send_buffer /\ send_buffer'[i] = send_buffer[i]
             \/ send_buffer'[i] = entry
      BY <2>1
    <2>5. \A m \in DOMAIN prepared : prepared'[m] = prepared[m]
      BY <1>1, PreparedGrows
    <2>6. \A i \in DOMAIN send_buffer : send_buffer[i].msg \in DOMAIN prepared
      BY DEF TypeInv, EntriesOK
    <2> QED
      BY <2>1, <2>2, <2>3, <2>4, <2>5, <2>6 DEF LeftInv, Message
  <1>2. CASE Send
    <2>1. PICK amount \in Amounts : data_to_send(amount)
      BY <1>2 DEF Send
    <2>2. PICK k \in 1..Len(send_buffer) : \E frags \in [1..k -> Fragments] :
               Cut(k, frags) /\ Sent(k, frags)
      BY <2>1, SentFragments
    <2>3. PICK frags \in [1..k -> Fragments] : Cut(k, frags) /\ Sent(k, frags)
      BY <2>2
    <2>4. PICK shift \in {k, k - 1} : \A i \in DOMAIN send_buffer' :
              /\ i + shift \in k..Len(send_buffer)
              /\ \/ i + shift # k /\ send_buffer'[i] = send_buffer[i + shift]
                 \/ /\ i + shift = k /\ ~frags[k].end
                    /\ send_buffer'[i] = Rest(send_buffer[k], frags[k])
      BY <2>3, SentLeft
    <2>5. send_buffer \in Seq(Entries) /\ prepared' = prepared /\ prepared \in Seq(Messages)
      BY <2>3 DEF TypeInv, TypeOK, Sent
    <2>6. \A i \in k..Len(send_buffer) : i \in DOMAIN send_buffer
      BY <2>5
    <2>7. send_buffer[k] \in Entries /\ k \in DOMAIN send_buffer
      BY <2>5
    <2>8. /\ Rest(send_buffer[k], frags[k]).msg = send_buffer[k].msg
          /\ Rest(send_buffer[k], frags[k]).at = frags[k].hi
      BY <2>7, RestType
    <2>9. Message(send_buffer[k]).size \in Nat /\ frags[k].hi \in Nat
      BY <2>5, <2>7, MessageType DEF TypeInv, EntriesOK, Fragments
    <2>10. ~frags[k].end => frags[k].hi < Message(send_buffer[k]).size
      BY <2>3, <2>9 DEF Cut
    <2> QED
      BY <2>4, <2>5, <2>6, <2>8, <2>10 DEF LeftInv, Message
  <1>3. CASE send_buffer' = <<>>
    BY <1>3 DEF LeftInv
  <1>4. CASE UNCHANGED <<send_buffer, prepared>>
    BY <1>4 DEF LeftInv, Message
  <1>5. ASSUME Reconnect \/ NextEvent
               \/ (\E c \in Channels : receive_data(c) \/ Lose(c) \/ Duplicate(c))
               \/ UNCHANGED vars
        PROVE  send_buffer' = <<>> \/ UNCHANGED <<send_buffer, prepared>>
    BY <1>5
    DEF Reconnect, NextEvent, UnpackFragment, ReturnEvent, receive_data, Lose, Duplicate,
        vars, senderVars
  <1> QED
    BY <1>1, <1>2, <1>3, <1>4, <1>5 DEF Next

\* Length() is a sum, of which there is one.
IsSum(F, n, frags) ==
    F = [i \in 0..n |-> IF i = 0 THEN 0
                        ELSE F[i - 1] + Header + (frags[i].hi - frags[i].lo)]

\* There is only one way to add the fragments up.
LEMMA SumAgree ==
    ASSUME NEW n \in Nat, NEW frags, NEW F, NEW G, IsSum(F, n, frags), IsSum(G, n, frags)
    PROVE  F[n] = G[n]
  <1> DEFINE T == {i \in Nat : i <= n /\ F[i] # G[i]}
  <1>1. SUFFICES ASSUME T # {} PROVE FALSE
    OBVIOUS
  <1>2. PICK i \in T : \A j \in T : i <= j
    <2>1. T \in SUBSET Nat
      OBVIOUS
    <2> HIDE DEF T
    <2> QED
      BY <1>1, <2>1, Least
  <1>3. i \in Nat /\ i <= n /\ F[i] # G[i] /\ i \in 0..n
    BY <1>2
  <1>4. i # 0 => F[i - 1] = G[i - 1]
    <2>1. ASSUME i # 0 PROVE i - 1 \notin T /\ i - 1 \in Nat /\ i - 1 <= n
      BY <1>2, <1>3, <2>1
    <2> QED
      BY <2>1
  <1> HIDE DEF T
  <1>5. F[i] = IF i = 0 THEN 0 ELSE F[i - 1] + Header + (frags[i].hi - frags[i].lo)
    BY <1>3 DEF IsSum
  <1>6. G[i] = IF i = 0 THEN 0 ELSE G[i - 1] + Header + (frags[i].hi - frags[i].lo)
    BY <1>3 DEF IsSum
  <1> QED
    BY <1>3, <1>4, <1>5, <1>6

\* So any function that adds them up gives the length of the payload.
LEMMA LengthIsSum ==
    ASSUME NEW n \in Nat, NEW frags, Len(frags) = n, NEW F, IsSum(F, n, frags)
    PROVE  Length(frags) = F[n]
  <1>1. Length(frags) = (CHOOSE G : IsSum(G, Len(frags), frags))[Len(frags)]
    BY DEF Length, IsSum
  <1>2. IsSum(CHOOSE G : IsSum(G, n, frags), n, frags)
    OBVIOUS
  <1> QED
    BY <1>1, <1>2, SumAgree

\* room is what is left of the amount before each message: the fragments cut so
\* far and room make up the amount.
LEMMA SentBytes ==
    ASSUME TypeInv, LeftInv, NEW amount \in Amounts, NEW k \in 1..Len(send_buffer),
           NEW room \in [1..k -> Header..amount], IsRoom(room, amount),
           NEW frags, frags = [i \in 1..k |-> fragment(send_buffer[i], room[i] - Header)]
    PROVE  Length(frags) <= amount /\ frags[1].hi > frags[1].lo
  <1>1. /\ prepared \in Seq(Messages) /\ send_buffer \in Seq(Entries)
        /\ amount \in Nat /\ Header \in Nat \ {0} /\ amount > Header
        /\ k \in Nat /\ k >= 1 /\ k <= Len(send_buffer)
    BY FragmentsAssumption DEF TypeInv, TypeOK
  <1> DEFINE left(i) == Left(send_buffer[i])
             size(i) == Min(room[i] - Header, left(i))
  <1>2. ASSUME NEW i \in 1..k
        PROVE  /\ left(i) \in Nat /\ left(i) > 0
               /\ room[i] \in Int /\ room[i] >= Header /\ room[i] <= amount
               /\ frags[i].hi - frags[i].lo = size(i)
               /\ size(i) \in Nat /\ size(i) <= room[i] - Header /\ size(i) <= left(i)
               /\ room[i] - Header >= left(i) => size(i) = left(i)
               /\ room[i] > Header => size(i) > 0
    <2>1. i \in DOMAIN send_buffer /\ send_buffer[i] \in Entries
      BY <1>1
    <2>2. /\ send_buffer[i].msg \in DOMAIN prepared
          /\ send_buffer[i].at < Message(send_buffer[i]).size
      BY <2>1 DEF TypeInv, EntriesOK, LeftInv
    <2>3. send_buffer[i].at \in Nat /\ Message(send_buffer[i]).size \in Nat
      BY <1>1, <2>1, <2>2, MessageType DEF Entries
    <2>4. left(i) \in Nat /\ left(i) > 0
      BY <2>2, <2>3 DEF Left
    <2>5. room[i] \in Int /\ room[i] >= Header /\ room[i] <= amount
      <3>1. room[i] \in Header..amount
        OBVIOUS
      <3> QED
        BY <1>1, <3>1
    <2>6. frags[i].lo = send_buffer[i].at /\ frags[i].hi = send_buffer[i].at + size(i)
      BY DEF fragment
    <2> HIDE DEF left
    <2>7. /\ size(i) \in Nat /\ size(i) <= room[i] - Header /\ size(i) <= left(i)
          /\ room[i] - Header >= left(i) => size(i) = left(i)
          /\ room[i] > Header => size(i) > 0
      <3>1. room[i] - Header \in Nat
        BY <1>1, <2>5
      <3>2. room[i] > Header => room[i] - Header > 0
        BY <1>1, <2>5
      <3> QED
        BY <2>4, <3>1, <3>2 DEF Min
    <2> HIDE DEF size
    <2>8. frags[i].hi - frags[i].lo = size(i)
      BY <2>3, <2>6, <2>7
    <2> QED
      BY <2>4, <2>5, <2>7, <2>8
  <1>3. room[1] = amount
    <2>1. 1 \in DOMAIN room
      BY <1>1
    <2> QED
      BY <2>1 DEF IsRoom
  <1>4. ASSUME NEW i \in 1..(k - 1)
        PROVE  room[i + 1] = room[i] - (Header + left(i)) /\ size(i) = left(i)
    <2>1. i \in 1..k /\ i + 1 \in 1..k /\ i + 1 # 1 /\ (i + 1) - 1 = i
      BY <1>1
    <2>2. room[i + 1] = room[i] - (Header + left(i))
      BY <2>1 DEF IsRoom
    <2>3. /\ room[i] \in Int /\ room[i + 1] \in Int /\ room[i + 1] >= Header
          /\ left(i) \in Nat
          /\ room[i] - Header >= left(i) => size(i) = left(i)
      BY <1>2, <2>1
    <2>4. room[i] - Header >= left(i)
      <3>1. \A a, b, l \in Int : b = a - (Header + l) /\ b >= Header => a - Header >= l
        BY <1>1
      <3>2. left(i) \in Int
        BY <2>3
      <3> HIDE DEF left, size
      <3> QED
        BY <2>2, <2>3, <3>1, <3>2
    <2> HIDE DEF left, size
    <2> QED
      BY <2>2, <2>3, <2>4
  <1> HIDE DEF left, size
  <1> DEFINE F == [i \in 0..k |-> IF i < k THEN amount - room[i + 1]
                                  ELSE (amount - room[k]) + Header + size(k)]
  <1>5. IsSum(F, k, frags)
    <2>1. ASSUME NEW i \in 0..k
          PROVE  F[i] = IF i = 0 THEN 0
                        ELSE F[i - 1] + Header + (frags[i].hi - frags[i].lo)
      <3>1. CASE i = 0
        <4>1. F[i] = amount - room[1] /\ 0 + 1 = 1
          BY <1>1, <3>1
        <4> HIDE DEF F
        <4> QED
          BY <1>1, <1>3, <3>1, <4>1
      <3>2. CASE i # 0 /\ i < k
        <4>1. /\ F[i] = amount - room[i + 1] /\ F[i - 1] = amount - room[i]
              /\ i \in 1..(k - 1) /\ i \in 1..k
          BY <1>1, <3>2
        <4> HIDE DEF F
        <4>2. room[i] \in Int /\ left(i) \in Nat /\ frags[i].hi - frags[i].lo = left(i)
              /\ room[i + 1] = room[i] - (Header + left(i))
          BY <1>2, <1>4, <4>1
        <4> QED
          BY <1>1, <3>2, <4>1, <4>2
      <3>3. CASE i = k
        <4>1. F[i] = (amount - room[k]) + Header + size(k)
          BY <1>1, <3>3
        <4>2. F[i - 1] = amount - room[k] /\ i # 0
          BY <1>1, <3>3
        <4>3. frags[k].hi - frags[k].lo = size(k)
          BY <1>1, <1>2
        <4> HIDE DEF F
        <4> QED
          BY <3>3, <4>1, <4>2, <4>3
      <3> QED
        BY <1>1, <3>1, <3>2, <3>3
    <2>2. F = [i \in 0..k |-> F[i]]
      OBVIOUS
    <2> HIDE DEF F
    <2> QED
      BY <2>1, <2>2 DEF IsSum
  <1>6. Len(frags) = k
    BY <1>1
  <1>7. Length(frags) = F[k] /\ F[k] = (amount - room[k]) + Header + size(k)
    <2>1. F[k] = (amount - room[k]) + Header + size(k)
      BY <1>1
    <2> HIDE DEF F
    <2> QED
      BY <1>1, <1>5, <1>6, <2>1, LengthIsSum
  <1>8. Length(frags) <= amount
    <2>1. room[k] \in Int /\ size(k) \in Nat /\ size(k) <= room[k] - Header
      BY <1>1, <1>2
    <2> HIDE DEF F
    <2> QED
      BY <1>1, <1>7, <2>1
  <1>9. frags[1].hi > frags[1].lo
    <2>1. 1 \in 1..k
      BY <1>1
    <2>2. frags[1].hi - frags[1].lo > 0
      BY <1>1, <1>2, <1>3, <2>1
    <2>3. frags[1].hi \in Int /\ frags[1].lo \in Int
      <3>1. /\ send_buffer[1] \in Entries
            /\ frags[1].lo = send_buffer[1].at
            /\ frags[1].hi = send_buffer[1].at + size(1) /\ size(1) \in Nat
        BY <1>1, <1>2, <2>1 DEF fragment, size, left
      <3> QED
        BY <3>1 DEF Entries
    <2> QED
      BY <2>2, <2>3
  <1> QED
    BY <1>8, <1>9

\* What a call of data_to_send() puts on the wire is within the amount it got.
LEMMA PayloadStep ==
    ASSUME TypeInv, LeftInv, NEW amount \in Amounts, NEW c \in Channels,
           data_to_send(amount), wire'[c] # wire[c]
    PROVE  /\ Length(NewPayload(c).data) <= amount
           /\ NewPayload(c).data[1].hi > NewPayload(c).data[1].lo
  <1> DEFINE head  == Message(send_buffer[1])
             route == Route(head.target, head.stream)
             frags(k, room) == [i \in 1..k |-> fragment(send_buffer[i], room[i] - Header)]
             payload(data)  == [target |-> head.target, stream |-> head.stream, data |-> data]
  <1>1. PICK k \in 1..Len(send_buffer) : \E room \in [1..k -> Header..amount] :
          /\ IsRoom(room, amount)
          /\ wire' = [wire EXCEPT ![route] = Append(@, payload(frags(k, room)))]
    BY DEF data_to_send
  <1>2. PICK room \in [1..k -> Header..amount] :
          /\ IsRoom(room, amount)
          /\ wire' = [wire EXCEPT ![route] = Append(@, payload(frags(k, room)))]
    BY <1>1
  <1>3. PICK new : new = frags(k, room)
    OBVIOUS
  <1>4. Length(new) <= amount /\ new[1].hi > new[1].lo
    BY <1>2, <1>3, SentBytes
  <1>5. payload(new).data = new
    OBVIOUS
  <1>6. wire \in [Channels -> Seq(Payloads)]
    BY DEF TypeInv, TypeOK
  <1>7. wire' = [wire EXCEPT ![route] = Append(@, payload(new))]
    BY <1>2, <1>3
  <1> HIDE DEF payload, frags, route
  <1>8. NewPayload(c) = payload(new)
    <2>1. wire'[c] = Append(wire[c], payload(new)) /\ wire[c] \in Seq(Payloads)
      BY <1>6, <1>7
    <2>2. PICK q, x : q = wire[c] /\ x = payload(new)
      OBVIOUS
    <2>3. q \in Seq(Payloads) /\ wire'[c] = Append(q, x)
      BY <2>1, <2>2
    <2>4. Len(Append(q, x)) = Len(q) + 1 /\ Append(q, x)[Len(q) + 1] = x
      BY <2>3
    <2> QED
      BY <2>2, <2>3, <2>4 DEF NewPayload
  <1> QED
    BY <1>4, <1>5, <1>8

\* PayloadsFit: a payload of data_to_send(amount) never has more than amount bytes,
\* the headers of all its fragments included, and takes at least one byte of the
\* oldest message, for every amount that holds more than a header.
THEOREM PayloadsFit == Spec => PayloadFits
  <1>1. Init => LeftInv
    BY DEF Init, LeftInv
  <1>2. TypeInv /\ LeftInv /\ [Next]_vars =>
          [\A amount \in Amounts, c \in Channels :
             data_to_send(amount) /\ wire'[c] # wire[c]
               => LET frags == NewPayload(c).data
                  IN  Length(frags) <= amount /\ frags[1].hi > frags[1].lo]_vars
    BY PayloadStep
  <1> QED
    BY <1>1, <1>2, InitType, NextType, LeftStep, PTL DEF Spec, PayloadFits
-----------------------------------------------------------------------------
(* No fragment is refused.  While nothing is lost, repeated or reconnected, *)
(* the fragments of a target are on their way in the order of the messages  *)
(* and of their ids, whatever overtakes them for another target; and of     *)
(* each message that is not whole yet, every fragment that was cut and not  *)
(* unpacked is on its way.                                                  *)

Calm == ~SplitStreams /\ faults = 0 /\ reconnects = 0

Alike(m, n)    == prepared[m].target = prepared[n].target
Precedes(f, g) == f.msg < g.msg \/ (f.msg = g.msg /\ f.fid < g.fid)

Waiting == {receive_buffer[i] : i \in DOMAIN receive_buffer}
Flying  == UNION {UNION {{wire[c][i].data[j] : j \in DOMAIN wire[c][i].data} :
                      i \in DOMAIN wire[c]} : c \in Channels}
Transit == Waiting \union Flying

Unsent   == {send_buffer[i].msg : i \in DOMAIN send_buffer}
Combined == {incoming_messages[i].data[1].msg : i \in DOMAIN incoming_messages}
Returned == {delivered[i][1].msg : i \in DOMAIN delivered}
Finished == Combined \union Returned

\* The channel of a target: there is one.
Lane(t)  == <<t, CHOOSE s \in Streams : TRUE>>
LanesInv == \A c \in Channels : \A p \in DOMAIN wire[c] : c = Lane(wire[c][p].target)

\* The order of the fragments: in the receive buffer, in one payload, in the
\* payloads of a channel, and between the buffer and the transport.
BufferOrder ==
    \A i, j \in DOMAIN receive_buffer :
        i < j /\ Alike(receive_buffer[i].msg, receive_buffer[j].msg)
          => Precedes(receive_buffer[i], receive_buffer[j])
PayloadOrder ==
    \A c \in Channels : \A p \in DOMAIN wire[c] : \A i, j \in DOMAIN wire[c][p].data :
        i < j => Precedes(wire[c][p].data[i], wire[c][p].data[j])
WireOrder ==
    \A c \in Channels : \A p, q \in DOMAIN wire[c] :
        \A i \in DOMAIN wire[c][p].data, j \in DOMAIN wire[c][q].data :
            p < q => Precedes(wire[c][p].data[i], wire[c][q].data[j])
BufferFirst ==
    \A f \in Waiting, g \in Flying : Alike(f.msg, g.msg) => Precedes(f, g)

\* Messages are cut in the order they are queued, and what was cut comes first.
QueueOrder ==
    \A i, j \in DOMAIN send_buffer : i < j => send_buffer[i].msg < send_buffer[j].msg
SentFirst ==
    \A f \in Transit, m \in Unsent : Alike(f.msg, m) => f.msg <= m

OrderInv == /\ LanesInv /\ BufferOrder /\ PayloadOrder /\ WireOrder
            /\ BufferFirst /\ QueueOrder /\ SentFirst

\* A fragment ends its message if it is the last one and nothing is left to cut.
EndsInv ==
    \A f \in Transit : f.end <=> f.fid + 1 = Len(cuts[f.msg]) /\ f.msg \notin Unsent

\* The fragments of a message that are not unpacked are those on the way.
PartsInv ==
    /\ \A f \in Transit : f.fid >= Len(incoming_fragments[f.msg])
    /\ \A m \in DOMAIN prepared : m \notin Finished =>
         \A n \in Nat : Len(incoming_fragments[m]) <= n /\ n < Len(cuts[m])
           => \E f \in Transit : f.msg = m /\ f.fid = n

\* Every message is somewhere, those of a target are finished in order, and the
\* ones that wait to be returned are in order.
DoneInv ==
    /\ \A m \in DOMAIN prepared :
          m \in Finished \/ m \in Unsent \/ \E f \in Transit : f.msg = m
    /\ \A m \in Finished : m \in DOMAIN prepared
    /\ \A m \in Finished, n \in Unsent : Alike(m, n) => m < n
    /\ \A m \in Finished, f \in Transit : Alike(m, f.msg) => m < f.msg

MessagesInv ==
    /\ \A i \in DOMAIN incoming_messages :
          incoming_messages[i].oid = incoming_messages[i].data[1].msg
    /\ \A i, j \in DOMAIN incoming_messages :
          i < j /\ Alike(incoming_messages[i].oid, incoming_messages[j].oid)
            => incoming_messages[i].oid < incoming_messages[j].oid
    /\ \A m \in Returned, n \in Combined : Alike(m, n) => m < n

\* Every message has an object id of its own.
IdsInv == DOMAIN prepared \subseteq MessageIds

TransitInv == /\ OrderInv /\ EndsInv /\ PartsInv /\ DoneInv /\ MessagesInv /\ IdsInv
              /\ ~raised

ChannelInv == IInv /\ TargetsInv /\ TransitInv

\* Where the fragments that are on the way are.
LEMMA TransitPlaces ==
    /\ \A f : f \in Waiting <=> \E i \in DOMAIN receive_buffer : f = receive_buffer[i]
    /\ \A f : f \in Flying <=> \E c \in Channels : \E p \in DOMAIN wire[c] :
                                 \E j \in DOMAIN wire[c][p].data : f = wire[c][p].data[j]
  BY DEF Waiting, Flying

\* What is in transit was cut from a message that was queued.
LEMMA TransitType ==
    ASSUME IInv, NEW f \in Transit
    PROVE  /\ f \in Fragments /\ Genuine(f)
           /\ f.msg \in MessageIds /\ f.msg \in Nat /\ f.msg \in DOMAIN prepared
           /\ f.oid = f.msg /\ f.fid \in Nat
           /\ cuts[f.msg] \in Seq(Nat) /\ f.fid + 1 <= Len(cuts[f.msg])
           /\ incoming_fragments[f.msg] \in Seq(Chunks)
  <1>1. TypeOK
    BY DEF IInv, TypeInv
  <1>2. f \in Fragments /\ Genuine(f)
    <2>1. CASE f \in Waiting
      <3>1. PICK i \in DOMAIN receive_buffer : f = receive_buffer[i]
        BY <2>1, TransitPlaces
      <3>2. receive_buffer \in Seq(Fragments) /\ Genuine(receive_buffer[i])
        BY <1>1 DEF TypeOK, IInv, BufferInv
      <3> QED
        BY <3>1, <3>2
    <2>2. CASE f \in Flying
      <3>1. PICK c \in Channels : \E p \in DOMAIN wire[c] :
              \E j \in DOMAIN wire[c][p].data : f = wire[c][p].data[j]
        BY <2>2, TransitPlaces
      <3>2. PICK p \in DOMAIN wire[c] : \E j \in DOMAIN wire[c][p].data : f = wire[c][p].data[j]
        BY <3>1
      <3>3. PICK j \in DOMAIN wire[c][p].data : f = wire[c][p].data[j]
        BY <3>2
      <3>4. wire[c] \in Seq(Payloads)
        BY <1>1 DEF TypeOK
      <3>5. wire[c][p] \in Payloads
        BY <3>4
      <3>6. wire[c][p].data \in Seq(Fragments)
        BY <3>5 DEF Payloads
      <3>7. Genuine(wire[c][p].data[j])
        BY DEF IInv, WireInv
      <3> QED
        BY <3>3, <3>6, <3>7
    <2> QED
      BY <2>1, <2>2 DEF Transit
  <1>3. f.msg \in MessageIds /\ f.fid \in Nat /\ f.oid = f.msg /\ f.msg \in DOMAIN prepared
        /\ f.fid + 1 \in DOMAIN cuts[f.msg]
    BY <1>2 DEF Fragments, Genuine
  <1>4. cuts[f.msg] \in Seq(Nat) /\ incoming_fragments[f.msg] \in Seq(Chunks)
    BY <1>1, <1>3 DEF TypeOK, MessageIds, ObjectIds
  <1>5. f.msg \in Nat /\ f.fid + 1 <= Len(cuts[f.msg])
    BY <1>3, <1>4 DEF MessageIds
  <1> QED
    BY <1>2, <1>3, <1>4, <1>5

\* The messages that are not cut to their end, and how far they are cut.
LEMMA UnsentType ==
    ASSUME IInv, NEW i \in DOMAIN send_buffer
    PROVE  /\ send_buffer[i] \in Entries /\ send_buffer[i].msg \in Unsent
           /\ send_buffer[i].msg \in DOMAIN prepared /\ send_buffer[i].msg \in MessageIds
           /\ send_buffer[i].msg \in Nat
           /\ send_buffer[i].fid = Len(cuts[send_buffer[i].msg])
           /\ send_buffer[i].oid = send_buffer[i].msg
  <1>1. send_buffer \in Seq(Entries)
    BY DEF IInv, TypeInv, TypeOK
  <1>2. send_buffer[i] \in Entries
    BY <1>1
  <1> QED
    BY <1>2 DEF Entries, MessageIds, Unsent, IInv, TypeInv, EntriesOK, SenderInv

\* The messages that were combined are messages that were queued.
LEMMA FinishedType ==
    ASSUME IInv, MessagesInv
    PROVE  /\ \A i \in DOMAIN incoming_messages :
                 /\ incoming_messages[i].oid \in Nat
                 /\ incoming_messages[i].oid \in Combined
           /\ \A m \in Combined : \E i \in DOMAIN incoming_messages :
                 m = incoming_messages[i].oid
  <1>1. incoming_messages \in Seq(QueuedMessages)
    BY DEF IInv, TypeInv, TypeOK, QueuedMessages
  <1>2. ASSUME NEW i \in DOMAIN incoming_messages
        PROVE  incoming_messages[i].oid \in Nat
    <2>1. incoming_messages[i] \in QueuedMessages
      BY <1>1
    <2> QED
      BY <2>1 DEF QueuedMessages, ObjectIds
  <1> QED
    BY <1>2 DEF MessagesInv, Combined
-----------------------------------------------------------------------------
(* Every step keeps the fragments on their way in order. *)

\* Without faults and reconnections there were none before, so that the step is
\* one of the two pools, or a payload that arrives.
LEMMA CalmStep ==
    ASSUME TypeInv, [Next]_vars, Calm'
    PROVE  /\ Calm
           /\ \/ \E t \in Targets, s \in Streams, n \in Sizes : prepare_message(t, s, n)
              \/ Send
              \/ \E c \in Channels : receive_data(c)
              \/ NextEvent
              \/ UNCHANGED vars
  <1>1. faults \in Nat /\ reconnects \in Nat
    BY DEF TypeInv, TypeOK
  <1>2. ASSUME Reconnect PROVE FALSE
    BY <1>1, <1>2 DEF Reconnect, Calm
  <1>3. ASSUME NEW c \in Channels, Lose(c) \/ Duplicate(c) PROVE FALSE
    BY <1>1, <1>3 DEF Lose, Duplicate, Calm
  <1>4. \/ \E t \in Targets, s \in Streams, n \in Sizes : prepare_message(t, s, n)
        \/ Send
        \/ \E c \in Channels : receive_data(c)
        \/ NextEvent
        \/ UNCHANGED vars
    BY <1>2, <1>3 DEF Next
  <1>5. UNCHANGED <<faults, reconnects>>
    BY <1>4
    DEF Send, NextEvent, prepare_message, data_to_send, receive_data,
        UnpackFragment, ReturnEvent, vars, networkVars
  <1> QED
    BY <1>4, <1>5 DEF Calm

\* A payload that arrives moves its fragments behind those in the buffer.
LEMMA ReceivePlaces ==
    ASSUME TypeOK, NEW c \in Channels, receive_data(c),
           NEW data, data = wire[c][1].data
    PROVE  /\ 1 \in DOMAIN wire[c]
           /\ \A i \in DOMAIN receive_buffer' :
                 /\ i \in Nat
                 /\ \/ i \in DOMAIN receive_buffer /\ receive_buffer'[i] = receive_buffer[i]
                    \/ /\ i > Len(receive_buffer)
                       /\ i - Len(receive_buffer) \in DOMAIN data
                       /\ receive_buffer'[i] = data[i - Len(receive_buffer)]
           /\ \A i \in DOMAIN receive_buffer :
                 i \in DOMAIN receive_buffer' /\ receive_buffer'[i] = receive_buffer[i]
           /\ \A j \in DOMAIN data :
                 /\ Len(receive_buffer) + j \in DOMAIN receive_buffer'
                 /\ receive_buffer'[Len(receive_buffer) + j] = data[j]
  <1>1. wire[c] \in Seq(Payloads) /\ wire[c] # <<>> /\ receive_buffer \in Seq(Fragments)
    BY DEF TypeOK, receive_data
  <1>2. 1 \in DOMAIN wire[c] /\ Head(wire[c]) = wire[c][1] /\ wire[c][1] \in Payloads
    BY <1>1
  <1>3. data \in Seq(Fragments) /\ receive_buffer' = receive_buffer \o data
    BY <1>2 DEF receive_data, Payloads
  <1> DEFINE n == Len(receive_buffer)
  <1>4. n \in Nat /\ Len(data) \in Nat /\ DOMAIN data = 1..Len(data)
        /\ DOMAIN receive_buffer = 1..n
    BY <1>1, <1>3
  <1>5. /\ DOMAIN receive_buffer' = 1..(n + Len(data))
        /\ \A i \in 1..(n + Len(data)) :
              receive_buffer'[i] = IF i <= n THEN receive_buffer[i] ELSE data[i - n]
    BY <1>1, <1>3
  <1> HIDE DEF n
  <1>6. ASSUME NEW i \in DOMAIN receive_buffer'
        PROVE  /\ i \in Nat
               /\ \/ i \in DOMAIN receive_buffer /\ receive_buffer'[i] = receive_buffer[i]
                  \/ i > n /\ i - n \in DOMAIN data /\ receive_buffer'[i] = data[i - n]
    BY <1>4, <1>5
  <1>7. ASSUME NEW i \in DOMAIN receive_buffer
        PROVE  i \in DOMAIN receive_buffer' /\ receive_buffer'[i] = receive_buffer[i]
    BY <1>4, <1>5
  <1>8. ASSUME NEW j \in DOMAIN data
        PROVE  n + j \in DOMAIN receive_buffer' /\ receive_buffer'[n + j] = data[j]
    <2>1. n + j \in 1..(n + Len(data)) /\ ~(n + j <= n) /\ (n + j) - n = j
      BY <1>4
    <2> QED
      BY <1>5, <2>1
  <1> QED
    BY <1>2, <1>6, <1>7, <1>8 DEF n

\* receive_data() moves the payloads of one channel up by one.
LEMMA NextPayloads ==
    ASSUME TypeOK, NEW c \in Channels, receive_data(c)
    PROVE  /\ \A q \in DOMAIN wire'[c] : q + 1 \in DOMAIN wire[c] /\ wire'[c][q] = wire[c][q + 1]
           /\ \A p \in DOMAIN wire[c] : p # 1 =>
                 p - 1 \in DOMAIN wire'[c] /\ wire'[c][p - 1] = wire[c][p]
           /\ \A d \in Channels : d # c => wire'[d] = wire[d]
           /\ \A d \in Channels : wire[d] \in Seq(Payloads) /\ wire'[d] \in Seq(Payloads)
  <1>1. wire \in [Channels -> Seq(Payloads)] /\ wire[c] \in Seq(Payloads) /\ wire[c] # <<>>
    BY DEF TypeOK, receive_data
  <1>2. wire' = [wire EXCEPT ![c] = Tail(@)]
    BY DEF receive_data
  <1> DEFINE old == wire[c]
  <1>3. wire' \in [Channels -> Seq(Payloads)] /\ wire'[c] = Tail(old)
    BY <1>1, <1>2
  <1>4. /\ \A q \in DOMAIN Tail(old) : q + 1 \in DOMAIN old /\ Tail(old)[q] = old[q + 1]
        /\ \A p \in DOMAIN old : p # 1 =>
              p - 1 \in DOMAIN Tail(old) /\ Tail(old)[p - 1] = old[p]
    <2> HIDE DEF old
    <2>1. old \in Seq(Payloads) /\ old # <<>>
      BY <1>1 DEF old
    <2>2. Tail(old) \in Seq(Payloads) /\ Len(Tail(old)) = Len(old) - 1 /\ Len(old) \in Nat
          /\ \A i \in 1..Len(Tail(old)) : Tail(old)[i] = old[i + 1]
      BY <2>1, HeadTailProperties
    <2> QED
      BY <2>1, <2>2
  <1>5. \A d \in Channels : d # c => wire'[d] = wire[d]
    BY <1>1, <1>2
  <1>6. \A d \in Channels : wire[d] \in Seq(Payloads) /\ wire'[d] \in Seq(Payloads)
    BY <1>1, <1>3
  <1> HIDE DEF old
  <1>7. /\ \A q \in DOMAIN wire'[c] : q + 1 \in DOMAIN wire[c] /\ wire'[c][q] = wire[c][q + 1]
        /\ \A p \in DOMAIN wire[c] : p # 1 =>
             p - 1 \in DOMAIN wire'[c] /\ wire'[c][p - 1] = wire[c][p]
    BY <1>3, <1>4 DEF old
  <1> QED
    BY <1>5, <1>6, <1>7

\* A payload that is received stays on the way: it only waits now.
LEMMA ReceiveTransitSame ==
    ASSUME TypeOK, NEW c \in Channels, receive_data(c),
           NEW data, data = wire[c][1].data
    PROVE  /\ \A f \in Waiting' : f \in Waiting \/ \E j \in DOMAIN data : f = data[j]
           /\ Transit' = Transit
  <1>1. wire[c] # <<>> /\ wire' = [wire EXCEPT ![c] = Tail(@)]
    BY DEF receive_data
  <1>2. \A f : f \in Waiting' <=> \E i \in DOMAIN receive_buffer' : f = receive_buffer'[i]
    BY DEF Waiting
  <1>3. \A f : f \in Flying' <=> \E d \in Channels : \E p \in DOMAIN wire'[d] :
                                    \E j \in DOMAIN wire'[d][p].data : f = wire'[d][p].data[j]
    BY DEF Flying
  <1>4. \A f \in Waiting' : f \in Waiting \/ \E j \in DOMAIN data : f = data[j]
    BY <1>2, ReceivePlaces, TransitPlaces
  <1>5. \A j \in DOMAIN data : data[j] \in Flying /\ data[j] \in Waiting'
    BY <1>2, ReceivePlaces, TransitPlaces
  <1>6. ASSUME NEW f \in Transit PROVE f \in Transit'
    <2>1. CASE f \in Waiting
      BY <1>2, <2>1, ReceivePlaces, TransitPlaces DEF Transit
    <2>2. CASE f \in Flying
      <3>1. PICK d \in Channels : \E p \in DOMAIN wire[d] :
              \E j \in DOMAIN wire[d][p].data : f = wire[d][p].data[j]
        BY <2>2, TransitPlaces
      <3>2. PICK p \in DOMAIN wire[d] : \E j \in DOMAIN wire[d][p].data : f = wire[d][p].data[j]
        BY <3>1
      <3>3. PICK j \in DOMAIN wire[d][p].data : f = wire[d][p].data[j]
        BY <3>2
      <3>4. CASE d = c /\ p = 1
        BY <1>5, <3>3, <3>4 DEF Transit
      <3>5. CASE ~(d = c /\ p = 1)
        <4>1. \E q \in DOMAIN wire'[d] : wire'[d][q] = wire[d][p]
          BY <3>5, NextPayloads
        <4> QED
          BY <1>3, <3>3, <4>1 DEF Transit
      <3> QED
        BY <3>4, <3>5
    <2> QED
      BY <2>1, <2>2 DEF Transit
  <1>7. ASSUME NEW f \in Transit' PROVE f \in Transit
    <2>1. CASE f \in Waiting'
      BY <1>4, <1>5, <2>1 DEF Transit
    <2>2. CASE f \in Flying'
      <3>1. \A d \in Channels : \A q \in DOMAIN wire'[d] :
              \E p \in DOMAIN wire[d] : wire'[d][q] = wire[d][p]
        BY <1>1, FewerPayloads
      <3> QED
        BY <1>3, <2>2, <3>1, TransitPlaces DEF Transit
    <2> QED
      BY <2>1, <2>2 DEF Transit
  <1> QED
    BY <1>4, <1>6, <1>7

\* receive_data() puts the fragments behind the ones that wait already.
LEMMA ReceiveTransit ==
    ASSUME ChannelInv, NEW c \in Channels, receive_data(c)
    PROVE  TransitInv'
  <1> DEFINE data == wire[c][1].data
  <1>1. TypeOK /\ TransitInv /\ TargetsInv
    BY DEF ChannelInv, IInv, TypeInv
  <1>2. /\ wire[c] # <<>> /\ wire' = [wire EXCEPT ![c] = Tail(@)]
        /\ UNCHANGED <<prepared, cuts, send_buffer, incoming_fragments,
                       incoming_messages, delivered, raised>>
    BY DEF receive_data, senderVars
  <1>3. PICK held : held = data
    OBVIOUS
  <1>4. 1 \in DOMAIN wire[c] /\ receive_buffer \in Seq(Fragments) /\ wire[c] \in Seq(Payloads)
    BY <1>1, <1>3, ReceivePlaces DEF TypeOK
  <1>5. Transit' = Transit /\ Unsent' = Unsent /\ Finished' = Finished
        /\ Combined' = Combined /\ Returned' = Returned
    BY <1>1, <1>2, <1>3, ReceiveTransitSame DEF Unsent, Finished, Combined, Returned
  <1>6. (EndsInv /\ PartsInv /\ DoneInv /\ MessagesInv /\ IdsInv /\ ~raised)'
    BY <1>1, <1>2, <1>5
    DEF TransitInv, EndsInv, PartsInv, DoneInv, MessagesInv, IdsInv, Alike
  <1>7. (QueueOrder /\ SentFirst)'
    BY <1>1, <1>2, <1>5 DEF TransitInv, OrderInv, QueueOrder, SentFirst, Alike
  <1>8. (LanesInv /\ PayloadOrder)'
    <2>1. \A d \in Channels : \A q \in DOMAIN wire'[d] :
              \E p \in DOMAIN wire[d] : wire'[d][q] = wire[d][p]
      BY <1>1, <1>2, FewerPayloads
    <2> QED
      BY <1>1, <2>1 DEF TransitInv, OrderInv, LanesInv, PayloadOrder, Precedes, Lane
  <1>9. WireOrder'
    <2> SUFFICES ASSUME NEW d \in Channels, NEW p \in DOMAIN wire'[d], NEW q \in DOMAIN wire'[d],
                        NEW i \in DOMAIN wire'[d][p].data, NEW j \in DOMAIN wire'[d][q].data,
                        p < q
                 PROVE  Precedes(wire'[d][p].data[i], wire'[d][q].data[j])
      BY DEF WireOrder, Precedes
    <2>1. wire' \in [Channels -> Seq(Payloads)]
      BY <1>1, <1>2, HeadOfChannel
    <2>2. wire'[d] \in Seq(Payloads)
      BY <2>1
    <2>3. p \in Nat /\ q \in Nat
      BY <2>2
    <2>4. \E a, b \in DOMAIN wire[d] :
            a < b /\ wire'[d][p] = wire[d][a] /\ wire'[d][q] = wire[d][b]
      <3>1. CASE d = c
        <4>1. /\ p + 1 \in DOMAIN wire[d] /\ wire'[d][p] = wire[d][p + 1]
              /\ q + 1 \in DOMAIN wire[d] /\ wire'[d][q] = wire[d][q + 1]
          BY <1>1, <3>1, NextPayloads
        <4> QED
          BY <2>3, <4>1
      <3>2. CASE d # c
        BY <1>1, <1>2, <3>2, FewerPayloads
      <3> QED
        BY <3>1, <3>2
    <2> QED
      BY <1>1, <2>4 DEF TransitInv, OrderInv, WireOrder
  <1>10. BufferOrder'
    <2> SUFFICES ASSUME NEW i \in DOMAIN receive_buffer', NEW j \in DOMAIN receive_buffer',
                        i < j, Alike(receive_buffer'[i].msg, receive_buffer'[j].msg)
                 PROVE  Precedes(receive_buffer'[i], receive_buffer'[j])
      BY <1>2 DEF BufferOrder, Precedes, Alike
    <2> DEFINE n == Len(receive_buffer)
    <2>1. n \in Nat /\ \A x \in DOMAIN receive_buffer : x \in 1..n
      BY <1>4
    <2>2. /\ i \in Nat /\ j \in Nat
          /\ \/ i \in DOMAIN receive_buffer /\ receive_buffer'[i] = receive_buffer[i]
             \/ i > n /\ i - n \in DOMAIN held /\ receive_buffer'[i] = held[i - n]
          /\ \/ j \in DOMAIN receive_buffer /\ receive_buffer'[j] = receive_buffer[j]
             \/ j > n /\ j - n \in DOMAIN held /\ receive_buffer'[j] = held[j - n]
      BY <1>1, <1>3, ReceivePlaces
    <2> HIDE DEF n
    <2>3. CASE i \in DOMAIN receive_buffer /\ receive_buffer'[i] = receive_buffer[i]
               /\ j \in DOMAIN receive_buffer /\ receive_buffer'[j] = receive_buffer[j]
      BY <1>1, <2>3 DEF TransitInv, OrderInv, BufferOrder
    <2>4. CASE i \in DOMAIN receive_buffer /\ receive_buffer'[i] = receive_buffer[i]
               /\ j - n \in DOMAIN held /\ receive_buffer'[j] = held[j - n]
      <3>1. receive_buffer'[i] \in Waiting /\ receive_buffer'[j] \in Flying
        BY <1>3, <1>4, <2>4, TransitPlaces
      <3> QED
        BY <1>1, <3>1 DEF TransitInv, OrderInv, BufferFirst
    <2>5. CASE i - n \in DOMAIN held /\ receive_buffer'[i] = held[i - n]
               /\ j - n \in DOMAIN held /\ receive_buffer'[j] = held[j - n]
      <3>1. i - n < j - n
        BY <2>1, <2>2
      <3> QED
        BY <1>1, <1>3, <1>4, <2>5, <3>1 DEF TransitInv, OrderInv, PayloadOrder
    <2>6. ~(i > n /\ j \in DOMAIN receive_buffer)
      BY <2>1, <2>2
    <2> QED
      BY <2>2, <2>3, <2>4, <2>5, <2>6
  <1>11. BufferFirst'
    <2> SUFFICES ASSUME NEW f \in Waiting', NEW g \in Flying', Alike(f.msg, g.msg)
                 PROVE  Precedes(f, g)
      BY <1>2 DEF BufferFirst, Precedes, Alike
    <2>1. \E d \in Channels : \E q \in DOMAIN wire'[d] :
            \E j \in DOMAIN wire'[d][q].data : g = wire'[d][q].data[j]
      BY DEF Flying
    <2>2. PICK d \in Channels : \E q \in DOMAIN wire'[d] :
            \E j \in DOMAIN wire'[d][q].data : g = wire'[d][q].data[j]
      BY <2>1
    <2>3. PICK q \in DOMAIN wire'[d] : \E j \in DOMAIN wire'[d][q].data : g = wire'[d][q].data[j]
      BY <2>2
    <2>4. PICK j \in DOMAIN wire'[d][q].data : g = wire'[d][q].data[j]
      BY <2>3
    <2>5. PICK p \in DOMAIN wire[d] : wire'[d][q] = wire[d][p] /\ (d = c => p # 1)
      <3>1. wire[d] \in Seq(Payloads)
        BY <1>1 DEF TypeOK
      <3>2. CASE d = c
        <4>1. q + 1 \in DOMAIN wire[d] /\ wire'[d][q] = wire[d][q + 1]
          BY <1>1, <3>2, NextPayloads
        <4>2. wire' \in [Channels -> Seq(Payloads)]
          BY <1>1, <1>2, HeadOfChannel
        <4>3. wire'[d] \in Seq(Payloads)
          BY <4>2
        <4>4. q \in Nat /\ q >= 1
          BY <4>3
        <4> QED
          BY <4>1, <4>4
      <3>3. CASE d # c
        BY <1>1, <1>2, <3>3, FewerPayloads
      <3> QED
        BY <3>2, <3>3
    <2>6. g = wire[d][p].data[j] /\ j \in DOMAIN wire[d][p].data
      BY <2>4, <2>5
    <2>7. g \in Flying
      BY <2>6, TransitPlaces
    <2>8. CASE f \in Waiting
      BY <1>1, <2>7, <2>8 DEF TransitInv, OrderInv, BufferFirst
    <2>9. CASE \E i \in DOMAIN held : f = held[i]
      <3>1. PICK i \in DOMAIN held : f = held[i]
        BY <2>9
      <3>2. i \in DOMAIN wire[c][1].data /\ f = wire[c][1].data[i]
        BY <1>3, <3>1
      <3>3. wire[c][1].target = wire[d][p].target
        BY <1>1, <1>4, <2>6, <3>2 DEF TargetsInv, Alike
      <3>4. c = d
        BY <1>1, <1>4, <3>3 DEF TransitInv, OrderInv, LanesInv
      <3>5. 1 < p
        <4>1. wire[d] \in Seq(Payloads)
          BY <1>1 DEF TypeOK
        <4>2. p \in Nat /\ p >= 1
          BY <4>1
        <4> QED
          BY <2>5, <3>4, <4>2
      <3> QED
        BY <1>1, <1>4, <2>6, <3>2, <3>4, <3>5 DEF TransitInv, OrderInv, WireOrder
    <2> QED
      BY <1>1, <1>3, <2>8, <2>9, ReceiveTransitSame
  <1> QED
    BY <1>6, <1>7, <1>8, <1>9, <1>10, <1>11 DEF TransitInv, OrderInv

\* What data_to_send() leaves to send: of the k messages it cut, those that did
\* not end, which is the last of them at most; and every later message.
LEMMA SentUnsent ==
    ASSUME IInv, QueueOrder,
           NEW k \in 1..Len(send_buffer), NEW frags \in [1..k -> Fragments],
           Cut(k, frags), Sent(k, frags), \A i \in 1..(k - 1) : frags[i].end
    PROVE  /\ QueueOrder'
           /\ \A m \in Unsent' : m \in Unsent /\ \A i \in 1..k : send_buffer[i].msg <= m
           /\ \A i \in 1..k : send_buffer[i].msg \in Unsent' <=> ~frags[i].end
           /\ \A m \in Unsent : m \in Unsent' \/ \E i \in 1..k : m = send_buffer[i].msg
  <1> DEFINE rest  == Rest(send_buffer[k], frags[k])
             later == SubSeq(send_buffer, k + 1, Len(send_buffer))
             len   == Len(send_buffer)
             shift == IF frags[k].end THEN k ELSE k - 1
  <1>1. /\ send_buffer \in Seq(Entries) /\ len \in Nat /\ DOMAIN send_buffer = 1..len
        /\ k \in Nat /\ k >= 1 /\ k <= len
    BY DEF IInv, TypeInv, TypeOK
  <1>2. later \in Seq(Entries) /\ Len(later) = len - k
        /\ \A i \in 1..Len(later) : later[i] = send_buffer[k + i]
    <2>1. \A i \in (k + 1)..Len(send_buffer) : send_buffer[i] \in Entries
      BY <1>1
    <2>2. send_buffer \in Seq(Entries) /\ k \in Nat /\ k >= 1 /\ k <= Len(send_buffer)
      BY <1>1
    <2> QED
      BY ONLY <2>1, <2>2, SubSeqProperties
  <1>3. rest \in Entries /\ rest.msg = send_buffer[k].msg
    <2>1. send_buffer[k] \in Entries
      BY <1>1
    <2> QED
      BY <2>1, RestType
  <1>4. send_buffer' = IF frags[k].end THEN later ELSE <<rest>> \o later
    BY DEF Sent
  <1>5. \A i \in 1..len : send_buffer[i].msg \in Nat
    BY <1>1, UnsentType
  <1>6. shift \in Nat /\ shift <= len /\ (shift = k \/ shift = k - 1)
        /\ (shift = k <=> frags[k].end)
    BY <1>1
  <1> HIDE DEF rest, later, len
  <1>7. /\ DOMAIN send_buffer' = 1..(len - shift)
        /\ \A i \in 1..(len - shift) : /\ i + shift \in 1..len
                                       /\ send_buffer'[i].msg = send_buffer[i + shift].msg
    <2>1. CASE frags[k].end
      BY <1>1, <1>2, <1>4, <2>1
    <2>2. CASE ~frags[k].end
      <3>1. Len(<<rest>> \o later) = (len - k) + 1 /\ <<rest>> \o later \in Seq(Entries)
        BY <1>1, <1>2, <1>3
      <3>2. DOMAIN send_buffer' = 1..(len - shift)
        BY <1>1, <1>4, <2>2, <3>1
      <3>3. ASSUME NEW i \in 1..(len - shift)
            PROVE  send_buffer'[i].msg = send_buffer[i + shift].msg
        <4>1. CASE i = 1
          BY <1>1, <1>2, <1>3, <1>4, <2>2, <4>1
        <4>2. CASE i # 1
          <5>1. send_buffer'[i] = later[i - 1] /\ i - 1 \in 1..Len(later)
            BY <1>1, <1>2, <1>3, <1>4, <2>2, <3>3, <4>2
          <5>2. k + (i - 1) = i + shift
            BY <1>1, <2>2, <3>3
          <5> QED
            BY <1>2, <5>1, <5>2
        <4> QED
          BY <4>1, <4>2
      <3> QED
        BY <1>1, <1>6, <3>2, <3>3
    <2> QED
      BY <2>1, <2>2
  <1> HIDE DEF shift
  <1>8. \A i, j \in 1..len : i < j => send_buffer[i].msg < send_buffer[j].msg
    BY <1>1 DEF QueueOrder
  <1>9. \A i, j \in 1..len : i <= j => send_buffer[i].msg <= send_buffer[j].msg
    BY <1>1, <1>5, <1>8
  <1>10. \A m : m \in Unsent' <=> \E i \in 1..(len - shift) : m = send_buffer[i + shift].msg
    BY <1>7 DEF Unsent
  <1>11. \A m : m \in Unsent <=> \E i \in 1..len : m = send_buffer[i].msg
    BY <1>1 DEF Unsent
  <1>12. QueueOrder'
    <2> SUFFICES ASSUME NEW i \in 1..(len - shift), NEW j \in 1..(len - shift), i < j
                 PROVE  send_buffer'[i].msg < send_buffer'[j].msg
      BY <1>7 DEF QueueOrder
    <2>1. i + shift < j + shift /\ i + shift \in 1..len /\ j + shift \in 1..len
      BY <1>1, <1>6, <1>7
    <2> QED
      BY <1>7, <1>8, <2>1
  <1>13. ASSUME NEW m \in Unsent'
         PROVE  m \in Unsent /\ \A i \in 1..k : send_buffer[i].msg <= m
    <2>1. PICK j \in 1..(len - shift) : m = send_buffer[j + shift].msg
      BY <1>10
    <2>2. j + shift \in 1..len /\ \A i \in 1..k : i \in 1..len /\ i <= j + shift
      BY <1>1, <1>6, <1>7
    <2> QED
      BY <1>9, <1>11, <2>1, <2>2
  <1>14. ASSUME NEW i \in 1..k
         PROVE  send_buffer[i].msg \in Unsent' <=> ~frags[i].end
    <2>1. CASE i # k \/ frags[k].end
      <3>1. i \in 1..(k - 1) \/ i = k
        BY <1>1
      <3>2. frags[i].end
        BY <2>1, <3>1
      <3>3. \A j \in 1..(len - shift) :
               j + shift \in 1..len /\ i \in 1..len /\ i < j + shift
        BY <1>1, <1>6, <1>7, <2>1
      <3>4. \A j \in 1..(len - shift) : send_buffer[i].msg # send_buffer[j + shift].msg
        BY <1>5, <1>8, <3>3
      <3> QED
        BY <1>10, <3>2, <3>4
    <2>2. CASE i = k /\ ~frags[k].end
      <3>1. 1 \in 1..(len - shift) /\ 1 + shift = k
        BY <1>1, <1>6, <2>2
      <3> QED
        BY <1>10, <2>2, <3>1
    <2> QED
      BY <2>1, <2>2
  <1>15. ASSUME NEW m \in Unsent
         PROVE  m \in Unsent' \/ \E i \in 1..k : m = send_buffer[i].msg
    <2>1. PICK j \in 1..len : m = send_buffer[j].msg
      BY <1>11
    <2>2. CASE j <= k
      <3>1. j \in 1..k
        BY <1>1, <2>2
      <3> QED
        BY <2>1, <3>1
    <2>3. CASE j > k
      <3>1. j - shift \in 1..(len - shift) /\ (j - shift) + shift = j
        BY <1>1, <1>6, <2>3
      <3> QED
        BY <1>10, <2>1, <3>1
    <2> QED
      BY <1>1, <2>2, <2>3
  <1> QED
    BY <1>12, <1>13, <1>14, <1>15

\* The new payload is the last one of its target's channel.
LEMMA SentPlaces ==
    ASSUME IInv, ~SplitStreams,
           NEW k \in 1..Len(send_buffer), NEW frags \in [1..k -> Fragments],
           Cut(k, frags), Sent(k, frags),
           NEW target, target = prepared[send_buffer[1].msg].target,
           NEW payload, payload = [target |-> target, data |-> frags,
                                   stream |-> prepared[send_buffer[1].msg].stream]
    PROVE    /\ Lane(target) \in Channels
             /\ Len(wire[Lane(target)]) + 1 \in DOMAIN wire'[Lane(target)]
             /\ wire'[Lane(target)][Len(wire[Lane(target)]) + 1] = payload
             /\ \A c \in Channels : \A p \in DOMAIN wire[c] :
                   p \in DOMAIN wire'[c] /\ wire'[c][p] = wire[c][p]
             /\ \A c \in Channels : \A p \in DOMAIN wire'[c] :
                   /\ p \in Nat
                   /\ \/ p \in DOMAIN wire[c] /\ wire'[c][p] = wire[c][p]
                         /\ p < Len(wire[c]) + 1
                      \/ c = Lane(target) /\ p = Len(wire[c]) + 1 /\ wire'[c][p] = payload
  <1> DEFINE head    == Message(send_buffer[1])
             route   == Route(head.target, head.stream)
  <1>1. /\ wire \in [Channels -> Seq(Payloads)] /\ send_buffer \in Seq(Entries)
        /\ prepared \in Seq(Messages) /\ 1 \in DOMAIN send_buffer
    BY DEF IInv, TypeInv, TypeOK
  <1>2. wire' = [wire EXCEPT ![route] = Append(@, payload)]
    BY DEF Sent, Message
  <1>3. head \in Messages
    <2>1. send_buffer[1] \in Entries
      BY <1>1
    <2> QED
      BY <1>1, <2>1, MessageType DEF IInv, TypeInv, EntriesOK
  <1>4. route = Lane(target) /\ route \in Channels
    BY <1>3, RouteType DEF Route, Lane, Messages, Message
  <1> HIDE DEF route, head
  <1>6. wire'[route] = Append(wire[route], payload)
    BY <1>1, <1>2, <1>4
  <1>7. \A c \in Channels : c # route => wire'[c] = wire[c]
    BY <1>1, <1>2
  <1>8. \A c \in Channels : wire[c] \in Seq(Payloads)
    BY <1>1
  <1>9. /\ Len(wire[route]) + 1 \in DOMAIN wire'[route]
        /\ wire'[route][Len(wire[route]) + 1] = payload
        /\ \A p \in DOMAIN wire[route] :
              p \in DOMAIN wire'[route] /\ wire'[route][p] = wire[route][p]
        /\ \A p \in DOMAIN wire'[route] :
              /\ p \in Nat
              /\ \/ p \in DOMAIN wire[route] /\ wire'[route][p] = wire[route][p]
                    /\ p < Len(wire[route]) + 1
                 \/ p = Len(wire[route]) + 1 /\ wire'[route][p] = payload
    <2>1. wire[route] \in Seq(Payloads)
      BY <1>4, <1>8
    <2> QED
      BY <1>6, <2>1
  <1>10. \A c \in Channels : \A p \in DOMAIN wire[c] : p \in Nat /\ p < Len(wire[c]) + 1
    BY <1>8
  <1> QED
    BY <1>4, <1>7, <1>9, <1>10

\* Every fragment on its way to a target precedes those that are cut now.
LEMMA SentLast ==
    ASSUME IInv, TransitInv, NEW k \in 1..Len(send_buffer), NEW frags \in [1..k -> Fragments],
           Cut(k, frags), NEW f \in Transit, NEW i \in 1..k, Alike(f.msg, frags[i].msg)
    PROVE  Precedes(f, frags[i])
  <1>1. i \in DOMAIN send_buffer
    BY DEF IInv, TypeInv, TypeOK
  <1>2. frags[i].msg = send_buffer[i].msg /\ frags[i].fid = send_buffer[i].fid
    BY DEF Cut
  <1>3. /\ send_buffer[i].msg \in Unsent /\ send_buffer[i].msg \in Nat
        /\ send_buffer[i].fid = Len(cuts[send_buffer[i].msg])
    BY <1>1, UnsentType
  <1>4. /\ f.msg \in Nat /\ f.fid \in Nat /\ cuts[f.msg] \in Seq(Nat)
        /\ f.fid + 1 <= Len(cuts[f.msg])
    BY TransitType
  <1>5. f.msg <= send_buffer[i].msg
    BY <1>2, <1>3 DEF TransitInv, OrderInv, SentFirst
  <1>6. f.msg = send_buffer[i].msg => f.fid < send_buffer[i].fid
    BY <1>3, <1>4
  <1> QED
    BY <1>2, <1>3, <1>4, <1>5, <1>6 DEF Precedes

\* What is cut now is on its way, with everything that was.
LEMMA SentTransit ==
    ASSUME IInv, ~SplitStreams,
           NEW k \in 1..Len(send_buffer), NEW frags \in [1..k -> Fragments],
           Cut(k, frags), Sent(k, frags)
    PROVE  /\ Waiting' = Waiting
           /\ \A f \in Flying' : f \in Flying \/ \E i \in 1..k : f = frags[i]
           /\ \A f \in Transit' : f \in Transit \/ \E i \in 1..k : f = frags[i]
           /\ \A f \in Transit : f \in Transit'
           /\ \A i \in 1..k : frags[i] \in Transit'
  <1> DEFINE target  == prepared[send_buffer[1].msg].target
             payload == [target |-> target, data |-> frags,
                         stream |-> prepared[send_buffer[1].msg].stream]
             lane    == Lane(target)
  <1>1. DOMAIN frags = 1..k /\ payload.data = frags
    OBVIOUS
  <1>2. /\ lane \in Channels /\ Len(wire[lane]) + 1 \in DOMAIN wire'[lane]
        /\ wire'[lane][Len(wire[lane]) + 1] = payload
        /\ \A c \in Channels : \A p \in DOMAIN wire[c] :
              p \in DOMAIN wire'[c] /\ wire'[c][p] = wire[c][p]
        /\ \A c \in Channels : \A p \in DOMAIN wire'[c] :
              \/ p \in DOMAIN wire[c] /\ wire'[c][p] = wire[c][p]
              \/ wire'[c][p] = payload
    BY SentPlaces
  <1> HIDE DEF target, payload, lane
  <1>3. Waiting' = Waiting
    BY DEF Sent, Waiting, receiverVars
  <1>4. \A f : f \in Flying' <=> \E c \in Channels : \E p \in DOMAIN wire'[c] :
                                   \E j \in DOMAIN wire'[c][p].data : f = wire'[c][p].data[j]
    BY DEF Flying
  <1>5. \A f \in Flying' : f \in Flying \/ \E i \in 1..k : f = frags[i]
    BY <1>1, <1>2, <1>4, TransitPlaces
  <1>6. \A f \in Flying : f \in Flying'
    BY <1>2, <1>4, TransitPlaces
  <1>7. \A i \in 1..k : frags[i] \in Flying'
    BY <1>1, <1>2, <1>4
  <1> QED
    BY <1>3, <1>5, <1>6, <1>7 DEF Transit

\* What data_to_send() sends follows everything that is on the way.
LEMMA SendOrder ==
    ASSUME ChannelInv, ~SplitStreams,
           NEW k \in 1..Len(send_buffer), NEW frags \in [1..k -> Fragments],
           Cut(k, frags), Sent(k, frags), SameTarget(k),
           \A i \in 1..(k - 1) : frags[i].end
    PROVE  OrderInv'
  <1> DEFINE target  == prepared[send_buffer[1].msg].target
             payload == [target |-> target, data |-> frags,
                         stream |-> prepared[send_buffer[1].msg].stream]
  <1>1. IInv /\ TransitInv /\ TargetsInv /\ QueueOrder
    BY DEF ChannelInv, TransitInv, OrderInv
  <1>2. PICK lane : lane = Lane(target)
    OBVIOUS
  <1>3. DOMAIN frags = 1..k /\ payload.data = frags /\ payload.target = target
    OBVIOUS
  <1>4. \A c \in Channels : \A p \in DOMAIN wire'[c] :
           /\ p \in Nat
           /\ \/ p \in DOMAIN wire[c] /\ wire'[c][p] = wire[c][p] /\ p < Len(wire[c]) + 1
              \/ c = lane /\ p = Len(wire[c]) + 1 /\ wire'[c][p] = payload
    BY <1>1, <1>2, SentPlaces
  <1>5. /\ prepared' = prepared /\ receive_buffer' = receive_buffer
    BY DEF Sent, receiverVars
  <1>6. ASSUME NEW i \in 1..k
        PROVE  /\ i \in DOMAIN send_buffer /\ i \in Nat
               /\ frags[i].msg = send_buffer[i].msg
               /\ frags[i].msg \in Unsent
               /\ prepared[frags[i].msg].target = target
    <2>1. i \in DOMAIN send_buffer /\ i \in Nat
      BY <1>1 DEF IInv, TypeInv, TypeOK
    <2> QED
      BY <2>1 DEF Cut, SameTarget, Message, Unsent
  <1> HIDE DEF target, payload
  <1>7. ASSUME NEW c \in Channels, NEW p \in DOMAIN wire[c], NEW j \in DOMAIN wire[c][p].data
        PROVE  wire[c][p].data[j] \in Transit
    BY TransitPlaces DEF Transit
  <1>8. LanesInv'
    BY <1>1, <1>2, <1>3, <1>4 DEF TransitInv, OrderInv, LanesInv, Lane
  <1>9. BufferOrder'
    BY <1>1, <1>5 DEF TransitInv, OrderInv, BufferOrder, Alike, Precedes
  <1>10. PayloadOrder'
    <2> SUFFICES ASSUME NEW c \in Channels, NEW p \in DOMAIN wire'[c],
                        NEW i \in DOMAIN wire'[c][p].data, NEW j \in DOMAIN wire'[c][p].data,
                        i < j
                 PROVE  Precedes(wire'[c][p].data[i], wire'[c][p].data[j])
      BY DEF PayloadOrder, Precedes
    <2>1. CASE p \in DOMAIN wire[c] /\ wire'[c][p] = wire[c][p]
      BY <1>1, <2>1 DEF TransitInv, OrderInv, PayloadOrder
    <2>2. CASE wire'[c][p] = payload
      <3>1. i \in 1..k /\ j \in 1..k /\ wire'[c][p].data[i] = frags[i]
            /\ wire'[c][p].data[j] = frags[j]
        BY <1>3, <2>2
      <3> QED
        BY <1>1, <1>6, <3>1 DEF QueueOrder, Precedes
    <2> QED
      BY <1>4, <2>1, <2>2
  <1>11. WireOrder'
    <2> SUFFICES ASSUME NEW c \in Channels, NEW p \in DOMAIN wire'[c], NEW q \in DOMAIN wire'[c],
                        NEW i \in DOMAIN wire'[c][p].data, NEW j \in DOMAIN wire'[c][q].data,
                        p < q
                 PROVE  Precedes(wire'[c][p].data[i], wire'[c][q].data[j])
      BY DEF WireOrder, Precedes
    <2>1. Len(wire[c]) + 1 \in Nat
      BY <1>1 DEF IInv, TypeInv, TypeOK
    <2>2. p \in DOMAIN wire[c] /\ wire'[c][p] = wire[c][p]
      BY <1>4, <2>1
    <2>3. CASE q \in DOMAIN wire[c] /\ wire'[c][q] = wire[c][q]
      BY <1>1, <2>2, <2>3 DEF TransitInv, OrderInv, WireOrder
    <2>4. CASE c = lane /\ wire'[c][q] = payload
      <3>1. j \in 1..k /\ wire'[c][q].data[j] = frags[j]
        BY <1>3, <2>4
      <3>2. wire[c][p].target = target
        BY <1>1, <1>2, <2>2, <2>4 DEF TransitInv, OrderInv, LanesInv, Lane
      <3>3. wire[c][p].data[i] \in Transit
        BY <1>7, <2>2
      <3>4. Alike(wire[c][p].data[i].msg, frags[j].msg)
        BY <1>1, <1>6, <2>2, <3>1, <3>2 DEF TargetsInv, Alike
      <3> QED
        BY <1>1, <2>2, <3>1, <3>3, <3>4, SentLast
    <2> QED
      BY <1>4, <2>3, <2>4
  <1>12. BufferFirst'
    <2> SUFFICES ASSUME NEW f \in Waiting', NEW g \in Flying', Alike(f.msg, g.msg)
                 PROVE  Precedes(f, g)
      BY <1>5 DEF BufferFirst, Precedes, Alike
    <2>1. f \in Waiting /\ f \in Transit
      BY <1>1, SentTransit DEF Transit
    <2>2. g \in Flying \/ \E i \in 1..k : g = frags[i]
      BY <1>1, SentTransit
    <2> QED
      BY <1>1, <2>1, <2>2, SentLast DEF TransitInv, OrderInv, BufferFirst
  <1>13. SentFirst'
    <2> SUFFICES ASSUME NEW f \in Transit', NEW m \in Unsent', Alike(f.msg, m)
                 PROVE  f.msg <= m
      BY <1>5 DEF SentFirst, Alike
    <2>1. m \in Unsent /\ \A i \in 1..k : send_buffer[i].msg <= m
      BY <1>1, SentUnsent
    <2>2. f \in Transit \/ \E i \in 1..k : f = frags[i]
      BY <1>1, SentTransit
    <2> QED
      BY <1>1, <1>6, <2>1, <2>2 DEF TransitInv, OrderInv, SentFirst
  <1>14. QueueOrder'
    BY <1>1, SentUnsent
  <1> QED
    BY <1>8, <1>9, <1>10, <1>11, <1>12, <1>13, <1>14 DEF OrderInv

\* Its fragments are the missing ones of their messages.
LEMMA SendTransit ==
    ASSUME ChannelInv, ~SplitStreams,
           NEW k \in 1..Len(send_buffer), NEW frags \in [1..k -> Fragments],
           Cut(k, frags), Sent(k, frags), SameTarget(k),
           \A i \in 1..(k - 1) : frags[i].end
    PROVE  TransitInv'
  <1>1. IInv /\ TransitInv /\ QueueOrder /\ OrderInv'
    BY SendOrder DEF ChannelInv, TransitInv, OrderInv
  <1>2. UNCHANGED <<prepared, incoming_fragments, incoming_messages, delivered, raised>>
    BY DEF Sent, receiverVars
  <1>3. /\ \A f \in Transit' : f \in Transit \/ \E i \in 1..k : f = frags[i]
        /\ \A f \in Transit : f \in Transit'
        /\ \A i \in 1..k : frags[i] \in Transit'
    BY <1>1, SentTransit
  <1>4. /\ \A m \in Unsent' : m \in Unsent
        /\ \A i \in 1..k : send_buffer[i].msg \in Unsent' <=> ~frags[i].end
        /\ \A m \in Unsent : m \in Unsent' \/ \E i \in 1..k : m = send_buffer[i].msg
    BY <1>1, SentUnsent
  <1>5. ASSUME NEW i \in 1..k
        PROVE  /\ frags[i].msg = send_buffer[i].msg
               /\ frags[i].msg \in Unsent /\ frags[i].msg \in DOMAIN prepared
               /\ frags[i].msg \in MessageIds /\ frags[i].fid \in Nat
               /\ frags[i].fid = Len(cuts[frags[i].msg])
               /\ Len(cuts'[frags[i].msg]) = frags[i].fid + 1
    <2>1. i \in DOMAIN send_buffer
      BY <1>1 DEF IInv, TypeInv, TypeOK
    <2>2. frags[i] \in Fragments /\ frags[i].hi \in Nat /\ frags[i].fid \in Nat
      BY DEF Fragments
    <2>3. frags[i].msg = send_buffer[i].msg /\ frags[i].fid = send_buffer[i].fid
      BY DEF Cut
    <2>4. /\ send_buffer[i].msg \in Unsent /\ send_buffer[i].msg \in DOMAIN prepared
          /\ send_buffer[i].msg \in MessageIds
          /\ send_buffer[i].fid = Len(cuts[send_buffer[i].msg])
      BY <1>1, <2>1, UnsentType
    <2>5. cuts'[send_buffer[i].msg] = Append(cuts[send_buffer[i].msg], frags[i].hi)
      BY <1>1, SentCuts
    <2>6. cuts[send_buffer[i].msg] \in Seq(Nat)
      BY <1>1, <2>4 DEF IInv, TypeInv, TypeOK
    <2>7. Len(cuts'[send_buffer[i].msg]) = Len(cuts[send_buffer[i].msg]) + 1
      BY <2>2, <2>5, <2>6
    <2> QED
      BY <2>2, <2>3, <2>4, <2>7
  <1>6. ASSUME NEW m \in MessageIds, \A i \in 1..k : send_buffer[i].msg # m
        PROVE  cuts'[m] = cuts[m] /\ (m \in Unsent' <=> m \in Unsent)
    BY <1>1, <1>4, <1>6, SentCuts
  <1>7. EndsInv'
    <2> SUFFICES ASSUME NEW f \in Transit'
                 PROVE  f.end <=> f.fid + 1 = Len(cuts'[f.msg]) /\ f.msg \notin Unsent'
      BY DEF EndsInv
    <2>1. CASE \E i \in 1..k : f = frags[i]
      BY <1>4, <1>5, <2>1, SMTT(30)
    <2>2. CASE f \in Transit
      <3>1. /\ f.msg \in MessageIds /\ f.fid \in Nat /\ f.fid + 1 <= Len(cuts[f.msg])
            /\ f.end <=> f.fid + 1 = Len(cuts[f.msg]) /\ f.msg \notin Unsent
        BY <1>1, <2>2, TransitType DEF TransitInv, EndsInv
      <3>2. CASE \E i \in 1..k : f.msg = frags[i].msg
        <4>1. PICK i \in 1..k : f.msg = frags[i].msg
          BY <3>2
        <4>2. f.msg \in Unsent /\ Len(cuts'[f.msg]) = Len(cuts[f.msg]) + 1
              /\ Len(cuts[f.msg]) \in Nat
          BY <1>5, <4>1
        <4> QED
          BY <3>1, <4>2
      <3>3. CASE \A i \in 1..k : f.msg # frags[i].msg
        BY <1>5, <1>6, <3>1, <3>3
      <3> QED
        BY <3>2, <3>3
    <2> QED
      BY <1>3, <2>1, <2>2
  <1>8. PartsInv'
    <2>1. ASSUME NEW f \in Transit'
          PROVE  f.fid >= Len(incoming_fragments[f.msg])
      <3>1. CASE f \in Transit
        BY <1>1, <3>1 DEF TransitInv, PartsInv
      <3>2. CASE \E i \in 1..k : f = frags[i]
        <4>1. f.msg \in MessageIds /\ f.fid = Len(cuts[f.msg])
          BY <1>5, <3>2
        <4>2. /\ cuts[f.msg] \in Seq(Nat) /\ incoming_fragments[f.msg] \in Seq(Chunks)
              /\ f.msg \in ObjectIds
          BY <1>1, <4>1 DEF IInv, TypeInv, TypeOK, MessageIds, ObjectIds
        <4>3. \A i \in DOMAIN incoming_fragments[f.msg] : i \in DOMAIN cuts[f.msg]
          BY <1>1, <4>2 DEF IInv, ChunksInv, IsChunk
        <4>4. \A i \in 1..Len(incoming_fragments[f.msg]) : i \in 1..Len(cuts[f.msg])
          BY <4>2, <4>3, SMTT(30)
        <4>5. Len(incoming_fragments[f.msg]) \in Nat /\ Len(cuts[f.msg]) \in Nat
          BY <4>2
        <4>6. Len(incoming_fragments[f.msg]) <= Len(cuts[f.msg])
          BY <4>4, <4>5
        <4> QED
          BY <4>1, <4>5, <4>6
      <3> QED
        BY <1>3, <3>1, <3>2
    <2>2. ASSUME NEW m \in DOMAIN prepared, m \notin Finished, NEW n \in Nat,
                 Len(incoming_fragments[m]) <= n, n < Len(cuts'[m])
          PROVE  \E f \in Transit' : f.msg = m /\ f.fid = n
      <3>0. m \in MessageIds /\ cuts[m] \in Seq(Nat) /\ Len(cuts[m]) \in Nat
        <4>1. m \in MessageIds
          BY <1>1 DEF TransitInv, IdsInv
        <4> QED
          BY <1>1, <4>1 DEF IInv, TypeInv, TypeOK
      <3>1. CASE n < Len(cuts[m])
        BY <1>1, <1>3, <2>2, <3>1 DEF TransitInv, PartsInv
      <3>2. CASE ~(n < Len(cuts[m]))
        <4>1. PICK i \in 1..k : m = frags[i].msg
          BY <1>5, <1>6, <2>2, <3>0, <3>2
        <4>2. n = frags[i].fid
          BY <1>5, <2>2, <3>0, <3>2, <4>1, SMTT(30)
        <4> QED
          BY <1>3, <4>1, <4>2
      <3> QED
        BY <3>1, <3>2
    <2> QED
      BY <1>2, <2>1, <2>2 DEF PartsInv, Finished, Combined, Returned
  <1>9. Finished' = Finished
    BY <1>2 DEF Finished, Combined, Returned
  <1>10. DoneInv'
    <2>1. ASSUME NEW m \in DOMAIN prepared
          PROVE  m \in Finished \/ m \in Unsent' \/ \E f \in Transit' : f.msg = m
      <3>1. m \in Finished \/ m \in Unsent \/ \E f \in Transit : f.msg = m
        BY <1>1 DEF TransitInv, DoneInv
      <3>2. CASE m \in Unsent
        <4>1. m \in Unsent' \/ \E i \in 1..k : m = frags[i].msg
          BY <1>4, <1>5, <3>2
        <4> QED
          BY <1>3, <4>1
      <3> QED
        BY <1>3, <3>1, <3>2
    <2>2. \A m \in Finished, n \in Unsent' : Alike(m, n) => m < n
      BY <1>1, <1>4 DEF TransitInv, DoneInv
    <2>3. \A m \in Finished, f \in Transit' : Alike(m, f.msg) => m < f.msg
      BY <1>1, <1>3, <1>5 DEF TransitInv, DoneInv
    <2> QED
      BY <1>1, <1>2, <1>9, <2>1, <2>2, <2>3 DEF TransitInv, DoneInv, Alike
  <1>11. MessagesInv' /\ IdsInv' /\ ~raised'
    BY <1>1, <1>2 DEF TransitInv, MessagesInv, IdsInv, Combined, Returned, Alike
  <1> QED
    BY <1>1, <1>7, <1>8, <1>10, <1>11 DEF TransitInv

\* A message that is queued is behind all others.
LEMMA PrepareTransit ==
    ASSUME ChannelInv, NEW t \in Targets, NEW s \in Streams, NEW n \in Sizes,
           prepare_message(t, s, n)
    PROVE  TransitInv'
  <1> DEFINE new   == Len(prepared) + 1
             entry == [msg |-> Len(prepared) + 1, oid |-> fragment_count, at |-> 0, fid |-> 0]
             text  == [target |-> t, stream |-> s, size |-> n]
  <1>1. /\ IInv /\ TransitInv
        /\ prepared \in Seq(Messages) /\ send_buffer \in Seq(Entries)
        /\ cuts \in [MessageIds -> Seq(Nat)] /\ Len(prepared) < MaxMessages
        /\ MaxMessages \in Nat /\ text \in Messages /\ TypeInv
    BY FragmentsAssumption
    DEF ChannelInv, IInv, TypeInv, TypeOK, prepare_message, Messages
  <1>2. /\ UNCHANGED <<cuts, wire, receive_buffer, incoming_fragments,
                       incoming_messages, delivered, raised>>
        /\ prepared' = Append(prepared, text) /\ send_buffer' = Append(send_buffer, entry)
    BY DEF prepare_message, networkVars, receiverVars
  <1>3. entry.msg = new /\ entry \in Entries
    <2>1. fragment_count = Len(prepared) + 1
      BY <1>1 DEF IInv, SenderInv
    <2> QED
      BY <1>1, <2>1 DEF Entries, MessageIds, ObjectIds
  <1>4. \A m \in DOMAIN prepared : m \in DOMAIN prepared' /\ prepared'[m] = prepared[m]
    BY <1>1, PreparedGrows
  <1>5. /\ new \in MessageIds /\ \A m \in DOMAIN prepared : m \in Nat /\ m < new /\ m # new
        /\ \A m \in DOMAIN prepared' : m \in DOMAIN prepared \/ m = new
        /\ new \notin DOMAIN prepared
    BY <1>1, <1>2 DEF MessageIds
  <1>6. cuts[new] = <<>> /\ Len(cuts[new]) = 0
    <2>1. cuts[new] = <<>>
      BY <1>1, <1>5 DEF IInv, SenderInv
    <2> QED
      BY <2>1
  <1> HIDE DEF new, entry, text
  <1>7. \A i \in DOMAIN send_buffer' :
           /\ i \in Nat
           /\ \/ /\ i \in DOMAIN send_buffer /\ i < Len(send_buffer) + 1
                 /\ send_buffer'[i] = send_buffer[i]
              \/ i = Len(send_buffer) + 1 /\ send_buffer'[i] = entry
    BY <1>1, <1>2, <1>3
  <1>8. /\ \A m \in Unsent' : m \in Unsent \/ m = new
        /\ \A m \in Unsent : m \in Unsent'
        /\ new \in Unsent'
    <2>1. \A i \in DOMAIN send_buffer :
             i \in DOMAIN send_buffer' /\ send_buffer'[i] = send_buffer[i]
      BY <1>1, <1>2, <1>3
    <2>2. Len(send_buffer) + 1 \in DOMAIN send_buffer'
          /\ send_buffer'[Len(send_buffer) + 1] = entry
      BY <1>1, <1>2, <1>3
    <2> QED
      BY <1>3, <1>7, <2>1, <2>2 DEF Unsent
  <1>9. /\ Transit' = Transit /\ Waiting' = Waiting /\ Flying' = Flying
        /\ Finished' = Finished /\ Combined' = Combined /\ Returned' = Returned
    BY <1>2 DEF Transit, Waiting, Flying, Finished, Combined, Returned
  <1>10. \A f \in Transit : f.msg \in DOMAIN prepared
    BY <1>1, TransitType
  <1>11. \A m \in Unsent : m \in DOMAIN prepared
    BY <1>1, UnsentType DEF Unsent
  <1>12. \A m \in Finished : m \in DOMAIN prepared
    BY <1>1 DEF TransitInv, DoneInv
  <1>13. \A i, j \in DOMAIN prepared : Alike(i, j)' => Alike(i, j)
    BY <1>4 DEF Alike
  <1>14. (LanesInv /\ PayloadOrder /\ WireOrder)'
    BY <1>1, <1>2, SMTT(30) DEF TransitInv, OrderInv, LanesInv, Lane, PayloadOrder, WireOrder, Precedes
  <1>15. BufferOrder'
    <2>1. \A i \in DOMAIN receive_buffer : receive_buffer[i].msg \in DOMAIN prepared
      BY <1>10, TransitPlaces DEF Transit
    <2>2. \A i, j \in DOMAIN receive_buffer :
             Alike(receive_buffer[i].msg, receive_buffer[j].msg)'
               => Alike(receive_buffer[i].msg, receive_buffer[j].msg)
      BY <1>2, <1>4, <2>1 DEF Alike
    <2> QED
      BY <1>1, <1>2, <2>2 DEF TransitInv, OrderInv, BufferOrder, Precedes
  <1>16. BufferFirst'
    <2> SUFFICES ASSUME NEW f \in Waiting, NEW g \in Flying, Alike(f.msg, g.msg)'
                 PROVE  Precedes(f, g)
      BY <1>9 DEF BufferFirst, Precedes
    <2>1. Alike(f.msg, g.msg)
      BY <1>4, <1>10 DEF Alike, Transit
    <2> QED
      BY <1>1, <2>1 DEF TransitInv, OrderInv, BufferFirst
  <1>17. QueueOrder'
    <2> SUFFICES ASSUME NEW i \in DOMAIN send_buffer', NEW j \in DOMAIN send_buffer', i < j
                 PROVE  send_buffer'[i].msg < send_buffer'[j].msg
      BY DEF QueueOrder
    <2>1. Len(send_buffer) + 1 \in Nat
      BY <1>1
    <2>2. i \in DOMAIN send_buffer /\ send_buffer'[i] = send_buffer[i]
      BY <1>7, <2>1
    <2>3. send_buffer[i].msg \in DOMAIN prepared
      BY <1>1, <2>2, UnsentType
    <2> QED
      BY <1>1, <1>3, <1>5, <1>7, <2>2, <2>3 DEF TransitInv, OrderInv, QueueOrder
  <1>18. SentFirst'
    <2> SUFFICES ASSUME NEW f \in Transit, NEW m \in Unsent', Alike(f.msg, m)'
                 PROVE  f.msg <= m
      BY <1>9 DEF SentFirst
    <2>1. CASE m = new
      BY <1>1, <1>5, <1>10, <2>1 DEF MessageIds
    <2>2. CASE m \in Unsent
      <3>1. Alike(f.msg, m)
        BY <1>4, <1>10, <1>11, <2>2 DEF Alike
      <3> QED
        BY <1>1, <2>2, <3>1 DEF TransitInv, OrderInv, SentFirst
    <2> QED
      BY <1>8, <2>1, <2>2
  <1>19. EndsInv'
    <2> SUFFICES ASSUME NEW f \in Transit
                 PROVE  f.end <=> f.fid + 1 = Len(cuts[f.msg]) /\ f.msg \notin Unsent'
      BY <1>2, <1>9 DEF EndsInv
    <2>1. f.msg \in Unsent' <=> f.msg \in Unsent
      BY <1>5, <1>8, <1>10
    <2> QED
      BY <1>1, <2>1 DEF TransitInv, EndsInv
  <1>20. PartsInv'
    <2>1. \A f \in Transit : f.fid >= Len(incoming_fragments[f.msg])
      BY <1>1 DEF TransitInv, PartsInv
    <2>2. ASSUME NEW m \in DOMAIN prepared', m \notin Finished, NEW i \in Nat,
                 Len(incoming_fragments[m]) <= i, i < Len(cuts[m])
          PROVE  \E f \in Transit : f.msg = m /\ f.fid = i
      <3>1. m # new
        BY <1>6, <2>2
      <3> QED
        BY <1>1, <1>5, <2>2, <3>1 DEF TransitInv, PartsInv
    <2> QED
      BY <1>2, <1>9, <2>1, <2>2 DEF PartsInv
  <1>21. DoneInv'
    <2>1. ASSUME NEW m \in DOMAIN prepared'
          PROVE  m \in Finished \/ m \in Unsent' \/ \E f \in Transit : f.msg = m
      BY <1>1, <1>5, <1>8 DEF TransitInv, DoneInv
    <2>2. ASSUME NEW m \in Finished, NEW i \in Unsent', Alike(m, i)'
          PROVE  m < i
      <3>1. CASE i = new
        BY <1>5, <1>12, <3>1
      <3>2. CASE i \in Unsent
        <4>1. Alike(m, i)
          BY <1>4, <1>11, <1>12, <2>2, <3>2 DEF Alike
        <4> QED
          BY <1>1, <3>2, <4>1 DEF TransitInv, DoneInv
      <3> QED
        BY <1>8, <3>1, <3>2
    <2>3. ASSUME NEW m \in Finished, NEW f \in Transit, Alike(m, f.msg)'
          PROVE  m < f.msg
      <3>1. Alike(m, f.msg)
        BY <1>4, <1>10, <1>12, <2>3 DEF Alike
      <3> QED
        BY <1>1, <3>1 DEF TransitInv, DoneInv
    <2> QED
      BY <1>4, <1>9, <1>12, <2>1, <2>2, <2>3 DEF DoneInv
  <1>22. MessagesInv'
    <2>1. \A i \in DOMAIN incoming_messages : incoming_messages[i].oid \in DOMAIN prepared
      BY <1>1, <1>12, FinishedType DEF Finished, TransitInv
    <2>2. \A i, j \in DOMAIN incoming_messages :
             Alike(incoming_messages[i].oid, incoming_messages[j].oid)'
               => Alike(incoming_messages[i].oid, incoming_messages[j].oid)
      BY <1>2, <1>4, <2>1 DEF Alike
    <2>3. \A m \in Returned, i \in Combined : Alike(m, i)' => Alike(m, i)
      BY <1>12, <1>13 DEF Finished
    <2> QED
      BY <1>1, <1>2, <1>9, <2>2, <2>3 DEF TransitInv, MessagesInv
  <1>23. IdsInv' /\ ~raised'
    BY <1>1, <1>2, <1>5 DEF TransitInv, IdsInv
  <1> QED
    BY <1>14, <1>15, <1>16, <1>17, <1>18, <1>19, <1>20, <1>21, <1>22, <1>23
    DEF TransitInv, OrderInv

\* The head of the receive buffer precedes what else is on its way to its target.
LEMMA UnpackPlaces ==
    ASSUME ChannelInv, UnpackFragment, NEW f, f = Head(receive_buffer)
    PROVE  /\ f \in Waiting /\ f \in Transit
           /\ \A i \in DOMAIN receive_buffer' :
                 /\ i \in Nat /\ i + 1 \in DOMAIN receive_buffer
                 /\ receive_buffer'[i] = receive_buffer[i + 1]
           /\ \A g \in Waiting' : g \in Waiting
           /\ \A g \in Transit' : g \in Transit /\ (Alike(f.msg, g.msg) => Precedes(f, g))
           /\ \A g \in Transit : g = f \/ g \in Transit'
  <1>1. IInv /\ TransitInv /\ receive_buffer \in Seq(Fragments) /\ receive_buffer # <<>>
        /\ receive_buffer' = Tail(receive_buffer)
    BY DEF ChannelInv, IInv, TypeInv, TypeOK, UnpackFragment
  <1>2. 1 \in DOMAIN receive_buffer /\ f = receive_buffer[1]
    BY <1>1
  <1>3. f \in Waiting
    BY <1>2, TransitPlaces
  <1>4. \A i \in DOMAIN receive_buffer' :
           /\ i \in Nat /\ i + 1 \in DOMAIN receive_buffer /\ 1 < i + 1
           /\ receive_buffer'[i] = receive_buffer[i + 1]
    BY <1>1
  <1>5. \A i \in DOMAIN receive_buffer : i # 1 =>
           i - 1 \in DOMAIN receive_buffer' /\ receive_buffer'[i - 1] = receive_buffer[i]
    BY <1>1
  <1>6. Flying' = Flying
    BY DEF UnpackFragment, networkVars, Flying
  <1>7. \A g : g \in Waiting' <=> \E i \in DOMAIN receive_buffer' : g = receive_buffer'[i]
    BY DEF Waiting
  <1>8. ASSUME NEW g \in Waiting'
        PROVE  g \in Waiting /\ (Alike(f.msg, g.msg) => Precedes(f, g))
    <2>1. PICK i \in DOMAIN receive_buffer' : g = receive_buffer'[i]
      BY <1>7
    <2>2. i + 1 \in DOMAIN receive_buffer /\ 1 < i + 1 /\ g = receive_buffer[i + 1]
      BY <1>4, <2>1
    <2> QED
      BY <1>1, <1>2, <2>2, TransitPlaces DEF TransitInv, OrderInv, BufferOrder
  <1>9. \A g \in Flying : Alike(f.msg, g.msg) => Precedes(f, g)
    BY <1>1, <1>3 DEF TransitInv, OrderInv, BufferFirst
  <1>10. \A g \in Waiting : g = f \/ g \in Waiting'
    BY <1>2, <1>5, <1>7, TransitPlaces
  <1> QED
    BY <1>3, <1>4, <1>6, <1>8, <1>9, <1>10 DEF Transit

\* ... and it is the one that is expected.
LEMMA HeadExpected ==
    ASSUME ChannelInv, UnpackFragment, NEW f, f = Head(receive_buffer)
    PROVE  Expected(f) /\ f.msg \notin Finished
  <1>1. IInv /\ TransitInv /\ f \in Transit
    BY UnpackPlaces DEF ChannelInv
  <1>2. /\ f.msg \in DOMAIN prepared /\ f.msg \in Nat /\ f.oid = f.msg /\ f.fid \in Nat
        /\ f.fid + 1 <= Len(cuts[f.msg]) /\ Len(cuts[f.msg]) \in Nat
        /\ Len(incoming_fragments[f.msg]) \in Nat
    BY <1>1, TransitType, SMTT(30)
  <1>3. f.msg \notin Finished
    BY <1>1, <1>2 DEF TransitInv, DoneInv, Alike
  <1>4. f.fid >= Len(incoming_fragments[f.msg])
    BY <1>1 DEF TransitInv, PartsInv
  <1>5. ASSUME f.fid # Len(incoming_fragments[f.msg]) PROVE FALSE
    <2>1. PICK g \in Transit : g.msg = f.msg /\ g.fid = Len(incoming_fragments[f.msg])
      BY <1>1, <1>2, <1>3, <1>4, <1>5 DEF TransitInv, PartsInv
    <2>2. g = f \/ Precedes(f, g)
      BY <2>1, UnpackPlaces DEF Alike
    <2> QED
      BY <1>2, <1>4, <1>5, <2>1, <2>2 DEF Precedes
  <1> QED
    BY <1>2, <1>3, <1>5 DEF Expected

\* Taking the first fragment leaves the rest in their order.
LEMMA UnpackOrder ==
    ASSUME ChannelInv, UnpackFragment
    PROVE  OrderInv' /\ EndsInv'
  <1> DEFINE f == Head(receive_buffer)
  <1>1. TransitInv
    BY DEF ChannelInv
  <1>2. UNCHANGED <<prepared, cuts, send_buffer, wire>>
    BY DEF UnpackFragment, senderVars, networkVars
  <1>3. /\ \A i \in DOMAIN receive_buffer' :
                 /\ i \in Nat /\ i + 1 \in DOMAIN receive_buffer
                 /\ receive_buffer'[i] = receive_buffer[i + 1]
        /\ \A g \in Waiting' : g \in Waiting
        /\ \A g \in Transit' : g \in Transit
    BY UnpackPlaces
  <1>4. Flying' = Flying /\ Unsent' = Unsent
    BY <1>2 DEF Flying, Unsent
  <1>5. (LanesInv /\ PayloadOrder /\ WireOrder /\ QueueOrder)'
    BY <1>1, <1>2
    DEF TransitInv, OrderInv, LanesInv, Lane, PayloadOrder, WireOrder, QueueOrder, Precedes
  <1>6. BufferOrder'
    <2> SUFFICES ASSUME NEW i \in DOMAIN receive_buffer', NEW j \in DOMAIN receive_buffer',
                        i < j, Alike(receive_buffer'[i].msg, receive_buffer'[j].msg)
                 PROVE  Precedes(receive_buffer'[i], receive_buffer'[j])
      BY <1>2 DEF BufferOrder, Alike, Precedes
    <2>1. i + 1 < j + 1
      BY <1>3
    <2> QED
      BY <1>1, <1>3, <2>1 DEF TransitInv, OrderInv, BufferOrder
  <1>7. BufferFirst'
    BY <1>1, <1>2, <1>3, <1>4 DEF TransitInv, OrderInv, BufferFirst, Alike, Precedes
  <1>8. SentFirst'
    BY <1>1, <1>2, <1>3, <1>4 DEF TransitInv, OrderInv, SentFirst, Alike
  <1>9. EndsInv'
    BY <1>1, <1>2, <1>3, <1>4 DEF TransitInv, EndsInv
  <1> QED
    BY <1>5, <1>6, <1>7, <1>8, <1>9 DEF OrderInv

\* A fragment in the middle of its message leaves the rest of it on its way.
LEMMA UnpackMiddle ==
    ASSUME ChannelInv, UnpackFragment, NEW f, f = Head(receive_buffer), ~f.end
    PROVE  (PartsInv /\ DoneInv /\ MessagesInv /\ ~raised)'
  <1>1. /\ IInv /\ TransitInv /\ f \in Transit /\ Expected(f) /\ f.msg \notin Finished
    BY HeadExpected, UnpackPlaces DEF ChannelInv
  <1>2. /\ f.msg \in MessageIds /\ f.msg \in DOMAIN prepared /\ f.oid = f.msg /\ f.fid \in Nat
        /\ f.fid + 1 <= Len(cuts[f.msg]) /\ Len(cuts[f.msg]) \in Nat
        /\ incoming_fragments[f.msg] \in Seq(Chunks) /\ f \in Fragments
    BY <1>1, TransitType
  <1>3. /\ incoming_fragments' = [incoming_fragments EXCEPT ![f.oid] =
                                    Append(incoming_fragments[f.oid], Chunk(f))]
        /\ UNCHANGED <<prepared, cuts, send_buffer, wire, incoming_messages, delivered, raised>>
    BY <1>1 DEF UnpackFragment, senderVars, networkVars
  <1>4. incoming_fragments \in [ObjectIds -> Seq(Chunks)] /\ Chunk(f) \in Chunks
    BY <1>1, <1>2 DEF IInv, TypeInv, TypeOK, Fragments, Chunk, Chunks
  <1>5. /\ Len(incoming_fragments'[f.msg]) = f.fid + 1
        /\ \A m \in MessageIds : m # f.msg => incoming_fragments'[m] = incoming_fragments[m]
    <2>1. f.msg \in ObjectIds /\ MessageIds = ObjectIds
      BY <1>2 DEF MessageIds, ObjectIds
    <2>2. incoming_fragments'[f.msg] = Append(incoming_fragments[f.msg], Chunk(f))
      BY <1>2, <1>3, <1>4, <2>1
    <2>3. Len(incoming_fragments[f.msg]) = f.fid
      BY <1>1, <1>2 DEF Expected
    <2>4. Len(incoming_fragments'[f.msg]) = f.fid + 1
      BY <1>2, <1>4, <2>2, <2>3
    <2>5. \A m \in ObjectIds : m # f.msg => incoming_fragments'[m] = incoming_fragments[m]
      BY <1>2, <1>3, <1>4
    <2> QED
      BY <2>1, <2>4, <2>5
  <1>6. /\ Unsent' = Unsent /\ Finished' = Finished
        /\ Combined' = Combined /\ Returned' = Returned
    BY <1>3 DEF Unsent, Finished, Combined, Returned
  <1>7. /\ \A g \in Transit' : g \in Transit /\ (Alike(f.msg, g.msg) => Precedes(f, g))
        /\ \A g \in Transit : g = f \/ g \in Transit'
    BY UnpackPlaces
  <1>8. \A g \in Transit : g.msg \in MessageIds /\ g.msg \in Nat /\ g.fid \in Nat
    BY <1>1, TransitType
  <1>9. PartsInv'
    <2>1. ASSUME NEW g \in Transit'
          PROVE  g.fid >= Len(incoming_fragments'[g.msg])
      <3>1. CASE g.msg = f.msg
        <4>1. Precedes(f, g) /\ g \in Transit
          BY <1>7, <3>1 DEF Alike
        <4> QED
          BY <1>2, <1>5, <1>8, <3>1, <4>1 DEF Precedes
      <3>2. CASE g.msg # f.msg
        BY <1>1, <1>5, <1>7, <1>8, <3>2 DEF TransitInv, PartsInv
      <3> QED
        BY <3>1, <3>2
    <2>2. ASSUME NEW m \in DOMAIN prepared, m \notin Finished, NEW n \in Nat,
                 Len(incoming_fragments'[m]) <= n, n < Len(cuts[m])
          PROVE  \E g \in Transit' : g.msg = m /\ g.fid = n
      <3>1. Len(incoming_fragments[m]) <= n /\ (m = f.msg => n # f.fid)
        <4>1. CASE m = f.msg
          <5>1. Len(incoming_fragments[m]) = f.fid
            BY <1>1, <1>2, <4>1 DEF Expected
          <5> QED
            BY <1>2, <1>5, <2>2, <4>1, <5>1
        <4>2. CASE m # f.msg
          BY <1>1, <1>5, <2>2, <4>2 DEF TransitInv, IdsInv
        <4> QED
          BY <4>1, <4>2
      <3>2. PICK g \in Transit : g.msg = m /\ g.fid = n
        BY <1>1, <2>2, <3>1 DEF TransitInv, PartsInv
      <3> QED
        BY <1>7, <3>1, <3>2
    <2> QED
      BY <1>3, <1>6, <2>1, <2>2 DEF PartsInv
  <1>10. DoneInv'
    <2>1. ASSUME NEW m \in DOMAIN prepared
          PROVE  m \in Finished \/ m \in Unsent \/ \E g \in Transit' : g.msg = m
      <3>1. CASE m = f.msg
        <4>1. ~(f.fid + 1 = Len(cuts[f.msg])) \/ f.msg \in Unsent
          BY <1>1 DEF TransitInv, EndsInv
        <4>2. CASE f.fid + 1 # Len(cuts[f.msg])
          <5>1. Len(incoming_fragments[f.msg]) = f.fid
            BY <1>1, <1>2 DEF Expected
          <5>2. /\ f.fid + 1 \in Nat /\ Len(incoming_fragments[f.msg]) <= f.fid + 1
                /\ f.fid + 1 < Len(cuts[f.msg])
            BY <1>2, <4>2, <5>1
          <5>3. PICK g \in Transit : g.msg = f.msg /\ g.fid = f.fid + 1
            BY <1>1, <1>2, <5>2 DEF TransitInv, PartsInv
          <5>4. g # f
            BY <1>2, <5>3
          <5> QED
            BY <1>7, <3>1, <5>3, <5>4
        <4> QED
          BY <3>1, <4>1, <4>2
      <3>2. CASE m # f.msg
        BY <1>1, <1>7, <3>2 DEF TransitInv, DoneInv
      <3> QED
        BY <3>1, <3>2
    <2> QED
      BY <1>1, <1>3, <1>6, <1>7, <2>1 DEF TransitInv, DoneInv, Alike
  <1>11. MessagesInv' /\ ~raised'
    BY <1>1, <1>3, <1>6 DEF TransitInv, MessagesInv, Alike
  <1> QED
    BY <1>9, <1>10, <1>11

\* The last fragment of a message puts the message behind those of its target
\* that were combined before it.
LEMMA UnpackLastPlaces ==
    ASSUME ChannelInv, UnpackFragment, NEW f, f = Head(receive_buffer), f.end
    PROVE  \E new \in QueuedMessages :
             /\ new.oid = f.msg /\ new.data[1].msg = f.msg
             /\ incoming_messages' = Append(incoming_messages, new)
             /\ incoming_fragments' = [incoming_fragments EXCEPT ![f.msg] = <<>>]
             /\ UNCHANGED <<prepared, cuts, send_buffer, wire, delivered, raised>>
  <1> DEFINE joined == Append(incoming_fragments[f.oid], Chunk(f))
             new    == [oid |-> f.oid, data |-> joined]
  <1>1. /\ IInv /\ TransitInv /\ f \in Transit /\ Expected(f) /\ f.msg \notin Finished
    BY HeadExpected, UnpackPlaces DEF ChannelInv
  <1>2. f.msg \in DOMAIN prepared /\ f.oid = f.msg /\ f.fid \in Nat
        /\ f \in Fragments /\ Genuine(f)
    BY <1>1, TransitType
  <1>3. /\ incoming_fragments' = [incoming_fragments EXCEPT ![f.oid] = <<>>]
        /\ incoming_messages' = Put(incoming_messages, f.oid, joined)
        /\ UNCHANGED <<prepared, cuts, send_buffer, wire, delivered, raised>>
    BY <1>1 DEF UnpackFragment, senderVars, networkVars
  <1>4. joined \in Seq(Chunks) /\ joined[1].msg = f.oid
    <2>1. /\ joined \in Seq(Chunks) /\ Len(joined) = f.fid + 1
          /\ \A i \in DOMAIN joined : IsChunk(f.oid, i, joined[i])
      BY <1>1, <1>2, JoinedChunks
    <2> HIDE DEF joined
    <2>2. 1 \in DOMAIN joined
      BY <1>2, <2>1
    <2> QED
      BY <2>1, <2>2 DEF IsChunk
  <1> HIDE DEF joined
  <1>5. \A i \in DOMAIN incoming_messages : incoming_messages[i].oid # f.oid
    BY <1>1, <1>2, FinishedType DEF TransitInv, Finished
  <1>6. incoming_messages' = Append(incoming_messages, new)
    BY <1>3, <1>5 DEF Put
  <1>7. new \in QueuedMessages /\ new.oid = f.msg /\ new.data = joined
    BY <1>2, <1>4 DEF QueuedMessages, Fragments
  <1> HIDE DEF new
  <1>8. new.data[1].msg = f.msg
    BY <1>2, <1>4, <1>7
  <1> QED
    BY <1>2, <1>3, <1>6, <1>7, <1>8

\* The last fragment of a message turns it into an incoming message.
LEMMA UnpackLast ==
    ASSUME ChannelInv, UnpackFragment, NEW f, f = Head(receive_buffer), f.end
    PROVE  (PartsInv /\ DoneInv /\ MessagesInv /\ ~raised)'
  <1>1. /\ IInv /\ TransitInv /\ f \in Transit /\ f.msg \notin Finished
    BY HeadExpected, UnpackPlaces DEF ChannelInv
  <1>2. /\ f.msg \in MessageIds /\ f.msg \in DOMAIN prepared /\ f.oid = f.msg /\ f.fid \in Nat
        /\ f.msg \in Nat /\ f.msg \notin Unsent
        /\ f.fid + 1 = Len(cuts[f.msg]) /\ Len(cuts[f.msg]) \in Nat
    BY <1>1, TransitType DEF TransitInv, EndsInv
  <1>3. PICK new \in QueuedMessages :
             /\ new.oid = f.msg /\ new.data[1].msg = f.msg
             /\ incoming_messages' = Append(incoming_messages, new)
             /\ incoming_fragments' = [incoming_fragments EXCEPT ![f.msg] = <<>>]
             /\ UNCHANGED <<prepared, cuts, send_buffer, wire, delivered, raised>>
    BY UnpackLastPlaces
  <1>4. incoming_fragments \in [ObjectIds -> Seq(Chunks)]
        /\ incoming_messages \in Seq(QueuedMessages)
    BY <1>1 DEF IInv, TypeInv, TypeOK, QueuedMessages
  <1>5. \A m \in MessageIds : m # f.msg => incoming_fragments'[m] = incoming_fragments[m]
    <2>1. MessageIds = ObjectIds
      BY DEF MessageIds, ObjectIds
    <2> QED
      BY <1>3, <1>4, <2>1
  <1>6. \A i \in DOMAIN incoming_messages' :
           /\ i \in Nat
           /\ \/ /\ i \in DOMAIN incoming_messages /\ i < Len(incoming_messages) + 1
                 /\ incoming_messages'[i] = incoming_messages[i]
              \/ i = Len(incoming_messages) + 1 /\ incoming_messages'[i] = new
    BY <1>3, <1>4
  <1>7. /\ \A m \in Combined' : m \in Combined \/ m = f.msg
        /\ \A m \in Combined : m \in Combined'
        /\ f.msg \in Combined'
    <2>1. \A i \in DOMAIN incoming_messages :
             i \in DOMAIN incoming_messages' /\ incoming_messages'[i] = incoming_messages[i]
      BY <1>3, <1>4
    <2>2. Len(incoming_messages) + 1 \in DOMAIN incoming_messages'
          /\ incoming_messages'[Len(incoming_messages) + 1] = new
      BY <1>3, <1>4
    <2> QED
      BY <1>3, <1>6, <2>1, <2>2 DEF Combined
  <1>8. Unsent' = Unsent /\ Returned' = Returned
    BY <1>3 DEF Unsent, Returned
  <1>9. /\ \A m \in Finished' : m \in Finished \/ m = f.msg
        /\ \A m \in Finished : m \in Finished'
        /\ f.msg \in Finished'
    BY <1>7, <1>8 DEF Finished
  <1>10. /\ \A g \in Transit' : g \in Transit /\ (Alike(f.msg, g.msg) => Precedes(f, g))
         /\ \A g \in Transit : g = f \/ g \in Transit'
    BY UnpackPlaces
  <1>11. \A g \in Transit : /\ g.msg \in MessageIds /\ g.msg \in Nat /\ g.fid \in Nat
                            /\ g.fid + 1 <= Len(cuts[g.msg])
    BY <1>1, TransitType
  <1>12. ASSUME NEW g \in Transit'
         PROVE  g.msg # f.msg
    <2>1. g.msg = f.msg => Precedes(f, g)
      BY <1>10 DEF Alike
    <2> QED
      BY <1>2, <1>10, <1>11, <2>1 DEF Precedes
  <1>13. PartsInv'
    <2>1. ASSUME NEW g \in Transit'
          PROVE  g.fid >= Len(incoming_fragments'[g.msg])
      BY <1>1, <1>5, <1>10, <1>11, <1>12 DEF TransitInv, PartsInv
    <2>2. ASSUME NEW m \in DOMAIN prepared, m \notin Finished', NEW n \in Nat,
                 Len(incoming_fragments'[m]) <= n, n < Len(cuts[m])
          PROVE  \E g \in Transit' : g.msg = m /\ g.fid = n
      <3>1. m # f.msg /\ m \notin Finished /\ m \in MessageIds
        BY <1>1, <1>9, <2>2 DEF TransitInv, IdsInv
      <3>2. PICK g \in Transit : g.msg = m /\ g.fid = n
        BY <1>1, <1>5, <2>2, <3>1 DEF TransitInv, PartsInv
      <3> QED
        BY <1>10, <3>1, <3>2
    <2> QED
      BY <1>3, <2>1, <2>2 DEF PartsInv
  <1>14. DoneInv'
    <2>1. ASSUME NEW m \in DOMAIN prepared
          PROVE  m \in Finished' \/ m \in Unsent \/ \E g \in Transit' : g.msg = m
      BY <1>1, <1>9, <1>10 DEF TransitInv, DoneInv
    <2>2. \A m \in Finished' : m \in DOMAIN prepared
      BY <1>1, <1>2, <1>9 DEF TransitInv, DoneInv
    <2>3. ASSUME NEW m \in Finished', NEW n \in Unsent, Alike(m, n)
          PROVE  m < n
      <3>1. CASE m \in Finished
        BY <1>1, <2>3, <3>1 DEF TransitInv, DoneInv
      <3>2. CASE m = f.msg
        <4>1. m <= n /\ m # n
          BY <1>1, <1>2, <2>3, <3>2 DEF TransitInv, OrderInv, SentFirst
        <4>2. n \in Nat
          BY <1>1, UnsentType DEF Unsent
        <4> QED
          BY <1>2, <3>2, <4>1, <4>2
      <3> QED
        BY <1>9, <3>1, <3>2
    <2>4. ASSUME NEW m \in Finished', NEW g \in Transit', Alike(m, g.msg)
          PROVE  m < g.msg
      <3>1. CASE m \in Finished
        BY <1>1, <1>10, <2>4, <3>1 DEF TransitInv, DoneInv
      <3>2. CASE m = f.msg
        BY <1>10, <1>12, <2>4, <3>2 DEF Precedes
      <3> QED
        BY <1>9, <3>1, <3>2
    <2> QED
      BY <1>3, <1>8, <2>1, <2>2, <2>3, <2>4 DEF DoneInv, Alike
  <1>15. MessagesInv'
    <2>1. \A i \in DOMAIN incoming_messages : incoming_messages[i].oid \in Finished
      BY <1>1, FinishedType DEF TransitInv, Finished
    <2>2. \A m \in Finished : Alike(m, f.msg) => m < f.msg
      BY <1>1 DEF TransitInv, DoneInv
    <2>3. \A i \in DOMAIN incoming_messages' :
             incoming_messages'[i].oid = incoming_messages'[i].data[1].msg
      BY <1>1, <1>3, <1>6 DEF TransitInv, MessagesInv
    <2>4. ASSUME NEW i \in DOMAIN incoming_messages', NEW j \in DOMAIN incoming_messages',
                 i < j, Alike(incoming_messages'[i].oid, incoming_messages'[j].oid)
          PROVE  incoming_messages'[i].oid < incoming_messages'[j].oid
      <3>1. Len(incoming_messages) + 1 \in Nat
        BY <1>4
      <3>2. i \in DOMAIN incoming_messages /\ incoming_messages'[i] = incoming_messages[i]
        BY <1>6, <2>4, <3>1
      <3> QED
        BY <1>1, <1>3, <1>6, <2>1, <2>2, <2>4, <3>2 DEF TransitInv, MessagesInv
    <2>5. ASSUME NEW m \in Returned, NEW n \in Combined', Alike(m, n)
          PROVE  m < n
      BY <1>1, <1>7, <2>2, <2>5 DEF TransitInv, MessagesInv, Finished
    <2> QED
      BY <1>3, <1>8, <2>3, <2>4, <2>5 DEF MessagesInv, Alike
  <1>16. ~raised'
    BY <1>1, <1>3 DEF TransitInv
  <1> QED
    BY <1>13, <1>14, <1>15, <1>16

\* The first fragment that waits is the one its message needs next.
LEMMA UnpackTransit ==
    ASSUME ChannelInv, UnpackFragment
    PROVE  TransitInv'
  <1>1. OrderInv' /\ EndsInv'
    BY UnpackOrder
  <1>2. PICK f : f = Head(receive_buffer)
    OBVIOUS
  <1>3. (PartsInv /\ DoneInv /\ MessagesInv /\ ~raised)'
    BY <1>2, UnpackMiddle, UnpackLast
  <1>4. IdsInv'
    BY DEF ChannelInv, TransitInv, IdsInv, UnpackFragment, senderVars
  <1> QED
    BY <1>1, <1>3, <1>4 DEF TransitInv

\* The oldest message that is combined is returned.
LEMMA ReturnTransit ==
    ASSUME ChannelInv, ReturnEvent
    PROVE  TransitInv'
  <1> DEFINE head == Head(incoming_messages)
  <1>1. IInv /\ TransitInv
    BY DEF ChannelInv
  <1>2. /\ incoming_messages \in Seq(QueuedMessages) /\ incoming_messages # <<>>
        /\ delivered \in Seq(Seq(Chunks))
        /\ delivered' = Append(delivered, head.data)
        /\ incoming_messages' = Tail(incoming_messages)
        /\ UNCHANGED <<prepared, cuts, send_buffer, wire, receive_buffer,
                       incoming_fragments, raised>>
    BY <1>1 DEF IInv, TypeInv, TypeOK, QueuedMessages, ReturnEvent, senderVars, networkVars
  <1>3. head = incoming_messages[1] /\ 1 \in DOMAIN incoming_messages
        /\ head \in QueuedMessages
    BY <1>2
  <1>4. head.data \in Seq(Chunks)
    BY <1>3 DEF QueuedMessages
  <1> HIDE DEF head
  <1>5. \A i \in DOMAIN incoming_messages' :
           /\ i \in Nat /\ i + 1 \in DOMAIN incoming_messages /\ 1 < i + 1
           /\ incoming_messages'[i] = incoming_messages[i + 1]
    BY <1>2
  <1>6. \A i \in DOMAIN incoming_messages :
           i = 1 \/ /\ i - 1 \in DOMAIN incoming_messages'
                    /\ incoming_messages'[i - 1] = incoming_messages[i]
    BY <1>2
  <1>7. /\ \A i \in DOMAIN delivered : i \in DOMAIN delivered' /\ delivered'[i] = delivered[i]
        /\ Len(delivered) + 1 \in DOMAIN delivered'
        /\ delivered'[Len(delivered) + 1] = head.data
        /\ \A i \in DOMAIN delivered' :
              \/ i \in DOMAIN delivered /\ delivered'[i] = delivered[i]
              \/ delivered'[i] = head.data
    BY <1>2, <1>4
  <1>8. head.oid = head.data[1].msg /\ head.oid \in Combined
    BY <1>1, <1>3, FinishedType DEF TransitInv, MessagesInv
  <1>9. /\ \A m \in Returned' : m \in Returned \/ m = head.oid
        /\ \A m \in Returned : m \in Returned'
        /\ head.oid \in Returned'
    BY <1>7, <1>8 DEF Returned
  <1>10. /\ \A m \in Combined' : m \in Combined
                                /\ (Alike(head.oid, m) => head.oid < m)
         /\ \A m \in Combined : m \in Combined' \/ m = head.oid
    <2>1. ASSUME NEW m \in Combined'
          PROVE  m \in Combined /\ (Alike(head.oid, m) => head.oid < m)
      <3>1. PICK i \in DOMAIN incoming_messages' : m = incoming_messages'[i].data[1].msg
        BY DEF Combined
      <3>2. /\ i + 1 \in DOMAIN incoming_messages /\ 1 < i + 1
            /\ m = incoming_messages[i + 1].data[1].msg
            /\ m = incoming_messages[i + 1].oid
        BY <1>1, <1>5, <3>1 DEF TransitInv, MessagesInv
      <3> QED
        BY <1>1, <1>3, <3>2 DEF TransitInv, MessagesInv, Combined
    <2>2. ASSUME NEW m \in Combined
          PROVE  m \in Combined' \/ m = head.oid
      BY <1>3, <1>6, <1>8 DEF Combined
    <2> QED
      BY <2>1, <2>2
  <1>11. Finished' = Finished
    BY <1>8, <1>9, <1>10 DEF Finished
  <1>12. Transit' = Transit /\ Waiting' = Waiting /\ Flying' = Flying /\ Unsent' = Unsent
    BY <1>2 DEF Transit, Waiting, Flying, Unsent
  <1>13. OrderInv'
    <2>1. (LanesInv /\ BufferOrder /\ PayloadOrder /\ WireOrder /\ QueueOrder)'
      BY <1>1, <1>2
      DEF TransitInv, OrderInv, LanesInv, Lane, BufferOrder, PayloadOrder, WireOrder,
          QueueOrder, Precedes, Alike
    <2>2. (BufferFirst /\ SentFirst)'
      BY <1>1, <1>2, <1>12
      DEF TransitInv, OrderInv, BufferFirst, SentFirst, Precedes, Alike
    <2> QED
      BY <2>1, <2>2 DEF OrderInv
  <1>14. (EndsInv /\ PartsInv /\ DoneInv)'
    BY <1>1, <1>2, <1>11, <1>12 DEF TransitInv, EndsInv, PartsInv, DoneInv, Alike
  <1>15. MessagesInv'
    <2>1. \A i \in DOMAIN incoming_messages' :
             incoming_messages'[i].oid = incoming_messages'[i].data[1].msg
      BY <1>1, <1>5 DEF TransitInv, MessagesInv
    <2>2. ASSUME NEW i \in DOMAIN incoming_messages', NEW j \in DOMAIN incoming_messages',
                 i < j, Alike(incoming_messages'[i].oid, incoming_messages'[j].oid)
          PROVE  incoming_messages'[i].oid < incoming_messages'[j].oid
      <3>1. i + 1 < j + 1
        BY <1>5, <2>2
      <3> QED
        BY <1>1, <1>5, <2>2, <3>1 DEF TransitInv, MessagesInv
    <2>3. \A m \in Returned', n \in Combined' : Alike(m, n) => m < n
      BY <1>1, <1>9, <1>10 DEF TransitInv, MessagesInv
    <2> QED
      BY <1>2, <2>1, <2>2, <2>3 DEF MessagesInv, Alike
  <1>16. IdsInv' /\ ~raised'
    BY <1>1, <1>2 DEF TransitInv, IdsInv
  <1> QED
    BY <1>13, <1>14, <1>15, <1>16 DEF TransitInv

\* A step that changes nothing keeps the invariant.
LEMMA TransitRests ==
    ASSUME TransitInv, UNCHANGED vars
    PROVE  TransitInv'
  <1>1. UNCHANGED <<prepared, cuts, send_buffer, wire, receive_buffer, incoming_fragments,
                    incoming_messages, delivered, raised>>
    BY DEF vars, senderVars, networkVars, receiverVars
  <1>2. /\ Transit' = Transit /\ Waiting' = Waiting /\ Flying' = Flying /\ Unsent' = Unsent
        /\ Finished' = Finished /\ Combined' = Combined /\ Returned' = Returned
    BY <1>1 DEF Transit, Waiting, Flying, Unsent, Finished, Combined, Returned
  <1>3. (LanesInv /\ BufferOrder /\ PayloadOrder /\ WireOrder /\ QueueOrder)'
    BY <1>1 DEF TransitInv, OrderInv, LanesInv, Lane, BufferOrder, PayloadOrder, WireOrder,
                QueueOrder, Precedes, Alike
  <1>4. (BufferFirst /\ SentFirst)'
    BY <1>1, <1>2 DEF TransitInv, OrderInv, BufferFirst, SentFirst, Precedes, Alike
  <1>5. (EndsInv /\ PartsInv /\ DoneInv /\ MessagesInv /\ IdsInv /\ ~raised)'
    BY <1>1, <1>2
    DEF TransitInv, EndsInv, PartsInv, DoneInv, MessagesInv, IdsInv, Alike
  <1> QED
    BY <1>3, <1>4, <1>5 DEF TransitInv, OrderInv

\* Every step keeps the invariant, as long as the transport is calm.
LEMMA TransitStep ==
    ASSUME ChannelInv, [Next]_vars, Calm'
    PROVE  TransitInv'
  <1>1. /\ TypeInv /\ TransitInv /\ IInv
        /\ ~SplitStreams
        /\ \/ \E t \in Targets, s \in Streams, n \in Sizes : prepare_message(t, s, n)
           \/ Send
           \/ \E c \in Channels : receive_data(c)
           \/ NextEvent
           \/ UNCHANGED vars
    BY CalmStep DEF ChannelInv, IInv, Calm
  <1>2. CASE Send
    <2>1. PICK amount \in Amounts : data_to_send(amount)
      BY <1>2 DEF Send
    <2>2. PICK k \in 1..Len(send_buffer) : \E frags \in [1..k -> Fragments] :
              /\ Cut(k, frags) /\ Sent(k, frags) /\ SameTarget(k)
              /\ \A i \in 1..(k - 1) : frags[i].end
      BY <1>1, <2>1, SentTogether
    <2>3. PICK frags \in [1..k -> Fragments] :
              /\ Cut(k, frags) /\ Sent(k, frags) /\ SameTarget(k)
              /\ \A i \in 1..(k - 1) : frags[i].end
      BY <2>2
    <2> QED
      BY <1>1, <2>3, SendTransit
  <1> QED
    BY <1>1, <1>2, PrepareTransit, ReceiveTransit, UnpackTransit, ReturnTransit, TransitRests
    DEF NextEvent

\* Nothing is on the way at first.
LEMMA InitTransit == Init => TransitInv /\ TargetsInv
  <1> SUFFICES ASSUME Init PROVE TransitInv /\ TargetsInv
    OBVIOUS
  <1>1. /\ DOMAIN <<>> = {}
        /\ prepared = <<>> /\ send_buffer = <<>> /\ receive_buffer = <<>>
        /\ incoming_messages = <<>> /\ delivered = <<>> /\ ~raised
        /\ \A c \in Channels : wire[c] = <<>>
    BY DEF Init
  <1>2. Waiting = {} /\ Flying = {} /\ Transit = {}
    BY <1>1, TransitPlaces DEF Transit
  <1>3. Unsent = {} /\ Combined = {} /\ Returned = {} /\ Finished = {}
    BY <1>1 DEF Unsent, Combined, Returned, Finished
  <1>4. OrderInv
    BY <1>1, <1>2, <1>3
    DEF OrderInv, LanesInv, BufferOrder, PayloadOrder, WireOrder, BufferFirst, QueueOrder,
        SentFirst
  <1>5. EndsInv /\ PartsInv /\ DoneInv /\ MessagesInv /\ IdsInv
    BY <1>1, <1>2, <1>3 DEF EndsInv, PartsInv, DoneInv, MessagesInv, IdsInv
  <1>6. TargetsInv
    BY <1>1 DEF TargetsInv
  <1> QED
    BY <1>1, <1>4, <1>5, <1>6 DEF TransitInv

\* What holds of every state: the invariants of PSRPFragmentsProofs, and those of
\* the order for as long as the transport is a faultless one.
CalmInv == /\ TypeInv /\ TargetsInv /\ UntilReconnect
           /\ Calm => TransitInv

\* The invariant of the channel, for a whole behaviour.
LEMMA CalmInvariant == Spec => []CalmInv
  <1>1. Init => CalmInv
    BY InitType, InitInv, InitTransit DEF CalmInv, UntilReconnect
  <1>2. CalmInv /\ [Next]_vars => CalmInv'
    <2> SUFFICES ASSUME CalmInv, [Next]_vars PROVE CalmInv'
      OBVIOUS
    <2>1. TypeInv' /\ TargetsInv'
      BY NextType, TargetsStep DEF CalmInv
    <2>2. UntilReconnect'
      BY UntilStep DEF CalmInv
    <2>3. ASSUME Calm' PROVE TransitInv'
      <3>1. Calm
        BY <2>3, CalmStep DEF CalmInv
      <3>2. ChannelInv
        BY <3>1 DEF CalmInv, ChannelInv, UntilReconnect, Calm
      <3> QED
        BY <2>3, <3>2, TransitStep
    <2> QED
      BY <2>1, <2>2, <2>3 DEF CalmInv
  <1> QED
    BY <1>1, <1>2, PTL DEF Spec

\* NothingRefused: while the transport keeps the order of each target's payloads,
\* loses and repeats none and is not replaced, next_event() never raises
\* "Expecting fragment with a fragment id of ...", whatever the two pools queue
\* and cut, and whatever the payloads of another target overtake.
THEOREM NothingRefused == Spec => [](Calm => NoFragmentError)
  <1>1. CalmInv => (Calm => NoFragmentError)
    BY DEF CalmInv, TransitInv, NoFragmentError
  <1> QED
    BY <1>1, CalmInvariant, PTL
-----------------------------------------------------------------------------
(* The messages of one target.  ForTarget() of a list goes through the list: *)
(* what it is after n messages does not depend on those that follow.         *)

UpTo(F, n, s, p, t) ==
    F = [i \in 0..n |-> IF i = 0 THEN <<>>
                        ELSE IF p[s[i]].target = t THEN Append(F[i - 1], s[i])
                        ELSE F[i - 1]]

Filter(s, p, t) == (CHOOSE F : UpTo(F, Len(s), s, p, t))[Len(s)]

\* There is such a function for every n: otherwise there is a least n without.
LEMMA UpToExists ==
    ASSUME NEW s, NEW p, NEW t, NEW n \in Nat
    PROVE  \E F : UpTo(F, n, s, p, t)
  <1> DEFINE T == {i \in Nat : ~ \E F : UpTo(F, i, s, p, t)}
  <1>1. SUFFICES ASSUME T # {} PROVE FALSE
    OBVIOUS
  <1>2. PICK i \in T : \A j \in T : i <= j
    <2>1. T \in SUBSET Nat
      OBVIOUS
    <2> HIDE DEF T
    <2> QED
      BY <1>1, <2>1, Least
  <1>3. i # 0
    <2> DEFINE G == [j \in 0..0 |-> <<>>]
    <2>1. UpTo(G, 0, s, p, t)
      BY DEF UpTo
    <2> QED
      BY <2>1
  <1>4. i \in Nat /\ i - 1 \in Nat /\ i - 1 \notin T
    BY <1>2, <1>3
  <1>5. PICK G : UpTo(G, i - 1, s, p, t)
    BY <1>4
  <1> DEFINE last == IF p[s[i]].target = t THEN Append(G[i - 1], s[i]) ELSE G[i - 1]
             H    == [j \in 0..i |-> IF j < i THEN G[j] ELSE last]
  <1>6. UpTo(H, i, s, p, t)
    <2> HIDE DEF last
    <2>1. \A j \in 0..(i - 1) :
             G[j] = IF j = 0 THEN <<>>
                    ELSE IF p[s[j]].target = t THEN Append(G[j - 1], s[j]) ELSE G[j - 1]
      <3> HIDE DEF T
      <3> QED
        BY <1>4, <1>5 DEF UpTo
    <2>2. ASSUME NEW j \in 0..i
          PROVE  H[j] = IF j = 0 THEN <<>>
                        ELSE IF p[s[j]].target = t THEN Append(H[j - 1], s[j]) ELSE H[j - 1]
      <3> HIDE DEF T
      <3>1. CASE j < i
        <4>1. j \in 0..(i - 1) /\ H[j] = G[j] /\ (j # 0 => H[j - 1] = G[j - 1])
          BY <1>4, <3>1
        <4> HIDE DEF H
        <4> QED
          BY <2>1, <4>1
      <3>2. CASE j = i
        <4>1. H[j] = last /\ H[j - 1] = G[j - 1] /\ j # 0
          BY <1>3, <1>4, <3>2
        <4> HIDE DEF H
        <4> QED
          BY <3>2, <4>1 DEF last
      <3> QED
        BY <1>4, <3>1, <3>2
    <2>3. H = [j \in 0..i |-> H[j]]
      OBVIOUS
    <2> HIDE DEF H, T
    <2> QED
      BY <2>2, <2>3 DEF UpTo
  <1> QED
    BY <1>2, <1>6

\* Two of them agree as far as their lists do.
LEMMA UpToAgree ==
    ASSUME NEW s, NEW p, NEW r, NEW q, NEW t, NEW n \in Nat, NEW k \in Nat, n <= k,
           NEW F, NEW G, UpTo(F, n, s, p, t), UpTo(G, k, r, q, t),
           \A i \in 1..n : s[i] = r[i] /\ p[s[i]].target = q[s[i]].target
    PROVE  F[n] = G[n]
  <1> DEFINE T == {i \in Nat : i <= n /\ F[i] # G[i]}
  <1>1. SUFFICES ASSUME T # {} PROVE FALSE
    OBVIOUS
  <1>2. PICK i \in T : \A j \in T : i <= j
    <2>1. T \in SUBSET Nat
      OBVIOUS
    <2> HIDE DEF T
    <2> QED
      BY <1>1, <2>1, Least
  <1>3. i \in Nat /\ i <= n /\ F[i] # G[i] /\ i \in 0..n /\ i \in 0..k
    BY <1>2
  <1>4. i # 0 => F[i - 1] = G[i - 1]
    <2>1. ASSUME i # 0 PROVE i - 1 \notin T /\ i - 1 \in Nat /\ i - 1 <= n
      BY <1>2, <1>3, <2>1
    <2> QED
      BY <2>1
  <1> HIDE DEF T
  <1>5. F[i] = IF i = 0 THEN <<>>
               ELSE IF p[s[i]].target = t THEN Append(F[i - 1], s[i]) ELSE F[i - 1]
    BY <1>3 DEF UpTo
  <1>6. G[i] = IF i = 0 THEN <<>>
               ELSE IF q[r[i]].target = t THEN Append(G[i - 1], r[i]) ELSE G[i - 1]
    BY <1>3 DEF UpTo
  <1>7. i # 0 => s[i] = r[i] /\ p[s[i]].target = q[s[i]].target
    BY <1>3
  <1> QED
    BY <1>3, <1>4, <1>5, <1>6, <1>7

\* Filter is the value of one of them.
LEMMA FilterRound ==
    ASSUME NEW s, NEW p, NEW t, Len(s) \in Nat
    PROVE  \E F : UpTo(F, Len(s), s, p, t) /\ Filter(s, p, t) = F[Len(s)]
  <1>1. \E F : UpTo(F, Len(s), s, p, t)
    BY UpToExists
  <1> QED
    BY <1>1 DEF Filter

\* Nothing is chosen from an empty list.
LEMMA FilterEmpty ==
    ASSUME NEW p, NEW t
    PROVE  Filter(<<>>, p, t) = <<>>
  <1>1. Len(<<>>) = 0 /\ 0 \in 0..0
    OBVIOUS
  <1>2. PICK F : UpTo(F, Len(<<>>), <<>>, p, t) /\ Filter(<<>>, p, t) = F[Len(<<>>)]
    BY <1>1, FilterRound
  <1> QED
    BY <1>1, <1>2 DEF UpTo

\* A message is for the target it was queued for, whatever is queued later.
LEMMA FilterStable ==
    ASSUME NEW s, NEW p, NEW q, NEW t, Len(s) \in Nat,
           \A i \in 1..Len(s) : p[s[i]].target = q[s[i]].target
    PROVE  Filter(s, q, t) = Filter(s, p, t)
  <1>1. PICK F : UpTo(F, Len(s), s, p, t) /\ Filter(s, p, t) = F[Len(s)]
    BY FilterRound
  <1>2. PICK G : UpTo(G, Len(s), s, q, t) /\ Filter(s, q, t) = G[Len(s)]
    BY FilterRound
  <1> QED
    BY <1>1, <1>2, UpToAgree

\* One more message makes the list of its target one longer, and no other.
LEMMA FilterAppend ==
    ASSUME NEW s \in Seq(Nat), NEW e \in Nat, NEW p, NEW q, NEW t,
           \A i \in 1..Len(s) : p[s[i]].target = q[s[i]].target
    PROVE  Filter(Append(s, e), q, t) =
             IF q[e].target = t THEN Append(Filter(s, p, t), e) ELSE Filter(s, p, t)
  <1> DEFINE n == Len(s)
             r == Append(s, e)
  <1>1. n \in Nat /\ Len(r) = n + 1 /\ r[n + 1] = e /\ \A i \in 1..n : r[i] = s[i]
    OBVIOUS
  <1>2. PICK F : UpTo(F, n, s, p, t) /\ Filter(s, p, t) = F[n]
    BY <1>1, FilterRound
  <1> HIDE DEF r, n
  <1>3. PICK G : UpTo(G, Len(r), r, q, t) /\ Filter(r, q, t) = G[Len(r)]
    BY <1>1, FilterRound
  <1>4. G[n] = F[n]
    <2>1. n + 1 \in Nat /\ n <= n + 1 /\ UpTo(G, n + 1, r, q, t)
      BY <1>1, <1>3
    <2>2. \A i \in 1..n : s[i] = r[i] /\ p[s[i]].target = q[s[i]].target
      BY <1>1 DEF n
    <2> QED
      BY <1>1, <1>2, <2>1, <2>2, UpToAgree
  <1>5. G[n + 1] = IF q[r[n + 1]].target = t THEN Append(G[n], r[n + 1]) ELSE G[n]
    <2>1. n + 1 \in 0..(n + 1) /\ n + 1 # 0 /\ (n + 1) - 1 = n
      BY <1>1
    <2>2. G = [i \in 0..(n + 1) |->
                 IF i = 0 THEN <<>>
                 ELSE IF q[r[i]].target = t THEN Append(G[i - 1], r[i]) ELSE G[i - 1]]
      BY <1>1, <1>3 DEF UpTo
    <2>3. G[n + 1] = IF n + 1 = 0 THEN <<>>
                     ELSE IF q[r[n + 1]].target = t
                       THEN Append(G[(n + 1) - 1], r[n + 1]) ELSE G[(n + 1) - 1]
      BY <2>1, <2>2
    <2> QED
      BY <2>1, <2>3
  <1> QED
    BY <1>1, <1>2, <1>3, <1>4, <1>5 DEF r

\* The lists of the refinement mapping are chosen with Filter.
LEMMA SentIsFilter ==
    ASSUME NEW t
    PROVE  /\ SentTo(t) = Filter(AllSent, prepared, t)
           /\ SentTo(t)' = Filter(AllSent', prepared', t)
           /\ ReceivedBy(t) = Filter(AllReceived, prepared, t)
           /\ ReceivedBy(t)' = Filter(AllReceived', prepared', t)
  BY DEF SentTo, ReceivedBy, ForTarget, Filter, UpTo
-----------------------------------------------------------------------------
(* The refinement.  sent lists the messages of a target in the order of their *)
(* numbers, and received is as much of it as was returned.                    *)

Lists(sent, received, p, returned, t) ==
    /\ sent \in Seq(Nat) /\ received \in Seq(Nat) /\ Len(received) <= Len(sent)
    /\ \A i, j \in DOMAIN sent : i < j => sent[i] < sent[j]
    /\ \A i \in DOMAIN sent : sent[i] \in DOMAIN p /\ p[sent[i]].target = t
    /\ \A m \in DOMAIN p : p[m].target = t => \E i \in DOMAIN sent : sent[i] = m
    /\ \A i \in DOMAIN received : received[i] = sent[i] /\ received[i] \in returned
    /\ \A m \in returned : p[m].target = t => \E i \in DOMAIN received : received[i] = m

\* Which holds for every target.
ListingInv ==
    \A t \in Targets : Lists(SentTo(t), ReceivedBy(t), prepared, Returned, t)

\* A message that is sent is the last of its target.
LEMMA ListsSend ==
    ASSUME NEW S, NEW R, NEW D, NEW t, NEW p \in Seq(Messages), NEW text \in Messages,
           Lists(S, R, p, D, t), D \subseteq DOMAIN p
    PROVE  Lists(IF text.target = t THEN Append(S, Len(p) + 1) ELSE S, R, Append(p, text), D, t)
  <1> DEFINE q   == Append(p, text)
             new == Len(p) + 1
             len == Len(S)
  <1>1. /\ new \in Nat /\ q[new] = text
        /\ \A m \in DOMAIN p : m \in DOMAIN q /\ q[m] = p[m] /\ m < new /\ m \in Nat
        /\ \A m \in DOMAIN q : m \in DOMAIN p \/ m = new
        /\ new \in DOMAIN q
    OBVIOUS
  <1>2. /\ S \in Seq(Nat) /\ R \in Seq(Nat) /\ Len(R) <= Len(S) /\ Len(S) \in Nat
        /\ \A i, j \in DOMAIN S : i < j => S[i] < S[j]
        /\ \A i \in DOMAIN S : S[i] \in DOMAIN p /\ p[S[i]].target = t
        /\ \A m \in DOMAIN p : p[m].target = t => \E i \in DOMAIN S : S[i] = m
        /\ \A i \in DOMAIN R : R[i] = S[i] /\ R[i] \in D
        /\ \A m \in D : p[m].target = t => \E i \in DOMAIN R : R[i] = m
    BY DEF Lists
  <1>3. /\ DOMAIN S = 1..len /\ len \in Nat /\ DOMAIN R = 1..Len(R) /\ Len(R) \in Nat
        /\ Len(R) <= len
    BY <1>2
  <1>4. \A m \in D : q[m].target = t => \E i \in DOMAIN R : R[i] = m
    BY <1>1, <1>2
  <1> HIDE DEF q, new
  <1>5. CASE text.target # t
    <2>1. \A m \in DOMAIN q : q[m].target = t => \E i \in DOMAIN S : S[i] = m
      BY <1>1, <1>2, <1>5
    <2>2. Lists(S, R, q, D, t)
      BY <1>1, <1>2, <1>4, <2>1 DEF Lists
    <2> QED
      BY <1>5, <2>2 DEF q
  <1>6. CASE text.target = t
    <2> DEFINE Z == Append(S, new)
    <2>1. /\ Z \in Seq(Nat) /\ Len(Z) = len + 1 /\ DOMAIN Z = 1..(len + 1) /\ Z[len + 1] = new
          /\ \A i \in 1..len : Z[i] = S[i]
      BY <1>1, <1>2
    <2> HIDE DEF Z, len
    <2>2. ASSUME NEW i \in 1..(len + 1), NEW j \in 1..(len + 1), i < j
          PROVE  Z[i] < Z[j]
      <3>1. i \in 1..len
        BY <1>3, <2>2
      <3>2. CASE j = len + 1
        <4>1. S[i] \in DOMAIN p
          BY <1>2, <1>3, <3>1
        <4> QED
          BY <1>1, <2>1, <3>1, <3>2, <4>1
      <3>3. CASE j # len + 1
        <4>1. j \in 1..len
          BY <1>3, <3>3
        <4> QED
          BY <1>2, <1>3, <2>1, <2>2, <3>1, <4>1
      <3> QED
        BY <3>2, <3>3
    <2>3. \A i \in 1..(len + 1) : i \in 1..len \/ i = len + 1
      BY <1>3
    <2>4. \A i \in 1..(len + 1) : Z[i] \in DOMAIN q /\ q[Z[i]].target = t
      <3>1. ASSUME NEW i \in 1..len
            PROVE  Z[i] \in DOMAIN q /\ q[Z[i]].target = t
        <4>1. i \in DOMAIN S /\ Z[i] = S[i]
          BY <1>3, <2>1
        <4> QED
          BY <1>1, <1>2, <4>1
      <3> QED
        BY <1>1, <1>6, <2>1, <2>3, <3>1
    <2>5. \A m \in DOMAIN q : q[m].target = t => \E i \in 1..(len + 1) : Z[i] = m
      <3>1. len + 1 \in 1..(len + 1) /\ \A i \in 1..len : i \in 1..(len + 1)
        BY <1>3
      <3> QED
        BY <1>1, <1>2, <1>3, <2>1, <3>1
    <2>6. \A i \in DOMAIN R : R[i] = Z[i] /\ R[i] \in D
      BY <1>2, <1>3, <2>1
    <2>7. Len(R) <= Len(Z)
      BY <1>3, <2>1
    <2>8. Lists(Z, R, q, D, t)
      BY <1>2, <1>4, <2>1, <2>2, <2>4, <2>5, <2>6, <2>7 DEF Lists
    <2> QED
      BY <1>6, <2>8 DEF q, Z, new
  <1> QED
    BY <1>5, <1>6

\* A message that is returned is the next one of its target.
LEMMA ListsReturn ==
    ASSUME NEW S, NEW R, NEW D, NEW t, NEW p, NEW m \in Nat, Lists(S, R, p, D, t),
           p[m].target = t => Len(R) < Len(S) /\ S[Len(R) + 1] = m
    PROVE  /\ p[m].target = t => Lists(S, Append(R, m), p, D \union {m}, t)
           /\ p[m].target # t => Lists(S, R, p, D \union {m}, t)
  <1>1. /\ S \in Seq(Nat) /\ R \in Seq(Nat) /\ Len(R) <= Len(S) /\ Len(S) \in Nat
        /\ Len(R) \in Nat
        /\ \A i, j \in DOMAIN S : i < j => S[i] < S[j]
        /\ \A i \in DOMAIN S : S[i] \in DOMAIN p /\ p[S[i]].target = t
        /\ \A n \in DOMAIN p : p[n].target = t => \E i \in DOMAIN S : S[i] = n
        /\ \A i \in DOMAIN R : R[i] = S[i] /\ R[i] \in D
        /\ \A n \in D : p[n].target = t => \E i \in DOMAIN R : R[i] = n
    BY DEF Lists
  <1>2. CASE p[m].target # t
    <2>1. Lists(S, R, p, D \union {m}, t)
      BY <1>1, <1>2 DEF Lists
    <2> QED
      BY <1>2, <2>1
  <1>3. CASE p[m].target = t
    <2> DEFINE Z   == Append(R, m)
               len == Len(R)
    <2>1. /\ Z \in Seq(Nat) /\ Len(Z) = len + 1 /\ DOMAIN Z = 1..(len + 1) /\ Z[len + 1] = m
          /\ \A i \in 1..len : Z[i] = R[i]
          /\ DOMAIN R = 1..len /\ len \in Nat
      BY <1>1
    <2>2. Len(Z) <= Len(S) /\ S[len + 1] = m
      BY <1>1, <1>3, <2>1
    <2> HIDE DEF Z, len
    <2>3. \A i \in 1..(len + 1) : i \in 1..len \/ i = len + 1
      BY <2>1
    <2>4. \A i \in DOMAIN Z : Z[i] = S[i] /\ Z[i] \in D \union {m}
      BY <1>1, <2>1, <2>2, <2>3
    <2>5. \A n \in D \union {m} : p[n].target = t => \E i \in DOMAIN Z : Z[i] = n
      <3>1. len + 1 \in 1..(len + 1) /\ \A i \in 1..len : i \in 1..(len + 1)
        BY <2>1
      <3> QED
        BY <1>1, <2>1, <3>1
    <2>6. Lists(S, Z, p, D \union {m}, t)
      BY <1>1, <2>1, <2>2, <2>4, <2>5 DEF Lists
    <2> QED
      BY <1>3, <2>6 DEF Z
  <1> QED
    BY <1>2, <1>3

\* Two lists with the same elements are the same.
LEMMA SameLists ==
    ASSUME NEW s \in Seq(Nat), NEW r \in Seq(Nat), Len(s) = Len(r),
           \A i \in 1..Len(s) : s[i] = r[i]
    PROVE  s = r
  OBVIOUS

\* The histories as lists of message numbers.
LEMMA HistoryType ==
    ASSUME IInv
    PROVE  /\ AllSent \in Seq(Nat) /\ Len(AllSent) = Len(prepared)
           /\ \A i \in 1..Len(AllSent) : AllSent[i] \in DOMAIN prepared
           /\ AllReceived \in Seq(Nat) /\ Len(AllReceived) = Len(delivered)
           /\ \A i \in 1..Len(AllReceived) : AllReceived[i] \in DOMAIN prepared
  <1>1. prepared \in Seq(Messages) /\ delivered \in Seq(Seq(Chunks))
    BY DEF IInv, TypeInv, TypeOK
  <1>2. /\ DOMAIN prepared = 1..Len(prepared) /\ Len(prepared) \in Nat
        /\ DOMAIN delivered = 1..Len(delivered) /\ Len(delivered) \in Nat
    BY <1>1
  <1>3. \A i \in DOMAIN delivered : delivered[i][1].msg \in DOMAIN prepared
    BY DEF IInv, Integrity, IsWhole
  <1>4. /\ AllSent = [i \in 1..Len(prepared) |-> i]
        /\ AllReceived = [i \in 1..Len(delivered) |-> delivered[i][1].msg]
    BY <1>2 DEF AllSent, AllReceived
  <1>5. AllSent \in Seq(Nat) /\ Len(AllSent) = Len(prepared)
    BY <1>2, <1>4
  <1>6. AllReceived \in Seq(Nat) /\ Len(AllReceived) = Len(delivered)
    <2>1. \A i \in 1..Len(delivered) : delivered[i][1].msg \in Nat
      BY <1>2, <1>3
    <2> QED
      BY <1>2, <1>4, <2>1
  <1> QED
    BY <1>2, <1>3, <1>4, <1>5, <1>6

\* A message that is queued is the last of its target's list.
LEMMA PrepareSent ==
    ASSUME ChannelInv, NEW t \in Targets, NEW s \in Streams, NEW n \in Sizes,
           prepare_message(t, s, n), NEW u \in Targets
    PROVE  /\ SentTo(u)' = IF t = u THEN Append(SentTo(u), Len(prepared) + 1) ELSE SentTo(u)
           /\ ReceivedBy(u)' = ReceivedBy(u)
  <1> DEFINE text == [target |-> t, stream |-> s, size |-> n]
             new  == Len(prepared) + 1
  <1>1. /\ prepared \in Seq(Messages) /\ text \in Messages /\ text.target = t
        /\ prepared' = Append(prepared, text) /\ delivered' = delivered
        /\ Len(prepared) \in Nat
    BY DEF ChannelInv, IInv, TypeInv, TypeOK, Messages, prepare_message, receiverVars
  <1>2. /\ AllSent \in Seq(Nat) /\ Len(AllSent) = Len(prepared)
        /\ \A i \in 1..Len(AllSent) : AllSent[i] \in DOMAIN prepared
        /\ AllReceived \in Seq(Nat) /\ Len(AllReceived) \in Nat
        /\ \A i \in 1..Len(AllReceived) : AllReceived[i] \in DOMAIN prepared
    BY HistoryType DEF ChannelInv
  <1> HIDE DEF text
  <1>3. AllSent' = Append(AllSent, new)
    <2>1. DOMAIN prepared' = 1..(Len(prepared) + 1) /\ DOMAIN prepared = 1..Len(prepared)
      BY <1>1
    <2>2. AllSent' = [i \in 1..(Len(prepared) + 1) |-> i]
      BY <2>1 DEF AllSent
    <2>3. \A i \in 1..Len(prepared) : AllSent[i] = i
      BY <2>1 DEF AllSent
    <2>4. AllSent' \in Seq(Nat) /\ Append(AllSent, new) \in Seq(Nat)
      BY <1>1, <1>2, <2>2
    <2>5. Len(AllSent') = new /\ Len(Append(AllSent, new)) = new
      BY <1>1, <1>2, <2>2
    <2>6. ASSUME NEW i \in 1..new PROVE AllSent'[i] = Append(AllSent, new)[i]
      <3>1. AllSent'[i] = i
        BY <2>2
      <3>2. Append(AllSent, new)[i] = i
        <4>1. CASE i = new
          BY <1>1, <1>2, <4>1
        <4>2. CASE i # new
          <5>1. i \in 1..Len(AllSent)
            BY <1>1, <1>2, <4>2
          <5>2. Append(AllSent, new)[i] = AllSent[i]
            BY <1>1, <1>2, <5>1
          <5> QED
            BY <1>2, <2>3, <5>1, <5>2
        <4> QED
          BY <4>1, <4>2
      <3> QED
        BY <3>1, <3>2
    <2> QED
      BY <2>4, <2>5, <2>6, SameLists
  <1>4. /\ new \in Nat /\ prepared'[new] = text
        /\ \A m \in DOMAIN prepared : prepared[m].target = prepared'[m].target
    BY <1>1
  <1> HIDE DEF new
  <1>5. Filter(AllSent', prepared', u)
          = IF prepared'[new].target = u THEN Append(Filter(AllSent, prepared, u), new)
            ELSE Filter(AllSent, prepared, u)
    <2>1. \A i \in 1..Len(AllSent) :
             prepared[AllSent[i]].target = prepared'[AllSent[i]].target
      BY <1>2, <1>4
    <2>2. PICK q : q = prepared'
      OBVIOUS
    <2>3. Filter(Append(AllSent, new), q, u)
            = IF q[new].target = u THEN Append(Filter(AllSent, prepared, u), new)
              ELSE Filter(AllSent, prepared, u)
      BY <1>2, <1>4, <2>1, <2>2, FilterAppend
    <2> QED
      BY <1>3, <2>2, <2>3
  <1>6. SentTo(u)' = IF t = u THEN Append(SentTo(u), new) ELSE SentTo(u)
    BY <1>1, <1>4, <1>5, SentIsFilter
  <1>7. AllReceived' = AllReceived
    BY <1>1 DEF AllReceived
  <1>8. Filter(AllReceived, prepared', u) = Filter(AllReceived, prepared, u)
    BY <1>2, <1>4, FilterStable
  <1> QED
    BY <1>6, <1>7, <1>8, SentIsFilter DEF new

\* The message that is returned is the next one of its target's list.
LEMMA NextReturned ==
    ASSUME ChannelInv, ListingInv, ReturnEvent,
           NEW m, m = Head(incoming_messages).data[1].msg,
           NEW t, t = prepared[m].target
    PROVE  /\ m \in DOMAIN prepared /\ m \in Nat /\ t \in Targets
           /\ Len(ReceivedBy(t)) < Len(SentTo(t))
           /\ SentTo(t)[Len(ReceivedBy(t)) + 1] = m
  <1>1. IInv /\ TransitInv
    BY DEF ChannelInv
  <1>2. /\ incoming_messages \in Seq(QueuedMessages) /\ incoming_messages # <<>>
        /\ prepared \in Seq(Messages)
    BY <1>1 DEF IInv, TypeInv, TypeOK, QueuedMessages, ReturnEvent
  <1>3. /\ 1 \in DOMAIN incoming_messages /\ Head(incoming_messages) = incoming_messages[1]
        /\ \A i \in DOMAIN incoming_messages : i \in Nat /\ i >= 1
    BY <1>2
  <1>4. m \in Combined /\ m = incoming_messages[1].oid
    BY <1>1, <1>3 DEF Combined, TransitInv, MessagesInv
  <1>5. m \in Finished /\ m \in DOMAIN prepared
    BY <1>1, <1>4 DEF Finished, TransitInv, DoneInv
  <1>6. m \in Nat /\ prepared[m] \in Messages
    BY <1>2, <1>5
  <1>7. t \in Targets
    BY <1>6 DEF Messages
  <1>8. PICK S, R : S = SentTo(t) /\ R = ReceivedBy(t)
    OBVIOUS
  <1>9. /\ S \in Seq(Nat) /\ R \in Seq(Nat) /\ Len(R) <= Len(S)
        /\ \A i, j \in DOMAIN S : i < j => S[i] < S[j]
        /\ \A i \in DOMAIN S : S[i] \in DOMAIN prepared /\ prepared[S[i]].target = t
        /\ \A n \in DOMAIN prepared : prepared[n].target = t => \E i \in DOMAIN S : S[i] = n
        /\ \A i \in DOMAIN R : R[i] = S[i] /\ R[i] \in Returned
        /\ \A n \in Returned : prepared[n].target = t => \E i \in DOMAIN R : R[i] = n
    <2>1. Lists(S, R, prepared, Returned, t)
      BY <1>7, <1>8 DEF ListingInv
    <2> QED
      BY <2>1 DEF Lists
  <1>10. /\ Len(R) \in Nat /\ Len(S) \in Nat
         /\ DOMAIN S = 1..Len(S) /\ DOMAIN R = 1..Len(R)
    BY <1>9
  <1>11. PICK j \in DOMAIN S : S[j] = m
    BY <1>5, <1>9
  <1>12. m \notin Returned
    BY <1>1, <1>4, <1>6 DEF TransitInv, MessagesInv, Alike
  <1>13. j \notin DOMAIN R
    BY <1>9, <1>11, <1>12
  <1>14. Len(R) + 1 \in DOMAIN S /\ Len(R) + 1 <= j
    BY <1>10, <1>13
  <1>15. ASSUME Len(R) + 1 # j PROVE FALSE
    <2>1. PICK n : n = S[Len(R) + 1]
      OBVIOUS
    <2>2. n \in DOMAIN prepared /\ prepared[n].target = t /\ n < m /\ n \in Nat
      <3>1. Len(R) + 1 < j
        BY <1>10, <1>14, <1>15
      <3>2. n \in DOMAIN prepared /\ prepared[n].target = t /\ n < m
        BY <1>9, <1>11, <1>14, <2>1, <3>1
      <3> QED
        BY <1>2, <3>2
    <2>3. Alike(m, n) /\ Alike(n, m)
      BY <2>2 DEF Alike
    <2>4. n \notin Unsent /\ \A f \in Transit : f.msg # n
      BY <1>1, <1>5, <1>6, <2>2, <2>3 DEF TransitInv, DoneInv
    <2>5. n \in Finished
      BY <1>1, <2>2, <2>4 DEF TransitInv, DoneInv
    <2>6. n \notin Returned
      <3>1. ASSUME n \in Returned PROVE FALSE
        <4>1. PICK i \in DOMAIN R : R[i] = n
          BY <1>9, <2>2, <3>1
        <4>2. S[i] = n /\ i < Len(R) + 1 /\ i \in DOMAIN S
          BY <1>9, <1>10, <4>1
        <4> QED
          BY <1>9, <1>14, <2>1, <2>2, <4>2
      <3> QED
        BY <3>1
    <2>7. n \notin Combined
      <3>1. ASSUME n \in Combined PROVE FALSE
        <4>1. PICK i \in DOMAIN incoming_messages : n = incoming_messages[i].oid
          BY <1>1, <3>1, FinishedType DEF TransitInv
        <4>2. i # 1
          BY <1>4, <1>6, <2>2, <4>1
        <4>3. 1 < i
          BY <1>3, <4>2
        <4>4. m < n
          BY <1>1, <1>3, <1>4, <2>3, <4>1, <4>3 DEF TransitInv, MessagesInv
        <4> QED
          BY <1>6, <2>2, <4>4
      <3> QED
        BY <3>1
    <2> QED
      BY <2>5, <2>6, <2>7 DEF Finished
  <1>16. Len(R) + 1 = j
    BY <1>15
  <1>17. Len(R) < Len(S)
    BY ONLY <1>10, <1>14
  <1>18. S[Len(R) + 1] = m
    BY ONLY <1>11, <1>16
  <1> QED
    BY ONLY <1>5, <1>6, <1>7, <1>8, <1>17, <1>18

\* ReturnEvent adds the message to what its target has received, and to no other.
LEMMA ReturnReceived ==
    ASSUME ChannelInv, ReturnEvent, NEW u \in Targets,
           NEW m, m = Head(incoming_messages).data[1].msg
    PROVE  /\ SentTo(u)' = SentTo(u)
           /\ ReceivedBy(u)' = IF prepared[m].target = u THEN Append(ReceivedBy(u), m)
                               ELSE ReceivedBy(u)
           /\ Returned' = Returned \union {m}
  <1> DEFINE data == Head(incoming_messages).data
  <1>1. /\ delivered \in Seq(Seq(Chunks)) /\ prepared' = prepared
        /\ delivered' = Append(delivered, data)
        /\ incoming_messages \in Seq(QueuedMessages) /\ incoming_messages # <<>>
    BY DEF ChannelInv, IInv, TypeInv, TypeOK, QueuedMessages, ReturnEvent, senderVars
  <1>2. /\ AllReceived \in Seq(Nat) /\ Len(AllReceived) = Len(delivered)
        /\ \A i \in 1..Len(AllReceived) : AllReceived[i] \in DOMAIN prepared
    BY HistoryType DEF ChannelInv
  <1>3. data \in Seq(Chunks) /\ m \in Nat
    <2>1. Head(incoming_messages) \in QueuedMessages
          /\ Head(incoming_messages) = incoming_messages[1] /\ 1 \in DOMAIN incoming_messages
      BY <1>1
    <2>2. m \in DOMAIN prepared
      BY <2>1 DEF ChannelInv, IInv, Integrity, IsWhole
    <2>3. prepared \in Seq(Messages)
      BY DEF ChannelInv, IInv, TypeInv, TypeOK
    <2> QED
      BY <2>1, <2>2, <2>3 DEF QueuedMessages
  <1>4. data[1].msg = m
    OBVIOUS
  <1> HIDE DEF data
  <1> DEFINE n == Len(delivered)
  <1>5. /\ n \in Nat /\ DOMAIN delivered = 1..n /\ DOMAIN delivered' = 1..(n + 1)
        /\ delivered'[n + 1] = data /\ \A i \in 1..n : delivered'[i] = delivered[i]
    BY <1>1, <1>3
  <1> HIDE DEF n
  <1>6. AllReceived' = Append(AllReceived, m)
    <2>1. AllReceived' = [i \in 1..(n + 1) |-> delivered'[i][1].msg]
      BY <1>5 DEF AllReceived
    <2>2. \A i \in 1..n : AllReceived[i] = delivered[i][1].msg
      BY <1>5 DEF AllReceived
    <2>3. Len(AllReceived) = n
      BY <1>2 DEF n
    <2>4. \A i \in 1..(n + 1) : i \in 1..n \/ i = n + 1
      BY <1>5
    <2>5. \A i \in 1..(n + 1) : AllReceived'[i] = IF i = n + 1 THEN m ELSE AllReceived[i]
      BY <1>4, <1>5, <2>1, <2>2, <2>4
    <2>6. \A i \in 1..n : AllReceived[i] \in Nat
      BY <1>2, <2>3
    <2>7. \A i \in 1..(n + 1) : AllReceived'[i] \in Nat
      BY <1>3, <2>4, <2>5, <2>6
    <2>8. AllReceived' \in Seq(Nat) /\ Len(AllReceived') = n + 1
      BY <1>5, <2>1, <2>7
    <2>9. /\ Append(AllReceived, m) \in Seq(Nat) /\ Len(Append(AllReceived, m)) = n + 1
          /\ \A i \in 1..(n + 1) :
               Append(AllReceived, m)[i] = IF i = n + 1 THEN m ELSE AllReceived[i]
      BY <1>2, <1>3, <1>5, <2>3
    <2> QED
      BY <2>5, <2>8, <2>9, SameLists
  <1>7. Filter(AllReceived', prepared, u)
          = IF prepared[m].target = u THEN Append(Filter(AllReceived, prepared, u), m)
            ELSE Filter(AllReceived, prepared, u)
    <2>1. PICK q : q = prepared
      OBVIOUS
    <2>2. ASSUME NEW e \in Nat, NEW s \in Seq(Nat), NEW r, s = AllReceived, r = prepared
          PROVE  Filter(Append(s, e), q, u)
                   = IF q[e].target = u THEN Append(Filter(s, r, u), e) ELSE Filter(s, r, u)
      <3>1. \A i \in 1..Len(s) : r[s[i]].target = q[s[i]].target
        BY <2>1, <2>2
      <3> QED
        BY ONLY <3>1, <2>2, FilterAppend
    <2> QED
      BY <1>2, <1>3, <1>6, <2>1, <2>2
  <1>8. AllSent' = AllSent
    BY <1>1 DEF AllSent
  <1>9. Returned' = Returned \union {m}
    <2>1. \A x : x \in Returned' <=> \E i \in 1..(n + 1) : x = delivered'[i][1].msg
      BY <1>5 DEF Returned
    <2>2. \A x : x \in Returned <=> \E i \in 1..n : x = delivered[i][1].msg
      BY <1>5 DEF Returned
    <2>3. n + 1 \in 1..(n + 1) /\ \A i \in 1..n : i \in 1..(n + 1)
      BY <1>5
    <2>4. \A i \in 1..(n + 1) : i \in 1..n \/ i = n + 1
      BY <1>5
    <2>5. \A x : x \in Returned' <=> x \in Returned \/ x = m
      BY <1>4, <1>5, <2>1, <2>2, <2>3, <2>4
    <2> QED
      BY <2>5
  <1> QED
    BY <1>1, <1>7, <1>8, <1>9, SentIsFilter

\* While nothing is queued or returned the lists do not change.
LEMMA ListsRest ==
    ASSUME UNCHANGED <<prepared, delivered>>
    PROVE  /\ \A u : SentTo(u)' = SentTo(u) /\ ReceivedBy(u)' = ReceivedBy(u)
           /\ Returned' = Returned
  <1>1. AllSent' = AllSent /\ AllReceived' = AllReceived /\ Returned' = Returned
    BY DEF AllSent, AllReceived, Returned
  <1>2. \A u : SentTo(u)' = SentTo(u) /\ ReceivedBy(u)' = ReceivedBy(u)
    BY <1>1, SentIsFilter
  <1> QED
    BY <1>1, <1>2

SentBar     == [t \in Targets |-> SentTo(t)]
\* What the mapping of ImplementsChannel gives for received.
ReceivedBar == [t \in Targets |-> ReceivedBy(t)]

\* Every step of the two pools and the transport is a step of the channel, or
\* nothing the channel tells of.
LEMMA ChannelStep ==
    ASSUME ChannelInv, ListingInv, [Next]_vars, Calm'
    PROVE  /\ ListingInv'
           /\ [Channel!Next]_<<SentBar, ReceivedBar>>
  <1>1. IInv /\ TransitInv /\ TypeInv
    BY DEF ChannelInv, IInv
  <1>2. CASE UNCHANGED <<prepared, delivered>>
    <2>1. /\ \A u : SentTo(u)' = SentTo(u) /\ ReceivedBy(u)' = ReceivedBy(u)
          /\ Returned' = Returned /\ prepared' = prepared
      BY <1>2, ListsRest
    <2>2. ListingInv'
      BY <2>1 DEF ListingInv, Lists
    <2>3. SentBar' = SentBar /\ ReceivedBar' = ReceivedBar
      BY <2>1 DEF SentBar, ReceivedBar
    <2> QED
      BY <2>2, <2>3
  <1>3. ASSUME NEW t \in Targets, NEW s \in Streams, NEW n \in Sizes,
               prepare_message(t, s, n)
        PROVE  /\ ListingInv'
               /\ Channel!Next
    <2> DEFINE text == [target |-> t, stream |-> s, size |-> n]
               new  == Len(prepared) + 1
    <2>1. \A u \in Targets :
             /\ SentTo(u)' = IF t = u THEN Append(SentTo(u), new) ELSE SentTo(u)
             /\ ReceivedBy(u)' = ReceivedBy(u)
      BY <1>3, PrepareSent
    <2>2. /\ prepared \in Seq(Messages) /\ text \in Messages /\ text.target = t
          /\ prepared' = Append(prepared, text) /\ delivered' = delivered
          /\ Len(prepared) \in Nat /\ Len(prepared) < MaxMessages /\ MaxMessages \in Nat
      BY <1>1, <1>3, FragmentsAssumption
      DEF TypeInv, TypeOK, Messages, prepare_message, receiverVars
    <2>3. Returned' = Returned /\ Returned \subseteq DOMAIN prepared
      BY <1>1, <2>2 DEF Returned, Finished, TransitInv, DoneInv
    <2>4. new \in 1..MaxMessages
      BY <2>2
    <2> HIDE DEF text
    <2>5. ListingInv'
      <3> SUFFICES ASSUME NEW u \in Targets
                   PROVE  Lists(SentTo(u)', ReceivedBy(u)', prepared', Returned', u)
        BY DEF ListingInv, Lists
      <3>1. Lists(SentTo(u), ReceivedBy(u), prepared, Returned, u)
        BY DEF ListingInv
      <3>2. PICK S, R, D : S = SentTo(u) /\ R = ReceivedBy(u) /\ D = Returned
        OBVIOUS
      <3>3. Lists(S, R, prepared, D, u) /\ D \subseteq DOMAIN prepared
        BY <2>3, <3>1, <3>2
      <3>4. Lists(IF text.target = u THEN Append(S, new) ELSE S, R,
                  Append(prepared, text), D, u)
        BY <2>2, <3>3, ListsSend
      <3>5. SentTo(u)' = (IF text.target = u THEN Append(S, new) ELSE S)
            /\ ReceivedBy(u)' = R /\ Returned' = D /\ prepared' = Append(prepared, text)
        BY <2>1, <2>2, <2>3, <3>2
      <3> QED
        BY <3>4, <3>5
    <2>6. Channel!Send(t, new)
      <3> HIDE DEF new
      <3>1. [u \in Targets |-> SentTo(u)']
              = [[u \in Targets |-> SentTo(u)] EXCEPT ![t] = Append(@, new)]
        BY <2>1
      <3>2. [u \in Targets |-> ReceivedBy(u)'] = [u \in Targets |-> ReceivedBy(u)]
        BY <2>1
      <3> QED
        BY <3>1, <3>2 DEF Channel!Send
    <2> HIDE DEF new
    <2> QED
      BY <2>4, <2>5, <2>6 DEF Channel!Next
  <1>4. CASE ReturnEvent
    <2>1. PICK m : m = Head(incoming_messages).data[1].msg
      OBVIOUS
    <2>2. PICK t : t = prepared[m].target
      OBVIOUS
    <2>3. /\ m \in DOMAIN prepared /\ m \in Nat /\ t \in Targets
          /\ Len(ReceivedBy(t)) < Len(SentTo(t))
          /\ SentTo(t)[Len(ReceivedBy(t)) + 1] = m
      BY <1>4, <2>1, <2>2, NextReturned
    <2>4. \A u \in Targets :
             /\ SentTo(u)' = SentTo(u)
             /\ ReceivedBy(u)' = IF t = u THEN Append(ReceivedBy(u), m) ELSE ReceivedBy(u)
             /\ Returned' = Returned \union {m}
      BY <1>4, <2>1, <2>2, ReturnReceived
    <2>5. prepared' = prepared
      BY <1>4 DEF ReturnEvent, senderVars
    <2>6. ListingInv'
      <3> SUFFICES ASSUME NEW u \in Targets
                   PROVE  Lists(SentTo(u)', ReceivedBy(u)', prepared', Returned', u)
        BY DEF ListingInv, Lists
      <3>1. Lists(SentTo(u), ReceivedBy(u), prepared, Returned, u)
        BY DEF ListingInv
      <3>2. PICK S, R, D, p : S = SentTo(u) /\ R = ReceivedBy(u) /\ D = Returned
                              /\ p = prepared
        OBVIOUS
      <3>3. /\ Lists(S, R, p, D, u)
            /\ p[m].target = u => Len(R) < Len(S) /\ S[Len(R) + 1] = m
        BY <2>2, <2>3, <3>1, <3>2
      <3>4. /\ p[m].target = u => Lists(S, Append(R, m), p, D \union {m}, u)
            /\ p[m].target # u => Lists(S, R, p, D \union {m}, u)
        BY ONLY <2>3, <3>3, ListsReturn
      <3>5. /\ ReceivedBy(u)' = (IF p[m].target = u THEN Append(R, m) ELSE R)
            /\ SentTo(u)' = S /\ Returned' = D \union {m} /\ prepared' = p
        BY <2>2, <2>4, <2>5, <3>2
      <3> QED
        BY <3>4, <3>5
    <2>7. Channel!Receive(t)
      <3>1. [u \in Targets |-> SentTo(u)'] = [u \in Targets |-> SentTo(u)]
        BY <2>4
      <3>2. [u \in Targets |-> ReceivedBy(u)']
              = [[u \in Targets |-> ReceivedBy(u)] EXCEPT ![t] = Append(@, m)]
        BY <2>4
      <3> QED
        BY <2>3, <3>1, <3>2 DEF Channel!Receive
    <2> QED
      BY <2>3, <2>6, <2>7 DEF Channel!Next
  <1>5. CASE UNCHANGED vars
    BY <1>2, <1>5 DEF vars, senderVars, receiverVars
  <1>6. CASE Send \/ UnpackFragment \/ \E c \in Channels : receive_data(c)
    <2>1. UNCHANGED <<prepared, delivered>>
      BY <1>6
      DEF Send, data_to_send, UnpackFragment, receive_data, senderVars, receiverVars
    <2> QED
      BY <1>2, <2>1
  <1> QED
    BY <1>1, <1>3, <1>4, <1>5, <1>6, CalmStep DEF NextEvent

\* Initially nothing is sent or received.
LEMMA ChannelInit == Init => ListingInv /\ Channel!Init
  <1> SUFFICES ASSUME Init PROVE ListingInv /\ Channel!Init
    OBVIOUS
  <1>1. /\ prepared = <<>> /\ delivered = <<>> /\ DOMAIN <<>> = {}
    BY DEF Init
  <1>2. AllSent = <<>> /\ AllReceived = <<>> /\ Returned = {}
    BY <1>1 DEF AllSent, AllReceived, Returned
  <1>3. \A t : SentTo(t) = <<>> /\ ReceivedBy(t) = <<>>
    BY <1>2, SentIsFilter, FilterEmpty
  <1>4. <<>> \in Seq(Nat) /\ Len(<<>>) = 0
    OBVIOUS
  <1>5. ListingInv
    <2>1. \A t : Lists(<<>>, <<>>, <<>>, {}, t)
      BY <1>1, <1>4 DEF Lists
    <2> QED
      BY <1>1, <1>2, <1>3, <2>1 DEF ListingInv
  <1>6. Channel!Init
    BY <1>3 DEF Channel!Init, Channel!Empty
  <1> QED
    BY <1>5, <1>6

\* ChannelImplemented: while the transport keeps the order of each target's
\* payloads and nothing is lost, repeated or reconnected, the two pools are one
\* queue for each target: what next_event() returns is what the peer gave to
\* prepare_message() for that target, in that order.
THEOREM ChannelImplemented == Spec /\ []Calm => ImplementsChannel
  <1>1. Init => ListingInv /\ Channel!Init
    BY ChannelInit
  <1>2. CalmInv /\ Calm /\ Calm' /\ ListingInv /\ [Next]_vars
          => ListingInv' /\ [Channel!Next]_<<SentBar, ReceivedBar>>
    <2> SUFFICES ASSUME CalmInv, Calm, Calm', ListingInv, [Next]_vars
                 PROVE  ListingInv' /\ [Channel!Next]_<<SentBar, ReceivedBar>>
      OBVIOUS
    <2>1. ChannelInv
      BY DEF CalmInv, ChannelInv, UntilReconnect, Calm
    <2> QED
      BY <2>1, ChannelStep
  <1>3. [Channel!Next]_<<SentBar, ReceivedBar>> => [Channel!Next]_(Channel!channelVars)
    BY DEF Channel!channelVars, SentBar, ReceivedBar
  <1> QED
    BY <1>1, <1>2, <1>3, CalmInvariant, PTL DEF Spec, ImplementsChannel, Channel!Spec
=============================================================================
