----------------------- MODULE DocumentedSessionProofs -----------------------
(***************************************************************************)
(* Proofs about the documented use of a session: what the two programs are *)
(* promised of their pipelines, of the opening of a pool and of its counts,*)
(* for any pipelines, calls, host calls and answers, whatever the order in *)
(* which the messages of the targets are processed.                        *)
(***************************************************************************)
EXTENDS SessionProofs

(* What a step does to one pipeline *)

\* Neither side's object of the pipeline changes.
SameClientPipe(p) ==
    /\ client'.pipes[p] = client.pipes[p]
    /\ p \in client'.table <=> p \in client.table
SameServerPipe(p) ==
    /\ server'.pipes[p] = server.pipes[p]
    /\ p \in server'.table <=> p \in server.table
    /\ p \in server'.metadata <=> p \in server.metadata
SamePipeQueues(p) == toServer'[p] = toServer[p] /\ toClient'[p] = toClient[p]

\* A message that is not of a type is added to a queue or taken from it.
Passes(q, r, type, S) ==
    \/ r = q
    \/ \E m \in S : m.type # type /\ r = Append(q, m)
    \/ q # <<>> /\ Head(q).type # type /\ r = Tail(q)

\* Only a running pipeline writes or calls its host.
PipeRests(p) ==
    /\ SameClientPipe(p) /\ SameServerPipe(p)
    /\ Passes(toServer[p], toServer'[p], "CreatePipeline", ToServer[p])
    /\ Passes(toClient[p], toClient'[p], "PipelineState", ToClient[p])
    /\ server.pipes[p] = "Running" \/ Len(toClient'[p]) <= Len(toClient[p])

PipeCreated(p) ==
    /\ client.pipes[p] = None /\ client'.pipes[p] = "NotStarted" /\ p \in client'.table
    /\ SameServerPipe(p) /\ SamePipeQueues(p)

PipeStarted(p) ==
    /\ client.pipes[p] = "NotStarted" /\ client'.pipes[p] = "Running"
    /\ p \in client'.table <=> p \in client.table
    /\ toServer'[p] = Append(toServer[p], Plain("CreatePipeline"))
    /\ toClient'[p] = toClient[p]
    /\ SameServerPipe(p)

PipeStopping(p) ==
    /\ client.pipes[p] \in {"Running", "Stopping"} /\ client'.pipes[p] = "Stopping"
    /\ p \in client'.table <=> p \in client.table
    /\ SameServerPipe(p) /\ SamePipeQueues(p)

PipeClosed(p) ==
    /\ client.pipes[p] \in Final /\ client'.pipes[p] = client.pipes[p]
    /\ SameServerPipe(p) /\ SamePipeQueues(p)

PipeTold(p) ==
    /\ toClient[p] # <<>> /\ Head(toClient[p]).type = "PipelineState"
    /\ client'.pipes[p] = IF p \in client.table THEN Head(toClient[p]).state
                                                ELSE client.pipes[p]
    /\ p \in client'.table <=> p \in client.table
    /\ toClient'[p] = Tail(toClient[p]) /\ toServer'[p] = toServer[p]
    /\ SameServerPipe(p)

PipeServed(p) ==
    /\ p \in client.table
    /\ server.pipes[p] = None /\ server'.pipes[p] = "NotStarted" /\ p \in server'.table
    /\ p \in server'.metadata <=> p \in server.metadata
    /\ SameClientPipe(p) /\ SamePipeQueues(p)

PipeTurns(p) ==
    \E s \in PipelineStates :
        /\ \/ server.pipes[p] = "NotStarted" /\ p \in server.metadata /\ s = "Running"
           \/ server.pipes[p] \in {"Running", "Stopping"} /\ s \in {"Stopping"} \union Final
        /\ server'.pipes[p] = s
        /\ toClient'[p] = Append(toClient[p], PipelineState(s))
        /\ p \in server'.table <=> p \in server.table
        /\ p \in server'.metadata <=> p \in server.metadata
        /\ SameClientPipe(p) /\ toServer'[p] = toServer[p]

PipeDropped(p) ==
    /\ server.pipes[p] \in Final /\ server'.pipes[p] = server.pipes[p]
    /\ p \in server'.metadata <=> p \in server.metadata
    /\ SameClientPipe(p) /\ SamePipeQueues(p)

PipeTaken(p) ==
    /\ server.pipes[p] # None
    /\ toServer[p] # <<>> /\ Head(toServer[p]).type = "CreatePipeline"
    /\ toServer'[p] = Tail(toServer[p]) /\ toClient'[p] = toClient[p]
    /\ server'.pipes[p] = server.pipes[p]
    /\ p \in server'.table <=> p \in server.table
    /\ p \in server'.metadata <=> (p \in server.metadata \/ p \in server.table)
    /\ SameClientPipe(p)

PipeSteps(p) ==
    \/ PipeRests(p)
    \/ PipeCreated(p) \/ PipeStarted(p) \/ PipeStopping(p) \/ PipeClosed(p) \/ PipeTold(p)
    \/ PipeServed(p) \/ PipeTurns(p) \/ PipeDropped(p) \/ PipeTaken(p)
-----------------------------------------------------------------------------
(* What the pipelines of a session keep *)

Ends(m) == m.type = "PipelineState" /\ m.state \in Final

\* The end of a pipeline is the last message of it, and is the state it has.
EndsLast(p) ==
    /\ \A i \in DOMAIN toClient[p] : Ends(toClient[p][i]) =>
          i = Len(toClient[p]) /\ toClient[p][i].state = server.pipes[p]
    /\ client.pipes[p] \in Final => toClient[p] = <<>> /\ server.pipes[p] \in Final

\* The two objects of a pipeline of the first client: the server's is created and
\* started after the client's, is in its table until it has ended, and knows its
\* metadata from the one message the client sends.
Paired(p) ==
    /\ server.pipes[p] = None => toClient[p] = <<>>
    /\ server.pipes[p] # None => client.pipes[p] # None
    /\ client.pipes[p] \notin Final \union {None} => p \in client.table
    /\ client.pipes[p] = None => p \notin client.table
    /\ server.pipes[p] \in Final =>
          \/ client.pipes[p] = server.pipes[p]
          \/ \E i \in DOMAIN toClient[p] : Ends(toClient[p][i])
    /\ p \notin server.metadata => server.pipes[p] \in {None, "NotStarted"}
    /\ server.pipes[p] \in {"NotStarted", "Running", "Stopping"} => p \in server.table
    /\ \A i \in DOMAIN toClient[p] :
          toClient[p][i].type = "PipelineState" => toClient[p][i].state # "NotStarted"

Creates(p) == {i \in DOMAIN toServer[p] : toServer[p][i].type = "CreatePipeline"}

CreatedOnce(p) ==
    /\ client.pipes[p] \in {None, "NotStarted"} => p \notin server.metadata /\ Creates(p) = {}
    /\ \A i, j \in Creates(p) : p \notin server.metadata /\ i = j
-----------------------------------------------------------------------------
\* The types of what a pipeline is about.
LEMMA PipeTypes ==
    ASSUME TypeOK, NEW p \in Pipelines
    PROVE  /\ p \in Targets /\ p # Pool
           /\ toServer[p] \in Seq(ToServer[p]) /\ toClient[p] \in Seq(ToClient[p])
           /\ client.pipes[p] \in PipelineStates \union {None}
           /\ server.pipes[p] \in PipelineStates \union {None}
           /\ \A m \in ToClient[p] : m.type = "PipelineState" => m.state \in PipelineStates
  <1>1. p \in Targets /\ p # Pool
    BY RunspacePoolAssumption DEF Targets
  <1>2. \A m \in ToClient[p] : m.type = "PipelineState" => m.state \in PipelineStates
    BY <1>1 DEF ToClient
  <1> QED
    BY <1>1, <1>2 DEF TypeOK, IsQueues, ClientPools, ServerPools, Pipes

LEMMA EndsLastStep ==
    ASSUME TypeOK, NEW p \in Pipelines, EndsLast(p), PipeSteps(p)
    PROVE  EndsLast(p)'
  <1> DEFINE q == toClient[p]
             r == toClient'[p]
             cp == client.pipes[p]
             sp == server.pipes[p]
             cn == client'.pipes[p]
             sn == server'.pipes[p]
  <1>1. /\ q \in Seq(ToClient[p])
        /\ cp \in PipelineStates \union {None} /\ sp \in PipelineStates \union {None}
        /\ \A m \in ToClient[p] : m.type = "PipelineState" => m.state \in PipelineStates
    BY PipeTypes
  <1>2. /\ \A i \in DOMAIN q : Ends(q[i]) => i = Len(q) /\ q[i].state = sp
        /\ cp \in Final => q = <<>> /\ sp \in Final
    BY DEF EndsLast
  <1>3. SUFFICES /\ \A i \in DOMAIN r : Ends(r[i]) => i = Len(r) /\ r[i].state = sn
                 /\ cn \in Final => r = <<>> /\ sn \in Final
    BY DEF EndsLast, Ends
  <1>4. q # <<>> => Head(q) = q[1] /\ Len(q) >= 1
    BY <1>1
  <1>5. ASSUME q # <<>>, r = Tail(q)
        PROVE  /\ \A i \in DOMAIN r : i + 1 \in DOMAIN q /\ r[i] = q[i + 1]
               /\ Len(r) + 1 = Len(q)
    BY <1>1, <1>5
  <1>6. ASSUME NEW m \in ToClient[p], r = Append(q, m)
        PROVE  /\ Len(r) = Len(q) + 1 /\ r[Len(r)] = m
               /\ \A i \in DOMAIN r : i = Len(r) \/ (i \in DOMAIN q /\ r[i] = q[i])
    BY <1>1, <1>6
  <1>7. sp \notin Final => cp \notin Final /\ \A i \in DOMAIN q : ~Ends(q[i])
    BY <1>2 DEF Ends
  <1>8. CASE PipeRests(p)
    <2>1. cn = cp /\ sn = sp
      BY <1>8 DEF PipeRests, SameClientPipe, SameServerPipe
    <2>2. CASE r = q
      BY <1>2, <2>1, <2>2
    <2>3. CASE \E m \in ToClient[p] : m.type # "PipelineState" /\ r = Append(q, m)
      <3>1. PICK m \in ToClient[p] : m.type # "PipelineState" /\ r = Append(q, m)
        BY <2>3
      <3>2. sp = "Running" \/ Len(r) <= Len(q)
        BY <1>8 DEF PipeRests
      <3>3. sp = "Running" /\ sp \notin Final
        BY <1>1, <1>6, <3>1, <3>2 DEF Final
      <3> QED
        BY <1>6, <1>7, <2>1, <3>1, <3>3 DEF Ends
    <2>4. CASE q # <<>> /\ r = Tail(q)
      <3> HIDE DEF q, r, cp, sp, cn, sn
      <3> QED
        BY <1>1, <1>2, <1>5, <2>1, <2>4
    <2> QED
      BY <1>8, <2>2, <2>3, <2>4 DEF PipeRests, Passes
  <1>9. CASE PipeCreated(p) \/ PipeStarted(p) \/ PipeStopping(p) \/ PipeClosed(p)
             \/ PipeServed(p) \/ PipeDropped(p) \/ PipeTaken(p)
    <2>1. r = q /\ (cn = cp \/ cn \notin Final) /\ (sn = sp \/ sp \notin Final)
      <3>1. CASE PipeCreated(p) \/ PipeStopping(p) \/ PipeClosed(p)
        BY <3>1 DEF PipeCreated, PipeStopping, PipeClosed, SamePipeQueues, SameServerPipe, Final
      <3>2. CASE PipeStarted(p)
        BY <3>2 DEF PipeStarted, SameServerPipe, Final
      <3>3. CASE PipeServed(p) \/ PipeDropped(p)
        BY <3>3 DEF PipeServed, PipeDropped, SamePipeQueues, SameClientPipe, None, Final
      <3>4. CASE PipeTaken(p)
        BY <3>4 DEF PipeTaken, SameClientPipe
      <3> QED
        BY <1>9, <3>1, <3>2, <3>3, <3>4
    <2> HIDE DEF q, r, cp, sp, cn, sn
    <2> QED
      BY <1>2, <1>7, <2>1
  <1>10. CASE PipeTold(p)
    <2>1. /\ q # <<>> /\ r = Tail(q) /\ sn = sp
          /\ cn = cp \/ (Head(q).type = "PipelineState" /\ cn = Head(q).state)
      BY <1>10 DEF PipeTold, SameServerPipe
    <2>2. cn \in Final => Ends(q[1])
      BY <1>2, <1>4, <2>1 DEF Ends
    <2>3. Ends(q[1]) => Len(q) = 1 /\ sp \in Final /\ q[1].state = sp
      <3>1. 1 \in DOMAIN q
        BY <1>1, <1>4, <2>1
      <3>2. Ends(q[1]) => 1 = Len(q) /\ q[1].state = sp
        BY <1>2, <3>1
      <3> QED
        BY <3>2 DEF Ends
    <2>4. Len(q) = 1 => r = <<>>
      <3>1. r \in Seq(ToClient[p]) /\ Len(r) = Len(q) - 1
        BY <1>1, <2>1, HeadTailProperties
      <3> HIDE DEF q, r
      <3> QED
        BY <1>1, <3>1, EmptySeq
    <2> HIDE DEF q, r, cp, sp, cn, sn
    <2>5. \A i \in DOMAIN r : Ends(r[i]) => i = Len(r) /\ r[i].state = sn
      BY <1>1, <1>2, <1>5, <2>1
    <2> QED
      BY <2>1, <2>2, <2>3, <2>4, <2>5
  <1>11. CASE PipeTurns(p)
    <2>1. PICK s \in PipelineStates :
            /\ sp \in {"NotStarted", "Running", "Stopping"}
            /\ sn = s /\ cn = cp /\ r = Append(q, PipelineState(s))
      BY <1>11 DEF PipeTurns, SameClientPipe
    <2>2. PipelineState(s) \in ToClient[p] /\ PipelineState(s).state = s
      BY PipeTypes DEF PipelineState, ToClient
    <2>3. sp \notin Final
      BY <2>1 DEF Final
    <2> HIDE DEF q, r, cp, sp, cn, sn
    <2> QED
      BY <1>6, <1>7, <2>1, <2>2, <2>3
  <1> QED
    BY <1>8, <1>9, <1>10, <1>11 DEF PipeSteps

\* Creating, starting and ending a pipeline keep its two objects paired.
LEMMA PairedStep ==
    ASSUME TypeOK, NEW p \in Pipelines, EndsLast(p), CreatedOnce(p), Paired(p), PipeSteps(p)
    PROVE  Paired(p)'
  <1> DEFINE q  == toClient[p]
             r  == toClient'[p]
             cp == client.pipes[p]
             sp == server.pipes[p]
             ct == p \in client.table
             st == p \in server.table
             sm == p \in server.metadata
             cn == client'.pipes[p]
             sn == server'.pipes[p]
             dt == p \in client'.table
             tn == p \in server'.table
             mn == p \in server'.metadata
  <1>1. /\ q \in Seq(ToClient[p])
        /\ cp \in PipelineStates \union {None} /\ sp \in PipelineStates \union {None}
        /\ \A m \in ToClient[p] : m.type = "PipelineState" => m.state \in PipelineStates
    BY PipeTypes
  <1>2. /\ sp = None => q = <<>>
        /\ sp # None => cp # None
        /\ cp \notin Final \union {None} => ct
        /\ cp = None => ~ct
        /\ sp \in Final => cp = sp \/ \E i \in DOMAIN q : Ends(q[i])
        /\ ~sm => sp \in {None, "NotStarted"}
        /\ sp \in {"NotStarted", "Running", "Stopping"} => st
        /\ \A i \in DOMAIN q : q[i].type = "PipelineState" => q[i].state # "NotStarted"
    BY DEF Paired
  <1>3. /\ \A i \in DOMAIN q : Ends(q[i]) => i = Len(q) /\ q[i].state = sp
        /\ cp \in Final => q = <<>> /\ sp \in Final
    BY DEF EndsLast
  <1>4. SUFFICES /\ sn = None => r = <<>>
                 /\ sn # None => cn # None
                 /\ cn \notin Final \union {None} => dt
                 /\ cn = None => ~dt
                 /\ sn \in Final => cn = sn \/ \E i \in DOMAIN r : Ends(r[i])
                 /\ ~mn => sn \in {None, "NotStarted"}
                 /\ sn \in {"NotStarted", "Running", "Stopping"} => tn
                 /\ \A i \in DOMAIN r : r[i].type = "PipelineState" => r[i].state # "NotStarted"
    BY DEF Paired, Ends
  <1>5. q # <<>> => Head(q) = q[1] /\ Len(q) >= 1 /\ 1 \in DOMAIN q
    BY <1>1
  <1>6. ASSUME q # <<>>, r = Tail(q)
        PROVE  /\ \A i \in DOMAIN r : i + 1 \in DOMAIN q /\ r[i] = q[i + 1]
               /\ \A i \in DOMAIN q : i # 1 => i - 1 \in DOMAIN r /\ r[i - 1] = q[i]
    BY <1>1, <1>6
  <1>7. ASSUME NEW m \in ToClient[p], r = Append(q, m)
        PROVE  /\ Len(r) \in DOMAIN r /\ r[Len(r)] = m
               /\ \A i \in DOMAIN r : i = Len(r) \/ (i \in DOMAIN q /\ r[i] = q[i])
               /\ \A i \in DOMAIN q : i \in DOMAIN r /\ r[i] = q[i]
               /\ Len(r) > Len(q)
    BY <1>1, <1>7
  <1>8. CASE PipeRests(p)
    <2>1. cn = cp /\ sn = sp /\ dt = ct /\ tn = st /\ mn = sm
      BY <1>8 DEF PipeRests, SameClientPipe, SameServerPipe
    <2>2. CASE r = q
      <3> HIDE DEF q, r, cp, sp, ct, st, sm, cn, sn, dt, tn, mn
      <3> QED
        BY <1>2, <2>1, <2>2
    <2>3. CASE \E m \in ToClient[p] : m.type # "PipelineState" /\ r = Append(q, m)
      <3>1. PICK m \in ToClient[p] : m.type # "PipelineState" /\ r = Append(q, m)
        BY <2>3
      <3>2. sp = "Running" \/ Len(r) <= Len(q)
        BY <1>8 DEF PipeRests
      <3>3. Len(q) \in Nat /\ Len(r) \in Nat
        BY <1>1, <3>1
      <3> HIDE DEF q, r, cp, sp, ct, st, sm, cn, sn, dt, tn, mn
      <3>4. sp = "Running"
        BY <1>7, <3>1, <3>2, <3>3
      <3> QED
        BY <1>2, <1>7, <2>1, <3>1, <3>4 DEF Final, None
    <2>4. CASE q # <<>> /\ Head(q).type # "PipelineState" /\ r = Tail(q)
      <3> HIDE DEF q, r, cp, sp, ct, st, sm, cn, sn, dt, tn, mn
      <3>1. \A i \in DOMAIN q : Ends(q[i]) => i # 1
        BY <1>5, <2>4 DEF Ends
      <3>2. \A i \in DOMAIN q : Ends(q[i]) => i - 1 \in DOMAIN r /\ Ends(r[i - 1])
        BY <1>6, <2>4, <3>1 DEF Ends
      <3> QED
        BY <1>2, <1>6, <2>1, <2>4, <3>2
    <2> QED
      BY <1>8, <2>2, <2>3, <2>4 DEF PipeRests, Passes
  <1>9. CASE PipeCreated(p) \/ PipeStarted(p) \/ PipeStopping(p) \/ PipeClosed(p)
    <2>1. /\ r = q /\ sn = sp /\ tn = st /\ mn = sm
          /\ \/ cn = cp /\ cp \in Final
             \/ cp = None /\ cn = "NotStarted" /\ dt
             \/ cp \notin {None} \union Final /\ cn \in {"Running", "Stopping"} /\ dt = ct
      <3>1. CASE PipeCreated(p) \/ PipeClosed(p)
        BY <3>1 DEF PipeCreated, PipeClosed, SamePipeQueues, SameServerPipe
      <3>2. CASE PipeStarted(p) \/ PipeStopping(p)
        BY <3>2 DEF PipeStarted, PipeStopping, SamePipeQueues, SameServerPipe, Final, None
      <3> QED
        BY <1>9, <3>1, <3>2
    <2>2. cp # None /\ cp \notin Final /\ sp \in Final => \E i \in DOMAIN q : Ends(q[i])
      BY <1>2
    <2>3. "NotStarted" # None /\ "Running" # None /\ "Stopping" # None
      BY DEF None
    <2>4. "NotStarted" \notin Final /\ "Running" \notin Final /\ "Stopping" \notin Final
      BY DEF Final
    <2>5. None \notin Final
      BY DEF None, Final
    <2> HIDE DEF q, r, cp, sp, ct, st, sm, cn, sn, dt, tn, mn
    <2> QED
      BY <1>2, <2>1, <2>2, <2>3, <2>4, <2>5
  <1>10. CASE PipeTold(p)
    <2>1. /\ q # <<>> /\ r = Tail(q) /\ sn = sp /\ tn = st /\ mn = sm /\ dt = ct
          /\ Head(q).type = "PipelineState"
          /\ cn = IF ct THEN Head(q).state ELSE cp
      BY <1>10 DEF PipeTold, SameServerPipe
    <2>2. cp \notin Final /\ cp # None /\ ct
      BY <1>2, <1>3, <2>1
    <2>3. cn = q[1].state /\ cn \in PipelineStates /\ cn # "NotStarted"
      BY <1>1, <1>2, <1>5, <2>1, <2>2
    <2>4. None \notin PipelineStates
      BY DEF None, PipelineStates
    <2>5. sp \in Final => cn = sp \/ \E i \in DOMAIN r : Ends(r[i])
      <3> SUFFICES ASSUME sp \in Final PROVE cn = sp \/ \E i \in DOMAIN r : Ends(r[i])
        OBVIOUS
      <3>1. PICK i \in DOMAIN q : Ends(q[i])
        BY <1>2, <2>2
      <3>2. CASE i = 1
        BY <1>3, <2>3, <3>1, <3>2
      <3>3. CASE i # 1
        <4> HIDE DEF q, r
        <4> QED
          BY <1>6, <2>1, <3>1, <3>3
      <3> QED
        BY <3>2, <3>3
    <2> HIDE DEF q, r, cp, sp, ct, st, sm, cn, sn, dt, tn, mn
    <2> QED
      BY <1>2, <1>6, <2>1, <2>2, <2>3, <2>4, <2>5
  <1>11. CASE PipeServed(p) \/ PipeDropped(p) \/ PipeTaken(p)
    <2>1. /\ r = q /\ cn = cp /\ dt = ct
          /\ \/ ct /\ sp = None /\ sn = "NotStarted" /\ tn /\ mn = sm
             \/ sp \in Final /\ sn = sp /\ mn = sm
             \/ sn = sp /\ tn = st /\ (sm => mn)
      <3>1. CASE PipeServed(p) \/ PipeDropped(p)
        BY <3>1 DEF PipeServed, PipeDropped, SamePipeQueues, SameClientPipe
      <3>2. CASE PipeTaken(p)
        BY <3>2 DEF PipeTaken, SameClientPipe
      <3> QED
        BY <1>11, <3>1, <3>2
    <2>2. /\ None \notin Final /\ "NotStarted" \notin Final /\ "NotStarted" # None
          /\ Final \intersect {"NotStarted", "Running", "Stopping"} = {}
      BY DEF None, Final
    <2> HIDE DEF q, r, cp, sp, ct, st, sm, cn, sn, dt, tn, mn
    <2> QED
      BY <1>2, <2>1, <2>2
  <1>12. CASE PipeTurns(p)
    <2>1. PICK s \in PipelineStates :
            /\ \/ sp = "NotStarted" /\ sm /\ s = "Running"
               \/ sp \in {"Running", "Stopping"} /\ s \in {"Stopping"} \union Final
            /\ sn = s /\ cn = cp /\ dt = ct /\ tn = st /\ mn = sm
            /\ r = Append(q, PipelineState(s))
      BY <1>12 DEF PipeTurns, SameClientPipe
    <2>2. /\ PipelineState(s) \in ToClient[p] /\ PipelineState(s).type = "PipelineState"
          /\ PipelineState(s).state = s
      BY PipeTypes DEF PipelineState, ToClient
    <2>3. /\ None \notin Final /\ "NotStarted" \notin Final
          /\ "NotStarted" # None /\ "Running" # None /\ "Stopping" # None
          /\ None \notin PipelineStates /\ "Running" # "NotStarted" /\ "Stopping" # "NotStarted"
      BY DEF None, Final, PipelineStates
    <2>4. sm /\ st
      BY <1>2, <2>1, <2>3
    <2>5. s \in Final => \E i \in DOMAIN r : Ends(r[i])
      BY <1>7, <2>1, <2>2 DEF Ends
    <2>6. \A i \in DOMAIN r : r[i].type = "PipelineState" => r[i].state # "NotStarted"
      <3> HIDE DEF q, r, cp, sp, ct, st, sm, cn, sn, dt, tn, mn
      <3> QED
        BY <1>2, <1>7, <2>1, <2>2, <2>3
    <2>7. r # <<>>
      BY <1>7, <2>1, <2>2
    <2>8. sn # None /\ sp # None /\ s # "NotStarted"
      BY <2>1, <2>3
    <2> HIDE DEF q, r, cp, sp, ct, st, sm, cn, sn, dt, tn, mn
    <2> QED
      BY <1>2, <2>1, <2>3, <2>4, <2>5, <2>6, <2>7, <2>8
  <1> QED
    BY <1>8, <1>9, <1>10, <1>11, <1>12 DEF PipeSteps

\* The pipeline is created at the server once.
LEMMA CreatedStep ==
    ASSUME TypeOK, NEW p \in Pipelines, EndsLast(p), Paired(p), CreatedOnce(p), PipeSteps(p)
    PROVE  CreatedOnce(p)'
  <1> DEFINE q  == toServer[p]
             r  == toServer'[p]
             cp == client.pipes[p]
             sm == p \in server.metadata
             cn == client'.pipes[p]
             mn == p \in server'.metadata
             C  == Creates(p)
             D  == {i \in DOMAIN r : r[i].type = "CreatePipeline"}
  <1>1. q \in Seq(ToServer[p]) /\ cp \in PipelineStates \union {None}
    BY PipeTypes
  <1>2. /\ cp \in {None, "NotStarted"} => ~sm /\ C = {}
        /\ \A i, j \in C : ~sm /\ i = j
    BY DEF CreatedOnce
  <1>3. SUFFICES /\ cn \in {None, "NotStarted"} => ~mn /\ D = {}
                 /\ \A i, j \in D : ~mn /\ i = j
    BY DEF CreatedOnce, Creates
  <1>4. CASE mn = sm /\ (cn = cp \/ cn \notin {None, "NotStarted"} \/ cp = None)
             /\ (r = q \/ \E m \in ToServer[p] : m.type # "CreatePipeline" /\ r = Append(q, m))
    <2>1. D = C
      BY <1>1, <1>4 DEF Creates
    <2> HIDE DEF q, r, cp, sm, cn, mn, C, D
    <2> QED
      BY <1>2, <1>4, <2>1
  <1>5. CASE q # <<>> /\ r = Tail(q)
             /\ \/ mn = sm /\ Head(q).type # "CreatePipeline"
                \/ Head(q).type = "CreatePipeline"
             /\ cn = cp
    <2>1. \A i \in D : i + 1 \in C
      BY <1>1, <1>5 DEF Creates
    <2>2. D \subseteq Nat
      BY <1>1, <1>5
    <2>3. CASE Head(q).type = "CreatePipeline"
      <3>1. 1 \in C
        BY <1>1, <1>5, <2>3 DEF Creates
      <3>2. D = {}
        <4> SUFFICES ASSUME NEW i \in D PROVE FALSE
          OBVIOUS
        <4>1. i + 1 \in C /\ i \in Nat /\ i >= 1
          BY <1>1, <1>5, <2>1, <2>2
        <4>2. i + 1 = 1
          BY <1>2, <3>1, <4>1
        <4> QED
          BY <4>1, <4>2
      <3>3. cp \notin {None, "NotStarted"}
        BY <1>2, <3>1
      <3> HIDE DEF q, r, cp, sm, cn, mn, C, D
      <3> QED
        BY <1>5, <3>2, <3>3
    <2>4. CASE mn = sm
      <3> HIDE DEF q, r, cp, sm, cn, mn, C, D
      <3>1. C = {} => D = {}
        BY <2>1
      <3>2. \A i, j \in D : ~sm /\ i = j
        <4> SUFFICES ASSUME NEW i \in D, NEW j \in D PROVE ~sm /\ i = j
          OBVIOUS
        <4>1. i + 1 \in C /\ j + 1 \in C /\ i \in Nat /\ j \in Nat
          BY <2>1, <2>2
        <4>2. ~sm /\ i + 1 = j + 1
          BY <1>2, <4>1
        <4> QED
          BY <4>1, <4>2
      <3> QED
        BY <1>2, <1>5, <2>4, <3>1, <3>2
    <2> QED
      BY <1>5, <2>3, <2>4
  <1>6. CASE PipeRests(p)
    BY <1>4, <1>5, <1>6 DEF PipeRests, Passes, SameClientPipe, SameServerPipe
  <1>7. CASE PipeCreated(p) \/ PipeStopping(p) \/ PipeClosed(p)
    BY <1>4, <1>7 DEF PipeCreated, PipeStopping, PipeClosed, SameServerPipe, SamePipeQueues,
                      None
  <1>8. CASE PipeServed(p) \/ PipeTurns(p) \/ PipeDropped(p)
    BY <1>4, <1>8 DEF PipeServed, PipeTurns, PipeDropped, SameClientPipe, SamePipeQueues
  <1>9. CASE PipeTold(p)
    <2>1. /\ toClient[p] # <<>> /\ Head(toClient[p]).type = "PipelineState"
          /\ mn = sm /\ r = q
          /\ cn = IF p \in client.table THEN Head(toClient[p]).state ELSE cp
      BY <1>9 DEF PipeTold, SameServerPipe
    <2>2. /\ Head(toClient[p]).state \in PipelineStates
          /\ Head(toClient[p]).state # "NotStarted"
      <3>1. toClient[p] \in Seq(ToClient[p])
        BY PipeTypes
      <3>2. 1 \in DOMAIN toClient[p] /\ Head(toClient[p]) = toClient[p][1]
        BY <2>1, <3>1
      <3>3. toClient[p][1] \in ToClient[p]
        BY <3>1, <3>2
      <3> QED
        BY <2>1, <3>2, <3>3, PipeTypes DEF Paired
    <2>3. None \notin PipelineStates
      BY DEF None, PipelineStates
    <2> HIDE DEF q, r, cp, sm, cn, mn, C, D
    <2> QED
      BY <1>4, <2>1, <2>2, <2>3
  <1>10. CASE PipeStarted(p)
    <2>1. C = {} /\ ~sm
      BY <1>2, <1>10 DEF PipeStarted
    <2>2. /\ r = Append(q, Plain("CreatePipeline")) /\ mn = sm /\ cn = "Running"
      BY <1>10 DEF PipeStarted, SameServerPipe
    <2>3. D = {Len(q) + 1}
      BY <1>1, <2>1, <2>2 DEF Creates, Plain
    <2>4. "Running" \notin {None, "NotStarted"}
      BY DEF None
    <2> HIDE DEF q, r, cp, sm, cn, mn, C, D
    <2> QED
      BY <2>1, <2>2, <2>3, <2>4
  <1>11. CASE PipeTaken(p)
    BY <1>5, <1>11 DEF PipeTaken, SameClientPipe
  <1> QED
    BY <1>6, <1>7, <1>8, <1>9, <1>10, <1>11 DEF PipeSteps
-----------------------------------------------------------------------------
(* Every step of the documented use does one of these things to a pipeline *)

\* A queue of another target, and the one a message is put into.
LEMMA PipeQueue ==
    ASSUME NEW queues, NEW Kinds, IsQueues(queues, Kinds), NEW t \in Targets, NEW msgs
    PROVE  /\ \A p \in Targets : p # t => Queue(queues, t, msgs)[p] = queues[p]
           /\ \A m : msgs = <<m>> => Queue(queues, t, msgs)[t] = Append(queues[t], m)
           /\ msgs = <<>> => Queue(queues, t, msgs)[t] = queues[t]
           /\ \A p \in Targets : p # t => [queues EXCEPT ![t] = Tail(@)][p] = queues[p]
           /\ [queues EXCEPT ![t] = Tail(@)][t] = Tail(queues[t])
  <1>1. Queue(queues, t, msgs)
          = [u \in Targets |-> IF u = t THEN queues[u] \o msgs ELSE queues[u]]
    BY DEF Queue, IsQueues
  <1>2. [queues EXCEPT ![t] = Tail(@)]
          = [u \in Targets |-> IF u = t THEN Tail(queues[u]) ELSE queues[u]]
    BY DEF IsQueues
  <1>3. queues[t] \in Seq(Kinds[t])
    BY DEF IsQueues
  <1>4. \A m : queues[t] \o <<m>> = Append(queues[t], m)
    BY <1>3
  <1>5. queues[t] \o <<>> = queues[t]
    BY <1>3
  <1> QED
    BY <1>1, <1>2, <1>4, <1>5

\* A call of the client that is not about the objects of the pipelines.
ClientLeaves ==
    \E new, msgs : \E t \in Targets :
        /\ ClientDoes(new, t, msgs)
        /\ new.pipes = client.pipes /\ new.table = client.table
        /\ "PipelineState" \in new.raised => "PipelineState" \in client.raised
        /\ t = Pool \/ \E ci \in Nat : msgs = <<HostResponse(ci)>>

\* And one of the server.
ServerLeaves ==
    \E new, msgs : \E t \in Targets :
        /\ ServerDoes(new, t, msgs)
        /\ new.pipes = server.pipes /\ new.table = server.table
        /\ new.metadata = server.metadata
        /\ new.raised = server.raised \/ server.state = "Connecting"
        /\ new.state = "Connecting" => server.state = "Connecting" \/ client.n # 1
        /\ \/ t = Pool
           \/ /\ server.pipes[t] = "Running"
              /\ \E m \in ToClient[t] : m.type # "PipelineState" /\ msgs = <<m>>

\* The client raises nothing for the state of a pipeline, and the server nothing
\* but for a client that connects.
ClientMild == "PipelineState" \in client'.raised => "PipelineState" \in client.raised
ServerMild ==
    /\ server'.raised = server.raised \/ server.state = "Connecting"
    /\ server'.state = "Connecting" => server.state = "Connecting" \/ client.n # 1

LEMMA ClientLeavesSame ==
    ASSUME TypeOK, ClientLeaves
    PROVE  /\ \A p \in Pipelines :
                 /\ SameClientPipe(p) /\ SameServerPipe(p)
                 /\ Passes(toServer[p], toServer'[p], "CreatePipeline", ToServer[p])
           /\ ClientMild /\ UNCHANGED server
  <1>1. PICK new, msgs : \E t \in Targets :
          /\ ClientDoes(new, t, msgs)
          /\ new.pipes = client.pipes /\ new.table = client.table
          /\ "PipelineState" \in new.raised => "PipelineState" \in client.raised
          /\ t = Pool \/ \E ci \in Nat : msgs = <<HostResponse(ci)>>
    BY DEF ClientLeaves
  <1>2. PICK t \in Targets :
          /\ ClientDoes(new, t, msgs)
          /\ new.pipes = client.pipes /\ new.table = client.table
          /\ "PipelineState" \in new.raised => "PipelineState" \in client.raised
          /\ t = Pool \/ \E ci \in Nat : msgs = <<HostResponse(ci)>>
    BY <1>1
  <1>3. client' = new /\ toServer' = Queue(toServer, t, msgs) /\ UNCHANGED server
    BY <1>2 DEF ClientDoes
  <1>4. ASSUME NEW p \in Pipelines
        PROVE  /\ SameClientPipe(p) /\ SameServerPipe(p)
               /\ Passes(toServer[p], toServer'[p], "CreatePipeline", ToServer[p])
    <2>1. /\ p \in Targets /\ p # Pool
          /\ toServer[p] \in Seq(ToServer[p]) /\ toClient[p] \in Seq(ToClient[p])
      BY PipeTypes
    <2>2. IsQueues(toServer, ToServer)
      BY DEF TypeOK
    <2>3. \A ci \in Nat : /\ HostResponse(ci) \in ToServer[p]
                          /\ HostResponse(ci).type # "CreatePipeline"
      BY <2>1 DEF HostResponse, ToServer
    <2>4. \/ toServer'[p] = toServer[p]
          \/ \E ci \in Nat : toServer'[p] = Append(toServer[p], HostResponse(ci))
      BY <1>2, <1>3, <2>1, <2>2, PipeQueue, SMTT(30)
    <2>5. Passes(toServer[p], toServer'[p], "CreatePipeline", ToServer[p])
      BY <2>3, <2>4 DEF Passes
    <2> QED
      BY <1>2, <1>3, <2>5 DEF SameClientPipe, SameServerPipe
  <1> QED
    BY <1>2, <1>3, <1>4 DEF ClientMild

LEMMA ClientLeavesRest ==
    ASSUME TypeOK, ClientLeaves, UNCHANGED toClient
    PROVE  /\ \A p \in Pipelines : PipeRests(p)
           /\ ClientMild /\ UNCHANGED server
  <1>1. \A p \in Pipelines : toClient[p] \in Seq(ToClient[p])
    BY PipeTypes
  <1>2. \A p \in Pipelines : Len(toClient[p]) <= Len(toClient[p])
    BY <1>1
  <1> QED
    BY <1>2, ClientLeavesSame DEF PipeRests, Passes

LEMMA ServerLeavesSame ==
    ASSUME TypeOK, ServerLeaves
    PROVE  /\ \A p \in Pipelines :
                 /\ SameClientPipe(p) /\ SameServerPipe(p)
                 /\ Passes(toClient[p], toClient'[p], "PipelineState", ToClient[p])
                 /\ server.pipes[p] = "Running" \/ Len(toClient'[p]) <= Len(toClient[p])
           /\ ServerMild /\ UNCHANGED client
  <1>1. PICK new, msgs : \E t \in Targets :
          /\ ServerDoes(new, t, msgs)
          /\ new.pipes = server.pipes /\ new.table = server.table
          /\ new.metadata = server.metadata
          /\ new.raised = server.raised \/ server.state = "Connecting"
          /\ new.state = "Connecting" => server.state = "Connecting" \/ client.n # 1
          /\ \/ t = Pool
             \/ /\ server.pipes[t] = "Running"
                /\ \E m \in ToClient[t] : m.type # "PipelineState" /\ msgs = <<m>>
    BY DEF ServerLeaves
  <1>2. PICK t \in Targets :
          /\ ServerDoes(new, t, msgs)
          /\ new.pipes = server.pipes /\ new.table = server.table
          /\ new.metadata = server.metadata
          /\ new.raised = server.raised \/ server.state = "Connecting"
          /\ new.state = "Connecting" => server.state = "Connecting" \/ client.n # 1
          /\ \/ t = Pool
             \/ /\ server.pipes[t] = "Running"
                /\ \E m \in ToClient[t] : m.type # "PipelineState" /\ msgs = <<m>>
    BY <1>1
  <1>3. server' = new /\ toClient' = Queue(toClient, t, msgs) /\ UNCHANGED client
    BY <1>2 DEF ServerDoes
  <1>4. ASSUME NEW p \in Pipelines
        PROVE  /\ SameClientPipe(p) /\ SameServerPipe(p)
               /\ Passes(toClient[p], toClient'[p], "PipelineState", ToClient[p])
               /\ server.pipes[p] = "Running" \/ Len(toClient'[p]) <= Len(toClient[p])
    <2>1. /\ p \in Targets /\ p # Pool
          /\ toServer[p] \in Seq(ToServer[p]) /\ toClient[p] \in Seq(ToClient[p])
      BY PipeTypes
    <2>2. IsQueues(toClient, ToClient)
      BY DEF TypeOK
    <2>3. \/ toClient'[p] = toClient[p]
          \/ /\ server.pipes[p] = "Running"
             /\ \E m \in ToClient[p] :
                    m.type # "PipelineState" /\ toClient'[p] = Append(toClient[p], m)
      <3>1. CASE t # p
        BY <1>3, <2>1, <2>2, <3>1, PipeQueue
      <3>2. CASE t = p
        <4>1. PICK m \in ToClient[p] : m.type # "PipelineState" /\ msgs = <<m>>
          BY <1>2, <2>1, <3>2
        <4>2. toClient'[p] = Append(toClient[p], m)
          BY <1>3, <2>1, <2>2, <3>2, <4>1, PipeQueue
        <4>3. server.pipes[p] = "Running"
          BY <1>2, <2>1, <3>2
        <4> QED
          BY <4>1, <4>2, <4>3
      <3> QED
        BY <3>1, <3>2
    <2>4. Passes(toClient[p], toClient'[p], "PipelineState", ToClient[p])
      BY <2>3 DEF Passes
    <2>5. SameClientPipe(p) /\ SameServerPipe(p)
      BY <1>2, <1>3 DEF SameClientPipe, SameServerPipe
    <2>6. Len(toClient[p]) <= Len(toClient[p])
      BY <2>1
    <2> QED
      BY <2>3, <2>4, <2>5, <2>6
  <1> QED
    BY <1>2, <1>3, <1>4 DEF ServerMild

LEMMA ServerLeavesRest ==
    ASSUME TypeOK, ServerLeaves, UNCHANGED toServer
    PROVE  /\ \A p \in Pipelines : PipeRests(p)
           /\ ServerMild /\ UNCHANGED client
  BY ServerLeavesSame DEF PipeRests, Passes

\* The calls about the pool and its requests.
LEMMA ClientPoolLeaves ==
    ASSUME TypeOK,
           \/ ClientOpen \/ ClientConnect \/ ClientBeginClose \/ ClientClose
           \/ ClientBeginDisconnect \/ ClientDisconnect \/ ClientReconnect
           \/ ClientRequests
    PROVE  ClientLeaves
  <1>1. client \in ClientPools /\ Pool \in Targets
    BY DEF TypeOK, Targets
  <1>2. ASSUME NEW new, NEW msgs, ClientDoes(new, Pool, msgs), new.pipes = client.pipes,
               new.table = client.table, new.raised = client.raised
        PROVE  ClientLeaves
    BY <1>1, <1>2 DEF ClientLeaves
  <1>3. \A st : /\ SetState(client, st).pipes = client.pipes
                /\ SetState(client, st).table = client.table
                /\ SetState(client, st).raised = client.raised
    BY <1>1 DEF SetState, ClientPools
  <1>4. CASE ClientOpen \/ ClientConnect
    BY <1>2, <1>3, <1>4 DEF ClientOpen, ClientConnect
  <1>5. CASE \/ ClientBeginClose \/ ClientClose
             \/ ClientBeginDisconnect \/ ClientDisconnect \/ ClientReconnect
    BY <1>2, <1>3, <1>5
    DEF ClientBeginClose, ClientClose, ClientBeginDisconnect, ClientDisconnect,
        ClientReconnect, ClientChanges
  <1>6. ASSUME NEW kind, NEW field, NEW value, SendRequest(kind, field, value)
        PROVE  ClientLeaves
    <2> DEFINE new == [client EXCEPT
                         !.ci = @ + 1,
                         !.handlers = @ \union {[ci |-> client.ci, field |-> field,
                                                 value |-> value]}]
    <2>1. /\ new.pipes = client.pipes /\ new.table = client.table
          /\ new.raised = client.raised
      BY <1>1 DEF ClientPools
    <2>2. ClientDoes(new, Pool, <<Request(kind, client.ci, value, client.n)>>)
      BY <1>6 DEF SendRequest
    <2> HIDE DEF new
    <2> QED
      BY <1>2, <2>1, <2>2
  <1>7. CASE get_available_runspaces \/ reset_runspace_state
    BY <1>6, <1>7 DEF get_available_runspaces, reset_runspace_state
  <1>8. ASSUME NEW v, set_max_runspaces(v) \/ set_min_runspaces(v)
        PROVE  ClientLeaves
    <2> DEFINE max == [client EXCEPT !.max = v]
               min == [client EXCEPT !.min = v]
    <2>1. /\ max.pipes = client.pipes /\ max.table = client.table
          /\ max.raised = client.raised
          /\ min.pipes = client.pipes /\ min.table = client.table
          /\ min.raised = client.raised
      BY <1>1 DEF ClientPools
    <2>2. \/ ClientDoes(max, Pool, <<>>) \/ SendRequest("max", "max", v)
          \/ ClientDoes(min, Pool, <<>>) \/ SendRequest("min", "min", v)
      BY <1>8 DEF set_max_runspaces, set_min_runspaces, ClientChanges
    <2> HIDE DEF max, min
    <2> QED
      BY <1>2, <1>6, <2>1, <2>2
  <1>9. CASE exchange_key
    <2> DEFINE new == [client EXCEPT !.keyRequested = TRUE, !.key = client.n]
    <2>1. /\ new.pipes = client.pipes /\ new.table = client.table
          /\ new.raised = client.raised
      BY <1>1 DEF ClientPools
    <2>2. ClientDoes(new, Pool, <<PublicKey(client.n)>>)
      BY <1>9 DEF exchange_key, StartExchange
    <2> HIDE DEF new
    <2> QED
      BY <1>2, <2>1, <2>2
  <1>10. CASE ClientHostResponse
    <2>1. PICK event \in client.events : host_response(event)
      BY <1>10 DEF ClientHostResponse
    <2>2. event.target \in Targets /\ event.ci \in Nat
      BY <1>1, <2>1 DEF ClientPools, Events
    <2> DEFINE new == [client EXCEPT !.events = @ \ {event}]
    <2>3. /\ new.pipes = client.pipes /\ new.table = client.table
          /\ new.raised = client.raised
      BY <1>1 DEF ClientPools
    <2>4. ClientDoes(new, event.target, <<HostResponse(event.ci)>>)
      BY <2>1 DEF host_response
    <2> HIDE DEF new
    <2> QED
      BY <2>2, <2>3, <2>4 DEF ClientLeaves
  <1> QED
    BY <1>4, <1>5, <1>7, <1>8, <1>9, <1>10 DEF ClientRequests

\* And those of the server.
LEMMA ServerPoolLeaves ==
    ASSUME TypeOK,
           \/ client.n > 1 /\ ServerConnect
           \/ ServerBeginClose \/ ServerClose \/ ServerBeginDisconnect \/ ServerDisconnect
           \/ ServerReconnect \/ set_broken \/ ServerRequests
    PROVE  ServerLeaves
  <1>1. server \in ServerPools /\ Pool \in Targets /\ client.n \in Nat
    BY DEF TypeOK, Targets, ClientPools
  <1>2. ASSUME NEW new, NEW msgs, ServerDoes(new, Pool, msgs), new.pipes = server.pipes,
               new.table = server.table, new.metadata = server.metadata,
               new.raised = server.raised,
               new.state = "Connecting" => server.state = "Connecting" \/ client.n # 1
        PROVE  ServerLeaves
    BY <1>1, <1>2 DEF ServerLeaves
  <1>3. ASSUME NEW new \in ServerPools, NEW st, NEW msgs, ServerTurns(new, msgs, st),
               new.pipes = server.pipes, new.table = server.table,
               new.metadata = server.metadata, new.raised = server.raised,
               st = "Connecting" => client.n # 1
        PROVE  ServerLeaves
    <2>1. /\ SetState(new, st).pipes = server.pipes /\ SetState(new, st).table = server.table
          /\ SetState(new, st).metadata = server.metadata
          /\ SetState(new, st).raised = server.raised /\ SetState(new, st).state = st
      BY <1>3 DEF SetState, ServerPools
    <2> QED
      BY <1>2, <1>3, <2>1 DEF ServerTurns
  <1>4. CASE client.n > 1 /\ ServerConnect
    <2> DEFINE fresh == [server EXCEPT !.ci = 1]
    <2>1. /\ fresh \in ServerPools /\ fresh.pipes = server.pipes
          /\ fresh.table = server.table /\ fresh.metadata = server.metadata
          /\ fresh.raised = server.raised
      BY <1>1 DEF ServerPools
    <2>2. ServerTurns(fresh, <<>>, "Connecting") /\ client.n # 1
      BY <1>1, <1>4 DEF ServerConnect
    <2> HIDE DEF fresh
    <2> QED
      BY <1>3, <2>1, <2>2
  <1>5. CASE \/ ServerBeginClose \/ ServerClose \/ ServerBeginDisconnect \/ ServerDisconnect
             \/ ServerReconnect \/ set_broken
    <2>1. PICK st \in {"Closing", "Closed", "Disconnecting", "Disconnected", "Opened",
                       "Broken"} : ServerTurns(server, <<>>, st)
      BY <1>5 DEF ServerBeginClose, ServerClose, ServerBeginDisconnect, ServerDisconnect,
                  ServerReconnect, set_broken
    <2> QED
      BY <1>1, <1>3, <2>1
  <1>6. CASE send_event
    BY <1>2, <1>6 DEF send_event
  <1>7. CASE ServerHostCall
    <2>1. PICK v \in BOOLEAN : host_call(Pool, v)
      BY <1>7 DEF ServerHostCall
    <2> DEFINE ci  == IF v THEN Void ELSE server.ci
               new == [server EXCEPT !.calls = @ + 1, !.ci = IF v THEN @ ELSE @ + 1]
    <2>2. /\ new.pipes = server.pipes /\ new.table = server.table
          /\ new.metadata = server.metadata /\ new.raised = server.raised
          /\ new.state = server.state
      BY <1>1 DEF ServerPools
    <2>3. ServerDoes(new, Pool, <<HostCall(ci)>>)
      BY <2>1 DEF host_call
    <2> HIDE DEF new, ci
    <2> QED
      BY <1>2, <2>2, <2>3
  <1>8. CASE request_key
    <2> DEFINE new == [server EXCEPT !.keyRequested = TRUE]
    <2>1. /\ new.pipes = server.pipes /\ new.table = server.table
          /\ new.metadata = server.metadata /\ new.raised = server.raised
          /\ new.state = server.state
      BY <1>1 DEF ServerPools
    <2>2. ServerDoes(new, Pool, <<Plain("PublicKeyRequest")>>)
      BY <1>8 DEF request_key
    <2> HIDE DEF new
    <2> QED
      BY <1>2, <2>1, <2>2
  <1>9. CASE Responds
    <2>1. PICK r \in server.requests, response \in BOOLEAN :
            ServerDoes(Responded(r, response), Pool,
                       <<RunspaceAvailability(r.ci, response, r.n)>>)
      BY <1>9 DEF Responds, runspace_availability_response
    <2>2. LET new == Responded(r, response)
          IN  /\ new.pipes = server.pipes /\ new.table = server.table
              /\ new.metadata = server.metadata /\ new.raised = server.raised
              /\ new.state = server.state
      BY <1>1 DEF ServerPools, Responded
    <2> QED
      BY <1>2, <2>1, <2>2
  <1> QED
    BY <1>4, <1>5, <1>6, <1>7, <1>8, <1>9 DEF ServerRequests

\* Every call of the client's program.
LEMMA ClientCallSteps ==
    ASSUME TypeOK, DocumentedClientCall, UNCHANGED toClient
    PROVE  /\ \A p \in Pipelines : PipeSteps(p)
           /\ ClientMild /\ UNCHANGED server
  <1>1. client \in ClientPools /\ Pool \in Targets
    BY DEF TypeOK, Targets
  <1>2. CASE ClientLeaves
    BY <1>2, ClientLeavesRest DEF PipeSteps
  <1>3. ASSUME NEW u \in Pipelines, NEW t \in {u, Pool}, NEW new, NEW msgs,
               ClientDoes(new, t, msgs), t = Pool => msgs = <<>>,
               \A p \in Pipelines : p # u => new.pipes[p] = client.pipes[p],
               \A p \in Pipelines : p # u => (p \in new.table <=> p \in client.table),
               new.raised = client.raised,
               PipeSteps(u)
        PROVE  /\ \A p \in Pipelines : PipeSteps(p)
               /\ ClientMild /\ UNCHANGED server
    <2>1. UNCHANGED server /\ client' = new /\ toServer' = Queue(toServer, t, msgs)
      BY <1>3 DEF ClientDoes
    <2>2. ASSUME NEW p \in Pipelines, p # u
          PROVE  PipeSteps(p)
      <3>1. /\ p \in Targets /\ p # Pool /\ u \in Targets /\ t \in Targets
            /\ toClient[p] \in Seq(ToClient[p])
        BY <1>1, PipeTypes
      <3>2. toServer'[p] = toServer[p]
        BY <2>1, <2>2, <3>1, PipeQueue DEF TypeOK
      <3>3. SameClientPipe(p) /\ SameServerPipe(p)
        BY <1>3, <2>1, <2>2 DEF SameClientPipe, SameServerPipe
      <3>4. Len(toClient[p]) <= Len(toClient[p])
        BY <3>1
      <3> QED
        BY <3>2, <3>3, <3>4 DEF PipeSteps, PipeRests, Passes
    <2> QED
      BY <1>3, <2>1, <2>2 DEF ClientMild
  <1>4. ASSUME NEW u \in Pipelines, NEW new, ClientChanges(new)
        PROVE  /\ ClientDoes(new, Pool, <<>>) /\ client' = new
               /\ SamePipeQueues(u) /\ SameServerPipe(u)
    <2>1. ClientDoes(new, Pool, <<>>)
      BY <1>4 DEF ClientChanges
    <2>2. toServer' = Queue(toServer, Pool, <<>>) /\ UNCHANGED server /\ client' = new
      BY <2>1 DEF ClientDoes
    <2>3. toServer'[u] = toServer[u]
      BY <1>1, <2>2, PipeQueue, PipeTypes DEF TypeOK
    <2> QED
      BY <2>1, <2>2, <2>3 DEF SamePipeQueues, SameServerPipe
  <1>5. ASSUME NEW u \in Pipelines, NEW m, NEW new, ClientDoes(new, u, <<m>>)
        PROVE  /\ toServer'[u] = Append(toServer[u], m) /\ client' = new
               /\ toClient'[u] = toClient[u] /\ SameServerPipe(u)
    <2>1. toServer' = Queue(toServer, u, <<m>>) /\ UNCHANGED server /\ client' = new
      BY <1>5 DEF ClientDoes
    <2>2. toServer'[u] = Append(toServer[u], m)
      BY <2>1, PipeQueue, PipeTypes DEF TypeOK
    <2> QED
      BY <2>1, <2>2 DEF SameServerPipe
  <1>6. ASSUME NEW u \in Pipelines, ClientNewPipeline(u)
        PROVE  /\ \A p \in Pipelines : PipeSteps(p)
               /\ ClientMild /\ UNCHANGED server
    <2> DEFINE new == Created(client, u)
    <2>1. /\ new.pipes = [client.pipes EXCEPT ![u] = "NotStarted"]
          /\ new.table = client.table \union {u} /\ new.raised = client.raised
      BY <1>1 DEF Created, SetPipe, ClientPools
    <2>2. ClientChanges(new) /\ client.pipes[u] = None
      BY <1>6 DEF ClientNewPipeline, CanCreate
    <2>3. client.pipes \in Pipes
      BY <1>1 DEF ClientPools
    <2> HIDE DEF new
    <2>4. new.pipes[u] = "NotStarted" /\ u \in new.table
      BY <2>1, <2>3 DEF Pipes
    <2>5. PipeSteps(u)
      BY <1>4, <2>2, <2>4 DEF PipeSteps, PipeCreated
    <2>6. \A p \in Pipelines : p # u => new.pipes[p] = client.pipes[p]
      BY <2>1, <2>3 DEF Pipes
    <2>7. \A p \in Pipelines : p # u => (p \in new.table <=> p \in client.table)
      BY <2>1
    <2> QED
      BY <1>3, <1>4, <2>1, <2>2, <2>5, <2>6, <2>7
  <1>7. ASSUME NEW u \in Pipelines, NEW s, client.pipes \in Pipes
        PROVE  LET new == SetPipe(client, u, s)
               IN  /\ new.pipes[u] = s /\ new.table = client.table
                   /\ new.raised = client.raised
                   /\ \A p \in Pipelines : p # u => new.pipes[p] = client.pipes[p]
    BY <1>1, <1>7 DEF SetPipe, ClientPools, Pipes
  <1>8. client.pipes \in Pipes
    BY <1>1 DEF ClientPools
  <1>9. ASSUME NEW u \in Pipelines, client.pipes[u] = "NotStarted", ClientStart(u)
        PROVE  /\ \A p \in Pipelines : PipeSteps(p)
               /\ ClientMild /\ UNCHANGED server
    <2> DEFINE new == SetPipe(client, u, "Running")
    <2>1. /\ new.pipes[u] = "Running" /\ new.table = client.table
          /\ new.raised = client.raised
          /\ \A p \in Pipelines : p # u => new.pipes[p] = client.pipes[p]
      BY <1>7, <1>8
    <2>2. ClientDoes(new, u, <<Plain("CreatePipeline")>>)
      BY <1>9 DEF ClientStart
    <2> HIDE DEF new
    <2>3. PipeSteps(u)
      BY <1>5, <1>9, <2>1, <2>2 DEF PipeSteps, PipeStarted
    <2> QED
      BY <1>3, <2>1, <2>2, <2>3, PipeTypes
  <1>10. ASSUME NEW u \in Pipelines, ClientBeginStop(u)
         PROVE  /\ \A p \in Pipelines : PipeSteps(p)
                /\ ClientMild /\ UNCHANGED server
    <2> DEFINE new == SetPipe(client, u, "Stopping")
    <2>1. /\ new.pipes[u] = "Stopping" /\ new.table = client.table
          /\ new.raised = client.raised
          /\ \A p \in Pipelines : p # u => new.pipes[p] = client.pipes[p]
      BY <1>7, <1>8
    <2>2. ClientChanges(new) /\ client.pipes[u] \in {"Running", "Stopping"}
      BY <1>10 DEF ClientBeginStop, CanBeginStop
    <2> HIDE DEF new
    <2>3. PipeSteps(u)
      BY <1>4, <2>1, <2>2 DEF PipeSteps, PipeStopping
    <2> QED
      BY <1>3, <1>4, <2>1, <2>2, <2>3
  <1>11. ASSUME NEW u \in Pipelines, client.pipes[u] \in Final, ClientClosePipeline(u)
         PROVE  /\ \A p \in Pipelines : PipeSteps(p)
                /\ ClientMild /\ UNCHANGED server
    <2> DEFINE new == ClosedPipeline(client, u)
    <2>1. /\ new.pipes = client.pipes /\ new.table = client.table \ {u}
          /\ new.raised = client.raised
      BY <1>1 DEF ClosedPipeline, ClientPools
    <2>2. ClientChanges(new)
      BY <1>11 DEF ClientClosePipeline
    <2> HIDE DEF new
    <2>3. PipeSteps(u)
      BY <1>4, <1>11, <2>1, <2>2 DEF PipeSteps, PipeClosed
    <2> QED
      BY <1>3, <1>4, <2>1, <2>2, <2>3
  <1>12. ASSUME NEW u \in Pipelines, ClientSend(u)
         PROVE  /\ \A p \in Pipelines : PipeSteps(p)
                /\ ClientMild /\ UNCHANGED server
    <2>1. PICK m \in {"PipelineInput", "EndOfPipelineInput"} :
            ClientDoes(client, u, <<Plain(m)>>)
      BY <1>12 DEF ClientSend
    <2>2. Plain(m).type # "CreatePipeline" /\ Plain(m) \in ToServer[u]
      BY PipeTypes DEF Plain, ToServer
    <2>3. /\ toServer'[u] = Append(toServer[u], Plain(m)) /\ client' = client
          /\ toClient'[u] = toClient[u] /\ SameServerPipe(u)
      BY <1>5, <2>1
    <2>4. Len(toClient[u]) <= Len(toClient[u])
      BY PipeTypes
    <2>5. PipeSteps(u)
      BY <2>2, <2>3, <2>4 DEF PipeSteps, PipeRests, SameClientPipe, Passes
    <2> QED
      BY <1>3, <2>1, <2>5, PipeTypes
  <1>13. (\E p \in Pipelines : ClientPipelineHostResponse(p)) => ClientRequests
    BY DEF ClientPipelineHostResponse, ClientRequests
  <1> QED
    BY <1>2, <1>6, <1>9, <1>10, <1>11, <1>12, <1>13, ClientPoolLeaves
    DEF DocumentedClientCall, Final

\* A running pipeline writes or calls its host.
LEMMA ServerOutputLeaves ==
    ASSUME TypeOK, NEW u \in Pipelines, ServerPipelineHostCall(u) \/ ServerWrite(u)
    PROVE  ServerLeaves
  <1>1. server \in ServerPools /\ u \in Targets
    BY PipeTypes DEF TypeOK
  <1>2. ASSUME NEW new, NEW m \in ToClient[u], ServerDoes(new, u, <<m>>),
               m.type # "PipelineState", new.pipes = server.pipes,
               new.table = server.table, new.metadata = server.metadata,
               new.raised = server.raised, new.state = server.state,
               server.pipes[u] = "Running"
        PROVE  ServerLeaves
    <2> DEFINE msgs == <<m>>
    <2>1. \E n \in ToClient[u] : n.type # "PipelineState" /\ msgs = <<n>>
      BY <1>2
    <2>2. ServerDoes(new, u, msgs)
      BY <1>2
    <2> HIDE DEF msgs
    <2> QED
      BY <1>1, <1>2, <2>1, <2>2 DEF ServerLeaves
  <1>3. CASE ServerPipelineHostCall(u)
    <2>1. PICK v \in BOOLEAN : host_call(u, v)
      BY <1>3 DEF ServerPipelineHostCall
    <2> DEFINE ci  == IF v THEN Void ELSE server.ci
               new == [server EXCEPT !.calls = @ + 1, !.ci = IF v THEN @ ELSE @ + 1]
    <2>2. /\ new.pipes = server.pipes /\ new.table = server.table
          /\ new.metadata = server.metadata /\ new.raised = server.raised
          /\ new.state = server.state
      BY <1>1 DEF ServerPools
    <2>3. ServerDoes(new, u, <<HostCall(ci)>>) /\ server.pipes[u] = "Running"
      BY <1>3, <2>1 DEF host_call, ServerPipelineHostCall
    <2>4. ci \in Nat
      BY <1>1, RunspacePoolAssumption DEF ServerPools, Void
    <2> HIDE DEF new, ci
    <2>5. HostCall(ci) \in ToClient[u] /\ HostCall(ci).type # "PipelineState"
      BY <1>1, <2>4, PipeTypes DEF HostCall, ToClient
    <2> QED
      BY <1>2, <2>2, <2>3, <2>5
  <1>4. CASE ServerWrite(u)
    <2>1. /\ server.pipes[u] = "Running"
          /\ \/ ServerDoes(server, u, <<Plain("PipelineOutput")>>)
             \/ ServerDoes(server, u, <<Plain("InformationRecord")>>)
      BY <1>4 DEF ServerWrite
    <2>2. \A type \in {"PipelineOutput", "InformationRecord"} :
            Plain(type) \in ToClient[u] /\ Plain(type).type # "PipelineState"
      BY <1>1, PipeTypes DEF Plain, ToClient
    <2> QED
      BY <1>2, <2>1, <2>2
  <1> QED
    BY <1>3, <1>4

\* Every call of the server's program.
LEMMA ServerCallSteps ==
    ASSUME TypeOK, DocumentedServerCall, UNCHANGED toServer
    PROVE  /\ \A p \in Pipelines : PipeSteps(p)
           /\ ServerMild /\ UNCHANGED client
  <1>1. server \in ServerPools /\ server.pipes \in Pipes /\ Pool \in Targets
    BY DEF TypeOK, Targets, ServerPools
  <1>2. CASE ServerLeaves
    BY <1>2, ServerLeavesRest DEF PipeSteps
  <1>3. ASSUME NEW u \in Pipelines, NEW t \in {u, Pool}, NEW new, NEW msgs,
               ServerDoes(new, t, msgs), t = Pool => msgs = <<>>,
               \A p \in Pipelines : p # u => new.pipes[p] = server.pipes[p],
               \A p \in Pipelines : p # u => (p \in new.table <=> p \in server.table),
               new.metadata = server.metadata, new.raised = server.raised,
               new.state = server.state, PipeSteps(u)
        PROVE  /\ \A p \in Pipelines : PipeSteps(p)
               /\ ServerMild /\ UNCHANGED client
    <2>1. UNCHANGED client /\ server' = new /\ toClient' = Queue(toClient, t, msgs)
      BY <1>3 DEF ServerDoes
    <2>2. ASSUME NEW p \in Pipelines, p # u
          PROVE  PipeSteps(p)
      <3>1. /\ p \in Targets /\ p # Pool /\ u \in Targets /\ t \in Targets
            /\ toClient[p] \in Seq(ToClient[p])
        BY <1>1, PipeTypes
      <3>2. toClient'[p] = toClient[p]
        BY <2>1, <2>2, <3>1, PipeQueue DEF TypeOK
      <3>3. SameClientPipe(p) /\ SameServerPipe(p)
        BY <1>3, <2>1, <2>2 DEF SameClientPipe, SameServerPipe
      <3>4. Len(toClient[p]) <= Len(toClient[p])
        BY <3>1
      <3> QED
        BY <3>2, <3>3, <3>4 DEF PipeSteps, PipeRests, Passes
    <2> QED
      BY <1>3, <2>1, <2>2 DEF ServerMild
  <1>4. ASSUME NEW u \in Pipelines, NEW new, ServerChanges(new)
        PROVE  /\ ServerDoes(new, Pool, <<>>) /\ server' = new
               /\ SamePipeQueues(u) /\ SameClientPipe(u)
    <2>1. ServerDoes(new, Pool, <<>>)
      BY <1>4 DEF ServerChanges
    <2>2. toClient' = Queue(toClient, Pool, <<>>) /\ UNCHANGED client /\ server' = new
      BY <2>1 DEF ServerDoes
    <2>3. toClient'[u] = toClient[u]
      BY <1>1, <2>2, PipeQueue, PipeTypes DEF TypeOK
    <2> QED
      BY <2>1, <2>2, <2>3 DEF SamePipeQueues, SameClientPipe
  <1>5. ASSUME NEW u \in Pipelines, u \in client.table, ServerNewPipeline(u)
        PROVE  /\ \A p \in Pipelines : PipeSteps(p)
               /\ ServerMild /\ UNCHANGED client
    <2> DEFINE new == Created(server, u)
    <2>1. /\ new.pipes = [server.pipes EXCEPT ![u] = "NotStarted"]
          /\ new.table = server.table \union {u} /\ new.raised = server.raised
          /\ new.metadata = server.metadata /\ new.state = server.state
      BY <1>1 DEF Created, SetPipe, ServerPools
    <2>2. ServerChanges(new) /\ server.pipes[u] = None
      BY <1>5 DEF ServerNewPipeline, CanCreate
    <2> HIDE DEF new
    <2>3. new.pipes[u] = "NotStarted" /\ u \in new.table
      BY <1>1, <2>1 DEF Pipes
    <2>4. PipeSteps(u)
      BY <1>4, <1>5, <2>1, <2>2, <2>3 DEF PipeSteps, PipeServed
    <2>5. \A p \in Pipelines : p # u => new.pipes[p] = server.pipes[p]
      BY <1>1, <2>1 DEF Pipes
    <2>6. \A p \in Pipelines : p # u => (p \in new.table <=> p \in server.table)
      BY <2>1
    <2> QED
      BY <1>3, <1>4, <2>1, <2>2, <2>4, <2>5, <2>6
  <1>6. ASSUME NEW u \in Pipelines, server.pipes[u] \in Final, ServerClosePipeline(u)
        PROVE  /\ \A p \in Pipelines : PipeSteps(p)
               /\ ServerMild /\ UNCHANGED client
    <2> DEFINE new == ClosedPipeline(server, u)
    <2>1. /\ new.pipes = server.pipes /\ new.table = server.table \ {u}
          /\ new.raised = server.raised
          /\ new.metadata = server.metadata /\ new.state = server.state
      BY <1>1 DEF ClosedPipeline, ServerPools
    <2>2. ServerChanges(new)
      BY <1>6 DEF ServerClosePipeline
    <2> HIDE DEF new
    <2>3. PipeSteps(u)
      BY <1>4, <1>6, <2>1, <2>2 DEF PipeSteps, PipeDropped
    <2> QED
      BY <1>3, <1>4, <2>1, <2>2, <2>3
  <1>7. ASSUME NEW u \in Pipelines, NEW s \in PipelineStates, PipelineTurns(u, s),
               \/ server.pipes[u] = "NotStarted" /\ u \in server.metadata /\ s = "Running"
               \/ server.pipes[u] \in {"Running", "Stopping"} /\ s \in {"Stopping"} \union Final
        PROVE  /\ \A p \in Pipelines : PipeSteps(p)
               /\ ServerMild /\ UNCHANGED client
    <2> DEFINE new == SetPipe(server, u, s)
    <2>1. /\ new.pipes[u] = s /\ new.table = server.table
          /\ new.raised = server.raised
          /\ new.metadata = server.metadata /\ new.state = server.state
          /\ \A p \in Pipelines : p # u => new.pipes[p] = server.pipes[p]
      BY <1>1 DEF SetPipe, ServerPools, Pipes
    <2>2. ServerDoes(new, u, <<PipelineState(s)>>)
      BY <1>7 DEF PipelineTurns
    <2>3. /\ server' = new /\ UNCHANGED client
          /\ toClient' = Queue(toClient, u, <<PipelineState(s)>>)
      BY <2>2 DEF ServerDoes
    <2> HIDE DEF new
    <2>4. toClient'[u] = Append(toClient[u], PipelineState(s))
      BY <2>3, PipeQueue, PipeTypes DEF TypeOK
    <2>5. PipeTurns(u)
      BY <1>7, <2>1, <2>3, <2>4 DEF PipeTurns, SameClientPipe
    <2> QED
      BY <1>3, <2>1, <2>2, <2>5, PipeTypes DEF PipeSteps
  <1>8. ASSUME NEW u \in Pipelines,
               \/ ServerRuns(u)
               \/ server.pipes[u] = "Running" /\ (ServerBeginStop(u) \/ ServerStop(u))
        PROVE  /\ \A p \in Pipelines : PipeSteps(p)
               /\ ServerMild /\ UNCHANGED client
    <2>1. CASE u \in client.table /\ ServerNewPipeline(u)
      BY <1>5, <2>1
    <2>2. {"Running", "Stopping", "Stopped", "Completed"} \subseteq PipelineStates
      BY DEF PipelineStates
    <2>3. CASE u \in server.metadata /\ server.pipes[u] = "NotStarted" /\ ServerStart(u)
      BY <1>7, <2>2, <2>3 DEF ServerStart
    <2>4. CASE server.pipes[u] = "Running" /\ ServerComplete(u)
      BY <1>7, <2>2, <2>4 DEF ServerComplete, Final
    <2>5. CASE server.pipes[u] \in {"Running", "Stopping"} /\ ServerStop(u)
      BY <1>7, <2>2, <2>5 DEF ServerStop, Final
    <2>6. CASE server.pipes[u] = "Running" /\ ServerBeginStop(u)
      BY <1>7, <2>2, <2>6 DEF ServerBeginStop, Final
    <2> QED
      BY <1>8, <2>1, <2>3, <2>4, <2>5, <2>6 DEF ServerRuns
  <1>9. CASE \/ client.n > 1 /\ ServerConnect
             \/ ServerBeginClose \/ ServerClose \/ ServerBeginDisconnect \/ ServerDisconnect
             \/ ServerReconnect \/ set_broken \/ ServerRequests
    BY <1>2, <1>9, ServerPoolLeaves
  <1>10. CASE \E p \in Pipelines : ServerPipelineHostCall(p) \/ ServerWrite(p)
    BY <1>2, <1>10, ServerOutputLeaves
  <1> QED
    BY <1>6, <1>8, <1>9, <1>10 DEF DocumentedServerCall, Final

\* The handlers that are not about the state of a pipeline.
LEMMA ClientHandlerLeaves ==
    ASSUME TypeOK, NEW t \in Targets, NEW m,
           \/ ClientProcessPool(m) \/ ClientProcessAvailability(m)
           \/ ClientProcessKey(m) \/ ClientProcessHostCall(t, m)
    PROVE  ClientLeaves /\ m.type # "PipelineState"
  <1>1. client \in ClientPools /\ Pool \in Targets
    BY DEF TypeOK, Targets
  <1>2. ASSUME NEW new, NEW msgs, ClientDoes(new, Pool, msgs), new.pipes = client.pipes,
               new.table = client.table,
               "PipelineState" \in new.raised => "PipelineState" \in client.raised
        PROVE  ClientLeaves
    BY <1>1, <1>2 DEF ClientLeaves
  <1>3. ASSUME NEW new, ClientChanges(new), new.pipes = client.pipes,
               new.table = client.table,
               "PipelineState" \in new.raised => "PipelineState" \in client.raised
        PROVE  ClientLeaves
    BY <1>2, <1>3 DEF ClientChanges
  <1>4. ASSUME NEW what, what # "PipelineState"
        PROVE  LET new == Raise(client, what)
               IN  /\ new.pipes = client.pipes /\ new.table = client.table
                   /\ "PipelineState" \in new.raised => "PipelineState" \in client.raised
    BY <1>1, <1>4 DEF Raise, ClientPools
  <1>5. CASE ClientProcessPool(m)
    <2> DEFINE Kept(new) == /\ new.pipes = client.pipes /\ new.table = client.table
                            /\ new.raised = client.raised
    <2>1. /\ Kept([client EXCEPT !.cap = m.version])
          /\ Kept([client EXCEPT !.min = m.min, !.max = m.max])
          /\ \A st : Kept(SetState(client, st))
      BY <1>1 DEF ClientPools, SetState
    <2>2. \E new : ClientChanges(new) /\ Kept(new)
      BY <1>5, <2>1 DEF ClientProcessPool
    <2> QED
      BY <1>3, <1>5, <2>2 DEF ClientProcessPool
  <1>6. CASE ClientProcessAvailability(m)
    <2>1. CASE ClientChanges(Raise(client, m.type))
      BY <1>3, <1>4, <1>6, <2>1 DEF ClientProcessAvailability
    <2>2. CASE \E h \in client.handlers : ClientChanges(Answered(h, m.response))
      <3>1. PICK h \in client.handlers : ClientChanges(Answered(h, m.response))
        BY <2>2
      <3> DEFINE new == Answered(h, m.response)
      <3>2. /\ new.pipes = client.pipes /\ new.table = client.table
            /\ new.raised = client.raised
        BY <1>1 DEF ClientPools, Answered
      <3>3. ClientChanges(new)
        BY <3>1
      <3> HIDE DEF new
      <3> QED
        BY <1>3, <1>6, <3>2, <3>3 DEF ClientProcessAvailability
    <2> QED
      BY <1>6, <2>1, <2>2 DEF ClientProcessAvailability
  <1>7. CASE ClientProcessKey(m)
    <2>1. m.type \in {"EncryptedSessionKey", "PublicKeyRequest"}
      BY <1>7 DEF ClientProcessKey
    <2>2. CASE ClientChanges(Raise(client, m.type))
      BY <1>3, <1>4, <2>1, <2>2
    <2>3. CASE ClientChanges(client)
      BY <1>3, <2>1, <2>3
    <2>4. CASE ClientChanges([client EXCEPT !.cipher = TRUE])
      <3> DEFINE new == [client EXCEPT !.cipher = TRUE]
      <3>1. /\ new.pipes = client.pipes /\ new.table = client.table
            /\ new.raised = client.raised
        BY <1>1 DEF ClientPools
      <3>2. ClientChanges(new)
        BY <2>4
      <3> HIDE DEF new
      <3> QED
        BY <1>3, <2>1, <3>1, <3>2
    <2>5. CASE StartExchange
      <3> DEFINE new == [client EXCEPT !.keyRequested = TRUE, !.key = client.n]
      <3>1. /\ new.pipes = client.pipes /\ new.table = client.table
            /\ new.raised = client.raised
        BY <1>1 DEF ClientPools
      <3>2. ClientDoes(new, Pool, <<PublicKey(client.n)>>)
        BY <2>5 DEF StartExchange
      <3> HIDE DEF new
      <3> QED
        BY <1>2, <2>1, <3>1, <3>2
    <2> QED
      BY <1>7, <2>2, <2>3, <2>4, <2>5 DEF ClientProcessKey
  <1>8. CASE ClientProcessHostCall(t, m)
    <2> DEFINE new == [client EXCEPT !.events = PutCi(@, [ci |-> m.ci, target |-> t])]
    <2>1. /\ new.pipes = client.pipes /\ new.table = client.table
          /\ new.raised = client.raised
      BY <1>1 DEF ClientPools
    <2>2. m.type # "PipelineState" /\ (ClientChanges(client) \/ ClientChanges(new))
      BY <1>8 DEF ClientProcessHostCall
    <2> HIDE DEF new
    <2> QED
      BY <1>3, <2>1, <2>2
  <1> QED
    BY <1>5, <1>6, <1>7, <1>8

\* A message the client takes.
LEMMA ClientEventSteps ==
    ASSUME TypeOK, NEW t \in Targets, ClientNextEvent(t)
    PROVE  /\ \A p \in Pipelines : PipeSteps(p)
           /\ ClientMild \/ \E p \in Pipelines : PipeTold(p) /\ p \notin client.table
           /\ UNCHANGED server
  <1> DEFINE m == Head(toClient[t])
  <1>1. /\ client \in ClientPools /\ client.pipes \in Pipes /\ Pool \in Targets
        /\ IsQueues(toClient, ToClient) /\ IsQueues(toServer, ToServer)
    BY DEF TypeOK, Targets, ClientPools
  <1>2. toClient[t] # <<>> /\ toClient' = [toClient EXCEPT ![t] = Tail(@)]
    BY DEF ClientNextEvent
  <1>3. toClient'[t] = Tail(toClient[t])
        /\ \A p \in Targets : p # t => toClient'[p] = toClient[p]
    BY <1>1, <1>2, PipeQueue
  <1>4. /\ toClient[t] \in Seq(ToClient[t]) /\ m \in ToClient[t]
        /\ Len(Tail(toClient[t])) <= Len(toClient[t])
    BY <1>1, <1>2, HeadTailProperties DEF IsQueues
  <1>5. CASE ClientLeaves /\ m.type # "PipelineState"
    <2>1. ASSUME NEW p \in Pipelines
          PROVE  PipeRests(p)
      <3>1. p \in Targets /\ toClient[p] \in Seq(ToClient[p])
        BY PipeTypes
      <3>2. Len(toClient[p]) <= Len(toClient[p])
        BY <3>1
      <3>3. Len(toClient'[p]) <= Len(toClient[p])
        BY <1>3, <1>4, <3>1, <3>2
      <3>4. Passes(toClient[p], toClient'[p], "PipelineState", ToClient[p])
        BY <1>2, <1>3, <1>5, <3>1 DEF Passes
      <3> QED
        BY <1>5, <3>3, <3>4, ClientLeavesSame DEF PipeRests
    <2> QED
      BY <1>5, <2>1, ClientLeavesSame DEF PipeSteps
  <1>6. CASE ClientProcessPipelineState(t, m)
    <2>1. m.type = "PipelineState" /\ t # Pool /\ t \in Pipelines
      <3>1. m.type = "PipelineState"
        BY <1>6 DEF ClientProcessPipelineState
      <3>2. m \in ToClient[t]
        BY <1>4
      <3> HIDE DEF m
      <3>3. t # Pool
        BY <1>1, <3>1, <3>2 DEF ToClient, Capabilities
      <3> QED
        BY <3>1, <3>3 DEF Targets
    <2> DEFINE new == IF t \in client.table THEN SetPipe(client, t, m.state)
                                            ELSE Raise(client, m.type)
    <2>2. /\ new.pipes[t] = IF t \in client.table THEN m.state ELSE client.pipes[t]
          /\ new.table = client.table
          /\ \A p \in Pipelines : p # t => new.pipes[p] = client.pipes[p]
          /\ t \in client.table => new.raised = client.raised
      BY <1>1, <2>1 DEF SetPipe, Raise, ClientPools, Pipes
    <2>3. ClientDoes(new, Pool, <<>>)
      BY <1>6 DEF ClientProcessPipelineState, ClientChanges
    <2>4. /\ client' = new /\ UNCHANGED server
          /\ toServer' = Queue(toServer, Pool, <<>>)
      BY <2>3 DEF ClientDoes
    <2> HIDE DEF new
    <2>5. \A p \in Targets : toServer'[p] = toServer[p]
      BY <1>1, <2>4, PipeQueue
    <2>6. PipeTold(t)
      BY <1>2, <1>3, <2>1, <2>2, <2>4, <2>5 DEF PipeTold, SameServerPipe
    <2>7. ASSUME NEW p \in Pipelines, p # t
          PROVE  PipeRests(p)
      <3>1. p \in Targets /\ toClient[p] \in Seq(ToClient[p])
        BY PipeTypes
      <3>2. Len(toClient[p]) <= Len(toClient[p])
        BY <3>1
      <3> QED
        BY <1>3, <2>2, <2>4, <2>5, <2>7, <3>1, <3>2
        DEF PipeRests, SameClientPipe, SameServerPipe, Passes
    <2>8. t \in client.table => ClientMild
      BY <2>2, <2>4 DEF ClientMild
    <2> QED
      BY <2>1, <2>4, <2>6, <2>7, <2>8 DEF PipeSteps
  <1>7. \/ ClientProcessPool(m) \/ ClientProcessAvailability(m)
        \/ ClientProcessKey(m) \/ ClientProcessHostCall(t, m)
        \/ ClientProcessPipelineState(t, m)
    BY DEF ClientNextEvent
  <1> HIDE DEF m
  <1>8. CASE \/ ClientProcessPool(m) \/ ClientProcessAvailability(m)
             \/ ClientProcessKey(m) \/ ClientProcessHostCall(t, m)
    BY <1>5, <1>8, ClientHandlerLeaves
  <1> QED
    BY <1>6, <1>7, <1>8

\* The handlers of the server that are not about a pipeline that is created.
\* pool is the server that has received data.
LEMMA ServerHandlerLeaves ==
    ASSUME TypeOK, NEW m, NEW pool \in ServerPools, pool.pipes = server.pipes,
           pool.table = server.table, pool.metadata = server.metadata,
           pool.raised = server.raised,
           pool.state = "Connecting" => server.state = "Connecting",
           \/ ServerProcessCapability(pool, m) \/ ServerProcessInit(pool, m)
           \/ ServerProcessConnect(pool, m) \/ ServerProcessRequest(pool, m)
           \/ ServerProcessKey(pool, m) \/ ServerProcessOther(pool, m)
    PROVE  ServerLeaves /\ m.type # "CreatePipeline"
  <1>1. Pool \in Targets
    BY DEF Targets
  <1> DEFINE Kept(new) == /\ new.pipes = pool.pipes /\ new.table = pool.table
                          /\ new.metadata = pool.metadata
                          /\ new.raised = pool.raised \/ pool.state = "Connecting"
                          /\ new.state = "Connecting" => pool.state = "Connecting"
  <1>2. ASSUME NEW new, NEW msgs, ServerDoes(new, Pool, msgs), Kept(new)
        PROVE  ServerLeaves
    BY <1>1, <1>2 DEF ServerLeaves
  <1>3. ASSUME NEW new \in ServerPools, NEW msgs, ServerTurns(new, msgs, "Opened"),
               Kept(new)
        PROVE  ServerLeaves
    <2>1. Kept(SetState(new, "Opened"))
      BY <1>3 DEF SetState, ServerPools
    <2> HIDE DEF Kept
    <2> QED
      BY <1>2, <1>3, <2>1 DEF ServerTurns
  <1>4. CASE ServerProcessCapability(pool, m)
    <2> DEFINE known  == [pool EXCEPT !.cap = m.version]
               raised == Raise(known, m.type)
               named  == [known EXCEPT !.rpid = m.rpid]
    <2>1. Kept(known) /\ Kept(named) /\ (pool.state = "Connecting" => Kept(raised))
      BY DEF ServerPools, Raise
    <2>2. m.type = "SessionCapability"
          /\ \/ pool.state = "Connecting" /\ ServerDoes(raised, Pool, <<>>)
             \/ ServerDoes(known, Pool, <<>>)
             \/ ServerDoes(named, Pool, <<SessionCapability(ServerVersion, pool.rpid)>>)
      BY <1>4 DEF ServerProcessCapability, ServerChanges
    <2> HIDE DEF known, raised, named, Kept
    <2> QED
      BY <1>2, <2>1, <2>2
  <1>5. CASE ServerProcessInit(pool, m)
    <2> DEFINE new == [pool EXCEPT !.min = m.min, !.max = m.max]
    <2>1. Kept(new) /\ new = [pool EXCEPT !.min = m.min, !.max = m.max]
      BY DEF ServerPools
    <2>2. Kept(SetState(new, "Opened"))
      BY DEF ServerPools, SetState
    <2>3. /\ m.type = "InitRunspacePool"
          /\ ServerTurns(new, <<Plain("ApplicationPrivateData")>>, "Opened")
      BY <1>5 DEF ServerProcessInit
    <2> HIDE DEF new, Kept
    <2> QED
      BY <1>2, <2>2, <2>3 DEF ServerTurns
  <1>6. CASE ServerProcessConnect(pool, m)
    <2>1. Kept(pool)
      OBVIOUS
    <2> HIDE DEF Kept
    <2> QED
      BY <1>3, <1>6, <2>1 DEF ServerProcessConnect
  <1>7. CASE ServerProcessRequest(pool, m)
    <2> DEFINE new == [pool EXCEPT !.requests =
                         PutCi(@, [ci |-> m.ci, kind |-> m.kind,
                                   count |-> m.count, n |-> m.n])]
    <2>1. Kept(new)
      BY DEF ServerPools
    <2>2. m.type = "Request" /\ ServerDoes(new, Pool, <<>>)
      BY <1>7 DEF ServerProcessRequest, ServerChanges
    <2> HIDE DEF new, Kept
    <2> QED
      BY <1>2, <2>1, <2>2
  <1>8. CASE ServerProcessKey(pool, m)
    <2> DEFINE new == [pool EXCEPT !.keyRequested = TRUE]
    <2>1. Kept(new)
      BY DEF ServerPools
    <2>2. m.type = "PublicKey" /\ ServerDoes(new, Pool, <<EncryptedSessionKey(m.key)>>)
      BY <1>8 DEF ServerProcessKey
    <2> HIDE DEF new, Kept
    <2> QED
      BY <1>2, <2>1, <2>2
  <1>9. CASE ServerProcessOther(pool, m)
    <2>1. Kept(pool)
      OBVIOUS
    <2>2. m.type # "CreatePipeline" /\ ServerDoes(pool, Pool, <<>>)
      BY <1>9 DEF ServerProcessOther, ServerChanges
    <2> HIDE DEF Kept
    <2> QED
      BY <1>2, <2>1, <2>2
  <1>10. m.type # "CreatePipeline"
    BY DEF ServerProcessCapability, ServerProcessInit, ServerProcessConnect,
           ServerProcessRequest, ServerProcessKey, ServerProcessOther
  <1> QED
    BY <1>4, <1>5, <1>6, <1>7, <1>8, <1>9, <1>10

\* A message the server takes, whose pipeline has been created.
LEMMA ServerEventSteps ==
    ASSUME TypeOK, NEW t \in Targets, ServerNextEvent(t),
           t # Pool => server.pipes[t] # None
    PROVE  /\ \A p \in Pipelines : PipeSteps(p)
           /\ ServerMild \/ \E p \in Pipelines : PipeTaken(p) /\ p \notin server.table
           /\ UNCHANGED client
  <1> DEFINE m    == Head(toServer[t])
             pool == IF server.state = "BeforeOpen" THEN SetState(server, "Opening")
                                                    ELSE server
  <1>1. /\ server \in ServerPools /\ server.pipes \in Pipes /\ Pool \in Targets
        /\ IsQueues(toClient, ToClient) /\ IsQueues(toServer, ToServer)
    BY DEF TypeOK, Targets, ServerPools
  <1>2. toServer[t] # <<>> /\ toServer' = [toServer EXCEPT ![t] = Tail(@)]
    BY DEF ServerNextEvent
  <1>3. toServer'[t] = Tail(toServer[t])
        /\ \A p \in Targets : p # t => toServer'[p] = toServer[p]
    BY <1>1, <1>2, PipeQueue
  <1>4. toServer[t] \in Seq(ToServer[t]) /\ m \in ToServer[t]
    BY <1>1, <1>2, HeadTailProperties DEF IsQueues
  <1>5. /\ pool \in ServerPools /\ pool.pipes = server.pipes
        /\ pool.table = server.table /\ pool.metadata = server.metadata
        /\ pool.raised = server.raised
        /\ pool.state = "Connecting" <=> server.state = "Connecting"
    BY <1>1 DEF ServerPools, SetState, PoolStates
  <1>6. CASE ServerLeaves /\ m.type # "CreatePipeline"
    <2>1. ASSUME NEW p \in Pipelines
          PROVE  PipeRests(p)
      <3>1. p \in Targets
        BY PipeTypes
      <3>2. Passes(toServer[p], toServer'[p], "CreatePipeline", ToServer[p])
        BY <1>2, <1>3, <1>6, <3>1 DEF Passes
      <3> QED
        BY <1>6, <3>2, ServerLeavesSame DEF PipeRests
    <2> QED
      BY <1>6, <2>1, ServerLeavesSame DEF PipeSteps
  <1>7. CASE ServerProcessCreate(pool, t, m)
    <2>1. m.type = "CreatePipeline" /\ t # Pool /\ t \in Pipelines
      <3>1. m.type = "CreatePipeline"
        BY <1>7 DEF ServerProcessCreate
      <3>2. m \in ToServer[t]
        BY <1>4
      <3> HIDE DEF m
      <3>3. t # Pool
        BY <1>1, <3>1, <3>2 DEF ToServer, Capabilities
      <3> QED
        BY <3>1, <3>3 DEF Targets
    <2> HIDE DEF pool
    <2> DEFINE new == IF t \in pool.table THEN [pool EXCEPT !.metadata = @ \union {t}]
                                          ELSE Raise(pool, m.type)
    <2>2. /\ new.pipes = pool.pipes /\ new.table = pool.table
          /\ t \in new.metadata <=> t \in pool.metadata \/ t \in pool.table
          /\ \A p \in Pipelines : p # t => (p \in new.metadata <=> p \in pool.metadata)
          /\ t \in pool.table => new.raised = pool.raised
          /\ new.state = pool.state
      BY <1>5 DEF Raise, ServerPools
    <2>3. ServerDoes(new, Pool, <<>>)
      BY <1>7 DEF ServerProcessCreate, ServerChanges
    <2>4. /\ server' = new /\ UNCHANGED client
          /\ toClient' = Queue(toClient, Pool, <<>>)
      BY <2>3 DEF ServerDoes
    <2> HIDE DEF new
    <2>5. \A p \in Targets : toClient'[p] = toClient[p]
      BY <1>1, <2>4, PipeQueue
    <2>6. PipeTaken(t)
      BY <1>2, <1>3, <1>5, <2>1, <2>2, <2>4, <2>5 DEF PipeTaken, SameClientPipe
    <2>7. ASSUME NEW p \in Pipelines, p # t
          PROVE  PipeRests(p)
      <3>1. p \in Targets /\ toClient[p] \in Seq(ToClient[p])
        BY PipeTypes
      <3>2. Len(toClient[p]) <= Len(toClient[p])
        BY <3>1
      <3> QED
        BY <1>3, <1>5, <2>2, <2>4, <2>5, <2>7, <3>1, <3>2
        DEF PipeRests, SameClientPipe, SameServerPipe, Passes
    <2>8. t \in server.table => ServerMild
      BY <1>5, <2>2, <2>4 DEF ServerMild
    <2> QED
      BY <2>1, <2>4, <2>6, <2>7, <2>8 DEF PipeSteps
  <1>8. \/ ServerProcessCapability(pool, m) \/ ServerProcessInit(pool, m)
        \/ ServerProcessConnect(pool, m) \/ ServerProcessRequest(pool, m)
        \/ ServerProcessKey(pool, m) \/ ServerProcessCreate(pool, t, m)
        \/ ServerProcessOther(pool, m)
    BY DEF ServerNextEvent
  <1> HIDE DEF m, pool
  <1>9. CASE \/ ServerProcessCapability(pool, m) \/ ServerProcessInit(pool, m)
             \/ ServerProcessConnect(pool, m) \/ ServerProcessRequest(pool, m)
             \/ ServerProcessKey(pool, m) \/ ServerProcessOther(pool, m)
    BY <1>5, <1>6, <1>9, ServerHandlerLeaves
  <1> QED
    BY <1>7, <1>8, <1>9
-----------------------------------------------------------------------------
(* The pipelines of a session *)

\* With the first client nothing that is processed raises, and no other client
\* is awaited.
FirstInv ==
    /\ \A p \in Pipelines : Paired(p) /\ CreatedOnce(p)
    /\ server.state # "Connecting"
    /\ "PipelineState" \notin client.raised /\ server.raised = {}

PipelinesInv ==
    /\ TypeOK
    /\ \A p \in Pipelines : EndsLast(p)
    /\ client.n = 1 => FirstInv

\* Nothing is known of the pipelines of a session that has just begun.
LEMMA PipelinesInitially == Init => PipelinesInv
  <1> SUFFICES ASSUME Init PROVE PipelinesInv
    OBVIOUS
  <1>1. PICK id \in PoolIds : client = NewClientPool(1, id)
    BY DEF Init
  <1>2. /\ client.table = {} /\ client.raised = {}
        /\ server.raised = {} /\ server.metadata = {} /\ server.state = "BeforeOpen"
        /\ \A p \in Pipelines : client.pipes[p] = None /\ server.pipes[p] = None
    BY <1>1 DEF Init, NewClientPool, NewServerPool, NoPipes
  <1>3. \A p \in Pipelines : toServer[p] = <<>> /\ toClient[p] = <<>>
    BY DEF Init, Targets
  <1>4. None \notin Final \union {"NotStarted", "Running", "Stopping"}
    BY DEF None, Final
  <1>5. \A p \in Pipelines : EndsLast(p)
    BY <1>2, <1>3, <1>4 DEF EndsLast
  <1>6. \A p \in Pipelines : Paired(p) /\ CreatedOnce(p)
    BY <1>2, <1>3, <1>4 DEF Paired, CreatedOnce, Creates
  <1> QED
    BY <1>2, <1>5, <1>6, InitTypes DEF PipelinesInv, FirstInv

\* What is still due to a client that is replaced ends with the end.
LEMMA ReplacedEndsLast ==
    ASSUME TypeOK, ClientReplaced, NEW p \in Pipelines, EndsLast(p)
    PROVE  EndsLast(p)'
  <1> DEFINE q == toClient[p]
             r == toClient'[p]
  <1>1. PICK id \in PoolIds : client' = NewClientPool(client.n + 1, id)
    BY DEF ClientReplaced
  <1>2. client'.pipes[p] = None /\ server' = server /\ None \notin Final
    BY <1>1 DEF ClientReplaced, NewClientPool, NoPipes, None, Final
  <1>3. q \in Seq(ToClient[p]) /\ p \in Targets
    BY PipeTypes
  <1>4. PICK k \in 0..Len(q) : r = SubSeq(q, k + 1, Len(q))
    BY <1>3 DEF ClientReplaced, Parts, Backs
  <1>5. k \in Nat /\ Len(q) \in Nat /\ k <= Len(q) /\ k + 1 \in Nat
    BY <1>3
  <1>6. /\ Len(r) = Len(q) - k
        /\ \A i \in DOMAIN r : r[i] = q[i + k]
        /\ DOMAIN r = 1..(Len(q) - k) /\ DOMAIN q = 1..Len(q)
    BY <1>3, <1>4, <1>5
  <1>7. \A i \in DOMAIN q : Ends(q[i]) => i = Len(q) /\ q[i].state = server.pipes[p]
    BY DEF EndsLast
  <1> HIDE DEF q, r
  <1>8. \A i \in DOMAIN r : i + k \in DOMAIN q /\ (i + k = Len(q) => i = Len(r))
    BY <1>5, <1>6
  <1>9. \A i \in DOMAIN r : Ends(r[i]) => i = Len(r) /\ r[i].state = server.pipes[p]
    BY <1>6, <1>7, <1>8
  <1> QED
    BY <1>2, <1>9 DEF EndsLast, Ends, r

\* A step of one of the two programs, or a message that is taken.
LEMMA PipelinesKept ==
    ASSUME PipelinesInv, TypeOK', client'.n = client.n,
           \A p \in Pipelines : PipeSteps(p),
           \/ ClientMild
           \/ \E p \in Pipelines : PipeTold(p) /\ p \notin client.table,
           \/ ServerMild
           \/ \E p \in Pipelines : PipeTaken(p) /\ p \notin server.table
    PROVE  PipelinesInv'
  <1>1. \A p \in Pipelines : EndsLast(p)'
    BY EndsLastStep DEF PipelinesInv
  <1>2. ASSUME client.n = 1
        PROVE  FirstInv'
    <2>1. FirstInv /\ TypeOK /\ \A p \in Pipelines : EndsLast(p)
      BY <1>2 DEF PipelinesInv
    <2>2. \A p \in Pipelines : Paired(p)' /\ CreatedOnce(p)'
      BY <2>1, PairedStep, CreatedStep DEF FirstInv
    <2>3. ASSUME NEW p \in Pipelines, PipeTold(p), p \notin client.table
          PROVE  FALSE
      <3>1. toClient[p] # <<>> /\ client.pipes[p] \in Final \union {None}
        BY <2>1, <2>3 DEF PipeTold, FirstInv, Paired
      <3>2. client.pipes[p] \notin Final
        BY <2>1, <3>1 DEF EndsLast
      <3> QED
        BY <2>1, <3>1, <3>2 DEF FirstInv, Paired
    <2>4. ASSUME NEW p \in Pipelines, PipeTaken(p), p \notin server.table
          PROVE  FALSE
      <3>1. /\ server.pipes[p] \in PipelineStates \union {None} /\ server.pipes[p] # None
            /\ 1 \in Creates(p)
        <4>1. toServer[p] \in Seq(ToServer[p])
          BY <2>1, PipeTypes
        <4>2. toServer[p] # <<>> /\ Head(toServer[p]).type = "CreatePipeline"
              /\ server.pipes[p] # None
          BY <2>4 DEF PipeTaken
        <4>3. 1 \in DOMAIN toServer[p] /\ Head(toServer[p]) = toServer[p][1]
          BY <4>1, <4>2
        <4> QED
          BY <2>1, <4>2, <4>3, PipeTypes DEF Creates
      <3>2. p \notin server.metadata
        BY <2>1, <3>1 DEF FirstInv, CreatedOnce
      <3> QED
        BY <2>1, <2>4, <3>1, <3>2 DEF FirstInv, Paired
    <2>5. ClientMild /\ ServerMild
      BY <2>3, <2>4
    <2> QED
      BY <1>2, <2>1, <2>2, <2>5 DEF FirstInv, ClientMild, ServerMild
  <1> QED
    BY <1>1, <1>2 DEF PipelinesInv

LEMMA PipelinesStep == PipelinesInv /\ [DocumentedNext]_vars => PipelinesInv'
  <1> SUFFICES ASSUME PipelinesInv, [DocumentedNext]_vars PROVE PipelinesInv'
    OBVIOUS
  <1>1. TypeOK /\ TypeOK'
    BY NextTypes, DocumentedIsAllowed DEF PipelinesInv
  <1>2. CASE DocumentedClientCall /\ UNCHANGED toClient
    <2>1. ClientCall
      BY <1>2 DEF DocumentedClientCall, ClientCall, ClientPipelineCall
    <2>2. /\ \A p \in Pipelines : PipeSteps(p)
          /\ ClientMild /\ UNCHANGED server
      BY <1>1, <1>2, ClientCallSteps
    <2>3. ServerMild
      BY <2>2 DEF ServerMild
    <2> QED
      BY <1>1, <2>1, <2>2, <2>3, SameClient, PipelinesKept
  <1>3. CASE DocumentedServerCall /\ UNCHANGED toServer
    <2>1. /\ \A p \in Pipelines : PipeSteps(p)
          /\ ServerMild /\ UNCHANGED client
      BY <1>1, <1>3, ServerCallSteps
    <2>2. ClientMild
      BY <2>1 DEF ClientMild
    <2> QED
      BY <1>1, <2>1, <2>2, PipelinesKept
  <1>4. ASSUME NEW t \in Targets, ClientNextEvent(t)
        PROVE  PipelinesInv'
    <2>1. /\ \A p \in Pipelines : PipeSteps(p)
          /\ ClientMild \/ \E p \in Pipelines : PipeTold(p) /\ p \notin client.table
          /\ UNCHANGED server
      BY <1>1, <1>4, ClientEventSteps
    <2>2. ServerMild
      BY <2>1 DEF ServerMild
    <2> QED
      BY <1>1, <1>4, <2>1, <2>2, SameClient, PipelinesKept
  <1>5. ASSUME NEW t \in Targets, ServerNextEvent(t), t # Pool => server.pipes[t] # None
        PROVE  PipelinesInv'
    <2>1. /\ \A p \in Pipelines : PipeSteps(p)
          /\ ServerMild \/ \E p \in Pipelines : PipeTaken(p) /\ p \notin server.table
          /\ UNCHANGED client
      BY <1>1, <1>5, ServerEventSteps
    <2>2. ClientMild
      BY <2>1 DEF ClientMild
    <2> QED
      BY <1>1, <2>1, <2>2, PipelinesKept
  <1>6. CASE ClientReplaced
    <2>1. PICK id \in PoolIds : client' = NewClientPool(client.n + 1, id)
      BY <1>6 DEF ClientReplaced
    <2>2. client'.n # 1
      BY <1>1, <2>1 DEF TypeOK, ClientPools, NewClientPool
    <2> QED
      BY <1>1, <1>6, <2>2, ReplacedEndsLast DEF PipelinesInv
  <1>7. CASE UNCHANGED vars
    <2>1. UNCHANGED <<client, server, toServer, toClient>>
      BY <1>7 DEF vars
    <2>2. ASSUME NEW p \in Pipelines
          PROVE  PipeSteps(p)
      <3>1. toClient[p] \in Seq(ToClient[p])
        BY <1>1, PipeTypes
      <3>2. Len(toClient[p]) <= Len(toClient[p])
        BY <3>1
      <3> QED
        BY <2>1, <3>2 DEF PipeSteps, PipeRests, Passes, SameClientPipe, SameServerPipe
    <2>3. ClientMild /\ ServerMild
      BY <2>1 DEF ClientMild, ServerMild
    <2> QED
      BY <1>1, <2>1, <2>2, <2>3, PipelinesKept
  <1> QED
    BY <1>2, <1>3, <1>4, <1>5, <1>6, <1>7 DEF DocumentedNext, DocumentedEvent

\* Nothing comes after the end, and nothing is left for a client that knows it.
LEMMA PipelinesPromises ==
    ASSUME PipelinesInv
    PROVE  OutputBeforeEnd /\ (client.n = 1 => PipelinesAgree)
  <1>1. OutputBeforeEnd
    <2> SUFFICES ASSUME NEW p \in Pipelines
                 PROVE  /\ \A i, j \in DOMAIN toClient[p] :
                             Ends(toClient[p][i])
                             /\ toClient[p][j].type \in {"PipelineOutput", "InformationRecord"}
                               => j < i
                        /\ client.pipes[p] \in Final =>
                             \A j \in DOMAIN toClient[p] :
                               toClient[p][j].type \notin {"PipelineOutput", "InformationRecord"}
      BY DEF OutputBeforeEnd, Ends
    <2>1. toClient[p] \in Seq(ToClient[p])
      BY PipeTypes DEF PipelinesInv
    <2>2. /\ \A i \in DOMAIN toClient[p] : Ends(toClient[p][i]) => i = Len(toClient[p])
          /\ client.pipes[p] \in Final => toClient[p] = <<>>
      BY DEF PipelinesInv, EndsLast
    <2>3. DOMAIN toClient[p] = 1..Len(toClient[p]) /\ Len(toClient[p]) \in Nat
      BY <2>1
    <2>4. ASSUME NEW i \in DOMAIN toClient[p], NEW j \in DOMAIN toClient[p],
                 Ends(toClient[p][i]),
                 toClient[p][j].type \in {"PipelineOutput", "InformationRecord"}
          PROVE  j < i
      <3>1. i = Len(toClient[p]) /\ j # i
        BY <2>2, <2>4 DEF Ends
      <3> QED
        BY <2>3, <3>1
    <2> QED
      BY <2>2, <2>4
  <1>2. ASSUME client.n = 1, NEW p \in Pipelines, server.pipes[p] \in Final,
               CountOf(toClient[p], "PipelineState") = 0
        PROVE  client.pipes[p] = server.pipes[p]
    <2>1. toClient[p] \in Seq(ToClient[p]) /\ Paired(p)
      BY <1>2, PipeTypes DEF PipelinesInv, FirstInv
    <2> DEFINE D == {i \in DOMAIN toClient[p] : toClient[p][i].type = "PipelineState"}
    <2>2. Cardinality(D) = 0
      BY <1>2 DEF CountOf, Count
    <2>3. IsFiniteSet(D)
      <3>1. DOMAIN toClient[p] = 1..Len(toClient[p]) /\ Len(toClient[p]) \in Nat
        BY <2>1
      <3>2. IsFiniteSet(1..Len(toClient[p]))
        BY <3>1, FS_Interval
      <3> QED
        BY <3>1, <3>2, FS_Subset
    <2>4. D = {}
      BY <2>2, <2>3, FS_EmptySet
    <2> QED
      BY <1>2, <2>1, <2>4 DEF Paired, Ends
  <1> QED
    BY <1>1, <1>2 DEF PipelinesAgree

\* OutputIsFirst: whatever a running pipeline writes, stops or is asked to stop,
\* and whichever client reads it, its output is on the way before its end, and
\* none is left for a client that has been told of the end.
THEOREM OutputIsFirst == DocumentedSpec => []OutputBeforeEnd
  BY PipelinesInitially, PipelinesStep, PipelinesPromises, PTL DEF DocumentedSpec

\* SameEnd: as long as the first client is there, its pipeline object comes to
\* the same end as the server's, for any number of pipelines and whatever calls
\* to stop them cross the messages of their ends.
THEOREM SameEnd == DocumentedSpec => [](client.n = 1 => PipelinesAgree)
  BY PipelinesInitially, PipelinesStep, PipelinesPromises, PTL DEF DocumentedSpec
-----------------------------------------------------------------------------
(* What a step does to the two pools and to the messages without a pipeline *)

\* A pool that has not been opened; receive_data() leaves BeforeOpen.
New == {"BeforeOpen", "Opening", "Connecting"}
Received(s) == IF s = "BeforeOpen" THEN "Opening" ELSE s

\* A request of the client to be let go.
KeyRefused(pool) == "PublicKeyRequest" \in pool.raised

SameClientFields ==
    /\ client'.n = client.n /\ client'.rpid = client.rpid
    /\ client'.min = client.min /\ client'.max = client.max
    /\ client'.handlers = client.handlers
    /\ KeyRefused(client') => KeyRefused(client)
SameClientPool == SameClientFields /\ client'.state = client.state

SameServerFields ==
    /\ server'.rpid = server.rpid /\ server'.requests = server.requests
    /\ server'.min = server.min /\ server'.max = server.max
SameServerPool == SameServerFields /\ server'.state = server.state

Sent(msgs)     == toServer'[Pool] = toServer[Pool] \o msgs
Told(msgs)     == toClient'[Pool] = toClient[Pool] \o msgs
SamePoolQueues == Sent(<<>>) /\ Told(<<>>)

\* Messages that are about neither the opening nor the counts.
PoolRests ==
    /\ SameClientPool /\ SameServerPool
    /\ \/ Sent(<<>>)
       \/ /\ client.state # "BeforeOpen"
          /\ \E m \in ToServer[Pool] : m.type \in {"PublicKey", "HostResponse"} /\ Sent(<<m>>)
    /\ \/ Told(<<>>)
       \/ \E m \in ToClient[Pool] :
            /\ m.type \in {"UserEvent", "HostCall", "PublicKeyRequest"}
            /\ m.type = "PublicKeyRequest" => "request_key" \in Calls
            /\ Told(<<m>>)

PoolOpens ==
    /\ client.state = "BeforeOpen" /\ client'.state \in {"Opening", "Connecting"}
    /\ SameClientFields /\ SameServerPool /\ Told(<<>>)
    /\ \E m \in {InitRunspacePool(client.min, client.max), Plain("ConnectRunspacePool")} :
         Sent(<<SessionCapability(ClientVersion, client.rpid), m>>)

PoolTurns ==
    /\ client.state \notin New /\ client'.state \notin New
    /\ SameClientFields /\ SameServerPool /\ SamePoolQueues

PoolSets ==
    /\ client.state = "BeforeOpen" /\ client'.state = "BeforeOpen"
    /\ client'.n = client.n /\ client'.rpid = client.rpid
    /\ client'.handlers = client.handlers
    /\ KeyRefused(client') => KeyRefused(client)
    /\ SameServerPool /\ SamePoolQueues

\* What the handler of a call sets, for the kind of its request.
Asked(kind, field) == field = IF kind \in {"min", "max"} THEN kind ELSE None

PoolAsks ==
    \E kind \in {"available", "reset", "min", "max"}, field \in {None, "min", "max"} :
    \E value \in Nat :
        /\ Asked(kind, field) /\ client.state # "BeforeOpen"
        /\ client'.state = client.state
        /\ client'.n = client.n /\ client'.rpid = client.rpid
        /\ client'.min = client.min /\ client'.max = client.max
        /\ client'.handlers = client.handlers
             \union {[ci |-> client.ci, field |-> field, value |-> value]}
        /\ KeyRefused(client') => KeyRefused(client)
        /\ SameServerPool /\ Told(<<>>)
        /\ Sent(<<Request(kind, client.ci, value, client.n)>>)

PoolServes ==
    /\ SameClientPool /\ SameServerFields /\ Sent(<<>>)
    /\ \/ /\ server.state = "Disconnected" /\ server'.state = "Connecting"
          /\ client.state \in {"BeforeOpen", "Connecting"} /\ Told(<<>>)
       \/ /\ server.state \in {"Opened", "Closing", "Disconnected", "Broken"}
          /\ server.state = "Disconnected" => client.state = "Opened"
          /\ server'.state \in {"Opened", "Closing", "Closed", "Broken"}
          /\ Told(<<RunspacePoolStateMsg(server'.state)>>)
       \/ /\ server.state = "Opened" => client.state \in {"Disconnecting", "Disconnected"}
          /\ server.state \in {"Opened", "Disconnecting"}
          /\ server'.state \in {"Disconnecting", "Disconnected"}
          /\ server.state = "Disconnecting" => server'.state = "Disconnected"
          /\ Told(<<>>)

PoolAnswers ==
    \E r \in server.requests, response \in BOOLEAN :
        /\ SameClientPool /\ Sent(<<>>)
        /\ server'.state = server.state /\ server'.rpid = server.rpid
        /\ server'.requests = server.requests \ {r}
        /\ server'.max = IF response /\ r.kind = "max" THEN r.count ELSE server.max
        /\ server'.min = IF response /\ r.kind = "min" THEN r.count ELSE server.min
        /\ Told(<<RunspaceAvailability(r.ci, response, r.n)>>)

\* The client takes a message, and may answer a request for the key.
Hears(m) ==
    /\ toClient[Pool] # <<>> /\ m = Head(toClient[Pool])
    /\ toClient'[Pool] = Tail(toClient[Pool])
    /\ client'.n = client.n /\ client'.rpid = client.rpid
    /\ KeyRefused(client') => KeyRefused(client) \/ m.type = "PublicKeyRequest"
    /\ SameServerPool

PoolHears ==
    \E m \in ToClient[Pool] :
        /\ Hears(m)
        /\ \/ /\ m.type \in {"SessionCapability", "ApplicationPrivateData", "UserEvent",
                             "PublicKeyRequest", "EncryptedSessionKey", "HostCall"}
              /\ \/ client'.state = client.state
                 \/ /\ m.type = "ApplicationPrivateData"
                    /\ client.state = "Connecting" /\ client'.state = "Opened"
              /\ client'.min = client.min /\ client'.max = client.max
              /\ client'.handlers = client.handlers
              /\ Sent(<<>>) \/ (client.state = "Opened" /\ Sent(<<PublicKey(client.n)>>))
           \/ /\ m.type = "RunspacePoolState" /\ client'.state = m.state
              /\ client'.min = client.min /\ client'.max = client.max
              /\ client'.handlers = client.handlers /\ Sent(<<>>)
           \/ /\ m.type = "RunspacePoolInitData" /\ client'.state = client.state
              /\ client'.min = m.min /\ client'.max = m.max
              /\ client'.handlers = client.handlers /\ Sent(<<>>)
           \/ /\ m.type = "RunspaceAvailability" /\ client'.state = client.state /\ Sent(<<>>)
              /\ \A h \in client.handlers : h.ci # m.ci
              /\ client'.min = client.min /\ client'.max = client.max
              /\ client'.handlers = client.handlers
           \/ /\ m.type = "RunspaceAvailability" /\ client'.state = client.state /\ Sent(<<>>)
              /\ \E h \in client.handlers :
                    /\ h.ci = m.ci /\ client'.handlers = client.handlers \ {h}
                    /\ client'.max = IF m.response /\ h.field = "max" THEN h.value
                                                                      ELSE client.max
                    /\ client'.min = IF m.response /\ h.field = "min" THEN h.value
                                                                      ELSE client.min

\* The server takes a message of a pipeline.
PoolStirs ==
    /\ SameClientPool /\ SameServerFields /\ SamePoolQueues
    /\ server'.state = Received(server.state)

Reads(m) ==
    /\ toServer[Pool] # <<>> /\ m = Head(toServer[Pool])
    /\ toServer'[Pool] = Tail(toServer[Pool])
    /\ SameClientPool

Record(m) == [ci |-> m.ci, kind |-> m.kind, count |-> m.count, n |-> m.n]

PoolReads ==
    \E m \in ToServer[Pool] :
        /\ Reads(m)
        /\ \/ /\ m.type = "SessionCapability" /\ server.state = "Connecting"
              /\ SameServerPool /\ Told(<<>>)
           \/ /\ m.type = "SessionCapability" /\ server'.state = Received(server.state)
              /\ server'.rpid = m.rpid /\ server'.requests = server.requests
              /\ server'.min = server.min /\ server'.max = server.max
              /\ Told(<<SessionCapability(ServerVersion, server.rpid)>>)
           \/ /\ m.type = "InitRunspacePool" /\ server'.state = "Opened"
              /\ server'.rpid = server.rpid /\ server'.requests = server.requests
              /\ server'.min = m.min /\ server'.max = m.max
              /\ Told(<<Plain("ApplicationPrivateData"), RunspacePoolStateMsg("Opened")>>)
           \/ /\ m.type = "ConnectRunspacePool" /\ server'.state = "Opened"
              /\ SameServerFields
              /\ Told(<<RunspacePoolInitData(server.min, server.max),
                        Plain("ApplicationPrivateData"), RunspacePoolStateMsg("Opened")>>)
           \/ /\ m.type = "Request" /\ server'.state = Received(server.state)
              /\ server'.rpid = server.rpid
              /\ server'.requests = PutCi(server.requests, Record(m))
              /\ server'.min = server.min /\ server'.max = server.max
              /\ Told(<<>>)
           \/ /\ m.type \in {"PublicKey", "HostResponse"}
              /\ server'.state = Received(server.state)
              /\ SameServerFields
              /\ Told(<<>>) \/ (m.type = "PublicKey" /\ Told(<<EncryptedSessionKey(m.key)>>))

PoolSteps ==
    \/ PoolRests \/ PoolOpens \/ PoolTurns \/ PoolSets \/ PoolAsks \/ PoolServes
    \/ PoolAnswers \/ PoolHears \/ PoolStirs \/ PoolReads
-----------------------------------------------------------------------------
\* The queues of the pool when a message of a target is put or taken.
LEMMA PoolQueue ==
    ASSUME NEW queues, NEW Kinds, IsQueues(queues, Kinds), NEW t \in Targets, NEW msgs
    PROVE  /\ t # Pool => Queue(queues, t, msgs)[Pool] = queues[Pool] \o <<>>
           /\ Queue(queues, Pool, msgs)[Pool] = queues[Pool] \o msgs
           /\ t # Pool => [queues EXCEPT ![t] = Tail(@)][Pool] = queues[Pool] \o <<>>
           /\ [queues EXCEPT ![Pool] = Tail(@)][Pool] = Tail(queues[Pool])
           /\ queues[Pool] \o <<>> = queues[Pool]
  <1>1. Pool \in Targets
    BY DEF Targets
  <1>2. queues[Pool] \in Seq(Kinds[Pool])
    BY <1>1 DEF IsQueues
  <1>3. queues[Pool] \o <<>> = queues[Pool]
    BY <1>2
  <1>4. Queue(queues, Pool, msgs)[Pool] = queues[Pool] \o msgs
    BY <1>1 DEF IsQueues, Queue
  <1> QED
    BY <1>1, <1>3, <1>4, PipeQueue

\* A client whose pool fields a call leaves, and the message it may send.
LEMMA ClientPoolRests ==
    ASSUME TypeOK, UNCHANGED toClient, NEW t \in Targets, NEW new, NEW msgs,
           ClientDoes(new, t, msgs), new.n = client.n, new.rpid = client.rpid,
           new.min = client.min, new.max = client.max, new.handlers = client.handlers,
           new.raised = client.raised, new.state = client.state,
           \/ t # Pool \/ msgs = <<>>
           \/ /\ client.state # "BeforeOpen"
              /\ \E m \in ToServer[Pool] :
                   m.type \in {"PublicKey", "HostResponse"} /\ msgs = <<m>>
    PROVE  PoolRests
  <1>1. client' = new /\ toServer' = Queue(toServer, t, msgs) /\ UNCHANGED server
    BY DEF ClientDoes
  <1>2. SameClientPool /\ SameServerPool
    BY <1>1 DEF SameClientPool, SameClientFields, SameServerPool, SameServerFields, KeyRefused
  <1>3. Told(<<>>)
    BY PoolQueue DEF Told, TypeOK
  <1>4. IF t # Pool THEN Sent(<<>>) ELSE Sent(msgs)
    BY <1>1, PoolQueue, ZenonT(30) DEF Sent, TypeOK
  <1> QED
    BY <1>2, <1>3, <1>4 DEF PoolRests

\* Opening a pool, and turning it.
LEMMA ClientTurnsPool ==
    ASSUME TypeOK, UNCHANGED toClient,
           \/ ClientOpen
           \/ client.state = "BeforeOpen" /\ ClientConnect
           \/ client.state = "Opened" /\ (ClientBeginClose \/ ClientBeginDisconnect)
           \/ client.state = "Closing" /\ ClientClose
           \/ client.state = "Disconnecting" /\ ClientDisconnect
           \/ client.state = "Disconnected" /\ ClientReconnect
    PROVE  PoolOpens \/ PoolTurns
  <1>1. client \in ClientPools
    BY DEF TypeOK
  <1>2. Told(<<>>)
    BY PoolQueue DEF Told, TypeOK
  <1>3. ASSUME NEW st, NEW msgs, ClientDoes(SetState(client, st), Pool, msgs)
        PROVE  SameClientFields /\ SameServerPool /\ Sent(msgs) /\ client'.state = st
    <2> DEFINE new == SetState(client, st)
    <2>1. /\ new.n = client.n /\ new.rpid = client.rpid /\ new.min = client.min
          /\ new.max = client.max /\ new.handlers = client.handlers
          /\ new.raised = client.raised /\ new.state = st
      BY <1>1 DEF SetState, ClientPools
    <2>2. client' = new /\ toServer' = Queue(toServer, Pool, msgs) /\ UNCHANGED server
      BY <1>3 DEF ClientDoes
    <2> HIDE DEF new
    <2>3. Sent(msgs)
      BY <2>2, PoolQueue DEF Sent, TypeOK, Targets
    <2> QED
      BY <2>1, <2>2, <2>3 DEF SameClientFields, SameServerPool, SameServerFields, KeyRefused
  <1>4. CASE ClientOpen
    BY <1>2, <1>3, <1>4 DEF ClientOpen, PoolOpens
  <1>5. CASE client.state = "BeforeOpen" /\ ClientConnect
    BY <1>2, <1>3, <1>5 DEF ClientConnect, PoolOpens
  <1>6. ASSUME NEW st, st \notin New, client.state \notin New,
               ClientChanges(SetState(client, st))
        PROVE  PoolTurns
    BY <1>2, <1>3, <1>6 DEF ClientChanges, PoolTurns, SamePoolQueues
  <1>7. CASE \/ client.state = "Opened" /\ (ClientBeginClose \/ ClientBeginDisconnect)
             \/ client.state = "Closing" /\ ClientClose
             \/ client.state = "Disconnecting" /\ ClientDisconnect
             \/ client.state = "Disconnected" /\ ClientReconnect
    BY <1>6, <1>7 DEF New, ClientBeginClose, ClientBeginDisconnect, ClientClose,
                      ClientDisconnect, ClientReconnect
  <1> QED
    BY <1>4, <1>5, <1>7

\* A request with a call id.
LEMMA ClientAsksPool ==
    ASSUME TypeOK, UNCHANGED toClient, client.state # "BeforeOpen",
           NEW kind \in {"available", "reset", "min", "max"},
           NEW field \in {None, "min", "max"}, NEW value \in Nat,
           Asked(kind, field), SendRequest(kind, field, value)
    PROVE  PoolAsks
  <1> DEFINE new == [client EXCEPT
                       !.ci = @ + 1,
                       !.handlers = @ \union {[ci |-> client.ci, field |-> field,
                                               value |-> value]}]
             m   == Request(kind, client.ci, value, client.n)
  <1>1. /\ new.n = client.n /\ new.rpid = client.rpid /\ new.min = client.min
        /\ new.max = client.max /\ new.raised = client.raised /\ new.state = client.state
        /\ new.handlers = client.handlers
             \union {[ci |-> client.ci, field |-> field, value |-> value]}
    BY DEF TypeOK, ClientPools
  <1>2. ClientDoes(new, Pool, <<m>>)
    BY DEF SendRequest
  <1>3. client' = new /\ toServer' = Queue(toServer, Pool, <<m>>) /\ UNCHANGED server
    BY <1>2 DEF ClientDoes
  <1> HIDE DEF new
  <1>4. Sent(<<m>>) /\ Told(<<>>)
    BY <1>3, PoolQueue, ZenonT(30) DEF Sent, Told, TypeOK, Targets
  <1> QED
    BY <1>1, <1>3, <1>4 DEF PoolAsks, SameServerPool, SameServerFields, KeyRefused

LEMMA ClientRequestsPool ==
    ASSUME TypeOK, UNCHANGED toClient, ClientRequests
    PROVE  PoolRests \/ PoolSets \/ PoolAsks
  <1>1. client \in ClientPools /\ Pool \in Targets /\ Counts \subseteq Nat
    BY RunspacePoolAssumption DEF TypeOK, Targets
  <1>2. CASE get_available_runspaces \/ reset_runspace_state
    <2>1. Asked("available", None) /\ Asked("reset", None) /\ 0 \in Nat
      BY DEF Asked
    <2> QED
      BY <1>2, <2>1, ClientAsksPool DEF get_available_runspaces, reset_runspace_state
  <1>3. ASSUME NEW v \in Counts, set_max_runspaces(v) \/ set_min_runspaces(v)
        PROVE  PoolRests \/ PoolSets \/ PoolAsks
    <2>1. Asked("max", "max") /\ Asked("min", "min") /\ v \in Nat
      BY <1>1 DEF Asked
    <2> DEFINE max == [client EXCEPT !.max = v]
               min == [client EXCEPT !.min = v]
    <2>2. CASE client.state # "BeforeOpen" /\ (SendRequest("max", "max", v)
                                               \/ SendRequest("min", "min", v))
      BY <2>1, <2>2, ClientAsksPool
    <2>3. ASSUME NEW new \in {max, min}, ClientDoes(new, Pool, <<>>),
                 client.state = "BeforeOpen" \/ new = client
          PROVE  PoolRests \/ PoolSets
      <3>1. /\ new.n = client.n /\ new.rpid = client.rpid /\ new.handlers = client.handlers
            /\ new.raised = client.raised /\ new.state = client.state
        BY <1>1 DEF ClientPools
      <3> HIDE DEF max, min
      <3>2. CASE new = client
        BY <1>1, <2>3, <3>1, <3>2, ClientPoolRests
      <3>3. CASE client.state = "BeforeOpen"
        <4>1. client' = new /\ toServer' = Queue(toServer, Pool, <<>>) /\ UNCHANGED server
          BY <2>3 DEF ClientDoes
        <4>2. Sent(<<>>) /\ Told(<<>>)
          BY <4>1, PoolQueue DEF Sent, Told, TypeOK, Targets
        <4> QED
          BY <3>1, <3>3, <4>1, <4>2
          DEF PoolSets, SamePoolQueues, SameServerPool, SameServerFields, KeyRefused
      <3> QED
        BY <2>3, <3>2, <3>3
    <2>4. /\ client.max = v => max = client
          /\ client.min = v => min = client
      BY <1>1 DEF ClientPools
    <2>5. \/ SendRequest("max", "max", v) /\ client.state # "BeforeOpen"
          \/ SendRequest("min", "min", v) /\ client.state # "BeforeOpen"
          \/ ClientDoes(max, Pool, <<>>) /\ (client.state = "BeforeOpen" \/ client.max = v)
          \/ ClientDoes(min, Pool, <<>>) /\ (client.state = "BeforeOpen" \/ client.min = v)
      BY <1>3 DEF set_max_runspaces, set_min_runspaces, ClientChanges
    <2> HIDE DEF max, min
    <2> QED
      BY <2>2, <2>3, <2>4, <2>5
  <1>4. CASE exchange_key
    <2> DEFINE new == [client EXCEPT !.keyRequested = TRUE, !.key = client.n]
    <2>1. /\ new.n = client.n /\ new.rpid = client.rpid /\ new.min = client.min
          /\ new.max = client.max /\ new.handlers = client.handlers
          /\ new.raised = client.raised /\ new.state = client.state
      BY <1>1 DEF ClientPools
    <2>2. ClientDoes(new, Pool, <<PublicKey(client.n)>>) /\ client.state = "Opened"
      BY <1>4 DEF exchange_key, StartExchange, CanExchangeKey
    <2>3. PublicKey(client.n) \in ToServer[Pool] /\ PublicKey(client.n).type = "PublicKey"
      BY <1>1 DEF PublicKey, ToServer, ClientPools
    <2> HIDE DEF new
    <2> DEFINE msgs == <<PublicKey(client.n)>>
    <2>4. /\ ClientDoes(new, Pool, msgs) /\ client.state # "BeforeOpen"
          /\ \E m \in ToServer[Pool] : m.type \in {"PublicKey", "HostResponse"} /\ msgs = <<m>>
      BY <2>2, <2>3
    <2> HIDE DEF msgs
    <2> QED
      BY <1>1, <2>1, <2>4, ClientPoolRests
  <1>5. CASE ClientHostResponse
    <2>1. PICK event \in client.events : host_response(event)
      BY <1>5 DEF ClientHostResponse
    <2>2. event.target \in Targets /\ event.ci \in Nat
      BY <1>1, <2>1 DEF ClientPools, Events
    <2> DEFINE new  == [client EXCEPT !.events = @ \ {event}]
               msgs == <<HostResponse(event.ci)>>
    <2>3. /\ new.n = client.n /\ new.rpid = client.rpid /\ new.min = client.min
          /\ new.max = client.max /\ new.handlers = client.handlers
          /\ new.raised = client.raised /\ new.state = client.state
      BY <1>1 DEF ClientPools
    <2>4. HostResponse(event.ci) \in ToServer[Pool]
          /\ HostResponse(event.ci).type = "HostResponse"
      BY <1>1, <2>2 DEF HostResponse, ToServer
    <2>5. /\ ClientDoes(new, event.target, msgs) /\ client.state # "BeforeOpen"
          /\ \E m \in ToServer[Pool] : m.type \in {"PublicKey", "HostResponse"} /\ msgs = <<m>>
      BY <2>1, <2>4 DEF host_response
    <2> HIDE DEF new, msgs
    <2> QED
      BY <2>2, <2>3, <2>5, ClientPoolRests
  <1> QED
    BY <1>2, <1>3, <1>4, <1>5 DEF ClientRequests

\* The calls of a pipeline leave the pool's fields.
LEMMA ClientPipelinePool ==
    ASSUME TypeOK, UNCHANGED toClient, NEW p \in Pipelines,
           \/ ClientNewPipeline(p) \/ ClientStart(p) \/ ClientSend(p)
           \/ ClientBeginStop(p) \/ ClientClosePipeline(p)
    PROVE  PoolRests
  <1>1. client \in ClientPools /\ Pool \in Targets /\ p \in Targets /\ p # Pool
    BY PipeTypes DEF TypeOK, Targets
  <1> DEFINE Kept(new) == /\ new.n = client.n /\ new.rpid = client.rpid
                          /\ new.min = client.min /\ new.max = client.max
                          /\ new.handlers = client.handlers
                          /\ new.raised = client.raised /\ new.state = client.state
  <1>2. /\ \A s : Kept(SetPipe(client, p, s))
        /\ Kept(Created(client, p)) /\ Kept(ClosedPipeline(client, p)) /\ Kept(client)
    BY <1>1 DEF ClientPools, SetPipe, Created, ClosedPipeline
  <1>3. \E new : Kept(new) /\ (ClientChanges(new) \/ \E msgs : ClientDoes(new, p, msgs))
    BY <1>2 DEF ClientNewPipeline, ClientStart, ClientSend, ClientBeginStop,
                ClientClosePipeline
  <1> QED
    BY <1>1, <1>3, ClientPoolRests DEF ClientChanges

\* Every call of the client's program.
LEMMA ClientCallPool ==
    ASSUME TypeOK, DocumentedClientCall, UNCHANGED toClient
    PROVE  PoolSteps
  <1>1. (\E p \in Pipelines : ClientPipelineHostResponse(p)) => ClientRequests
    BY DEF ClientPipelineHostResponse, ClientRequests
  <1> QED
    BY <1>1, ClientTurnsPool, ClientRequestsPool, ClientPipelinePool
    DEF DocumentedClientCall, PoolSteps

\* A server whose pool fields a call leaves, and the message it may send.
LEMMA ServerPoolRests ==
    ASSUME TypeOK, UNCHANGED toServer, NEW t \in Targets, NEW new, NEW msgs,
           ServerDoes(new, t, msgs), new.rpid = server.rpid, new.min = server.min,
           new.max = server.max, new.requests = server.requests, new.state = server.state,
           \/ t # Pool \/ msgs = <<>>
           \/ \E m \in ToClient[Pool] :
                /\ m.type \in {"UserEvent", "HostCall", "PublicKeyRequest"}
                /\ m.type = "PublicKeyRequest" => "request_key" \in Calls
                /\ msgs = <<m>>
    PROVE  PoolRests
  <1>1. server' = new /\ toClient' = Queue(toClient, t, msgs) /\ UNCHANGED client
    BY DEF ServerDoes
  <1>2. SameClientPool /\ SameServerPool
    BY <1>1 DEF SameClientPool, SameClientFields, SameServerPool, SameServerFields, KeyRefused
  <1>3. Sent(<<>>)
    BY PoolQueue DEF Sent, TypeOK
  <1>4. IF t # Pool THEN Told(<<>>) ELSE Told(msgs)
    BY <1>1, PoolQueue DEF Told, TypeOK
  <1> QED
    BY <1>2, <1>3, <1>4 DEF PoolRests

\* The states of the server, and what the client is told of them.
LEMMA ServerTurnsPool ==
    ASSUME TypeOK, UNCHANGED toServer,
           \/ client.state \in {"BeforeOpen", "Connecting"} /\ ServerConnect
           \/ server.state = "Opened" /\ ServerBeginClose
           \/ server.state = "Closing" /\ ServerClose
           \/ client.state \in {"Disconnecting", "Disconnected"} /\ server.state = "Opened"
                /\ (ServerBeginDisconnect \/ ServerDisconnect)
           \/ server.state = "Disconnecting" /\ ServerDisconnect
           \/ client.state = "Opened" /\ server.state = "Disconnected" /\ ServerReconnect
           \/ set_broken
    PROVE  PoolServes
  <1>1. server \in ServerPools
    BY DEF TypeOK
  <1>2. Sent(<<>>)
    BY PoolQueue DEF Sent, TypeOK
  <1>3. ASSUME NEW old \in {server, [server EXCEPT !.ci = 1]}, NEW st,
               ServerTurns(old, <<>>, st)
        PROVE  /\ SameClientPool /\ SameServerFields /\ server'.state = st
               /\ Told(<<>> \o StateMsgs(st))
    <2> DEFINE new  == SetState(old, st)
               msgs == <<>> \o StateMsgs(st)
    <2>1. /\ new.rpid = server.rpid /\ new.min = server.min /\ new.max = server.max
          /\ new.requests = server.requests /\ new.state = st
      BY <1>1 DEF SetState, ServerPools
    <2>2. ServerDoes(new, Pool, msgs)
      BY <1>3 DEF ServerTurns
    <2> HIDE DEF new, msgs
    <2>3. server' = new /\ toClient' = Queue(toClient, Pool, msgs) /\ UNCHANGED client
      BY <2>2 DEF ServerDoes
    <2>4. Told(msgs)
      BY <2>3, PoolQueue DEF Told, TypeOK, Targets
    <2> QED
      BY <2>1, <2>3, <2>4
      DEF SameClientPool, SameClientFields, SameServerFields, KeyRefused, msgs
  <1>4. /\ \A st \in {"Connecting", "Disconnecting", "Disconnected"} :
             <<>> \o StateMsgs(st) = <<>>
        /\ \A st \in {"Opened", "Closing", "Closed", "Broken"} :
             <<>> \o StateMsgs(st) = <<RunspacePoolStateMsg(st)>>
    BY DEF StateMsgs
  <1> DEFINE fresh == [server EXCEPT !.ci = 1]
  <1>5. CASE client.state \in {"BeforeOpen", "Connecting"} /\ ServerConnect
    <2>1. server.state = "Disconnected" /\ ServerTurns(fresh, <<>>, "Connecting")
      BY <1>5 DEF ServerConnect
    <2> HIDE DEF fresh
    <2>2. /\ SameClientPool /\ SameServerFields /\ server'.state = "Connecting"
          /\ Told(<<>> \o StateMsgs("Connecting"))
      BY <1>3, <2>1 DEF fresh
    <2>3. Told(<<>>)
      BY <1>4, <2>2
    <2> QED
      BY <1>2, <1>5, <2>1, <2>2, <2>3 DEF PoolServes
  <1>6. ASSUME NEW st \in {"Opened", "Closing", "Closed", "Broken"},
               ServerTurns(server, <<>>, st),
               server.state \in {"Opened", "Closing", "Disconnected", "Broken"},
               server.state = "Disconnected" => client.state = "Opened"
        PROVE  PoolServes
    <2>1. /\ SameClientPool /\ SameServerFields /\ server'.state = st
          /\ Told(<<>> \o StateMsgs(st))
      BY <1>3, <1>6
    <2>2. Told(<<RunspacePoolStateMsg(server'.state)>>)
      BY <1>4, <2>1
    <2> QED
      BY <1>2, <1>6, <2>1, <2>2 DEF PoolServes
  <1>7. ASSUME NEW st \in {"Disconnecting", "Disconnected"},
               ServerTurns(server, <<>>, st),
               server.state \in {"Opened", "Disconnecting"},
               server.state = "Opened" => client.state \in {"Disconnecting", "Disconnected"},
               server.state = "Disconnecting" => st = "Disconnected"
        PROVE  PoolServes
    <2>1. /\ SameClientPool /\ SameServerFields /\ server'.state = st
          /\ Told(<<>> \o StateMsgs(st))
      BY <1>3, <1>7
    <2>2. Told(<<>>)
      BY <1>4, <2>1
    <2> QED
      BY <1>2, <1>7, <2>1, <2>2 DEF PoolServes
  <1>8. CASE \/ server.state = "Opened" /\ ServerBeginClose
             \/ server.state = "Closing" /\ ServerClose
             \/ client.state = "Opened" /\ server.state = "Disconnected" /\ ServerReconnect
             \/ set_broken
    BY <1>6, <1>8 DEF ServerBeginClose, ServerClose, ServerReconnect, set_broken
  <1>9. CASE \/ client.state \in {"Disconnecting", "Disconnected"} /\ server.state = "Opened"
                  /\ (ServerBeginDisconnect \/ ServerDisconnect)
             \/ server.state = "Disconnecting" /\ ServerDisconnect
    BY <1>7, <1>9 DEF ServerBeginDisconnect, ServerDisconnect
  <1> QED
    BY <1>5, <1>8, <1>9

\* The messages the server sends by itself, and its answers.
LEMMA ServerRequestsPool ==
    ASSUME TypeOK, UNCHANGED toServer, ServerRequests
    PROVE  PoolRests \/ PoolAnswers
  <1>1. server \in ServerPools /\ Pool \in Targets
    BY DEF TypeOK, Targets
  <1>2. ASSUME NEW new, NEW m \in ToClient[Pool], ServerDoes(new, Pool, <<m>>),
               new.rpid = server.rpid, new.min = server.min, new.max = server.max,
               new.requests = server.requests, new.state = server.state,
               m.type \in {"UserEvent", "HostCall", "PublicKeyRequest"},
               m.type = "PublicKeyRequest" => "request_key" \in Calls
        PROVE  PoolRests
    <2> DEFINE msgs == <<m>>
    <2>1. ServerDoes(new, Pool, msgs)
      BY <1>2
    <2>2. \E n \in ToClient[Pool] :
            /\ n.type \in {"UserEvent", "HostCall", "PublicKeyRequest"}
            /\ n.type = "PublicKeyRequest" => "request_key" \in Calls
            /\ msgs = <<n>>
      BY <1>2
    <2> HIDE DEF msgs
    <2> QED
      BY <1>1, <1>2, <2>1, <2>2, ServerPoolRests
  <1>3. CASE send_event
    <2>1. Plain("UserEvent") \in ToClient[Pool] /\ Plain("UserEvent").type = "UserEvent"
      BY <1>1 DEF Plain, ToClient
    <2>2. ServerDoes(server, Pool, <<Plain("UserEvent")>>)
      BY <1>3 DEF send_event
    <2> QED
      BY <1>2, <2>1, <2>2
  <1>4. CASE request_key
    <2> DEFINE new == [server EXCEPT !.keyRequested = TRUE]
    <2>1. /\ new.rpid = server.rpid /\ new.min = server.min /\ new.max = server.max
          /\ new.requests = server.requests /\ new.state = server.state
      BY <1>1 DEF ServerPools
    <2>2. Plain("PublicKeyRequest") \in ToClient[Pool]
          /\ Plain("PublicKeyRequest").type = "PublicKeyRequest"
      BY <1>1 DEF Plain, ToClient
    <2>3. ServerDoes(new, Pool, <<Plain("PublicKeyRequest")>>) /\ "request_key" \in Calls
      BY <1>4 DEF request_key, Called
    <2> HIDE DEF new
    <2> QED
      BY <1>2, <2>1, <2>2, <2>3
  <1>5. CASE ServerHostCall
    <2>1. PICK v \in BOOLEAN : host_call(Pool, v)
      BY <1>5 DEF ServerHostCall
    <2> DEFINE ci  == IF v THEN Void ELSE server.ci
               new == [server EXCEPT !.calls = @ + 1, !.ci = IF v THEN @ ELSE @ + 1]
    <2>2. /\ new.rpid = server.rpid /\ new.min = server.min /\ new.max = server.max
          /\ new.requests = server.requests /\ new.state = server.state
      BY <1>1 DEF ServerPools
    <2>3. ServerDoes(new, Pool, <<HostCall(ci)>>)
      BY <2>1 DEF host_call
    <2>4. ci \in Nat
      BY <1>1 DEF ServerPools, Void
    <2> HIDE DEF new, ci
    <2>5. HostCall(ci) \in ToClient[Pool] /\ HostCall(ci).type = "HostCall"
      BY <1>1, <2>4 DEF HostCall, ToClient
    <2> QED
      BY <1>2, <2>2, <2>3, <2>5
  <1>6. CASE Responds
    <2>1. PICK response \in BOOLEAN, r \in server.requests :
            ServerDoes(Responded(r, response), Pool,
                       <<RunspaceAvailability(r.ci, response, r.n)>>)
      BY <1>6 DEF Responds, runspace_availability_response
    <2> DEFINE new  == Responded(r, response)
               msgs == <<RunspaceAvailability(r.ci, response, r.n)>>
    <2>2. /\ new.rpid = server.rpid /\ new.state = server.state
          /\ new.requests = server.requests \ {r}
          /\ new.max = IF response /\ r.kind = "max" THEN r.count ELSE server.max
          /\ new.min = IF response /\ r.kind = "min" THEN r.count ELSE server.min
      BY <1>1 DEF ServerPools, Responded
    <2>3. ServerDoes(new, Pool, msgs)
      BY <2>1
    <2> HIDE DEF new, msgs
    <2>4. server' = new /\ toClient' = Queue(toClient, Pool, msgs) /\ UNCHANGED client
      BY <2>3 DEF ServerDoes
    <2>5. Told(msgs) /\ Sent(<<>>)
      BY <1>1, <2>4, PoolQueue DEF Told, Sent, TypeOK
    <2>6. SameClientPool
      BY <2>4 DEF SameClientPool, SameClientFields, KeyRefused
    <2> QED
      BY <2>2, <2>4, <2>5, <2>6 DEF PoolAnswers, msgs
  <1> QED
    BY <1>3, <1>4, <1>5, <1>6 DEF ServerRequests

\* The calls of a pipeline leave the pool's fields.
LEMMA ServerPipelinePool ==
    ASSUME TypeOK, UNCHANGED toServer, NEW p \in Pipelines, ServerPipelineCall(p)
    PROVE  PoolRests
  <1>1. server \in ServerPools /\ Pool \in Targets /\ p \in Targets /\ p # Pool
    BY PipeTypes DEF TypeOK, Targets
  <1> DEFINE Kept(new) == /\ new.rpid = server.rpid
                          /\ new.min = server.min /\ new.max = server.max
                          /\ new.requests = server.requests /\ new.state = server.state
  <1>2. /\ \A s : Kept(SetPipe(server, p, s))
        /\ Kept(Created(server, p)) /\ Kept(ClosedPipeline(server, p)) /\ Kept(server)
    BY <1>1 DEF ServerPools, SetPipe, Created, ClosedPipeline
  <1>3. ASSUME NEW v \in BOOLEAN, host_call(p, v)
        PROVE  \E new : Kept(new) /\ \E msgs : ServerDoes(new, p, msgs)
    <2> DEFINE new == [server EXCEPT !.calls = @ + 1, !.ci = IF v THEN @ ELSE @ + 1]
    <2>1. Kept(new)
      BY <1>1 DEF ServerPools
    <2>2. \E msgs : ServerDoes(new, p, msgs)
      BY <1>3 DEF host_call
    <2> HIDE DEF new
    <2> QED
      BY <2>1, <2>2
  <1>4. CASE ServerPipelineHostCall(p)
    BY <1>1, <1>3, <1>4, ServerPoolRests DEF ServerPipelineHostCall
  <1>5. CASE \/ ServerNewPipeline(p) \/ ServerStart(p) \/ ServerComplete(p) \/ ServerStop(p)
             \/ ServerBeginStop(p) \/ ServerClosePipeline(p) \/ ServerWrite(p)
    <2>1. \E new : Kept(new) /\ (ServerChanges(new) \/ \E msgs : ServerDoes(new, p, msgs))
      BY <1>2, <1>5 DEF ServerNewPipeline, ServerStart, ServerComplete, ServerStop,
                        ServerBeginStop, ServerClosePipeline, ServerWrite, PipelineTurns
    <2> QED
      BY <1>1, <2>1, ServerPoolRests DEF ServerChanges
  <1> QED
    BY <1>4, <1>5 DEF ServerPipelineCall

\* Every call of the server's program.
LEMMA ServerCallPool ==
    ASSUME TypeOK, DocumentedServerCall, UNCHANGED toServer
    PROVE  PoolSteps
  BY ServerTurnsPool, ServerRequestsPool, ServerPipelinePool
  DEF DocumentedServerCall, PoolSteps, ServerPipelineCall, ServerRuns

\* The client takes a message of a pipeline.
LEMMA ClientEventRests ==
    ASSUME TypeOK, NEW t \in Targets \ {Pool}, ClientNextEvent(t)
    PROVE  PoolRests
  <1> DEFINE m == Head(toClient[t])
  <1>1. /\ client \in ClientPools /\ Pool \in Targets /\ t \in Pipelines
        /\ IsQueues(toClient, ToClient) /\ IsQueues(toServer, ToServer)
    BY DEF TypeOK, Targets
  <1>2. toClient[t] # <<>> /\ toClient' = [toClient EXCEPT ![t] = Tail(@)]
    BY DEF ClientNextEvent
  <1>3. Told(<<>>)
    BY <1>1, <1>2, PoolQueue DEF Told
  <1>4. m \in ToClient[t]
    BY <1>1, <1>2, HeadTailProperties DEF IsQueues
  <1>5. m.type \in {"PipelineState", "PipelineOutput", "InformationRecord", "HostCall"}
    BY <1>1, <1>4, PipeTypes DEF ToClient
  <1> DEFINE Kept(new) == /\ new.n = client.n /\ new.rpid = client.rpid
                          /\ new.min = client.min /\ new.max = client.max
                          /\ new.handlers = client.handlers /\ new.state = client.state
                          /\ KeyRefused(new) => KeyRefused(client)
  <1>6. ASSUME NEW new, ClientChanges(new), Kept(new)
        PROVE  PoolRests
    <2>1. client' = new /\ toServer' = Queue(toServer, Pool, <<>>) /\ UNCHANGED server
      BY <1>6 DEF ClientChanges, ClientDoes
    <2>2. Sent(<<>>)
      BY <1>1, <2>1, PoolQueue DEF Sent
    <2> QED
      BY <1>3, <1>6, <2>1, <2>2
      DEF PoolRests, SameClientPool, SameClientFields, SameServerPool, SameServerFields
  <1>7. /\ Kept(client) /\ \A s : Kept(SetPipe(client, t, s))
        /\ Kept(Raise(client, "PipelineState"))
        /\ \A e : Kept([client EXCEPT !.events = PutCi(@, e)])
    BY <1>1 DEF ClientPools, SetPipe, Raise, KeyRefused
  <1>8. \/ ClientProcessPool(m) \/ ClientProcessHostCall(t, m)
        \/ ClientProcessPipelineState(t, m)
    BY <1>5 DEF ClientNextEvent, ClientProcessAvailability, ClientProcessKey
  <1>9. CASE ClientProcessPool(m)
    <2>1. ClientChanges(client)
      BY <1>5, <1>9 DEF ClientProcessPool
    <2> QED
      BY <1>6, <1>7, <2>1
  <1>10. CASE ClientProcessHostCall(t, m)
    <2>1. \E new : ClientChanges(new) /\ Kept(new)
      BY <1>7, <1>10 DEF ClientProcessHostCall
    <2> QED
      BY <1>6, <2>1
  <1>11. CASE ClientProcessPipelineState(t, m)
    <2>1. \E new : ClientChanges(new) /\ Kept(new)
      BY <1>7, <1>11 DEF ClientProcessPipelineState
    <2> QED
      BY <1>6, <2>1
  <1> QED
    BY <1>8, <1>9, <1>10, <1>11

\* The client takes a message that is not of a pipeline.
LEMMA ClientEventHears ==
    ASSUME TypeOK, ClientNextEvent(Pool)
    PROVE  PoolHears
  <1>1. /\ client \in ClientPools /\ Pool \in Targets
        /\ IsQueues(toClient, ToClient) /\ IsQueues(toServer, ToServer)
    BY DEF TypeOK, Targets
  <1>2. toClient[Pool] # <<>> /\ toClient' = [toClient EXCEPT ![Pool] = Tail(@)]
    BY DEF ClientNextEvent
  <1>3. PICK m \in ToClient[Pool] : m = Head(toClient[Pool])
    BY <1>1, <1>2, HeadTailProperties DEF IsQueues
  <1>4. toClient'[Pool] = Tail(toClient[Pool])
    BY <1>1, <1>2, PoolQueue
  <1>5. \/ ClientProcessPool(m) \/ ClientProcessAvailability(m)
        \/ ClientProcessKey(m) \/ ClientProcessHostCall(Pool, m)
        \/ ClientProcessPipelineState(Pool, m)
    BY <1>3 DEF ClientNextEvent
  <1>6. m.type \notin {"PipelineState", "PipelineOutput", "InformationRecord"}
    BY <1>1 DEF ToClient, Capabilities
  <1>7. ASSUME NEW new, NEW msgs, ClientDoes(new, Pool, msgs), new.n = client.n,
               new.rpid = client.rpid,
               KeyRefused(new) => KeyRefused(client) \/ m.type = "PublicKeyRequest"
        PROVE  client' = new /\ Sent(msgs) /\ Hears(m)
    <2>1. client' = new /\ toServer' = Queue(toServer, Pool, msgs) /\ UNCHANGED server
      BY <1>7 DEF ClientDoes
    <2>2. Sent(msgs)
      BY <1>1, <2>1, PoolQueue DEF Sent
    <2> QED
      BY <1>2, <1>3, <1>4, <1>7, <2>1, <2>2 DEF Hears, SameServerPool, SameServerFields
  <1> DEFINE Same(new) == /\ new.n = client.n /\ new.rpid = client.rpid
                          /\ new.min = client.min /\ new.max = client.max
                          /\ new.handlers = client.handlers
                          /\ KeyRefused(new) => KeyRefused(client) \/ m.type = "PublicKeyRequest"
             Kept(new) == Same(new) /\ new.state = client.state
             Quiet == {"SessionCapability", "ApplicationPrivateData", "UserEvent",
                       "PublicKeyRequest", "EncryptedSessionKey", "HostCall"}
  <1>8. ASSUME NEW new, ClientChanges(new), Kept(new), m.type \in Quiet
        PROVE  PoolHears
    <2>1. client' = new /\ Sent(<<>>) /\ Hears(m)
      BY <1>7, <1>8 DEF ClientChanges
    <2> QED
      BY <1>3, <1>8, <2>1 DEF PoolHears
  <1>9. /\ Kept(client) /\ Kept([client EXCEPT !.cap = m.version])
        /\ Kept([client EXCEPT !.cipher = TRUE])
        /\ \A e : Kept([client EXCEPT !.events = PutCi(@, e)])
    BY <1>1 DEF ClientPools, KeyRefused
  <1>10. /\ \A s : Same(SetState(client, s)) /\ SetState(client, s).state = s
         /\ \A what : what # "PublicKeyRequest" \/ m.type = "PublicKeyRequest" =>
               Kept(Raise(client, what))
    BY <1>1 DEF ClientPools, SetState, Raise, KeyRefused
  <1>11. CASE ClientProcessPool(m)
    <2>1. CASE m.type = "SessionCapability"
      BY <1>8, <1>9, <1>11, <2>1 DEF ClientProcessPool
    <2>2. CASE m.type = "ApplicationPrivateData"
      <3>1. CASE client.state = "Connecting"
        <4>1. ClientChanges(SetState(client, "Opened"))
          BY <1>11, <2>2, <3>1 DEF ClientProcessPool
        <4> DEFINE new == SetState(client, "Opened")
        <4>2. Same(new) /\ new.state = "Opened" /\ ClientChanges(new)
          BY <1>10, <4>1
        <4> HIDE DEF new
        <4>3. client' = new /\ Sent(<<>>) /\ Hears(m)
          BY <1>7, <4>2 DEF ClientChanges
        <4> QED
          BY <1>3, <2>2, <3>1, <4>2, <4>3 DEF PoolHears
      <3>2. CASE client.state # "Connecting"
        BY <1>8, <1>9, <1>11, <2>2, <3>2 DEF ClientProcessPool
      <3> QED
        BY <3>1, <3>2
    <2>3. CASE m.type = "RunspacePoolInitData"
      <3> DEFINE new == [client EXCEPT !.min = m.min, !.max = m.max]
      <3>1. /\ new.n = client.n /\ new.rpid = client.rpid /\ new.state = client.state
            /\ new.min = m.min /\ new.max = m.max /\ new.handlers = client.handlers
            /\ new.raised = client.raised
        BY <1>1 DEF ClientPools
      <3>2. ClientDoes(new, Pool, <<>>)
        BY <1>11, <2>3 DEF ClientProcessPool, ClientChanges
      <3> HIDE DEF new
      <3>3. client' = new /\ Sent(<<>>) /\ Hears(m)
        BY <1>7, <3>1, <3>2 DEF KeyRefused
      <3> QED
        BY <1>3, <2>3, <3>1, <3>3 DEF PoolHears
    <2>4. CASE m.type = "RunspacePoolState"
      <3> DEFINE new == SetState(client, m.state)
      <3>1. Same(new) /\ new.state = m.state
        BY <1>10
      <3>2. ClientDoes(new, Pool, <<>>)
        BY <1>11, <2>4 DEF ClientProcessPool, ClientChanges
      <3> HIDE DEF new
      <3>3. client' = new /\ Sent(<<>>) /\ Hears(m)
        BY <1>7, <3>1, <3>2
      <3> QED
        BY <1>3, <2>4, <3>1, <3>3 DEF PoolHears
    <2>5. CASE m.type = "UserEvent"
      BY <1>8, <1>9, <1>11, <2>5 DEF ClientProcessPool
    <2> QED
      BY <1>6, <1>11, <2>1, <2>2, <2>3, <2>4, <2>5 DEF ClientProcessPool
  <1>12. CASE ClientProcessAvailability(m)
    <2>1. m.type = "RunspaceAvailability"
      BY <1>12 DEF ClientProcessAvailability
    <2>2. CASE {h \in client.handlers : h.ci = m.ci} = {}
      <3>1. ClientChanges(Raise(client, m.type))
        BY <1>12, <2>2 DEF ClientProcessAvailability
      <3>2. Kept(Raise(client, m.type))
        BY <1>10, <2>1
      <3>3. client' = Raise(client, m.type) /\ Sent(<<>>) /\ Hears(m)
        BY <1>7, <3>1, <3>2 DEF ClientChanges
      <3> QED
        BY <1>3, <2>1, <2>2, <3>2, <3>3 DEF PoolHears
    <2>3. CASE {h \in client.handlers : h.ci = m.ci} # {}
      <3>1. PICK h \in client.handlers :
              h.ci = m.ci /\ ClientChanges(Answered(h, m.response))
        BY <1>12, <2>3 DEF ClientProcessAvailability
      <3> DEFINE new == Answered(h, m.response)
      <3>2. m.response \in BOOLEAN /\ h.field \in {None, "min", "max"}
        <4>1. m.response \in BOOLEAN
          BY <1>1, <2>1 DEF ToClient, Capabilities
        <4> QED
          BY <1>1, <3>1, <4>1 DEF ClientPools, Handlers
      <3>3. /\ new.n = client.n /\ new.rpid = client.rpid /\ new.state = client.state
            /\ new.handlers = client.handlers \ {h}
            /\ new.max = IF m.response /\ h.field = "max" THEN h.value ELSE client.max
            /\ new.min = IF m.response /\ h.field = "min" THEN h.value ELSE client.min
            /\ new.raised = client.raised
        BY <1>1, <3>2 DEF ClientPools, Answered, None
      <3>4. ClientDoes(new, Pool, <<>>)
        BY <3>1 DEF ClientChanges
      <3> HIDE DEF new
      <3>5. client' = new /\ Sent(<<>>) /\ Hears(m)
        BY <1>7, <3>3, <3>4 DEF KeyRefused
      <3> QED
        BY <1>3, <2>1, <3>1, <3>3, <3>5 DEF PoolHears
    <2> QED
      BY <2>2, <2>3
  <1>13. CASE ClientProcessKey(m)
    <2>1. m.type \in {"EncryptedSessionKey", "PublicKeyRequest"} /\ m.type \in Quiet
      BY <1>13 DEF ClientProcessKey
    <2>2. CASE StartExchange /\ client.state = "Opened"
      <3> DEFINE new == [client EXCEPT !.keyRequested = TRUE, !.key = client.n]
      <3>1. Kept(new)
        BY <1>1 DEF ClientPools, KeyRefused
      <3>2. ClientDoes(new, Pool, <<PublicKey(client.n)>>)
        BY <2>2 DEF StartExchange
      <3> HIDE DEF new
      <3>3. client' = new /\ Sent(<<PublicKey(client.n)>>) /\ Hears(m)
        BY <1>7, <3>1, <3>2
      <3> QED
        BY <1>3, <2>1, <2>2, <3>1, <3>3 DEF PoolHears
    <2>3. CASE \E new : ClientChanges(new) /\ Kept(new)
      BY <1>8, <2>1, <2>3
    <2>4. m.type = "EncryptedSessionKey" =>
            \/ ClientChanges([client EXCEPT !.cipher = TRUE])
            \/ ClientChanges(Raise(client, m.type))
      BY <1>13 DEF ClientProcessKey
    <2>5. m.type = "PublicKeyRequest" =>
            \/ client.state = "Opened" /\ StartExchange
            \/ ClientChanges(client) \/ ClientChanges(Raise(client, m.type))
      BY <1>13 DEF ClientProcessKey, CanExchangeKey
    <2>6. Kept(Raise(client, m.type))
      BY <1>10, <2>1
    <2> HIDE DEF Kept
    <2> QED
      BY <1>9, <2>1, <2>2, <2>3, <2>4, <2>5, <2>6
  <1>14. CASE ClientProcessHostCall(Pool, m)
    <2> DEFINE new == [client EXCEPT !.events = PutCi(@, [ci |-> m.ci, target |-> Pool])]
    <2>1. m.type = "HostCall" /\ (ClientChanges(client) \/ ClientChanges(new))
      BY <1>14 DEF ClientProcessHostCall
    <2>2. Kept(client) /\ Kept(new) /\ m.type \in Quiet
      BY <1>9, <2>1
    <2> HIDE DEF new, Kept, Quiet
    <2> QED
      BY <1>8, <2>1, <2>2
  <1>15. CASE ClientProcessPipelineState(Pool, m)
    BY <1>6, <1>15 DEF ClientProcessPipelineState
  <1> QED
    BY <1>5, <1>11, <1>12, <1>13, <1>14, <1>15

\* A message the client takes.
LEMMA ClientEventPool ==
    ASSUME TypeOK, NEW t \in Targets, ClientNextEvent(t)
    PROVE  PoolSteps
  BY ClientEventRests, ClientEventHears DEF PoolSteps

\* A state message after those of a client that opens or connects.
LEMMA Joined ==
    ASSUME NEW a, NEW b, NEW c
    PROVE  <<a>> \o <<b>> = <<a, b>> /\ <<a, b>> \o <<c>> = <<a, b, c>>
  <1> DEFINE S == {a, b, c}
  <1>1. /\ <<a>> \in Seq(S) /\ <<b>> \in Seq(S) /\ <<c>> \in Seq(S)
        /\ <<a, b>> \in Seq(S) /\ <<a, b, c>> \in Seq(S)
    OBVIOUS
  <1>2. ASSUME NEW x, <<x>> \in Seq(S), NEW s \in Seq(S)
        PROVE  s \o <<x>> = Append(s, x)
    BY <1>2
  <1>3. Append(<<a>>, b) = <<a, b>>
    <2>1. Append(<<a>>, b) \in Seq(S) /\ Len(Append(<<a>>, b)) = 2
      BY <1>1
    <2>2. \A i \in 1..2 : Append(<<a>>, b)[i] = <<a, b>>[i]
      BY <1>1
    <2> QED
      BY <1>1, <2>1, <2>2, SeqEqual
  <1>4. Append(<<a, b>>, c) = <<a, b, c>>
    <2>1. Append(<<a, b>>, c) \in Seq(S) /\ Len(Append(<<a, b>>, c)) = 3
      BY <1>1
    <2>2. \A i \in 1..3 : Append(<<a, b>>, c)[i] = <<a, b, c>>[i]
      BY <1>1
    <2> QED
      BY <1>1, <2>1, <2>2, SeqEqual
  <1> QED
    BY <1>1, <1>2, <1>3, <1>4

\* The server takes a message: of a pipeline, or not.
LEMMA ServerEventPool ==
    ASSUME TypeOK, NEW t \in Targets, ServerNextEvent(t)
    PROVE  PoolSteps
  <1> DEFINE m    == Head(toServer[t])
             pool == IF server.state = "BeforeOpen" THEN SetState(server, "Opening")
                                                    ELSE server
  <1>1. /\ server \in ServerPools /\ Pool \in Targets
        /\ IsQueues(toClient, ToClient) /\ IsQueues(toServer, ToServer)
    BY DEF TypeOK, Targets
  <1>2. toServer[t] # <<>> /\ toServer' = [toServer EXCEPT ![t] = Tail(@)]
    BY DEF ServerNextEvent
  <1>3. m \in ToServer[t]
    BY <1>1, <1>2, HeadTailProperties DEF IsQueues
  <1>4. /\ pool \in ServerPools /\ pool.rpid = server.rpid
        /\ pool.min = server.min /\ pool.max = server.max
        /\ pool.requests = server.requests
        /\ pool.state = Received(server.state)
        /\ pool.state = "Connecting" <=> server.state = "Connecting"
    BY <1>1 DEF ServerPools, SetState, PoolStates, Received
  <1>5. \/ ServerProcessCapability(pool, m) \/ ServerProcessInit(pool, m)
        \/ ServerProcessConnect(pool, m) \/ ServerProcessRequest(pool, m)
        \/ ServerProcessKey(pool, m) \/ ServerProcessCreate(pool, t, m)
        \/ ServerProcessOther(pool, m)
    BY DEF ServerNextEvent
  <1>6. ASSUME NEW new, NEW msgs, ServerDoes(new, Pool, msgs)
        PROVE  /\ server' = new /\ Told(msgs) /\ SameClientPool
               /\ t # Pool => Sent(<<>>)
               /\ t = Pool => Reads(m)
    <2>1. server' = new /\ toClient' = Queue(toClient, Pool, msgs) /\ UNCHANGED client
      BY <1>6 DEF ServerDoes
    <2>2. Told(msgs)
      BY <1>1, <2>1, PoolQueue DEF Told
    <2>3. SameClientPool
      BY <2>1 DEF SameClientPool, SameClientFields, KeyRefused
    <2>4. t # Pool => Sent(<<>>)
      BY <1>1, <1>2, PoolQueue DEF Sent
    <2>5. t = Pool => toServer'[Pool] = Tail(toServer[Pool])
      BY <1>1, <1>2, PoolQueue
    <2> QED
      BY <1>2, <2>1, <2>2, <2>3, <2>4, <2>5 DEF Reads
  <1> HIDE DEF pool
  <1> DEFINE Same(new) == /\ new.rpid = server.rpid /\ new.requests = server.requests
                          /\ new.min = server.min /\ new.max = server.max
  <1>7. CASE t # Pool
    <2>1. m.type \in {"CreatePipeline", "PipelineInput", "EndOfPipelineInput", "HostResponse"}
      BY <1>3, <1>7 DEF ToServer
    <2>2. ASSUME NEW new, ServerChanges(new), Same(new), new.state = pool.state
          PROVE  PoolStirs
      BY <1>4, <1>6, <1>7, <2>2
      DEF ServerChanges, PoolStirs, SameServerFields, SamePoolQueues
    <2>3. /\ Same(pool)
          /\ \A what : Same(Raise(pool, what)) /\ Raise(pool, what).state = pool.state
          /\ \A S : /\ Same([pool EXCEPT !.metadata = @ \union S])
                    /\ [pool EXCEPT !.metadata = @ \union S].state = pool.state
      BY <1>4 DEF ServerPools, Raise
    <2>4. CASE ServerProcessOther(pool, m)
      BY <2>2, <2>3, <2>4 DEF ServerProcessOther, PoolSteps
    <2>5. CASE ServerProcessCreate(pool, t, m)
      <3>1. \E new : ServerChanges(new) /\ Same(new) /\ new.state = pool.state
        BY <2>3, <2>5, ZenonT(30) DEF ServerProcessCreate
      <3> QED
        BY <2>2, <3>1 DEF PoolSteps
    <2> QED
      BY <1>5, <2>1, <2>4, <2>5
      DEF ServerProcessCapability, ServerProcessInit, ServerProcessConnect,
          ServerProcessRequest, ServerProcessKey
  <1>8. ASSUME t = Pool
        PROVE  PoolReads
    <2>1. m \in ToServer[Pool] /\ m.type # "CreatePipeline"
              /\ m.type \notin {"PipelineInput", "EndOfPipelineInput"}
      <3>1. m \in ToServer[Pool]
        BY <1>3, <1>8
      <3> HIDE DEF m
      <3> QED
        BY <1>1, <3>1 DEF ToServer, Capabilities
    <2> HIDE DEF m
    <2>2. CASE ServerProcessCapability(pool, m)
      <3> DEFINE known  == [pool EXCEPT !.cap = m.version]
                 raised == Raise(known, m.type)
                 named  == [known EXCEPT !.rpid = m.rpid]
      <3>1. /\ Same(known) /\ known.state = pool.state
            /\ Same(raised) /\ raised.state = pool.state
            /\ named.rpid = m.rpid /\ named.requests = server.requests
            /\ named.min = server.min /\ named.max = server.max /\ named.state = pool.state
        BY <1>4 DEF ServerPools, Raise
      <3>2. /\ m.type = "SessionCapability"
            /\ \/ /\ server.state = "Connecting"
                  /\ ServerDoes(known, Pool, <<>>) \/ ServerDoes(raised, Pool, <<>>)
               \/ ServerDoes(named, Pool, <<SessionCapability(ServerVersion, server.rpid)>>)
        BY <1>4, <2>2 DEF ServerProcessCapability, ServerChanges
      <3>3. pool.state = Received(server.state)
            /\ (server.state = "Connecting" => pool.state = "Connecting")
        BY <1>4
      <3> HIDE DEF known, raised, named
      <3>4. ASSUME NEW new \in {known, raised}, ServerDoes(new, Pool, <<>>),
                   server.state = "Connecting"
            PROVE  PoolReads
        <4>1. Same(new) /\ new.state = "Connecting"
          BY <3>1, <3>3, <3>4
        <4>2. server' = new /\ Told(<<>>) /\ Reads(m)
          BY <1>6, <1>8, <3>4 DEF m
        <4> QED
          BY <2>1, <3>2, <3>4, <4>1, <4>2 DEF PoolReads, SameServerPool, SameServerFields
      <3>5. ASSUME ServerDoes(named, Pool, <<SessionCapability(ServerVersion, server.rpid)>>)
            PROVE  PoolReads
        <4>1. /\ server' = named /\ Reads(m)
              /\ Told(<<SessionCapability(ServerVersion, server.rpid)>>)
          BY <1>6, <1>8, <3>5 DEF m
        <4> QED
          BY <2>1, <3>1, <3>2, <3>3, <4>1 DEF PoolReads
      <3> QED
        BY <3>2, <3>4, <3>5
    <2>3. ASSUME NEW old \in ServerPools, NEW msgs, ServerTurns(old, msgs, "Opened")
          PROVE  /\ server'.rpid = old.rpid /\ server'.requests = old.requests
                 /\ server'.min = old.min /\ server'.max = old.max
                 /\ server'.state = "Opened" /\ Reads(m)
                 /\ Told(msgs \o <<RunspacePoolStateMsg("Opened")>>)
      <3> DEFINE new == SetState(old, "Opened")
                 all == msgs \o StateMsgs("Opened")
      <3>1. /\ new.rpid = old.rpid /\ new.requests = old.requests
            /\ new.min = old.min /\ new.max = old.max /\ new.state = "Opened"
        BY DEF SetState, ServerPools
      <3>2. ServerDoes(new, Pool, all)
        BY <2>3 DEF ServerTurns
      <3>3. all = msgs \o <<RunspacePoolStateMsg("Opened")>>
        BY DEF StateMsgs
      <3> HIDE DEF new, all
      <3>4. server' = new /\ Told(all) /\ Reads(m)
        BY <1>6, <1>8, <3>2 DEF m
      <3> QED
        BY <3>1, <3>3, <3>4
    <2>4. CASE ServerProcessInit(pool, m)
      <3> DEFINE new == [pool EXCEPT !.min = m.min, !.max = m.max]
      <3>1. m.type = "InitRunspacePool"
            /\ ServerTurns(new, <<Plain("ApplicationPrivateData")>>, "Opened")
        BY <2>4 DEF ServerProcessInit
      <3>2. m.min \in Nat /\ m.max \in Nat
        BY <1>1, <2>1, <3>1 DEF ToServer, Capabilities
      <3>3. /\ new \in ServerPools /\ new.rpid = server.rpid
            /\ new.requests = server.requests /\ new.min = m.min /\ new.max = m.max
        BY <1>4, <3>2 DEF ServerPools
      <3> HIDE DEF new
      <3>4. /\ server'.rpid = server.rpid /\ server'.requests = server.requests
            /\ server'.min = m.min /\ server'.max = m.max
            /\ server'.state = "Opened" /\ Reads(m)
            /\ Told(<<Plain("ApplicationPrivateData")>> \o <<RunspacePoolStateMsg("Opened")>>)
        BY <2>3, <3>1, <3>3
      <3>5. Told(<<Plain("ApplicationPrivateData"), RunspacePoolStateMsg("Opened")>>)
        BY <3>4, Joined
      <3> QED
        BY <2>1, <3>1, <3>4, <3>5 DEF PoolReads
    <2>5. CASE ServerProcessConnect(pool, m)
      <3> DEFINE msgs == <<RunspacePoolInitData(server.min, server.max),
                           Plain("ApplicationPrivateData")>>
      <3>1. m.type = "ConnectRunspacePool" /\ ServerTurns(pool, msgs, "Opened")
        BY <1>4, <2>5 DEF ServerProcessConnect
      <3>2. msgs \o <<RunspacePoolStateMsg("Opened")>>
              = <<RunspacePoolInitData(server.min, server.max),
                  Plain("ApplicationPrivateData"), RunspacePoolStateMsg("Opened")>>
        BY Joined
      <3> HIDE DEF msgs
      <3>3. /\ server'.rpid = pool.rpid /\ server'.requests = pool.requests
            /\ server'.min = pool.min /\ server'.max = pool.max
            /\ server'.state = "Opened" /\ Reads(m)
            /\ Told(msgs \o <<RunspacePoolStateMsg("Opened")>>)
        BY <1>4, <2>3, <3>1
      <3> QED
        BY <1>4, <2>1, <3>1, <3>2, <3>3 DEF PoolReads, SameServerFields
    <2>6. CASE ServerProcessRequest(pool, m)
      <3> DEFINE new == [pool EXCEPT !.requests = PutCi(@, Record(m))]
      <3>1. /\ new.rpid = server.rpid /\ new.min = server.min /\ new.max = server.max
            /\ new.requests = PutCi(server.requests, Record(m))
            /\ new.state = Received(server.state)
        BY <1>4 DEF ServerPools
      <3>2. m.type = "Request" /\ ServerDoes(new, Pool, <<>>)
        BY <2>6 DEF ServerProcessRequest, ServerChanges, Record
      <3> HIDE DEF new
      <3>3. server' = new /\ Told(<<>>) /\ Reads(m)
        BY <1>6, <1>8, <3>2 DEF m
      <3> QED
        BY <2>1, <3>1, <3>2, <3>3 DEF PoolReads
    <2>7. CASE ServerProcessKey(pool, m)
      <3> DEFINE new == [pool EXCEPT !.keyRequested = TRUE]
      <3>1. Same(new) /\ new.state = Received(server.state)
        BY <1>4 DEF ServerPools
      <3>2. m.type = "PublicKey" /\ ServerDoes(new, Pool, <<EncryptedSessionKey(m.key)>>)
        BY <2>7 DEF ServerProcessKey
      <3> HIDE DEF new
      <3>3. server' = new /\ Told(<<EncryptedSessionKey(m.key)>>) /\ Reads(m)
        BY <1>6, <1>8, <3>2 DEF m
      <3> QED
        BY <2>1, <3>1, <3>2, <3>3 DEF PoolReads, SameServerFields
    <2>8. CASE ServerProcessOther(pool, m)
      <3>1. m.type = "HostResponse" /\ ServerDoes(pool, Pool, <<>>)
        BY <2>1, <2>8 DEF ServerProcessOther, ServerChanges
      <3>2. server' = pool /\ Told(<<>>) /\ Reads(m)
        BY <1>6, <1>8, <3>1 DEF m
      <3> QED
        BY <1>4, <2>1, <3>1, <3>2 DEF PoolReads, SameServerFields
    <2>9. ~ServerProcessCreate(pool, t, m)
      BY <2>1 DEF ServerProcessCreate
    <2> QED
      BY <1>5, <2>2, <2>4, <2>5, <2>6, <2>7, <2>8, <2>9 DEF m
  <1> QED
    BY <1>7, <1>8 DEF PoolSteps

\* A queue after messages were put into it, and after one was taken.
LEMMA Longer ==
    ASSUME NEW S, NEW q \in Seq(S), NEW T, NEW msgs \in Seq(T), NEW r, r = q \o msgs
    PROVE  /\ Len(r) = Len(q) + Len(msgs)
           /\ DOMAIN r = 1..(Len(q) + Len(msgs))
           /\ \A i \in DOMAIN q : i \in DOMAIN r /\ r[i] = q[i]
           /\ \A i \in DOMAIN r : \/ i \in DOMAIN q /\ r[i] = q[i]
                                  \/ /\ i > Len(q) /\ i - Len(q) \in DOMAIN msgs
                                     /\ r[i] = msgs[i - Len(q)]
  <1> DEFINE U == S \union T
  <1>1. q \in Seq(U) /\ msgs \in Seq(U)
    OBVIOUS
  <1> HIDE DEF U
  <1>2. /\ r \in Seq(U) /\ Len(r) = Len(q) + Len(msgs)
        /\ \A i \in 1..Len(r) : r[i] = IF i <= Len(q) THEN q[i] ELSE msgs[i - Len(q)]
    BY <1>1, ConcatProperties
  <1>3. Len(q) \in Nat /\ Len(msgs) \in Nat
    BY <1>1
  <1> QED
    BY <1>1, <1>2, <1>3

LEMMA Shorter ==
    ASSUME NEW S, NEW q \in Seq(S), q # <<>>, NEW r, r = Tail(q)
    PROVE  /\ Len(q) = Len(r) + 1 /\ Len(r) \in Nat
           /\ 1 \in DOMAIN q /\ Head(q) = q[1]
           /\ \A i \in DOMAIN r : i \in Nat \ {0} /\ i + 1 \in DOMAIN q /\ r[i] = q[i + 1]
           /\ \A i \in DOMAIN q : i \in Nat /\ (i = 1 \/ (i - 1 \in DOMAIN r /\ r[i - 1] = q[i]))
  <1>1. r \in Seq(S) /\ Len(r) = Len(q) - 1
    BY HeadTailProperties
  <1>2. Len(q) \in Nat /\ Len(r) \in Nat /\ Len(q) >= 1
    BY <1>1
  <1>3. \A i \in 1..Len(r) : r[i] = q[i + 1]
    BY <1>2
  <1> QED
    BY <1>1, <1>2, <1>3

\* Every step of the documented use is one of these.
LEMMA EveryPoolStep ==
    ASSUME TypeOK, [DocumentedNext]_vars
    PROVE  PoolSteps \/ ClientReplaced
  <1>1. CASE UNCHANGED vars
    <2>1. UNCHANGED <<client, server, toServer, toClient>>
      BY <1>1 DEF vars
    <2>2. Sent(<<>>) /\ Told(<<>>)
      BY <2>1, PoolQueue DEF Sent, Told, TypeOK
    <2> QED
      BY <2>1, <2>2
      DEF PoolSteps, PoolRests, SameClientPool, SameClientFields, SameServerPool,
          SameServerFields, KeyRefused
  <1> QED
    BY <1>1, ClientCallPool, ServerCallPool, ClientEventPool, ServerEventPool
    DEF DocumentedNext, DocumentedEvent
-----------------------------------------------------------------------------
(* The opening of a pool *)

\* What the client is told that changes its state, and the states it is told.
Tells(m)  == m.type \in {"RunspacePoolState", "ApplicationPrivateData"}
Announced == {"Opened", "Closing", "Closed", "Broken"}

\* What the client is told that changes its counts.
Setter(m) == m.type \in {"RunspacePoolInitData", "RunspaceAvailability"}

IsCapability(m) == m.type = "SessionCapability"
IsStart(m)      == m.type \in {"InitRunspacePool", "ConnectRunspacePool"}

\* A client opens or connects once, and first says which pool it is about.
AsksInOrder ==
    /\ \A i \in DOMAIN toServer[Pool] :
          IsCapability(toServer[Pool][i]) => toServer[Pool][i].rpid = client.rpid
    /\ server.rpid = NoId =>
          \A i \in DOMAIN toServer[Pool] : IsStart(toServer[Pool][i]) =>
             \E j \in DOMAIN toServer[Pool] : j < i /\ IsCapability(toServer[Pool][j])
    /\ client.state = "BeforeOpen" => toServer[Pool] = <<>>

\* Before the server has accepted a client, it has told it nothing.
Announces(q) ==
    \A i \in DOMAIN q : q[i].type = "RunspacePoolState" => q[i].state \in Announced
TellsNothing(q) == \A i \in DOMAIN q : ~Tells(q[i])
SetsNothing(q)  == \A i \in DOMAIN q : ~Setter(q[i])
AsksNoKey(q)    == \A i \in DOMAIN q : q[i].type # "PublicKeyRequest"

Early ==
    \/ server.state \in New
    \/ client.state \in {"BeforeOpen", "Connecting"} /\ server.state = "Disconnected"

ToldInOrder ==
    /\ Announces(toClient[Pool])
    /\ Early => TellsNothing(toClient[Pool])

\* And the client is not past its opening.  Only a client that disconnects
\* makes its server disconnect.
StatesInOrder ==
    /\ client.state \notin New => server.state \notin New
    /\ client.state \in {"BeforeOpen", "Connecting"} => server.state # "Disconnecting"
    /\ client.state = "BeforeOpen" => server.state \in New \union {"Disconnected"}
    /\ server.state \notin {"BeforeOpen", "Opening"} => server.rpid # NoId

\* The clients of a session are about one pool: the first one is, and the
\* others are when every client program connects to the pool it was told of.
OneId == client.n = 1 \/ \A a, b \in PoolIds : a = b

OpenInv ==
    /\ AsksInOrder /\ ToldInOrder /\ StatesInOrder
    /\ OneId => server.rpid \in {NoId, client.rpid}

LEMMA PoolTypes ==
    ASSUME TypeOK
    PROVE  /\ Pool \in Targets /\ client.rpid \in PoolIds /\ NoId \notin PoolIds
           /\ toServer[Pool] \in Seq(ToServer[Pool])
           /\ toClient[Pool] \in Seq(ToClient[Pool])
           /\ client.state \in PoolStates /\ server.state \in PoolStates
  BY RunspacePoolAssumption DEF TypeOK, IsQueues, Targets, ClientPools, ServerPools

\* Nothing and one message, put into a queue.
LEMMA Puts ==
    ASSUME NEW S, NEW q \in Seq(S), NEW r
    PROVE  /\ r = q \o <<>> => r = q
           /\ \A m : r = q \o <<m>> =>
                 /\ Len(r) = Len(q) + 1 /\ DOMAIN r = 1..(Len(q) + 1) /\ r[Len(q) + 1] = m
                 /\ \A i \in DOMAIN q : i \in DOMAIN r /\ r[i] = q[i]
                 /\ \A i \in DOMAIN r : \/ i \in DOMAIN q /\ r[i] = q[i]
                                        \/ i = Len(q) + 1 /\ r[i] = m
  <1>1. r = q \o <<>> => r = q
    OBVIOUS
  <1>2. ASSUME NEW m, r = q \o <<m>>
        PROVE  /\ Len(r) = Len(q) + 1 /\ DOMAIN r = 1..(Len(q) + 1) /\ r[Len(q) + 1] = m
               /\ \A i \in DOMAIN q : i \in DOMAIN r /\ r[i] = q[i]
               /\ \A i \in DOMAIN r : \/ i \in DOMAIN q /\ r[i] = q[i]
                                      \/ i = Len(q) + 1 /\ r[i] = m
    <2>1. Len(q) \in Nat /\ DOMAIN q = 1..Len(q)
      OBVIOUS
    <2>2. <<m>> \in Seq({m}) /\ Len(<<m>>) = 1 /\ DOMAIN <<m>> = {1} /\ <<m>>[1] = m
      OBVIOUS
    <2>3. /\ Len(r) = Len(q) + 1 /\ DOMAIN r = 1..(Len(q) + 1)
          /\ \A i \in DOMAIN q : i \in DOMAIN r /\ r[i] = q[i]
          /\ \A i \in DOMAIN r : \/ i \in DOMAIN q /\ r[i] = q[i]
                                 \/ /\ i > Len(q) /\ i - Len(q) \in {1}
                                    /\ r[i] = <<m>>[i - Len(q)]
      BY <1>2, <2>2, Longer
    <2>4. Len(q) + 1 \in DOMAIN r /\ Len(q) + 1 \notin DOMAIN q
      BY <2>1, <2>3
    <2> QED
      BY <2>1, <2>2, <2>3, <2>4
  <1> QED
    BY <1>1, <1>2

LEMMA AsksInOrderStep ==
    ASSUME TypeOK, OpenInv, PoolSteps
    PROVE  AsksInOrder'
  <1> DEFINE q == toServer[Pool]
             r == toServer'[Pool]
             Told1(x) == \A i \in DOMAIN x : IsCapability(x[i]) => x[i].rpid = client.rpid
             First(x) == \A i \in DOMAIN x : IsStart(x[i]) =>
                            \E j \in DOMAIN x : j < i /\ IsCapability(x[j])
  <1>1. q \in Seq(ToServer[Pool]) /\ client.rpid \in PoolIds /\ NoId \notin PoolIds
    BY PoolTypes
  <1>2. /\ Told1(q) /\ (server.rpid = NoId => First(q))
        /\ client.state = "BeforeOpen" => q = <<>>
    BY DEF OpenInv, AsksInOrder
  <1>3. \A m : IsCapability(m) => ~IsStart(m)
    BY DEF IsCapability, IsStart
  <1>4. SUFFICES /\ client'.rpid = client.rpid /\ Told1(r)
                 /\ server'.rpid = NoId => First(r)
                 /\ client'.state = "BeforeOpen" => r = <<>>
    BY DEF AsksInOrder, IsCapability, IsStart
  <1>5. ASSUME r = q
        PROVE  Told1(r) /\ (server.rpid = NoId => First(r)) /\ (q = <<>> => r = <<>>)
    BY <1>2, <1>5
  <1>6. ASSUME NEW m, r = q \o <<m>>, ~IsCapability(m), ~IsStart(m)
        PROVE  Told1(r) /\ (server.rpid = NoId => First(r))
    <2>1. /\ Len(r) = Len(q) + 1 /\ DOMAIN r = 1..(Len(q) + 1) /\ r[Len(q) + 1] = m
          /\ \A i \in DOMAIN q : i \in DOMAIN r /\ r[i] = q[i]
          /\ \A i \in DOMAIN r : \/ i \in DOMAIN q /\ r[i] = q[i]
                                 \/ i = Len(q) + 1 /\ r[i] = m
      BY <1>1, <1>6, Puts
    <2> HIDE DEF q, r
    <2> QED
      BY <1>2, <1>6, <2>1
  <1>7. r = q \o <<>> => r = q
    BY <1>1, Puts
  <1>8. ASSUME Sent(<<>>)
        PROVE  r = q
    BY <1>7, <1>8 DEF Sent
  <1>9. CASE PoolRests
    <2>1. SameClientPool /\ SameServerPool
      BY <1>9 DEF PoolRests
    <2>2. /\ client'.rpid = client.rpid /\ client'.state = client.state
          /\ server'.rpid = server.rpid
      BY <2>1 DEF SameClientPool, SameClientFields, SameServerPool, SameServerFields
    <2>3. CASE Sent(<<>>)
      BY <1>2, <1>5, <1>8, <2>2, <2>3
    <2>4. CASE /\ client.state # "BeforeOpen"
               /\ \E m \in ToServer[Pool] :
                     m.type \in {"PublicKey", "HostResponse"} /\ Sent(<<m>>)
      <3>1. PICK m \in ToServer[Pool] :
              m.type \in {"PublicKey", "HostResponse"} /\ r = q \o <<m>>
        BY <2>4 DEF Sent
      <3>2. ~IsCapability(m) /\ ~IsStart(m)
        BY <3>1 DEF IsCapability, IsStart
      <3> QED
        BY <1>6, <2>2, <2>4, <3>1, <3>2
    <2> QED
      BY <1>9, <2>3, <2>4 DEF PoolRests
  <1>10. CASE PoolOpens
    <2>1. PICK m \in {InitRunspacePool(client.min, client.max), Plain("ConnectRunspacePool")} :
            r = q \o <<SessionCapability(ClientVersion, client.rpid), m>>
      BY <1>10 DEF PoolOpens, Sent
    <2>2. /\ client'.rpid = client.rpid /\ client'.state # "BeforeOpen"
          /\ server'.rpid = server.rpid /\ q = <<>>
      BY <1>2, <1>10
      DEF PoolOpens, SameClientFields, SameServerPool, SameServerFields
    <2> DEFINE a == SessionCapability(ClientVersion, client.rpid)
    <2>3. IsCapability(a) /\ a.rpid = client.rpid /\ ~IsCapability(m)
      BY DEF IsCapability, SessionCapability, InitRunspacePool, Plain
    <2>4. r = q \o <<a, m>>
      BY <2>1
    <2> HIDE DEF a
    <2>5. <<a, m>> \in Seq({a, m}) /\ Len(<<a, m>>) = 2 /\ DOMAIN <<a, m>> = 1..2
          /\ <<a, m>>[1] = a /\ <<a, m>>[2] = m
      OBVIOUS
    <2>6. r = <<a, m>>
      BY <2>2, <2>4, <2>5
    <2> HIDE DEF q, r
    <2>7. Told1(r) /\ First(r)
      <3>1. DOMAIN r = 1..2 /\ r[1] = a /\ r[2] = m
        BY <2>5, <2>6
      <3> QED
        BY <1>3, <2>3, <3>1
    <2> QED
      BY <2>2, <2>7
  <1>11. CASE PoolTurns \/ PoolStirs
    BY <1>2, <1>5, <1>8, <1>11
    DEF PoolTurns, PoolStirs, SamePoolQueues, SameClientPool, SameClientFields,
        SameServerPool, SameServerFields, New
  <1>12. CASE PoolSets \/ PoolServes \/ PoolAnswers
    BY <1>2, <1>5, <1>8, <1>12
    DEF PoolSets, PoolServes, PoolAnswers, SamePoolQueues, SameClientPool,
        SameClientFields, SameServerPool, SameServerFields
  <1>13. CASE PoolAsks
    <2>1. /\ client'.rpid = client.rpid /\ client'.state # "BeforeOpen"
          /\ server'.rpid = server.rpid
          /\ \E kind, value : r = q \o <<Request(kind, client.ci, value, client.n)>>
      BY <1>13 DEF PoolAsks, SameServerPool, SameServerFields, Sent
    <2>2. \A kind, value : LET m == Request(kind, client.ci, value, client.n)
                           IN  ~IsCapability(m) /\ ~IsStart(m)
      BY DEF Request, IsCapability, IsStart
    <2> QED
      BY <1>6, <2>1, <2>2
  <1>14. CASE PoolHears
    <2>1. PICK m \in ToClient[Pool] :
            /\ Hears(m)
            /\ \/ /\ client'.state = client.state \/ client'.state = "Opened"
                  /\ Sent(<<>>) \/ (client.state = "Opened" /\ Sent(<<PublicKey(client.n)>>))
               \/ m.type = "RunspacePoolState" /\ client'.state = m.state /\ Sent(<<>>)
      BY <1>14 DEF PoolHears
    <2>2. client'.rpid = client.rpid /\ server'.rpid = server.rpid
      BY <2>1 DEF Hears, SameServerPool, SameServerFields
    <2>3. m.type = "RunspacePoolState" => m.state \in Announced
      <3>1. toClient[Pool] # <<>> /\ m = Head(toClient[Pool])
        BY <2>1 DEF Hears
      <3>2. 1 \in DOMAIN toClient[Pool] /\ m = toClient[Pool][1]
        BY <3>1, PoolTypes
      <3> QED
        BY <3>2 DEF OpenInv, ToldInOrder, Announces
    <2>4. CASE client'.state = client.state /\ Sent(<<>>)
      BY <1>2, <1>5, <1>8, <2>2, <2>4
    <2>5. CASE client'.state \in Announced /\ Sent(<<>>)
      BY <1>2, <1>5, <1>8, <2>2, <2>5 DEF Announced
    <2>6. CASE /\ client'.state = client.state \/ client'.state = "Opened"
               /\ client.state = "Opened" /\ Sent(<<PublicKey(client.n)>>)
      <3>1. ~IsCapability(PublicKey(client.n)) /\ ~IsStart(PublicKey(client.n))
        BY DEF PublicKey, IsCapability, IsStart
      <3>2. r = q \o <<PublicKey(client.n)>>
        BY <2>6 DEF Sent
      <3> QED
        BY <1>6, <2>2, <2>6, <3>1, <3>2
    <2>7. "Opened" \in Announced
      BY DEF Announced
    <2> QED
      BY <2>1, <2>3, <2>4, <2>5, <2>6, <2>7
  <1>15. CASE PoolReads
    <2>1. PICK m \in ToServer[Pool] :
            /\ Reads(m)
            /\ \/ m.type = "SessionCapability" /\ server.state = "Connecting"
                    /\ SameServerPool
               \/ m.type = "SessionCapability" /\ server'.rpid = m.rpid
               \/ m.type # "SessionCapability" /\ server'.rpid = server.rpid
      BY <1>15 DEF PoolReads, SameServerFields
    <2>2. /\ q # <<>> /\ m = Head(q) /\ r = Tail(q)
          /\ client'.rpid = client.rpid /\ client'.state = client.state
      BY <2>1 DEF Reads, SameClientPool, SameClientFields
    <2>3. /\ 1 \in DOMAIN q /\ m = q[1]
          /\ \A i \in DOMAIN r : i \in Nat \ {0} /\ i + 1 \in DOMAIN q /\ r[i] = q[i + 1]
          /\ \A i \in DOMAIN q : i \in Nat /\ (i = 1 \/ (i - 1 \in DOMAIN r /\ r[i - 1] = q[i]))
      BY <1>1, <2>2, Shorter
    <2>4. server'.rpid = NoId => server.rpid = NoId /\ ~IsCapability(m)
      <3>1. m.type = "SessionCapability" => m.rpid = client.rpid
        BY <1>2, <2>3 DEF IsCapability
      <3>2. server.state = "Connecting" => server.rpid # NoId
        BY DEF OpenInv, StatesInOrder
      <3> QED
        BY <1>1, <2>1, <3>1, <3>2 DEF SameServerPool, SameServerFields, IsCapability
    <2>5. client.state # "BeforeOpen"
      BY <1>2, <2>2
    <2> HIDE DEF q, r
    <2>6. Told1(r)
      BY <1>2, <2>3
    <2>7. ASSUME server'.rpid = NoId
          PROVE  First(r)
      <3>1. First(q) /\ ~IsCapability(q[1])
        BY <1>2, <2>3, <2>4, <2>7
      <3> SUFFICES ASSUME NEW i \in DOMAIN r, IsStart(r[i])
                   PROVE  \E j \in DOMAIN r : j < i /\ IsCapability(r[j])
        OBVIOUS
      <3>2. PICK j \in DOMAIN q : j < i + 1 /\ IsCapability(q[j])
        BY <2>3, <3>1
      <3>3. j - 1 \in DOMAIN r /\ r[j - 1] = q[j] /\ j - 1 < i
        BY <2>3, <3>1, <3>2
      <3> QED
        BY <3>2, <3>3
    <2> QED
      BY <2>2, <2>5, <2>6, <2>7
  <1> QED
    BY <1>9, <1>10, <1>11, <1>12, <1>13, <1>14, <1>15 DEF PoolSteps

\* What messages put into a queue, or taken from it, say.
LEMMA SaidPut ==
    ASSUME NEW S, NEW q \in Seq(S), NEW T, NEW msgs \in Seq(T), NEW r, r = q \o msgs
    PROVE  /\ Announces(q) /\ Announces(msgs) => Announces(r)
           /\ TellsNothing(q) /\ TellsNothing(msgs) => TellsNothing(r)
           /\ AsksNoKey(q) /\ AsksNoKey(msgs) => AsksNoKey(r)
           /\ SetsNothing(q) /\ SetsNothing(msgs) => SetsNothing(r)
  <1>1. \A i \in DOMAIN r : \/ i \in DOMAIN q /\ r[i] = q[i]
                            \/ /\ i > Len(q) /\ i - Len(q) \in DOMAIN msgs
                               /\ r[i] = msgs[i - Len(q)]
    BY Longer
  <1> QED
    BY <1>1 DEF Announces, TellsNothing, AsksNoKey, SetsNothing

LEMMA SaidOne ==
    ASSUME NEW S, NEW q \in Seq(S), NEW m, NEW r, r = q \o <<m>>
    PROVE  /\ Announces(q) /\ (m.type = "RunspacePoolState" => m.state \in Announced)
                => Announces(r)
           /\ TellsNothing(q) /\ ~Tells(m) => TellsNothing(r)
           /\ AsksNoKey(q) /\ m.type # "PublicKeyRequest" => AsksNoKey(r)
           /\ SetsNothing(q) /\ ~Setter(m) => SetsNothing(r)
  <1>1. <<m>> \in Seq({m}) /\ \A i \in DOMAIN <<m>> : <<m>>[i] = m
    OBVIOUS
  <1>2. /\ (m.type = "RunspacePoolState" => m.state \in Announced) => Announces(<<m>>)
        /\ ~Tells(m) => TellsNothing(<<m>>)
        /\ m.type # "PublicKeyRequest" => AsksNoKey(<<m>>)
        /\ ~Setter(m) => SetsNothing(<<m>>)
    BY <1>1 DEF Announces, TellsNothing, AsksNoKey, SetsNothing
  <1> QED
    BY <1>1, <1>2, SaidPut

LEMMA SaidTail ==
    ASSUME NEW S, NEW q \in Seq(S), q # <<>>, NEW r, r = Tail(q)
    PROVE  /\ Announces(q) => /\ Announces(r)
                              /\ Head(q).type = "RunspacePoolState"
                                   => Head(q).state \in Announced
           /\ TellsNothing(q) => TellsNothing(r) /\ ~Tells(Head(q))
           /\ AsksNoKey(q) => AsksNoKey(r) /\ Head(q).type # "PublicKeyRequest"
           /\ SetsNothing(q) => SetsNothing(r) /\ ~Setter(Head(q))
  <1>1. /\ 1 \in DOMAIN q /\ Head(q) = q[1]
        /\ \A i \in DOMAIN r : i + 1 \in DOMAIN q /\ r[i] = q[i + 1]
    BY Shorter
  <1> QED
    BY <1>1 DEF Announces, TellsNothing, AsksNoKey, SetsNothing

LEMMA ToldInOrderStep ==
    ASSUME TypeOK, OpenInv, PoolSteps
    PROVE  ToldInOrder'
  <1> DEFINE q == toClient[Pool]
             r == toClient'[Pool]
  <1>1. q \in Seq(ToClient[Pool])
    BY PoolTypes
  <1>2. Announces(q) /\ (Early => TellsNothing(q)) /\ StatesInOrder
    BY DEF OpenInv, ToldInOrder
  <1>3. SUFFICES Announces(r) /\ (Early' => TellsNothing(r))
    BY DEF ToldInOrder, Announces, TellsNothing, Tells
  <1>4. ASSUME Told(<<>>)
        PROVE  Announces(r) /\ (Early => TellsNothing(r))
    <2>1. r = q
      BY <1>1, <1>4, Puts DEF Told
    <2> HIDE DEF q, r
    <2> QED
      BY <1>2, <2>1
  <1>5. ASSUME NEW m, Told(<<m>>), ~Tells(m)
        PROVE  Announces(r) /\ (Early => TellsNothing(r))
    <2>1. r = q \o <<m>>
      BY <1>5 DEF Told
    <2>2. m.type # "RunspacePoolState"
      BY <1>5 DEF Tells
    <2> HIDE DEF q, r
    <2> QED
      BY <1>1, <1>2, <1>5, <2>1, <2>2, SaidOne
  <1>6. CASE PoolRests
    <2>1. Early' <=> Early
      BY <1>6 DEF PoolRests, SameClientPool, SameServerPool, Early
    <2>2. CASE Told(<<>>)
      BY <1>4, <2>1, <2>2
    <2>3. CASE \E m \in ToClient[Pool] :
                  m.type \in {"UserEvent", "HostCall", "PublicKeyRequest"} /\ Told(<<m>>)
      <3>1. PICK m \in ToClient[Pool] :
                  m.type \in {"UserEvent", "HostCall", "PublicKeyRequest"} /\ Told(<<m>>)
        BY <2>3
      <3>2. ~Tells(m)
        BY <3>1 DEF Tells
      <3> QED
        BY <1>5, <2>1, <3>1, <3>2
    <2> QED
      BY <1>6, <2>2, <2>3 DEF PoolRests
  <1>7. CASE PoolOpens \/ PoolTurns \/ PoolSets \/ PoolAsks \/ PoolStirs
    <2>1. Told(<<>>)
      BY <1>7 DEF PoolOpens, PoolTurns, PoolSets, PoolAsks, PoolStirs, SamePoolQueues
    <2>2. Early' => Early
      BY <1>7
      DEF PoolOpens, PoolTurns, PoolSets, PoolAsks, PoolStirs, SameClientPool,
          SameServerPool, Early, New, Received
    <2> QED
      BY <1>4, <2>1, <2>2
  <1>8. CASE PoolServes
    <2>1. CASE Told(<<>>)
      <3>1. Early' => Early
        <4>1. CASE server'.state = "Connecting"
          BY <1>8, <4>1 DEF PoolServes, Early
        <4>2. CASE server'.state # "Connecting"
          <5>1. client'.state = client.state
            BY <1>8 DEF PoolServes, SameClientPool
          <5>2. server'.state \in {"Opened", "Closing", "Closed", "Broken"}
                \/ /\ server.state = "Opened"
                        => client.state \in {"Disconnecting", "Disconnected"}
                   /\ server.state \in {"Opened", "Disconnecting"}
                   /\ server'.state \in {"Disconnecting", "Disconnected"}
            BY <1>8, <4>2 DEF PoolServes
          <5> QED
            BY <1>2, <5>1, <5>2 DEF StatesInOrder, Early, New
        <4> QED
          BY <4>1, <4>2
      <3> QED
        BY <1>4, <2>1, <3>1
    <2>2. CASE /\ server'.state \in {"Opened", "Closing", "Closed", "Broken"}
               /\ Told(<<RunspacePoolStateMsg(server'.state)>>)
      <3> DEFINE m == RunspacePoolStateMsg(server'.state)
      <3>1. ~Early'
        BY <2>2 DEF Early, New
      <3>2. m.state \in Announced
        BY <2>2 DEF RunspacePoolStateMsg, Announced
      <3>3. r = q \o <<m>>
        BY <2>2 DEF Told
      <3> HIDE DEF m, q, r
      <3> QED
        BY <1>1, <1>2, <3>1, <3>2, <3>3, SaidOne
    <2> QED
      BY <1>8, <2>1, <2>2 DEF PoolServes
  <1>9. CASE PoolAnswers
    <2>1. PICK a, b, c : Told(<<RunspaceAvailability(a, b, c)>>)
      BY <1>9 DEF PoolAnswers
    <2>2. ~Tells(RunspaceAvailability(a, b, c))
      BY DEF Tells, RunspaceAvailability
    <2>3. Early' <=> Early
      BY <1>9 DEF PoolAnswers, SameClientPool, Early
    <2> QED
      BY <1>5, <2>1, <2>2, <2>3
  <1>10. CASE PoolHears
    <2>1. PICK m \in ToClient[Pool] :
            /\ Hears(m)
            /\ \/ client'.state \in {client.state, "Opened"}
               \/ m.type = "RunspacePoolState" /\ client'.state = m.state
      BY <1>10 DEF PoolHears
    <2>2. q # <<>> /\ m = Head(q) /\ r = Tail(q) /\ server'.state = server.state
      BY <2>1 DEF Hears, SameServerPool
    <2> HIDE DEF q, r
    <2>3. /\ Announces(r) /\ (m.type = "RunspacePoolState" => m.state \in Announced)
          /\ Early => TellsNothing(r)
      BY <1>1, <1>2, <2>2, SaidTail
    <2>4. Early' => Early
      BY <2>1, <2>2, <2>3 DEF Early, Announced
    <2> QED
      BY <2>3, <2>4
  <1>11. CASE PoolReads
    <2>1. PICK m \in ToServer[Pool] :
            /\ SameClientPool
            /\ \/ server'.state \in {server.state, Received(server.state)} /\ Told(<<>>)
               \/ /\ server'.state = Received(server.state)
                  /\ Told(<<SessionCapability(ServerVersion, server.rpid)>>)
               \/ /\ server'.state = "Opened"
                  /\ Told(<<Plain("ApplicationPrivateData"), RunspacePoolStateMsg("Opened")>>)
               \/ /\ server'.state = "Opened"
                  /\ Told(<<RunspacePoolInitData(server.min, server.max),
                            Plain("ApplicationPrivateData"), RunspacePoolStateMsg("Opened")>>)
               \/ /\ server'.state = Received(server.state)
                  /\ Told(<<EncryptedSessionKey(m.key)>>)
      BY <1>11 DEF PoolReads, Reads, SameServerPool
    <2>2. server'.state \in {server.state, Received(server.state)} => (Early' => Early)
      BY <2>1 DEF SameClientPool, Early, New, Received
    <2>3. server'.state = "Opened" => ~Early'
      BY DEF Early, New
    <2>4. CASE server'.state \in {server.state, Received(server.state)} /\ Told(<<>>)
      BY <1>4, <2>2, <2>4
    <2>5. CASE /\ server'.state = Received(server.state)
               /\ \E x \in {SessionCapability(ServerVersion, server.rpid),
                            EncryptedSessionKey(m.key)} : Told(<<x>>)
      <3>1. PICK x \in {SessionCapability(ServerVersion, server.rpid),
                        EncryptedSessionKey(m.key)} : Told(<<x>>)
        BY <2>5
      <3>2. ~Tells(x)
        BY DEF Tells, SessionCapability, EncryptedSessionKey
      <3> QED
        BY <1>5, <2>2, <2>5, <3>1, <3>2
    <2> DEFINE a == RunspacePoolInitData(server.min, server.max)
               b == Plain("ApplicationPrivateData")
               c == RunspacePoolStateMsg("Opened")
    <2>6. /\ a.type # "RunspacePoolState" /\ b.type # "RunspacePoolState"
          /\ c.state \in Announced
      BY DEF RunspacePoolInitData, Plain, RunspacePoolStateMsg, Announced
    <2>7. CASE server'.state = "Opened" /\ Told(<<b, c>>)
      <3>1. r = q \o <<b, c>>
        BY <2>7 DEF Told
      <3> HIDE DEF a, b, c, q, r
      <3>2. /\ <<b, c>> \in Seq({b, c}) /\ DOMAIN <<b, c>> = 1..2
            /\ <<b, c>>[1] = b /\ <<b, c>>[2] = c
        OBVIOUS
      <3>3. Announces(<<b, c>>)
        BY <2>6, <3>2 DEF Announces
      <3> QED
        BY <1>1, <1>2, <2>3, <2>7, <3>1, <3>2, <3>3, SaidPut
    <2>8. CASE server'.state = "Opened" /\ Told(<<a, b, c>>)
      <3>1. r = q \o <<a, b, c>>
        BY <2>8 DEF Told
      <3> HIDE DEF a, b, c, q, r
      <3>2. /\ <<a, b, c>> \in Seq({a, b, c}) /\ DOMAIN <<a, b, c>> = 1..3
            /\ <<a, b, c>>[1] = a /\ <<a, b, c>>[2] = b /\ <<a, b, c>>[3] = c
        OBVIOUS
      <3>3. Announces(<<a, b, c>>)
        BY <2>6, <3>2 DEF Announces
      <3> QED
        BY <1>1, <1>2, <2>3, <2>8, <3>1, <3>2, <3>3, SaidPut
    <2> QED
      BY <2>1, <2>4, <2>5, <2>7, <2>8
  <1> QED
    BY <1>6, <1>7, <1>8, <1>9, <1>10, <1>11 DEF PoolSteps

LEMMA StatesInOrderStep ==
    ASSUME TypeOK, OpenInv, PoolSteps
    PROVE  /\ StatesInOrder'
           /\ OneId' => server'.rpid \in {NoId, client'.rpid}
  <1>1. StatesInOrder /\ (OneId => server.rpid \in {NoId, client.rpid})
    BY DEF OpenInv
  <1>2. client.rpid \in PoolIds /\ NoId \notin PoolIds
    BY PoolTypes
  <1>3. client'.n = client.n /\ client'.rpid = client.rpid
    BY DEF PoolSteps, PoolRests, PoolOpens, PoolTurns, PoolSets, PoolAsks, PoolServes,
           PoolAnswers, PoolHears, Hears, PoolStirs, PoolReads, Reads, SameClientPool,
           SameClientFields
  <1>4. OneId' <=> OneId
    BY <1>3 DEF OneId
  <1>5. CASE \/ PoolRests \/ PoolOpens \/ PoolTurns \/ PoolSets \/ PoolAsks \/ PoolStirs
             \/ PoolAnswers
    <2>1. server'.rpid = server.rpid
      BY <1>5
      DEF PoolRests, PoolOpens, PoolTurns, PoolSets, PoolAsks, PoolStirs, PoolAnswers,
          SameServerPool, SameServerFields
    <2>2. server'.state \in {server.state, Received(server.state)}
      BY <1>5
      DEF PoolRests, PoolOpens, PoolTurns, PoolSets, PoolAsks, PoolStirs, PoolAnswers,
          SameServerPool, SameServerFields
    <2>3. \/ client'.state = client.state
          \/ client.state = "BeforeOpen" /\ client'.state \in {"Opening", "Connecting"}
          \/ client.state \notin New /\ client'.state \notin New
      BY <1>5
      DEF PoolRests, PoolOpens, PoolTurns, PoolSets, PoolAsks, PoolStirs, PoolAnswers,
          SameClientPool
    <2> QED
      BY <1>1, <1>3, <1>4, <2>1, <2>2, <2>3 DEF StatesInOrder, New, Received
  <1>6. CASE PoolServes
    <2>1. server'.rpid = server.rpid /\ client'.state = client.state
      BY <1>6 DEF PoolServes, SameClientPool, SameServerFields
    <2>2. \/ /\ server.state = "Disconnected" /\ server'.state = "Connecting"
             /\ client.state \in {"BeforeOpen", "Connecting"}
          \/ /\ server.state \in {"Opened", "Closing", "Disconnected", "Broken"}
             /\ server.state = "Disconnected" => client.state = "Opened"
             /\ server'.state \in {"Opened", "Closing", "Closed", "Broken"}
          \/ /\ server.state = "Opened" => client.state \in {"Disconnecting", "Disconnected"}
             /\ server.state \in {"Opened", "Disconnecting"}
             /\ server'.state \in {"Disconnecting", "Disconnected"}
             /\ server.state = "Disconnecting" => server'.state = "Disconnected"
      BY <1>6 DEF PoolServes
    <2> QED
      BY <1>1, <1>3, <1>4, <2>1, <2>2 DEF StatesInOrder, New
  <1>7. CASE PoolHears
    <2>1. PICK m \in ToClient[Pool] :
            /\ Hears(m)
            /\ \/ client'.state = client.state
               \/ m.type = "ApplicationPrivateData" /\ client'.state = "Opened"
               \/ m.type = "RunspacePoolState" /\ client'.state = m.state
      BY <1>7 DEF PoolHears
    <2>2. /\ toClient[Pool] # <<>> /\ m = Head(toClient[Pool])
          /\ server'.state = server.state /\ server'.rpid = server.rpid
      BY <2>1 DEF Hears, SameServerPool, SameServerFields
    <2>3. /\ m.type = "RunspacePoolState" => m.state \in Announced
          /\ Tells(m) => ~Early
      BY <2>2, PoolTypes, SaidTail DEF OpenInv, ToldInOrder
    <2> QED
      BY <1>1, <1>3, <1>4, <2>1, <2>2, <2>3
      DEF StatesInOrder, New, Tells, Early, Announced
  <1>8. CASE PoolReads
    <2> DEFINE q == toServer[Pool]
    <2>1. PICK m \in ToServer[Pool] :
            /\ Reads(m)
            /\ \/ server'.state = server.state /\ server'.rpid = server.rpid
               \/ /\ m.type = "SessionCapability" /\ server'.rpid = m.rpid
                  /\ server'.state = Received(server.state)
               \/ /\ IsStart(m) /\ server'.state = "Opened" /\ server'.rpid = server.rpid
               \/ server'.state = Received(server.state) /\ server'.rpid = server.rpid
      BY <1>8 DEF PoolReads, SameServerPool, SameServerFields, IsStart
    <2>2. q # <<>> /\ m = Head(q) /\ client'.state = client.state
      BY <2>1 DEF Reads, SameClientPool
    <2>3. /\ 1 \in DOMAIN q /\ m = q[1]
          /\ \A i \in DOMAIN q : i \in Nat /\ i # 0
      BY <2>2, PoolTypes
    <2> HIDE DEF q
    <2>4. /\ m.type = "SessionCapability" => m.rpid = client.rpid
          /\ client.state # "BeforeOpen"
      BY <2>2, <2>3 DEF OpenInv, AsksInOrder, IsCapability, q
    <2>5. IsStart(m) => server.rpid # NoId
      <3> SUFFICES ASSUME IsStart(m), server.rpid = NoId PROVE FALSE
        OBVIOUS
      <3>1. PICK j \in DOMAIN q : j < 1
        BY <2>3 DEF OpenInv, AsksInOrder, q
      <3> QED
        BY <2>3, <3>1
    <2> QED
      BY <1>1, <1>2, <1>3, <1>4, <2>1, <2>2, <2>4, <2>5
      DEF StatesInOrder, New, Received
  <1> QED
    BY <1>5, <1>6, <1>7, <1>8 DEF PoolSteps

\* The first client is never asked for a key that no server program requests.
KeyUnasked == AsksNoKey(toClient[Pool]) /\ ~KeyRefused(client)

LEMMA KeyUnaskedStep ==
    ASSUME TypeOK, KeyUnasked, PoolSteps, "request_key" \notin Calls
    PROVE  KeyUnasked'
  <1> DEFINE q == toClient[Pool]
             r == toClient'[Pool]
  <1>1. q \in Seq(ToClient[Pool])
    BY PoolTypes
  <1>2. AsksNoKey(q) /\ ~KeyRefused(client)
    BY DEF KeyUnasked
  <1>3. SUFFICES AsksNoKey(r) /\ ~KeyRefused(client')
    BY DEF KeyUnasked, KeyRefused, AsksNoKey
  <1>4. ASSUME NEW m, Told(<<m>>), m.type # "PublicKeyRequest"
        PROVE  AsksNoKey(r)
    <2>1. r = q \o <<m>>
      BY <1>4 DEF Told
    <2> HIDE DEF q, r
    <2> QED
      BY <1>1, <1>2, <1>4, <2>1, SaidOne
  <1>5. ASSUME Told(<<>>)
        PROVE  AsksNoKey(r)
    <2>1. r = q
      BY <1>1, <1>5, Puts DEF Told
    <2> QED
      BY <1>2, <2>1
  <1>6. CASE PoolRests
    <2>1. ~KeyRefused(client')
      BY <1>2, <1>6 DEF PoolRests, SameClientPool, SameClientFields
    <2>2. \/ Told(<<>>)
          \/ \E m \in ToClient[Pool] : m.type # "PublicKeyRequest" /\ Told(<<m>>)
      BY <1>6 DEF PoolRests
    <2> QED
      BY <1>4, <1>5, <2>1, <2>2
  <1>7. CASE PoolOpens \/ PoolTurns \/ PoolSets \/ PoolAsks \/ PoolStirs
    <2>1. Told(<<>>) /\ ~KeyRefused(client')
      BY <1>2, <1>7
      DEF PoolOpens, PoolTurns, PoolSets, PoolAsks, PoolStirs, SamePoolQueues,
          SameClientPool, SameClientFields
    <2> QED
      BY <1>5, <2>1
  <1>8. CASE PoolServes \/ PoolAnswers
    <2>1. ~KeyRefused(client')
      BY <1>2, <1>8 DEF PoolServes, PoolAnswers, SameClientPool, SameClientFields
    <2>2. \/ Told(<<>>) \/ Told(<<RunspacePoolStateMsg(server'.state)>>)
          \/ \E a, b, c : Told(<<RunspaceAvailability(a, b, c)>>)
      BY <1>8 DEF PoolServes, PoolAnswers
    <2>3. /\ RunspacePoolStateMsg(server'.state).type # "PublicKeyRequest"
          /\ \A a, b, c : RunspaceAvailability(a, b, c).type # "PublicKeyRequest"
      BY DEF RunspacePoolStateMsg, RunspaceAvailability
    <2> QED
      BY <1>4, <1>5, <2>1, <2>2, <2>3
  <1>9. CASE PoolHears
    <2>1. PICK m \in ToClient[Pool] : Hears(m)
      BY <1>9 DEF PoolHears
    <2>2. /\ q # <<>> /\ m = Head(q) /\ r = Tail(q)
          /\ KeyRefused(client') => KeyRefused(client) \/ m.type = "PublicKeyRequest"
      BY <2>1 DEF Hears
    <2> HIDE DEF q, r
    <2> QED
      BY <1>1, <1>2, <2>2, SaidTail
  <1>10. CASE PoolReads
    <2> DEFINE a == RunspacePoolInitData(server.min, server.max)
               b == Plain("ApplicationPrivateData")
               c == RunspacePoolStateMsg("Opened")
               d == SessionCapability(ServerVersion, server.rpid)
    <2>1. PICK m \in ToServer[Pool] :
            /\ SameClientPool
            /\ \/ Told(<<>>) \/ Told(<<d>>) \/ Told(<<b, c>>) \/ Told(<<a, b, c>>)
               \/ Told(<<EncryptedSessionKey(m.key)>>)
      BY <1>10 DEF PoolReads, Reads
    <2>2. ~KeyRefused(client')
      BY <1>2, <2>1 DEF SameClientPool, SameClientFields
    <2>3. /\ a.type # "PublicKeyRequest" /\ b.type # "PublicKeyRequest"
          /\ c.type # "PublicKeyRequest" /\ d.type # "PublicKeyRequest"
          /\ EncryptedSessionKey(m.key).type # "PublicKeyRequest"
      BY DEF RunspacePoolInitData, Plain, RunspacePoolStateMsg, SessionCapability,
             EncryptedSessionKey
    <2>4. CASE Told(<<>>) \/ Told(<<d>>) \/ Told(<<EncryptedSessionKey(m.key)>>)
      BY <1>4, <1>5, <2>2, <2>3, <2>4
    <2>5. CASE Told(<<b, c>>)
      <3>1. r = q \o <<b, c>>
        BY <2>5 DEF Told
      <3> HIDE DEF a, b, c, d, q, r
      <3>2. /\ <<b, c>> \in Seq({b, c}) /\ DOMAIN <<b, c>> = 1..2
            /\ <<b, c>>[1] = b /\ <<b, c>>[2] = c
        OBVIOUS
      <3>3. AsksNoKey(<<b, c>>)
        BY <2>3, <3>2 DEF AsksNoKey
      <3> QED
        BY <1>1, <1>2, <2>2, <3>1, <3>2, <3>3, SaidPut
    <2>6. CASE Told(<<a, b, c>>)
      <3>1. r = q \o <<a, b, c>>
        BY <2>6 DEF Told
      <3> HIDE DEF a, b, c, d, q, r
      <3>2. /\ <<a, b, c>> \in Seq({a, b, c}) /\ DOMAIN <<a, b, c>> = 1..3
            /\ <<a, b, c>>[1] = a /\ <<a, b, c>>[2] = b /\ <<a, b, c>>[3] = c
        OBVIOUS
      <3>3. AsksNoKey(<<a, b, c>>)
        BY <2>3, <3>2 DEF AsksNoKey
      <3> QED
        BY <1>1, <1>2, <2>2, <3>1, <3>2, <3>3, SaidPut
    <2> QED
      BY <2>1, <2>4, <2>5, <2>6
  <1> QED
    BY <1>6, <1>7, <1>8, <1>9, <1>10 DEF PoolSteps
-----------------------------------------------------------------------------
(* The opening of a session *)

OpeningInv ==
    /\ TypeOK
    /\ Undisturbed => OpenInv
    /\ client.n = 1 /\ "request_key" \notin Calls => KeyUnasked

\* Nothing has been said in a session that has just begun.
LEMMA OpeningInitially == Init => OpeningInv
  <1> SUFFICES ASSUME Init PROVE OpeningInv
    OBVIOUS
  <1>1. PICK id \in PoolIds : client = NewClientPool(1, id)
    BY DEF Init
  <1>2. /\ client.state = "BeforeOpen" /\ client.raised = {}
        /\ server.state = "BeforeOpen" /\ server.rpid = NoId
        /\ toServer[Pool] = <<>> /\ toClient[Pool] = <<>>
    BY <1>1 DEF Init, NewClientPool, NewServerPool, Targets
  <1>3. \A i \in DOMAIN <<>> : FALSE
    OBVIOUS
  <1> QED
    BY <1>2, <1>3, InitTypes
    DEF OpeningInv, OpenInv, AsksInOrder, ToldInOrder, StatesInOrder, New, Announces,
        TellsNothing, KeyUnasked, AsksNoKey, KeyRefused

\* What a client that takes over from another one finds.
LEMMA TakenOver ==
    ASSUME TypeOK, ClientReplaced, Undisturbed'
    PROVE  /\ DrainFirst /\ server.requests = {} /\ UNCHANGED server
           /\ \A t \in Targets : toServer[t] = <<>> /\ toClient[t] = <<>>
           /\ \A t \in Targets : toServer'[t] = <<>> /\ toClient'[t] = <<>>
  <1>1. PICK id \in PoolIds : client' = NewClientPool(client.n + 1, id)
    BY DEF ClientReplaced
  <1>2. client.n \in Nat \ {0} /\ client'.n = client.n + 1
    BY <1>1 DEF TypeOK, ClientPools, NewClientPool
  <1>3. DrainFirst
    BY <1>2 DEF Undisturbed
  <1>4. /\ server.requests = {} /\ UNCHANGED server
        /\ \A t \in Targets : toServer[t] = <<>> /\ toClient[t] = <<>>
    BY <1>3 DEF ClientReplaced, NothingPending
  <1>5. \A t \in Targets : toServer'[t] = <<>> /\ toClient'[t] = <<>>
    BY <1>4, PartsType DEF ClientReplaced, TypeOK
  <1> QED
    BY <1>3, <1>4, <1>5

LEMMA OpeningStep == OpeningInv /\ [DocumentedNext]_vars => OpeningInv'
  <1> SUFFICES ASSUME OpeningInv, [DocumentedNext]_vars PROVE OpeningInv'
    OBVIOUS
  <1>1. TypeOK /\ TypeOK'
    BY DocumentedIsAllowed, NextTypes DEF OpeningInv
  <1>2. CASE PoolSteps
    <2>1. client'.n = client.n
      BY <1>2
      DEF PoolSteps, PoolRests, PoolOpens, PoolTurns, PoolSets, PoolAsks, PoolServes,
          PoolAnswers, PoolHears, Hears, PoolStirs, PoolReads, Reads, SameClientPool,
          SameClientFields
    <2>2. ASSUME Undisturbed'
          PROVE  OpenInv'
      <3>1. OpenInv
        BY <2>1, <2>2 DEF OpeningInv, Undisturbed
      <3> QED
        BY <1>1, <1>2, <3>1, AsksInOrderStep, ToldInOrderStep, StatesInOrderStep
        DEF OpenInv
    <2>3. ASSUME client'.n = 1, "request_key" \notin Calls
          PROVE  KeyUnasked'
      BY <1>1, <1>2, <2>1, <2>3, KeyUnaskedStep DEF OpeningInv
    <2> QED
      BY <1>1, <2>2, <2>3 DEF OpeningInv
  <1>3. CASE ClientReplaced
    <2>1. PICK id \in PoolIds : client' = NewClientPool(client.n + 1, id)
      BY <1>3 DEF ClientReplaced
    <2>2. /\ client.n \in Nat \ {0} /\ client'.n = client.n + 1 /\ client'.n # 1
          /\ client'.state = "BeforeOpen" /\ client'.rpid = id
      BY <1>1, <2>1 DEF TypeOK, ClientPools, NewClientPool
    <2>3. ASSUME Undisturbed'
          PROVE  OpenInv'
      <3>1. /\ DrainFirst /\ UNCHANGED server
            /\ toServer'[Pool] = <<>> /\ toClient'[Pool] = <<>>
        BY <1>1, <1>3, <2>3, TakenOver DEF Targets
      <3>2. StatesInOrder /\ (OneId => server.rpid \in {NoId, client.rpid})
        BY <3>1 DEF OpeningInv, Undisturbed, OpenInv
      <3>3. server.state = "Disconnected" /\ client.rpid \in PoolIds
        BY <1>1, <1>3, PoolTypes DEF ClientReplaced
      <3>4. \A i \in DOMAIN <<>> : FALSE
        OBVIOUS
      <3>5. AsksInOrder' /\ ToldInOrder'
        BY <2>2, <3>1, <3>2, <3>3, <3>4
        DEF AsksInOrder, ToldInOrder, Announces, TellsNothing, StatesInOrder
      <3>6. StatesInOrder'
        BY <2>2, <3>1, <3>2, <3>3 DEF StatesInOrder, New
      <3>7. OneId' => server'.rpid \in {NoId, client'.rpid}
        BY <2>2, <3>1, <3>2, <3>3 DEF OneId
      <3> QED
        BY <3>5, <3>6, <3>7 DEF OpenInv
    <2> QED
      BY <1>1, <2>2, <2>3 DEF OpeningInv
  <1> QED
    BY <1>1, <1>2, <1>3, EveryPoolStep

\* A client that is open is past its opening, and so is its server; and the
\* first client has nothing to raise an exception for.
LEMMA OpeningPromises ==
    ASSUME OpeningInv, PipelinesInv, SessionInv
    PROVE  /\ Undisturbed /\ OneId => Accepted
           /\ client.n = 1 => client.raised \subseteq {"PublicKeyRequest"}
                              /\ server.raised = {}
           /\ client.n = 1 /\ "request_key" \notin Calls => NoFailure
  <1>1. ASSUME Undisturbed, OneId
        PROVE  Accepted
    <2>1. StatesInOrder /\ server.rpid \in {NoId, client.rpid}
      BY <1>1 DEF OpeningInv, OpenInv
    <2> QED
      BY <2>1 DEF Accepted, StatesInOrder, New
  <1>2. ASSUME client.n = 1
        PROVE  client.raised \subseteq {"PublicKeyRequest"} /\ server.raised = {}
    <2>1. "PipelineState" \notin client.raised /\ server.raised = {}
      BY <1>2 DEF PipelinesInv, FirstInv
    <2>2. client.raised \intersect Answers = {}
      BY <1>2, SessionPromises DEF Undisturbed
    <2>3. client.raised \subseteq Refused
      BY DEF OpeningInv, TypeOK, ClientPools
    <2> QED
      BY <2>1, <2>2, <2>3 DEF Refused, Answers
  <1>3. ASSUME client.n = 1, "request_key" \notin Calls
        PROVE  NoFailure
    <2>1. "PublicKeyRequest" \notin client.raised
      BY <1>3 DEF OpeningInv, KeyUnasked, KeyRefused
    <2> QED
      BY <1>2, <1>3, <2>1 DEF NoFailure
  <1> QED
    BY <1>1, <1>2, <1>3

LEMMA SessionKept == SessionInv /\ [DocumentedNext]_vars => SessionInv'
  BY SessionStep, DocumentedIsAllowed

\* IsAccepted: a client that is Opened talks to a server that has taken its id
\* and is past its own opening, as long as no client takes over from one that
\* something is still due to, and all are about one pool.
THEOREM IsAccepted == DocumentedSpec => [](Undisturbed /\ OneId => Accepted)
  BY SessionInitially, SessionKept, PipelinesInitially, PipelinesStep,
     OpeningInitially, OpeningStep, OpeningPromises, PTL DEF DocumentedSpec

\* OnlyLateKeys: whatever the first client and its server do within the
\* documented use, the only message next_event() raises for is a request for a
\* key that comes when the client is no longer open.
THEOREM OnlyLateKeys ==
    DocumentedSpec => [](client.n = 1 => client.raised \subseteq {"PublicKeyRequest"}
                                         /\ server.raised = {})
  BY SessionInitially, SessionKept, PipelinesInitially, PipelinesStep,
     OpeningInitially, OpeningStep, OpeningPromises, PTL DEF DocumentedSpec

\* NothingFails: so with servers that leave the key exchange to the client, no
\* message makes next_event() raise, on either side.
THEOREM NothingFails ==
    DocumentedSpec => [](client.n = 1 /\ "request_key" \notin Calls => NoFailure)
  BY SessionInitially, SessionKept, PipelinesInitially, PipelinesStep,
     OpeningInitially, OpeningStep, OpeningPromises, PTL DEF DocumentedSpec
-----------------------------------------------------------------------------
(* The counts of a pool *)

\* What the handler of a request sets is what the server sets.
Matches(hs, x) ==
    \A h \in hs : h.ci = x.ci =>
        IF x.kind \in {"min", "max"} THEN h.field = x.kind /\ h.value = x.count
                                     ELSE h.field = None

AskedFor(q, hs) == \A i \in DOMAIN q : q[i].type = "Request" => Matches(hs, q[i])
HeldFor(R, hs)  == \A r \in R : Matches(hs, r)

\* A client opens or connects once, before it asks for anything, and with the
\* counts it has itself.
HasStart(q) == \E i \in DOMAIN q : IsStart(q[i])
OneStart(q) ==
    \A i, j \in DOMAIN q : IsStart(q[i]) =>
        (IsStart(q[j]) => i = j) /\ (q[j].type = "Request" => i < j)
SameStart(q, min, max) ==
    \A i \in DOMAIN q : q[i].type = "InitRunspacePool" => q[i].min = min /\ q[i].max = max

\* A message that sets the count f of a client with the handlers hs, to v.
Value(m, f) == IF f = "min" THEN m.min ELSE m.max
SetsTo(m, hs, f, v) ==
    \/ m.type = "RunspacePoolInitData" /\ Value(m, f) = v
    \/ /\ m.type = "RunspaceAvailability" /\ m.response
       /\ \E h \in hs : h.ci = m.ci /\ h.field = f /\ h.value = v
SetsCount(m, hs, f) ==
    \/ m.type = "RunspacePoolInitData"
    \/ /\ m.type = "RunspaceAvailability" /\ m.response
       /\ \E h \in hs : h.ci = m.ci /\ h.field = f

\* The count, now the value now, is v once the messages of q have been processed.
Settled(q, hs, now, f, v) ==
    \/ now = v /\ \A i \in DOMAIN q : ~SetsCount(q[i], hs, f)
    \/ \E i \in DOMAIN q :
          /\ SetsTo(q[i], hs, f, v)
          /\ \A j \in DOMAIN q : SetsCount(q[j], hs, f) => j <= i

\* The client has not opened, or its opening is still on the way.
Pending == client.state = "BeforeOpen" \/ HasStart(toServer[Pool])

CountsInv ==
    /\ AskedFor(toServer[Pool], client.handlers)
    /\ HeldFor(server.requests, client.handlers)
    /\ OneStart(toServer[Pool]) /\ SameStart(toServer[Pool], client.min, client.max)
    /\ Pending => server.requests = {} /\ SetsNothing(toClient[Pool])
    /\ ~Pending =>
         /\ Settled(toClient[Pool], client.handlers, client.min, "min", server.min)
         /\ Settled(toClient[Pool], client.handlers, client.max, "max", server.max)
-----------------------------------------------------------------------------
\* A queue of requests after one more message, and after the first was taken.
LEMMA AskPut ==
    ASSUME NEW S, NEW q \in Seq(S), NEW m, NEW r, r = q \o <<m>>, ~IsStart(m)
    PROVE  /\ \A hs : AskedFor(q, hs) /\ (m.type = "Request" => Matches(hs, m))
                        => AskedFor(r, hs)
           /\ OneStart(q) => OneStart(r)
           /\ \A a, b : SameStart(q, a, b) => SameStart(r, a, b)
           /\ HasStart(r) <=> HasStart(q)
  <1>1. /\ \A i \in DOMAIN q : i \in DOMAIN r /\ r[i] = q[i]
        /\ \A i \in DOMAIN r : \/ i \in DOMAIN q /\ r[i] = q[i]
                               \/ i = Len(q) + 1 /\ r[i] = m
    BY Puts
  <1>2. \A i \in DOMAIN q : i \in Nat /\ i < Len(q) + 1
    OBVIOUS
  <1>3. m.type # "InitRunspacePool"
    BY DEF IsStart
  <1>4. HasStart(r) <=> HasStart(q)
    BY <1>1 DEF HasStart
  <1>5. \A a, b : SameStart(q, a, b) => SameStart(r, a, b)
    BY <1>1, <1>3 DEF SameStart
  <1>6. \A hs : AskedFor(q, hs) /\ (m.type = "Request" => Matches(hs, m)) => AskedFor(r, hs)
    BY <1>1 DEF AskedFor
  <1>7. OneStart(q) => OneStart(r)
    BY <1>1, <1>2 DEF OneStart
  <1> QED
    BY <1>4, <1>5, <1>6, <1>7

LEMMA AskTail ==
    ASSUME NEW S, NEW q \in Seq(S), q # <<>>, NEW r, r = Tail(q), NEW m, m = Head(q)
    PROVE  /\ \A hs : AskedFor(q, hs) =>
                 AskedFor(r, hs) /\ (m.type = "Request" => Matches(hs, m))
           /\ OneStart(q) => /\ OneStart(r) /\ (IsStart(m) => ~HasStart(r))
                             /\ m.type = "Request" => ~HasStart(q)
           /\ \A a, b : SameStart(q, a, b) =>
                 /\ SameStart(r, a, b)
                 /\ m.type = "InitRunspacePool" => m.min = a /\ m.max = b
           /\ ~IsStart(m) => (HasStart(r) <=> HasStart(q))
           /\ HasStart(r) => HasStart(q)
           /\ IsStart(m) => HasStart(q)
  <1>1. /\ 1 \in DOMAIN q /\ m = q[1]
        /\ \A i \in DOMAIN r : i \in Nat \ {0} /\ i + 1 \in DOMAIN q /\ r[i] = q[i + 1]
        /\ \A i \in DOMAIN q : i \in Nat /\ (i = 1 \/ (i - 1 \in DOMAIN r /\ r[i - 1] = q[i]))
    BY Shorter
  <1>2. \A i \in DOMAIN q : i >= 1
    OBVIOUS
  <1>3. \A hs : AskedFor(q, hs) => AskedFor(r, hs) /\ (m.type = "Request" => Matches(hs, m))
    BY <1>1 DEF AskedFor
  <1>4. \A a, b : SameStart(q, a, b) =>
           SameStart(r, a, b) /\ (m.type = "InitRunspacePool" => m.min = a /\ m.max = b)
    BY <1>1 DEF SameStart
  <1>5. /\ ~IsStart(m) => (HasStart(r) <=> HasStart(q))
        /\ HasStart(r) => HasStart(q)
        /\ IsStart(m) => HasStart(q)
    BY <1>1 DEF HasStart
  <1>6. ASSUME OneStart(q)
        PROVE  /\ OneStart(r) /\ (IsStart(m) => ~HasStart(r))
               /\ m.type = "Request" => ~HasStart(q)
    <2>1. ASSUME NEW i \in DOMAIN r, NEW j \in DOMAIN r, IsStart(r[i])
          PROVE  (IsStart(r[j]) => i = j) /\ (r[j].type = "Request" => i < j)
      <3>1. /\ IsStart(r[j]) => i + 1 = j + 1
            /\ r[j].type = "Request" => i + 1 < j + 1
            /\ i \in Nat /\ j \in Nat
        BY <1>1, <1>6, <2>1 DEF OneStart
      <3> QED
        BY <3>1
    <2>2. ASSUME IsStart(m), HasStart(r)
          PROVE  FALSE
      <3>1. PICK i \in DOMAIN r : IsStart(r[i])
        BY <2>2 DEF HasStart
      <3>2. i + 1 = 1 /\ i \in Nat \ {0}
        BY <1>1, <1>6, <2>2, <3>1 DEF OneStart
      <3> QED
        BY <3>2
    <2>3. ASSUME m.type = "Request", HasStart(q)
          PROVE  FALSE
      <3>1. PICK i \in DOMAIN q : IsStart(q[i])
        BY <2>3 DEF HasStart
      <3>2. i < 1 /\ i >= 1 /\ i \in Nat
        BY <1>1, <1>2, <1>6, <2>3, <3>1 DEF OneStart
      <3> QED
        BY <3>2
    <2> QED
      BY <2>1, <2>2, <2>3 DEF OneStart
  <1> QED
    BY <1>3, <1>4, <1>5, <1>6

\* A count settles to the same value whatever is put behind, and to the value
\* of a message that is put last.
LEMMA SettledPut ==
    ASSUME NEW S, NEW q \in Seq(S), NEW T, NEW msgs \in Seq(T), NEW r, r = q \o msgs,
           NEW hs, NEW now, NEW f, NEW v,
           \A i \in DOMAIN msgs : ~SetsCount(msgs[i], hs, f),
           Settled(q, hs, now, f, v)
    PROVE  Settled(r, hs, now, f, v)
  <1>1. /\ \A i \in DOMAIN q : i \in DOMAIN r /\ r[i] = q[i]
        /\ \A i \in DOMAIN r : \/ i \in DOMAIN q /\ r[i] = q[i]
                               \/ /\ i > Len(q) /\ i - Len(q) \in DOMAIN msgs
                                  /\ r[i] = msgs[i - Len(q)]
    BY Longer
  <1>2. \A j \in DOMAIN r : SetsCount(r[j], hs, f) => j \in DOMAIN q /\ SetsCount(q[j], hs, f)
    BY <1>1
  <1>3. CASE now = v /\ \A i \in DOMAIN q : ~SetsCount(q[i], hs, f)
    BY <1>2, <1>3 DEF Settled
  <1>4. CASE \E i \in DOMAIN q :
                /\ SetsTo(q[i], hs, f, v)
                /\ \A j \in DOMAIN q : SetsCount(q[j], hs, f) => j <= i
    <2>1. PICK i \in DOMAIN q :
                /\ SetsTo(q[i], hs, f, v)
                /\ \A j \in DOMAIN q : SetsCount(q[j], hs, f) => j <= i
      BY <1>4
    <2>2. i \in DOMAIN r /\ SetsTo(r[i], hs, f, v)
      BY <1>1, <2>1
    <2>3. \A j \in DOMAIN r : SetsCount(r[j], hs, f) => j <= i
      BY <1>2, <2>1
    <2> QED
      BY <2>2, <2>3 DEF Settled
  <1> QED
    BY <1>3, <1>4 DEF Settled

LEMMA SettledLast ==
    ASSUME NEW S, NEW q \in Seq(S), NEW m, NEW r, r = q \o <<m>>,
           NEW hs, NEW now, NEW f, NEW v,
           SetsTo(m, hs, f, v)
    PROVE  Settled(r, hs, now, f, v)
  <1>1. DOMAIN r = 1..(Len(q) + 1) /\ r[Len(q) + 1] = m /\ Len(q) \in Nat
    BY Puts
  <1>2. \A j \in DOMAIN r : j <= Len(q) + 1
    BY <1>1
  <1>3. Len(q) + 1 \in DOMAIN r
    BY <1>1
  <1> QED
    BY <1>1, <1>2, <1>3 DEF Settled

\* It depends on the handlers of the calls that messages of the queue answer.
SameFor(m, hs, others) ==
    m.type = "RunspaceAvailability" => \A h : h.ci = m.ci => (h \in hs <=> h \in others)

LEMMA SettledAs ==
    ASSUME NEW q, NEW hs, NEW others, \A i \in DOMAIN q : SameFor(q[i], hs, others),
           NEW now, NEW f, NEW v, Settled(q, hs, now, f, v)
    PROVE  Settled(q, others, now, f, v)
  <1>1. \A i \in DOMAIN q : SetsCount(q[i], hs, f) <=> SetsCount(q[i], others, f)
    BY DEF SameFor, SetsCount
  <1>2. \A i \in DOMAIN q : SetsTo(q[i], hs, f, v) <=> SetsTo(q[i], others, f, v)
    BY DEF SameFor, SetsTo
  <1> QED
    BY <1>1, <1>2 DEF Settled

\* A message that was taken set the count, or did not.
LEMMA SettledTail ==
    ASSUME NEW S, NEW q \in Seq(S), q # <<>>, NEW r, r = Tail(q),
           NEW hs, NEW now, NEW new, NEW f, NEW v,
           \/ ~SetsCount(Head(q), hs, f) /\ new = now
           \/ /\ SetsCount(Head(q), hs, f)
              /\ \A w : SetsTo(Head(q), hs, f, w) => new = w,
           Settled(q, hs, now, f, v)
    PROVE  Settled(r, hs, new, f, v)
  <1>1. /\ 1 \in DOMAIN q /\ Head(q) = q[1]
        /\ \A i \in DOMAIN r : i \in Nat \ {0} /\ i + 1 \in DOMAIN q /\ r[i] = q[i + 1]
        /\ \A i \in DOMAIN q : i \in Nat /\ (i = 1 \/ (i - 1 \in DOMAIN r /\ r[i - 1] = q[i]))
    BY Shorter
  <1>2. SetsTo(Head(q), hs, f, v) => SetsCount(Head(q), hs, f)
    BY DEF SetsTo, SetsCount
  <1>3. CASE now = v /\ \A i \in DOMAIN q : ~SetsCount(q[i], hs, f)
    <2>1. new = v
      BY <1>1, <1>3
    <2>2. \A i \in DOMAIN r : ~SetsCount(r[i], hs, f)
      BY <1>1, <1>3
    <2> QED
      BY <2>1, <2>2 DEF Settled
  <1>4. CASE \E i \in DOMAIN q :
                /\ SetsTo(q[i], hs, f, v)
                /\ \A j \in DOMAIN q : SetsCount(q[j], hs, f) => j <= i
    <2>1. PICK i \in DOMAIN q :
                /\ SetsTo(q[i], hs, f, v)
                /\ \A j \in DOMAIN q : SetsCount(q[j], hs, f) => j <= i
      BY <1>4
    <2>2. CASE i = 1
      <3>1. new = v
        BY <1>1, <1>2, <2>1, <2>2
      <3>2. ASSUME NEW k \in DOMAIN r, SetsCount(r[k], hs, f)
            PROVE  FALSE
        <4>1. k + 1 <= 1 /\ k \in Nat \ {0}
          BY <1>1, <2>1, <2>2, <3>2
        <4> QED
          BY <4>1
      <3> QED
        BY <3>1, <3>2 DEF Settled
    <2>3. CASE i # 1
      <3>1. i - 1 \in DOMAIN r /\ SetsTo(r[i - 1], hs, f, v)
        BY <1>1, <2>1, <2>3
      <3>2. ASSUME NEW k \in DOMAIN r, SetsCount(r[k], hs, f)
            PROVE  k <= i - 1
        <4>1. k + 1 <= i /\ k \in Nat /\ i \in Nat
          BY <1>1, <2>1, <3>2
        <4> QED
          BY <4>1
      <3> QED
        BY <3>1, <3>2 DEF Settled
    <2> QED
      BY <2>2, <2>3
  <1> QED
    BY <1>3, <1>4 DEF Settled

\* What CallsAccounted says of the call ids in the queues.
LEMMA CallFacts ==
    ASSUME TypeOK, CallsInv
    PROVE  /\ client.ci \in Nat /\ \A h \in client.handlers : h.ci \in Nat /\ h.ci < client.ci
           /\ \A g, h \in client.handlers : g.ci = h.ci => g = h
           /\ \A r \in server.requests :
                 r.ci # client.ci /\ \E h \in client.handlers : h.ci = r.ci
           /\ \A i \in DOMAIN toServer[Pool] :
                 toServer[Pool][i].type = "Request" => toServer[Pool][i].ci # client.ci
           /\ \A i \in DOMAIN toClient[Pool] :
                 toClient[Pool][i].type = "RunspaceAvailability"
                   => toClient[Pool][i].ci # client.ci
           /\ \A i, j \in DOMAIN toClient[Pool] :
                 /\ toClient[Pool][i].type = "RunspaceAvailability"
                 /\ toClient[Pool][j].type = "RunspaceAvailability"
                 /\ toClient[Pool][i].ci = toClient[Pool][j].ci
                 => i = j
  <1> DEFINE q == toServer[Pool]
             r == toClient[Pool]
             R == server.requests
             RA == "RunspaceAvailability"
  <1>1. /\ q \in Seq(ToServer[Pool]) /\ r \in Seq(ToClient[Pool])
        /\ client.ci \in Nat /\ IsFiniteSet(R)
        /\ \A h \in client.handlers : h.ci \in Nat /\ h.ci < client.ci
        /\ \A g, h \in client.handlers : g.ci = h.ci => g = h
        /\ \A e \in R : e.ci \in Nat
    BY PoolTypes DEF TypeOK, ClientPools, ServerPools, Handlers, Requests, CallsInv,
                     HandlersDiffer
  <1>2. /\ \A i \in DOMAIN q : q[i].type = "Request" => q[i].ci \in Nat
        /\ \A i \in DOMAIN r : r[i].type = RA => r[i].ci \in Nat
    <2>1. /\ \A i \in DOMAIN q : q[i] \in ToServer[Pool]
          /\ \A i \in DOMAIN r : r[i] \in ToClient[Pool]
      BY <1>1
    <2>2. /\ \A m \in ToServer[Pool] : m.type = "Request" => m.ci \in Nat
          /\ \A m \in ToClient[Pool] : m.type = RA => m.ci \in Nat
      BY DEF ToServer, ToClient, Targets, Capabilities
    <2> QED
      BY <2>1, <2>2
  <1>3. ASSUME NEW ci \in Nat
        PROVE  /\ CountCi(r, RA, ci) \in {0, 1}
               /\ ~(\E h \in client.handlers : h.ci = ci) =>
                    /\ \A i \in DOMAIN q : ~(q[i].type = "Request" /\ q[i].ci = ci)
                    /\ \A e \in R : e.ci # ci
                    /\ \A i \in DOMAIN r : ~(r[i].type = RA /\ r[i].ci = ci)
    <2> DEFINE a == CountCi(q, "Request", ci)
               b == Cardinality(Held(R, ci))
               c == CountCi(r, RA, ci)
    <2>1. Indicator(\E h \in client.handlers : h.ci = ci) = a + b + c
      BY <1>3 DEF CallsInv, Balanced
    <2>2. /\ a \in Nat
          /\ a = 0 <=> \A i \in DOMAIN q : ~(q[i].type = "Request" /\ q[i].ci = ci)
          /\ b \in Nat /\ (b = 0 <=> \A e \in R : e.ci # ci)
          /\ c \in Nat /\ (c = 0 <=> \A i \in DOMAIN r : ~(r[i].type = RA /\ r[i].ci = ci))
      BY <1>1, CountsType, HeldType
    <2> HIDE DEF a, b, c
    <2>3. c \in {0, 1} /\ (~(\E h \in client.handlers : h.ci = ci) => a = 0 /\ b = 0 /\ c = 0)
      BY <2>1, <2>2 DEF Indicator
    <2> QED
      BY <2>2, <2>3 DEF c
  <1>4. ASSUME NEW i \in DOMAIN r, NEW j \in DOMAIN r, r[i].type = RA, r[j].type = RA,
               r[i].ci = r[j].ci
        PROVE  i = j
    <2> DEFINE D == {k \in DOMAIN r : r[k].type = RA /\ r[k].ci = r[i].ci}
    <2>1. i \in D /\ j \in D
      BY <1>4
    <2>2. Cardinality(D) = CountCi(r, RA, r[i].ci)
      BY DEF CountCi, Count
    <2>3. IsFiniteSet(D)
      <3>1. DOMAIN r = 1..Len(r) /\ Len(r) \in Nat
        BY <1>1
      <3>2. IsFiniteSet(1..Len(r))
        BY <3>1, FS_Interval
      <3> QED
        BY <3>1, <3>2, FS_Subset
    <2>4. Cardinality(D) \in {0, 1}
      BY <1>2, <1>3, <1>4, <2>2
    <2> HIDE DEF D
    <2>5. Cardinality(D) # 0
      BY <2>1, <2>3, FS_EmptySet
    <2>6. \E x : D = {x}
      BY <2>3, <2>4, <2>5, FS_Singleton
    <2> QED
      BY <2>1, <2>6
  <1>5. \A h \in client.handlers : h.ci # client.ci
    BY <1>1
  <1>6. \A e \in R : e.ci # client.ci /\ \E h \in client.handlers : h.ci = e.ci
    BY <1>1, <1>3, <1>5
  <1> HIDE DEF q, r
  <1>7. /\ \A i \in DOMAIN q : q[i].type = "Request" => q[i].ci # client.ci
        /\ \A i \in DOMAIN r : r[i].type = RA => r[i].ci # client.ci
    BY <1>1, <1>3, <1>5
  <1> QED
    BY <1>1, <1>4, <1>6, <1>7 DEF q, r
-----------------------------------------------------------------------------
\* The invariant after a step.
LEMMA CountsThen ==
    ASSUME NEW hs, hs = client'.handlers,
           AskedFor(toServer'[Pool], hs), HeldFor(server'.requests, hs),
           OneStart(toServer'[Pool]), SameStart(toServer'[Pool], client'.min, client'.max),
           NEW pending \in BOOLEAN,
           pending <=> client'.state = "BeforeOpen" \/ HasStart(toServer'[Pool]),
           pending => server'.requests = {} /\ SetsNothing(toClient'[Pool]),
           ~pending =>
             /\ Settled(toClient'[Pool], hs, client'.min, "min", server'.min)
             /\ Settled(toClient'[Pool], hs, client'.max, "max", server'.max)
    PROVE  CountsInv'
  <1>1. /\ AskedFor(toServer[Pool], client.handlers)'
        /\ HeldFor(server.requests, client.handlers)'
    BY DEF AskedFor, HeldFor, Matches
  <1>2. OneStart(toServer[Pool])' /\ SameStart(toServer[Pool], client.min, client.max)'
    BY DEF OneStart, SameStart, IsStart
  <1>3. Pending' <=> pending
    BY DEF Pending, HasStart, IsStart
  <1>4. pending => server'.requests = {} /\ SetsNothing(toClient[Pool])'
    BY DEF SetsNothing, Setter
  <1>5. ~pending =>
          /\ Settled(toClient[Pool], client.handlers, client.min, "min", server.min)'
          /\ Settled(toClient[Pool], client.handlers, client.max, "max", server.max)'
    BY DEF Settled, SetsTo, SetsCount, Value
  <1> QED
    BY <1>1, <1>2, <1>3, <1>4, <1>5 DEF CountsInv

\* What is quiet about the counts: the queue to the server, and the one back.
AskingQuiet ==
    \/ Sent(<<>>)
    \/ \E m : ~IsStart(m) /\ m.type # "Request" /\ Sent(<<m>>)
TellingQuiet ==
    \/ Told(<<>>)
    \/ \E m : ~Setter(m) /\ Told(<<m>>)

LEMMA AsksSame ==
    ASSUME TypeOK, AskingQuiet
    PROVE  /\ \A hs : AskedFor(toServer[Pool], hs) => AskedFor(toServer'[Pool], hs)
           /\ OneStart(toServer[Pool]) => OneStart(toServer'[Pool])
           /\ \A a, b : SameStart(toServer[Pool], a, b) => SameStart(toServer'[Pool], a, b)
           /\ HasStart(toServer'[Pool]) <=> HasStart(toServer[Pool])
  <1> DEFINE q == toServer[Pool]
             r == toServer'[Pool]
  <1>1. q \in Seq(ToServer[Pool])
    BY PoolTypes
  <1>2. r = q \o <<>> \/ \E m : ~IsStart(m) /\ m.type # "Request" /\ r = q \o <<m>>
    BY DEF AskingQuiet, Sent
  <1> HIDE DEF q, r
  <1>3. r = q \/ \E m : ~IsStart(m) /\ m.type # "Request" /\ r = q \o <<m>>
    BY <1>1, <1>2, Puts
  <1>4. /\ \A hs : AskedFor(q, hs) => AskedFor(r, hs)
        /\ OneStart(q) => OneStart(r)
        /\ \A a, b : SameStart(q, a, b) => SameStart(r, a, b)
        /\ HasStart(r) <=> HasStart(q)
    BY <1>1, <1>3, AskPut
  <1> QED
    BY <1>4 DEF q, r

LEMMA SettlesSame ==
    ASSUME TypeOK, TellingQuiet
    PROVE  /\ SetsNothing(toClient[Pool]) => SetsNothing(toClient'[Pool])
           /\ \A hs, now, f, v : Settled(toClient[Pool], hs, now, f, v)
                                   => Settled(toClient'[Pool], hs, now, f, v)
  <1> DEFINE q == toClient[Pool]
             r == toClient'[Pool]
  <1>1. q \in Seq(ToClient[Pool])
    BY PoolTypes
  <1>2. r = q \o <<>> \/ \E m : ~Setter(m) /\ r = q \o <<m>>
    BY DEF TellingQuiet, Told
  <1> HIDE DEF q, r
  <1>3. CASE r = q \o <<>>
    <2>1. r = q
      BY <1>1, <1>3, Puts
    <2> QED
      BY <2>1 DEF q, r
  <1>4. CASE \E m : ~Setter(m) /\ r = q \o <<m>>
    <2>1. PICK m : ~Setter(m) /\ r = q \o <<m>>
      BY <1>4
    <2>2. SetsNothing(q) => SetsNothing(r)
      BY <1>1, <2>1, SaidOne
    <2>3. <<m>> \in Seq({m}) /\ \A i \in DOMAIN <<m>> : <<m>>[i] = m
      OBVIOUS
    <2>4. \A hs, f : \A i \in DOMAIN <<m>> : ~SetsCount(<<m>>[i], hs, f)
      BY <2>1, <2>3 DEF SetsCount, Setter
    <2>5. \A hs, now, f, v : Settled(q, hs, now, f, v) => Settled(r, hs, now, f, v)
      BY <1>1, <2>1, <2>3, <2>4, SettledPut
    <2> QED
      BY <2>2, <2>5 DEF q, r
  <1> QED
    BY <1>2, <1>3, <1>4

LEMMA CountsQuiet ==
    ASSUME TypeOK, CountsInv, AskingQuiet, TellingQuiet,
           client'.handlers = client.handlers,
           client'.min = client.min, client'.max = client.max,
           server'.requests = server.requests,
           server'.min = server.min, server'.max = server.max,
           client'.state = "BeforeOpen" <=> client.state = "BeforeOpen"
    PROVE  CountsInv'
  <1>1. Pending <=> client'.state = "BeforeOpen" \/ HasStart(toServer'[Pool])
    BY AsksSame DEF Pending
  <1>2. Pending => server'.requests = {} /\ SetsNothing(toClient'[Pool])
    BY SettlesSame DEF CountsInv
  <1>3. ~Pending =>
          /\ Settled(toClient'[Pool], client.handlers, client'.min, "min", server'.min)
          /\ Settled(toClient'[Pool], client.handlers, client'.max, "max", server'.max)
    BY SettlesSame DEF CountsInv
  <1>4. /\ AskedFor(toServer'[Pool], client.handlers)
        /\ HeldFor(server'.requests, client.handlers)
        /\ OneStart(toServer'[Pool]) /\ SameStart(toServer'[Pool], client'.min, client'.max)
    BY AsksSame DEF CountsInv
  <1>5. Pending \in BOOLEAN
    BY DEF Pending
  <1> QED
    BY <1>1, <1>2, <1>3, <1>4, <1>5, CountsThen

\* A client that opens has nothing due to it.
LEMMA CountsOpens ==
    ASSUME TypeOK, OpenInv, CountsInv, PoolOpens
    PROVE  CountsInv'
  <1> DEFINE q == toServer[Pool]
             r == toServer'[Pool]
             a == SessionCapability(ClientVersion, client.rpid)
  <1>1. PICK m \in {InitRunspacePool(client.min, client.max), Plain("ConnectRunspacePool")} :
          r = q \o <<a, m>>
    BY DEF PoolOpens, Sent
  <1>2. /\ client.state = "BeforeOpen" /\ client'.handlers = client.handlers
        /\ client'.min = client.min /\ client'.max = client.max
        /\ server'.requests = server.requests /\ Told(<<>>)
    BY DEF PoolOpens, SameClientFields, SameServerPool, SameServerFields
  <1>3. q = <<>> /\ server.requests = {} /\ SetsNothing(toClient[Pool])
    BY <1>2 DEF OpenInv, AsksInOrder, CountsInv, Pending
  <1>4. /\ ~IsStart(a) /\ a.type = "SessionCapability" /\ IsStart(m) /\ m.type # "Request"
        /\ m.type = "InitRunspacePool" => m.min = client.min /\ m.max = client.max
    BY DEF IsStart, SessionCapability, InitRunspacePool, Plain
  <1> HIDE DEF a
  <1>5. r = <<a, m>>
    BY <1>1, <1>3
  <1> HIDE DEF q, r
  <1>6. DOMAIN r = 1..2 /\ r[1] = a /\ r[2] = m
    BY <1>5
  <1>7. /\ \A hs : AskedFor(r, hs)
        /\ SameStart(r, client.min, client.max) /\ HasStart(r)
    BY <1>4, <1>6 DEF AskedFor, SameStart, HasStart
  <1>8. OneStart(r)
    BY <1>4, <1>6 DEF OneStart
  <1>9. SetsNothing(toClient'[Pool])
    <2>1. TellingQuiet
      BY <1>2 DEF TellingQuiet
    <2> QED
      BY <1>3, <2>1, SettlesSame
  <1>10. HeldFor(server'.requests, client'.handlers)
    BY <1>2, <1>3 DEF HeldFor
  <1>11. TRUE <=> client'.state = "BeforeOpen" \/ HasStart(toServer'[Pool])
    BY <1>7 DEF r
  <1> QED
    BY <1>2, <1>3, <1>7, <1>8, <1>9, <1>10, <1>11, CountsThen DEF r

\* A client that has not been opened sets its counts itself.
LEMMA CountsSets ==
    ASSUME TypeOK, OpenInv, CountsInv, PoolSets
    PROVE  CountsInv'
  <1>1. /\ client.state = "BeforeOpen" /\ client'.state = "BeforeOpen"
        /\ client'.handlers = client.handlers
        /\ server'.requests = server.requests /\ Sent(<<>>) /\ Told(<<>>)
    BY DEF PoolSets, SamePoolQueues, SameServerPool, SameServerFields
  <1>2. toServer[Pool] = <<>> /\ server.requests = {} /\ SetsNothing(toClient[Pool])
    BY <1>1 DEF OpenInv, AsksInOrder, CountsInv, Pending
  <1>3. toServer'[Pool] = <<>>
    BY <1>1, <1>2 DEF Sent
  <1>4. SetsNothing(toClient'[Pool])
    BY <1>1, <1>2, SettlesSame DEF TellingQuiet
  <1>5. \A i \in DOMAIN <<>> : FALSE
    OBVIOUS
  <1>6. /\ AskedFor(toServer'[Pool], client'.handlers) /\ OneStart(toServer'[Pool])
        /\ SameStart(toServer'[Pool], client'.min, client'.max)
        /\ HeldFor(server'.requests, client'.handlers)
    BY <1>1, <1>2, <1>3, <1>5 DEF AskedFor, OneStart, SameStart, HeldFor
  <1>7. TRUE <=> client'.state = "BeforeOpen" \/ HasStart(toServer'[Pool])
    BY <1>1
  <1> QED
    BY <1>1, <1>2, <1>4, <1>6, <1>7, CountsThen

\* A new call has a new call id, and its handler the kind and the count that
\* the request names.
LEMMA CountsAsks ==
    ASSUME TypeOK, CallsInv, CountsInv, PoolAsks
    PROVE  CountsInv'
  <1> DEFINE q  == toServer[Pool]
             r  == toServer'[Pool]
             hs == client.handlers
  <1>1. PICK kind \in {"available", "reset", "min", "max"}, field \in {None, "min", "max"},
             value \in Nat :
          /\ Asked(kind, field) /\ client.state # "BeforeOpen"
          /\ client'.state = client.state
          /\ client'.min = client.min /\ client'.max = client.max
          /\ client'.handlers = hs
               \union {[ci |-> client.ci, field |-> field, value |-> value]}
          /\ SameServerPool /\ Told(<<>>)
          /\ Sent(<<Request(kind, client.ci, value, client.n)>>)
    BY DEF PoolAsks
  <1> DEFINE h == [ci |-> client.ci, field |-> field, value |-> value]
             m == Request(kind, client.ci, value, client.n)
             others == hs \union {h}
  <1>2. /\ \A g \in hs : g.ci # client.ci
        /\ \A i \in DOMAIN q : q[i].type = "Request" => q[i].ci # client.ci
        /\ \A e \in server.requests : e.ci # client.ci
        /\ \A i \in DOMAIN toClient[Pool] :
             toClient[Pool][i].type = "RunspaceAvailability"
               => toClient[Pool][i].ci # client.ci
    BY CallFacts
  <1>3. h.ci = client.ci /\ h.field = field /\ h.value = value
    OBVIOUS
  <1>4. /\ m.ci = client.ci /\ m.kind = kind /\ m.count = value /\ m.type = "Request"
        /\ ~IsStart(m)
    BY DEF Request, IsStart
  <1>5. r = q \o <<m>> /\ q \in Seq(ToServer[Pool])
    BY <1>1, PoolTypes DEF Sent
  <1>6. client'.handlers = others
    BY <1>1
  <1>7. Matches(others, m)
    BY <1>1, <1>2, <1>3, <1>4 DEF Matches, Asked
  <1> HIDE DEF h, m
  <1>8. \A x : x.ci # client.ci /\ Matches(hs, x) => Matches(others, x)
    BY <1>3 DEF Matches
  <1>9. AskedFor(q, others) /\ HeldFor(server.requests, others)
    BY <1>2, <1>8 DEF CountsInv, AskedFor, HeldFor
  <1>10. \A i \in DOMAIN toClient[Pool] : SameFor(toClient[Pool][i], hs, others)
    BY <1>2, <1>3 DEF SameFor
  <1>11. OneStart(q) /\ SameStart(q, client.min, client.max)
    BY DEF CountsInv
  <1> HIDE DEF q, r, hs, others
  <1>12. /\ AskedFor(r, others) /\ OneStart(r) /\ SameStart(r, client.min, client.max)
         /\ HasStart(r) <=> HasStart(q)
    BY <1>4, <1>5, <1>7, <1>9, <1>11, AskPut
  <1>13. Pending <=> client'.state = "BeforeOpen" \/ HasStart(r)
    BY <1>1, <1>12 DEF Pending, q
  <1>14. /\ SetsNothing(toClient[Pool]) => SetsNothing(toClient'[Pool])
         /\ \A now, f, v : Settled(toClient[Pool], hs, now, f, v)
                             => Settled(toClient'[Pool], others, now, f, v)
    <2>1. TellingQuiet
      BY <1>1 DEF TellingQuiet
    <2>2. \A now, f, v : Settled(toClient[Pool], hs, now, f, v)
                             => Settled(toClient[Pool], others, now, f, v)
      BY <1>10, SettledAs
    <2> QED
      BY <2>1, <2>2, SettlesSame
  <1>15. /\ server'.requests = server.requests
         /\ server'.min = server.min /\ server'.max = server.max
    BY <1>1 DEF SameServerPool, SameServerFields
  <1>16. Pending => server'.requests = {} /\ SetsNothing(toClient'[Pool])
    BY <1>14, <1>15 DEF CountsInv
  <1>17. ~Pending =>
           /\ Settled(toClient'[Pool], others, client'.min, "min", server'.min)
           /\ Settled(toClient'[Pool], others, client'.max, "max", server'.max)
    BY <1>1, <1>14, <1>15 DEF CountsInv, hs
  <1>18. Pending \in BOOLEAN /\ HeldFor(server'.requests, others)
    BY <1>9, <1>15 DEF Pending
  <1>19. OneStart(r) /\ SameStart(r, client'.min, client'.max) /\ AskedFor(r, others)
    BY <1>1, <1>12
  <1> QED
    BY <1>6, <1>13, <1>16, <1>17, <1>18, <1>19, CountsThen DEF r

\* The server sets its count when it answers, and the answer is the last
\* message to set the client's.
LEMMA CountsAnswers ==
    ASSUME TypeOK, CallsInv, CountsInv, PoolAnswers
    PROVE  CountsInv'
  <1> DEFINE q  == toClient[Pool]
             s  == toClient'[Pool]
             hs == client.handlers
  <1>1. PICK r \in server.requests, response \in BOOLEAN :
          /\ SameClientPool /\ Sent(<<>>)
          /\ server'.requests = server.requests \ {r}
          /\ server'.max = IF response /\ r.kind = "max" THEN r.count ELSE server.max
          /\ server'.min = IF response /\ r.kind = "min" THEN r.count ELSE server.min
          /\ Told(<<RunspaceAvailability(r.ci, response, r.n)>>)
    BY DEF PoolAnswers
  <1> DEFINE m == RunspaceAvailability(r.ci, response, r.n)
  <1>2. PICK h \in hs : h.ci = r.ci
    BY CallFacts
  <1>3. Matches(hs, r)
    BY DEF CountsInv, HeldFor
  <1>4. m.type = "RunspaceAvailability" /\ m.ci = r.ci /\ m.response = response
    BY DEF RunspaceAvailability
  <1>5. s = q \o <<m>> /\ q \in Seq(ToClient[Pool])
    BY <1>1, PoolTypes DEF Told
  <1>6. ~Pending
    BY DEF CountsInv
  <1>7. /\ Settled(q, hs, client.min, "min", server.min)
        /\ Settled(q, hs, client.max, "max", server.max)
    BY <1>6 DEF CountsInv
  <1> HIDE DEF m, q, s
  <1>8. ASSUME NEW f \in {"min", "max"}, NEW now, NEW v, Settled(q, hs, now, f, v)
        PROVE  Settled(s, hs, now, f, IF response /\ r.kind = f THEN r.count ELSE v)
    <2>1. CASE response /\ r.kind = f
      <3>1. SetsTo(m, hs, f, r.count)
        BY <1>2, <1>3, <1>4, <2>1 DEF SetsTo, Matches
      <3> QED
        BY <1>5, <2>1, <3>1, SettledLast
    <2>2. CASE ~(response /\ r.kind = f)
      <3>1. ~SetsCount(m, hs, f)
        BY <1>3, <1>4, <2>2 DEF SetsCount, Matches, None
      <3>2. <<m>> \in Seq({m}) /\ \A i \in DOMAIN <<m>> : <<m>>[i] = m
        OBVIOUS
      <3>3. \A i \in DOMAIN <<m>> : ~SetsCount(<<m>>[i], hs, f)
        BY <3>1, <3>2
      <3>4. Settled(s, hs, now, f, v)
        BY <1>5, <1>8, <3>2, <3>3, SettledPut
      <3> QED
        BY <2>2, <3>4
    <2> QED
      BY <2>1, <2>2
  <1>9. /\ Settled(s, hs, client.min, "min", server'.min)
        /\ Settled(s, hs, client.max, "max", server'.max)
    <2>1. Settled(s, hs, client.min, "min",
                  IF response /\ r.kind = "min" THEN r.count ELSE server.min)
      BY <1>7, <1>8
    <2>2. Settled(s, hs, client.max, "max",
                  IF response /\ r.kind = "max" THEN r.count ELSE server.max)
      BY <1>7, <1>8
    <2> QED
      BY <1>1, <2>1, <2>2
  <1>10. /\ client'.handlers = hs /\ client'.state = client.state
         /\ client'.min = client.min /\ client'.max = client.max
    BY <1>1 DEF SameClientPool, SameClientFields
  <1>11. AskingQuiet
    BY <1>1 DEF AskingQuiet
  <1>12. /\ AskedFor(toServer'[Pool], hs) /\ OneStart(toServer'[Pool])
         /\ SameStart(toServer'[Pool], client.min, client.max)
         /\ HasStart(toServer'[Pool]) <=> HasStart(toServer[Pool])
    BY <1>11, AsksSame DEF CountsInv
  <1>13. FALSE <=> client'.state = "BeforeOpen" \/ HasStart(toServer'[Pool])
    BY <1>6, <1>10, <1>12 DEF Pending
  <1>14. HeldFor(server'.requests, hs)
    BY <1>1 DEF CountsInv, HeldFor
  <1>15. /\ Settled(toClient'[Pool], hs, client'.min, "min", server'.min)
         /\ Settled(toClient'[Pool], hs, client'.max, "max", server'.max)
    BY <1>9, <1>10 DEF s
  <1> HIDE DEF hs
  <1>16. SameStart(toServer'[Pool], client'.min, client'.max)
    BY <1>10, <1>12
  <1> QED
    BY <1>10, <1>12, <1>13, <1>14, <1>15, <1>16, CountsThen

\* A client takes its counts from what it is told, and the value that was to
\* come last still is.
LEMMA CountsHears ==
    ASSUME TypeOK, CallsInv, OpenInv, CountsInv, PoolHears
    PROVE  CountsInv'
  <1> DEFINE q  == toClient[Pool]
             r  == toClient'[Pool]
             hs == client.handlers
             others == client'.handlers
  <1>1. PICK m \in ToClient[Pool] :
          /\ Hears(m)
          /\ \/ client'.state = client.state
             \/ m.type = "ApplicationPrivateData" /\ client'.state = "Opened"
             \/ m.type = "RunspacePoolState" /\ client'.state = m.state
          /\ Sent(<<>>) \/ Sent(<<PublicKey(client.n)>>)
          /\ \/ /\ ~Setter(m) /\ others = hs
                /\ client'.min = client.min /\ client'.max = client.max
             \/ /\ m.type = "RunspacePoolInitData" /\ others = hs
                /\ client'.min = m.min /\ client'.max = m.max
             \/ /\ m.type = "RunspaceAvailability" /\ others = hs
                /\ \A h \in hs : h.ci # m.ci
                /\ client'.min = client.min /\ client'.max = client.max
             \/ /\ m.type = "RunspaceAvailability"
                /\ \E h \in hs :
                      /\ h.ci = m.ci /\ others = hs \ {h}
                      /\ client'.max = IF m.response /\ h.field = "max" THEN h.value
                                                                        ELSE client.max
                      /\ client'.min = IF m.response /\ h.field = "min" THEN h.value
                                                                        ELSE client.min
    <2>1. PICK m \in ToClient[Pool] :
            /\ Hears(m)
            /\ \/ /\ m.type \in {"SessionCapability", "ApplicationPrivateData", "UserEvent",
                                 "PublicKeyRequest", "EncryptedSessionKey", "HostCall"}
                  /\ \/ client'.state = client.state
                     \/ /\ m.type = "ApplicationPrivateData"
                        /\ client.state = "Connecting" /\ client'.state = "Opened"
                  /\ client'.min = client.min /\ client'.max = client.max
                  /\ client'.handlers = client.handlers
                  /\ Sent(<<>>) \/ (client.state = "Opened" /\ Sent(<<PublicKey(client.n)>>))
               \/ /\ m.type = "RunspacePoolState" /\ client'.state = m.state
                  /\ client'.min = client.min /\ client'.max = client.max
                  /\ client'.handlers = client.handlers /\ Sent(<<>>)
               \/ /\ m.type = "RunspacePoolInitData" /\ client'.state = client.state
                  /\ client'.min = m.min /\ client'.max = m.max
                  /\ client'.handlers = client.handlers /\ Sent(<<>>)
               \/ /\ m.type = "RunspaceAvailability" /\ client'.state = client.state
                  /\ Sent(<<>>)
                  /\ \A h \in client.handlers : h.ci # m.ci
                  /\ client'.min = client.min /\ client'.max = client.max
                  /\ client'.handlers = client.handlers
               \/ /\ m.type = "RunspaceAvailability" /\ client'.state = client.state
                  /\ Sent(<<>>)
                  /\ \E h \in client.handlers :
                        /\ h.ci = m.ci /\ client'.handlers = client.handlers \ {h}
                        /\ client'.max = IF m.response /\ h.field = "max" THEN h.value
                                                                          ELSE client.max
                        /\ client'.min = IF m.response /\ h.field = "min" THEN h.value
                                                                          ELSE client.min
      BY DEF PoolHears
    <2> QED
      BY <2>1 DEF Setter
  <1>2. /\ q # <<>> /\ m = Head(q) /\ r = Tail(q) /\ q \in Seq(ToClient[Pool])
        /\ server'.requests = server.requests
        /\ server'.min = server.min /\ server'.max = server.max
    BY <1>1, PoolTypes DEF Hears, SameServerPool, SameServerFields
  \* The client is open or not as it was.
  <1>3. /\ m.type = "RunspacePoolState" => m.state \in Announced
        /\ Tells(m) => ~Early
    BY <1>2, SaidTail DEF OpenInv, ToldInOrder
  <1>4. client'.state = "BeforeOpen" <=> client.state = "BeforeOpen"
    BY <1>1, <1>3 DEF Tells, Early, Announced, OpenInv, StatesInOrder
  \* Nothing is asked for.
  <1>5. AskingQuiet
    BY <1>1 DEF AskingQuiet, PublicKey, IsStart
  <1>6. /\ AskedFor(toServer'[Pool], hs) /\ OneStart(toServer'[Pool])
        /\ SameStart(toServer'[Pool], client.min, client.max)
        /\ HasStart(toServer'[Pool]) <=> HasStart(toServer[Pool])
    BY <1>5, AsksSame DEF CountsInv
  <1>7. Pending <=> client'.state = "BeforeOpen" \/ HasStart(toServer'[Pool])
    BY <1>4, <1>6 DEF Pending
  <1>8. others \subseteq hs
    BY <1>1
  <1>9. AskedFor(toServer'[Pool], others) /\ HeldFor(server'.requests, others)
    BY <1>2, <1>6, <1>8 DEF CountsInv, AskedFor, HeldFor, Matches
  \* While the opening is on the way the counts stay.
  <1>10. ASSUME Pending
         PROVE  /\ server'.requests = {} /\ SetsNothing(r)
                /\ client'.min = client.min /\ client'.max = client.max
    <2>1. server.requests = {} /\ SetsNothing(q)
      BY <1>10 DEF CountsInv
    <2>2. SetsNothing(r) /\ ~Setter(m)
      BY <1>2, <2>1, SaidTail
    <2> QED
      BY <1>1, <1>2, <2>1, <2>2 DEF Setter
  <1>11. SameStart(toServer'[Pool], client'.min, client'.max)
    <2>1. CASE Pending
      BY <1>6, <1>10, <2>1
    <2>2. CASE ~Pending
      BY <1>7, <2>2 DEF SameStart, HasStart, IsStart
    <2> QED
      BY <2>1, <2>2
  \* And otherwise they settle as before.
  <1>12. \A i \in DOMAIN r : SameFor(r[i], hs, others)
    <2>1. CASE others = hs
      BY <2>1 DEF SameFor
    <2>2. CASE m.type = "RunspaceAvailability" /\ \E h \in hs : h.ci = m.ci /\ others = hs \ {h}
      <3>1. PICK h \in hs : h.ci = m.ci /\ others = hs \ {h}
        BY <2>2
      <3>2. /\ 1 \in DOMAIN q /\ m = q[1]
            /\ \A i \in DOMAIN r : i \in Nat \ {0} /\ i + 1 \in DOMAIN q /\ r[i] = q[i + 1]
        BY <1>2, Shorter
      <3>3. ASSUME NEW i \in DOMAIN r, r[i].type = "RunspaceAvailability"
            PROVE  r[i].ci # m.ci
        <4>1. q[i + 1].ci = q[1].ci => i + 1 = 1
          BY <2>2, <3>2, <3>3, CallFacts
        <4> QED
          BY <3>2, <4>1
      <3> QED
        BY <3>1, <3>3 DEF SameFor
    <2> QED
      BY <1>1, <2>1, <2>2
  <1>13. \A g, h \in hs : g.ci = h.ci => g = h
    BY CallFacts
  <1> HIDE DEF q, r, hs, others
  <1>14. ASSUME NEW f \in {"min", "max"}, NEW v, NEW now, NEW new,
                /\ m.type = "RunspacePoolInitData" => new = Value(m, f)
                /\ ~SetsCount(m, hs, f) => new = now
                /\ m.type = "RunspaceAvailability" =>
                     \A h \in hs : h.ci = m.ci /\ m.response /\ h.field = f => new = h.value,
                Settled(q, hs, now, f, v)
         PROVE  Settled(r, others, new, f, v)
    <2>1. \A w : SetsTo(m, hs, f, w) => new = w
      BY <1>14 DEF SetsTo
    <2>2. Settled(r, hs, new, f, v)
      BY <1>2, <1>14, <2>1, SettledTail
    <2> QED
      BY <1>12, <2>2, SettledAs
  <1>15. ASSUME NEW f \in {"min", "max"}, NEW now, NEW new,
                \/ ~Setter(m) /\ new = now
                \/ m.type = "RunspacePoolInitData" /\ new = Value(m, f)
                \/ /\ m.type = "RunspaceAvailability" /\ new = now
                   /\ \A h \in hs : h.ci # m.ci
                \/ /\ m.type = "RunspaceAvailability"
                   /\ \E h \in hs :
                         /\ h.ci = m.ci
                         /\ new = IF m.response /\ h.field = f THEN h.value ELSE now
         PROVE  \A v : Settled(q, hs, now, f, v) => Settled(r, others, new, f, v)
    <2>1. m.type = "RunspacePoolInitData" => new = Value(m, f)
      BY <1>15 DEF Setter
    <2>2. ~SetsCount(m, hs, f) => new = now
      BY <1>15 DEF SetsCount
    <2>3. m.type = "RunspaceAvailability" =>
            \A h \in hs : h.ci = m.ci /\ m.response /\ h.field = f => new = h.value
      BY <1>13, <1>15 DEF Setter
    <2> QED
      BY <1>14, <2>1, <2>2, <2>3
  <1>16. \A v : Settled(q, hs, client.min, "min", v) => Settled(r, others, client'.min, "min", v)
    <2>1. \/ ~Setter(m) /\ client'.min = client.min
          \/ m.type = "RunspacePoolInitData" /\ client'.min = Value(m, "min")
          \/ /\ m.type = "RunspaceAvailability" /\ client'.min = client.min
             /\ \A h \in hs : h.ci # m.ci
          \/ /\ m.type = "RunspaceAvailability"
             /\ \E h \in hs :
                   /\ h.ci = m.ci
                   /\ client'.min = IF m.response /\ h.field = "min" THEN h.value ELSE client.min
      BY <1>1 DEF Value
    <2> QED
      BY <1>15, <2>1
  <1>17. \A v : Settled(q, hs, client.max, "max", v) => Settled(r, others, client'.max, "max", v)
    <2>1. \/ ~Setter(m) /\ client'.max = client.max
          \/ m.type = "RunspacePoolInitData" /\ client'.max = Value(m, "max")
          \/ /\ m.type = "RunspaceAvailability" /\ client'.max = client.max
             /\ \A h \in hs : h.ci # m.ci
          \/ /\ m.type = "RunspaceAvailability"
             /\ \E h \in hs :
                   /\ h.ci = m.ci
                   /\ client'.max = IF m.response /\ h.field = "max" THEN h.value ELSE client.max
      BY <1>1 DEF Value
    <2> QED
      BY <1>15, <2>1
  <1>18. ~Pending =>
           /\ Settled(r, others, client'.min, "min", server'.min)
           /\ Settled(r, others, client'.max, "max", server'.max)
    BY <1>2, <1>16, <1>17 DEF CountsInv, q, hs
  <1>19. Pending \in BOOLEAN /\ others = client'.handlers
    BY DEF Pending, others
  <1>20. Pending => server'.requests = {} /\ SetsNothing(r)
    BY <1>10
  <1> QED
    BY <1>6, <1>7, <1>9, <1>11, <1>18, <1>19, <1>20, CountsThen DEF r

\* The server takes the counts of a client that opens, which has not been told
\* others yet, and tells its own to one that connects.
LEMMA CountsReads ==
    ASSUME TypeOK, OpenInv, CountsInv, PoolReads
    PROVE  CountsInv'
  <1> DEFINE q  == toServer[Pool]
             r  == toServer'[Pool]
             hs == client.handlers
             back == toClient[Pool]
             told == toClient'[Pool]
             a  == RunspacePoolInitData(server.min, server.max)
             b  == Plain("ApplicationPrivateData")
             c  == RunspacePoolStateMsg("Opened")
  <1>1. PICK m \in ToServer[Pool] :
          /\ Reads(m)
          /\ \/ /\ ~IsStart(m) /\ m.type # "Request" /\ TellingQuiet
                /\ server'.requests = server.requests
                /\ server'.min = server.min /\ server'.max = server.max
             \/ /\ m.type = "InitRunspacePool" /\ server'.requests = server.requests
                /\ server'.min = m.min /\ server'.max = m.max
                /\ Told(<<b, c>>)
             \/ /\ m.type = "ConnectRunspacePool" /\ server'.requests = server.requests
                /\ server'.min = server.min /\ server'.max = server.max
                /\ Told(<<a, b, c>>)
             \/ /\ m.type = "Request"
                /\ server'.requests = PutCi(server.requests, Record(m))
                /\ server'.min = server.min /\ server'.max = server.max
                /\ TellingQuiet
    <2>1. PICK m \in ToServer[Pool] :
            /\ Reads(m)
            /\ \/ /\ m.type = "SessionCapability" /\ SameServerPool /\ Told(<<>>)
               \/ /\ m.type = "SessionCapability" /\ server'.requests = server.requests
                  /\ server'.min = server.min /\ server'.max = server.max
                  /\ Told(<<SessionCapability(ServerVersion, server.rpid)>>)
               \/ /\ m.type = "InitRunspacePool" /\ server'.requests = server.requests
                  /\ server'.min = m.min /\ server'.max = m.max
                  /\ Told(<<b, c>>)
               \/ /\ m.type = "ConnectRunspacePool" /\ SameServerFields
                  /\ Told(<<a, b, c>>)
               \/ /\ m.type = "Request"
                  /\ server'.requests = PutCi(server.requests, Record(m))
                  /\ server'.min = server.min /\ server'.max = server.max
                  /\ Told(<<>>)
               \/ /\ m.type \in {"PublicKey", "HostResponse"} /\ SameServerFields
                  /\ Told(<<>>) \/ Told(<<EncryptedSessionKey(m.key)>>)
      BY DEF PoolReads
    <2>2. /\ Told(<<>>) => TellingQuiet
          /\ Told(<<SessionCapability(ServerVersion, server.rpid)>>) => TellingQuiet
          /\ Told(<<EncryptedSessionKey(m.key)>>) => TellingQuiet
      BY DEF TellingQuiet, SessionCapability, EncryptedSessionKey, Setter
    <2> HIDE DEF a, b, c
    <2> QED
      BY <2>1, <2>2 DEF SameServerPool, SameServerFields, IsStart
  <1>2. /\ q # <<>> /\ m = Head(q) /\ r = Tail(q) /\ q \in Seq(ToServer[Pool])
        /\ back \in Seq(ToClient[Pool])
        /\ client'.handlers = hs /\ client'.state = client.state
        /\ client'.min = client.min /\ client'.max = client.max
    BY <1>1, PoolTypes DEF Reads, SameClientPool, SameClientFields
  <1>3. client.state # "BeforeOpen"
    BY <1>2 DEF OpenInv, AsksInOrder
  <1>4. /\ AskedFor(q, hs) /\ OneStart(q) /\ SameStart(q, client.min, client.max)
        /\ HeldFor(server.requests, hs)
        /\ HasStart(q) => server.requests = {} /\ SetsNothing(back)
        /\ ~HasStart(q) =>
             /\ Settled(back, hs, client.min, "min", server.min)
             /\ Settled(back, hs, client.max, "max", server.max)
    BY <1>3 DEF CountsInv, Pending
  <1> HIDE DEF q, r, hs, back, told, a, b, c
  <1>5. /\ AskedFor(r, hs) /\ OneStart(r) /\ SameStart(r, client.min, client.max)
        /\ m.type = "Request" => Matches(hs, m) /\ ~HasStart(q)
        /\ m.type = "InitRunspacePool" => m.min = client.min /\ m.max = client.max
        /\ IsStart(m) => HasStart(q) /\ ~HasStart(r)
        /\ ~IsStart(m) => (HasStart(r) <=> HasStart(q))
    <2> DEFINE S == ToServer[Pool]
    <2>1. q \in Seq(S) /\ q # <<>> /\ r = Tail(q) /\ m = Head(q)
      BY <1>2
    <2> HIDE DEF S
    <2>2. /\ \A x : AskedFor(q, x) =>
                 AskedFor(r, x) /\ (m.type = "Request" => Matches(x, m))
          /\ OneStart(q) => /\ OneStart(r) /\ (IsStart(m) => ~HasStart(r))
                            /\ m.type = "Request" => ~HasStart(q)
          /\ \A x, y : SameStart(q, x, y) =>
                /\ SameStart(r, x, y)
                /\ m.type = "InitRunspacePool" => m.min = x /\ m.max = y
          /\ ~IsStart(m) => (HasStart(r) <=> HasStart(q))
          /\ IsStart(m) => HasStart(q)
      BY <2>1, AskTail
    <2> QED
      BY <1>4, <2>2
  <1>6. /\ HasStart(r) \in BOOLEAN
        /\ HasStart(r) <=> client'.state = "BeforeOpen" \/ HasStart(r)
    BY <1>2, <1>3 DEF HasStart
  <1>7. SUFFICES /\ HeldFor(server'.requests, hs)
                 /\ HasStart(r) => server'.requests = {} /\ SetsNothing(told)
                 /\ ~HasStart(r) =>
                      /\ Settled(told, hs, client.min, "min", server'.min)
                      /\ Settled(told, hs, client.max, "max", server'.max)
    BY <1>2, <1>5, <1>6, CountsThen DEF r, told
  <1>8. ASSUME TellingQuiet
        PROVE  /\ SetsNothing(back) => SetsNothing(told)
               /\ \A now, f, v : Settled(back, hs, now, f, v) => Settled(told, hs, now, f, v)
    BY <1>8, SettlesSame DEF back, told
  <1>9. CASE /\ ~IsStart(m) /\ m.type # "Request" /\ TellingQuiet
             /\ server'.requests = server.requests
             /\ server'.min = server.min /\ server'.max = server.max
    BY <1>4, <1>5, <1>8, <1>9
  <1>10. CASE /\ m.type = "InitRunspacePool" /\ server'.requests = server.requests
              /\ server'.min = m.min /\ server'.max = m.max
              /\ Told(<<b, c>>)
    <2>1. IsStart(m)
      BY <1>10 DEF IsStart
    <2>2. HasStart(q) /\ ~HasStart(r) /\ SetsNothing(back)
      BY <1>4, <1>5, <2>1
    <2>3. told = back \o <<b, c>>
      BY <1>10 DEF Told, back, told
    <2>4. /\ <<b, c>> \in Seq({b, c}) /\ DOMAIN <<b, c>> = 1..2
          /\ <<b, c>>[1] = b /\ <<b, c>>[2] = c
      OBVIOUS
    <2>5. ~Setter(b) /\ ~Setter(c)
      BY DEF b, c, Plain, RunspacePoolStateMsg, Setter
    <2>6. SetsNothing(<<b, c>>)
      BY <2>4, <2>5 DEF SetsNothing
    <2>7. SetsNothing(told)
      BY <1>2, <2>2, <2>3, <2>4, <2>6, SaidPut
    <2>8. \A f : \A i \in DOMAIN told : ~SetsCount(told[i], hs, f)
      BY <2>7 DEF SetsNothing, Setter, SetsCount
    <2>9. server'.min = client.min /\ server'.max = client.max
      BY <1>5, <1>10
    <2> QED
      BY <1>4, <1>10, <2>2, <2>8, <2>9 DEF Settled
  <1>11. CASE /\ m.type = "ConnectRunspacePool" /\ server'.requests = server.requests
              /\ server'.min = server.min /\ server'.max = server.max
              /\ Told(<<a, b, c>>)
    <2>1. IsStart(m)
      BY <1>11 DEF IsStart
    <2>2. ~HasStart(r)
      BY <1>5, <2>1
    <2>3. told = back \o <<a, b, c>>
      BY <1>11 DEF Told, back, told
    <2>4. /\ <<a, b, c>> \in Seq({a, b, c}) /\ DOMAIN <<a, b, c>> = 1..3
          /\ <<a, b, c>>[1] = a /\ <<a, b, c>>[2] = b /\ <<a, b, c>>[3] = c
          /\ Len(<<a, b, c>>) = 3
      OBVIOUS
    <2>5. /\ DOMAIN told = 1..(Len(back) + 3)
          /\ \A i \in DOMAIN told : \/ i \in DOMAIN back
                                    \/ /\ i > Len(back) /\ i - Len(back) \in 1..3
                                       /\ told[i] = <<a, b, c>>[i - Len(back)]
      BY <1>2, <2>3, <2>4, Longer
    <2>6. Len(back) \in Nat /\ DOMAIN back = 1..Len(back)
      BY <1>2
    <2> DEFINE k == Len(back) + 1
    <2>7. k \in DOMAIN told /\ told[k] = a
      <3>1. k \in DOMAIN told /\ k \notin DOMAIN back /\ k - Len(back) = 1
        BY <2>5, <2>6
      <3> QED
        BY <2>4, <2>5, <3>1
    <2>8. ~Setter(b) /\ ~Setter(c)
      BY DEF b, c, Plain, RunspacePoolStateMsg, Setter
    <2>9. ASSUME NEW i \in DOMAIN told, NEW f, SetsCount(told[i], hs, f)
          PROVE  i <= k
      <3>1. CASE i \in DOMAIN back
        BY <2>6, <3>1
      <3>2. CASE i > Len(back) /\ i - Len(back) \in 1..3
                   /\ told[i] = <<a, b, c>>[i - Len(back)]
        <4>1. told[i] # b /\ told[i] # c
          BY <2>8, <2>9 DEF SetsCount, Setter
        <4>2. i - Len(back) # 2 /\ i - Len(back) # 3
          BY <2>4, <3>2, <4>1
        <4>3. i \in Nat
          BY <2>5, <2>6
        <4> QED
          BY <2>6, <3>2, <4>2, <4>3
      <3> QED
        BY <2>5, <3>1, <3>2
    <2>10. SetsTo(told[k], hs, "min", server.min) /\ SetsTo(told[k], hs, "max", server.max)
      BY <2>7 DEF SetsTo, Value, a, RunspacePoolInitData
    <2> HIDE DEF k
    <2>11. /\ Settled(told, hs, client.min, "min", server.min)
           /\ Settled(told, hs, client.max, "max", server.max)
      BY <2>7, <2>9, <2>10 DEF Settled
    <2> QED
      BY <1>4, <1>11, <2>2, <2>11
  <1>12. CASE /\ m.type = "Request"
              /\ server'.requests = PutCi(server.requests, Record(m))
              /\ server'.min = server.min /\ server'.max = server.max
              /\ TellingQuiet
    <2>1. Matches(hs, Record(m))
      BY <1>5, <1>12 DEF Matches, Record
    <2>2. HeldFor(server'.requests, hs)
      BY <1>4, <1>12, <2>1 DEF HeldFor, PutCi
    <2>3. ~HasStart(q) /\ ~HasStart(r)
      BY <1>5, <1>12 DEF IsStart
    <2> QED
      BY <1>4, <1>8, <1>12, <2>2, <2>3
  <1> QED
    BY <1>1, <1>9, <1>10, <1>11, <1>12

\* A client that takes over has nothing due to it, and no calls.
LEMMA CountsReplaced ==
    ASSUME TypeOK, ClientReplaced, Undisturbed'
    PROVE  CountsInv'
  <1>1. PICK id \in PoolIds : client' = NewClientPool(client.n + 1, id)
    BY DEF ClientReplaced
  <1>2. /\ server'.requests = {} /\ toServer'[Pool] = <<>> /\ toClient'[Pool] = <<>>
        /\ client'.state = "BeforeOpen"
    BY <1>1, TakenOver DEF Targets, NewClientPool
  <1>3. \A i \in DOMAIN <<>> : FALSE
    OBVIOUS
  <1>4. /\ AskedFor(toServer'[Pool], client'.handlers) /\ OneStart(toServer'[Pool])
        /\ SameStart(toServer'[Pool], client'.min, client'.max)
        /\ HeldFor(server'.requests, client'.handlers)
        /\ SetsNothing(toClient'[Pool])
    BY <1>2, <1>3 DEF AskedFor, OneStart, SameStart, HeldFor, SetsNothing
  <1>5. TRUE <=> client'.state = "BeforeOpen" \/ HasStart(toServer'[Pool])
    BY <1>2
  <1> QED
    BY <1>2, <1>4, <1>5, CountsThen

LEMMA CountsInitially == Init => CountsInv
  <1> SUFFICES ASSUME Init PROVE CountsInv
    OBVIOUS
  <1>1. /\ client.state = "BeforeOpen" /\ server.requests = {}
        /\ toServer[Pool] = <<>> /\ toClient[Pool] = <<>>
    BY DEF Init, NewClientPool, NewServerPool, Targets
  <1>2. \A i \in DOMAIN <<>> : FALSE
    OBVIOUS
  <1> QED
    BY <1>1, <1>2
    DEF CountsInv, Pending, AskedFor, OneStart, SameStart, HeldFor, SetsNothing

LEMMA CountsStep ==
    ASSUME SessionInv, OpeningInv, Undisturbed => CountsInv, [DocumentedNext]_vars
    PROVE  Undisturbed' => CountsInv'
  <1> SUFFICES ASSUME Undisturbed' PROVE CountsInv'
    OBVIOUS
  <1>1. TypeOK
    BY DEF SessionInv
  <1>2. CASE ClientReplaced
    BY <1>1, <1>2, CountsReplaced
  <1>3. CASE PoolSteps
    <2>1. client'.n = client.n
      BY <1>3
      DEF PoolSteps, PoolRests, PoolOpens, PoolTurns, PoolSets, PoolAsks, PoolServes,
          PoolAnswers, PoolHears, Hears, PoolStirs, PoolReads, Reads, SameClientPool,
          SameClientFields
    <2>2. Undisturbed
      BY <2>1 DEF Undisturbed
    <2>3. CallsInv /\ OpenInv /\ CountsInv
      BY <2>2 DEF SessionInv, OpeningInv
    <2>4. CASE PoolRests \/ PoolTurns \/ PoolServes \/ PoolStirs
      <3>1. AskingQuiet
        BY <2>4
        DEF AskingQuiet, PoolRests, PoolTurns, PoolServes, PoolStirs, SamePoolQueues, IsStart
      <3>2. TellingQuiet
        <4>1. \/ Told(<<>>) \/ Told(<<RunspacePoolStateMsg(server'.state)>>)
              \/ \E m \in ToClient[Pool] :
                    m.type \in {"UserEvent", "HostCall", "PublicKeyRequest"} /\ Told(<<m>>)
          BY <2>4 DEF PoolRests, PoolTurns, PoolServes, PoolStirs, SamePoolQueues
        <4>2. ~Setter(RunspacePoolStateMsg(server'.state))
          BY DEF Setter, RunspacePoolStateMsg
        <4>3. \A m : m.type \in {"UserEvent", "HostCall", "PublicKeyRequest"} => ~Setter(m)
          BY DEF Setter
        <4> QED
          BY <4>1, <4>2, <4>3 DEF TellingQuiet
      <3>3. /\ client'.handlers = client.handlers
            /\ client'.min = client.min /\ client'.max = client.max
            /\ server'.requests = server.requests
            /\ server'.min = server.min /\ server'.max = server.max
            /\ client'.state = "BeforeOpen" <=> client.state = "BeforeOpen"
        BY <2>4
        DEF PoolRests, PoolTurns, PoolServes, PoolStirs, SameClientPool, SameClientFields,
            SameServerPool, SameServerFields, New
      <3> QED
        BY <1>1, <2>3, <3>1, <3>2, <3>3, CountsQuiet
    <2> QED
      BY <1>1, <1>3, <2>3, <2>4, CountsOpens, CountsSets, CountsAsks, CountsAnswers,
         CountsHears, CountsReads DEF PoolSteps
  <1> QED
    BY <1>1, <1>2, <1>3, EveryPoolStep

\* What has settled is what Settles says.
LEMMA SettledIs ==
    ASSUME TypeOK, CallsInv, NEW f \in {"min", "max"}, NEW v,
           \A m : m.type = "RunspacePoolInitData" => Value(m, f) = m[f],
           Settled(toClient[Pool], client.handlers, client[f], f, v)
    PROVE  Settles(f) = v
  <1> DEFINE q == toClient[Pool]
             hs == client.handlers
             Sets(i) ==
                \/ q[i].type = "RunspacePoolInitData"
                \/ /\ q[i].type = "RunspaceAvailability" /\ q[i].response
                   /\ \E h \in hs : h.ci = q[i].ci /\ h.field = f
             last == {i \in DOMAIN q : Sets(i) /\ \A j \in DOMAIN q : Sets(j) => j <= i}
             ValueOf(m) == IF m.type = "RunspacePoolInitData" THEN m[f]
                           ELSE (CHOOSE h \in hs : h.ci = m.ci).value
  <1>1. Settles(f) = IF last = {} THEN client[f] ELSE ValueOf(q[Max(last)])
    BY DEF Settles
  <1>2. \A i \in DOMAIN q : i \in Nat
    BY PoolTypes
  <1>3. \A g, h \in hs : g.ci = h.ci => g = h
    BY CallFacts
  <1>4. \A i : Sets(i) <=> SetsCount(q[i], hs, f)
    BY DEF SetsCount
  <1> HIDE DEF q, hs, Sets
  <1>5. CASE client[f] = v /\ \A i \in DOMAIN q : ~SetsCount(q[i], hs, f)
    <2>1. last = {}
      BY <1>4, <1>5
    <2> QED
      BY <1>1, <1>5, <2>1
  <1>6. CASE \E i \in DOMAIN q :
                /\ SetsTo(q[i], hs, f, v)
                /\ \A j \in DOMAIN q : SetsCount(q[j], hs, f) => j <= i
    <2>1. PICK i \in DOMAIN q :
                /\ SetsTo(q[i], hs, f, v)
                /\ \A j \in DOMAIN q : SetsCount(q[j], hs, f) => j <= i
      BY <1>6
    <2>2. Sets(i)
      BY <1>4, <2>1 DEF SetsTo, SetsCount
    <2>3. last = {i}
      <3>1. i \in last
        BY <1>4, <2>1, <2>2
      <3>2. ASSUME NEW k \in last PROVE k = i
        <4>1. k \in DOMAIN q /\ i <= k /\ k <= i
          BY <1>4, <2>1, <2>2, <3>2
        <4> QED
          BY <1>2, <4>1
      <3> QED
        BY <3>1, <3>2
    <2> HIDE DEF last
    <2>4. Max(last) = i
      <3>1. i \in {i} /\ \A y \in {i} : i >= y
        BY <1>2, <2>1
      <3> QED
        BY <2>3, <3>1 DEF Max
    <2>5. ValueOf(q[i]) = v
      <3>1. CASE q[i].type = "RunspacePoolInitData"
        BY <2>1, <3>1 DEF SetsTo
      <3>2. CASE q[i].type # "RunspacePoolInitData"
        <4>1. PICK h \in hs : h.ci = q[i].ci /\ h.value = v
          BY <2>1, <3>2 DEF SetsTo
        <4>2. (CHOOSE g \in hs : g.ci = q[i].ci) = h
          BY <1>3, <4>1
        <4> QED
          BY <3>2, <4>1, <4>2
      <3> QED
        BY <3>1, <3>2
    <2>6. last # {}
      BY <2>3
    <2> HIDE DEF ValueOf
    <2> QED
      BY <1>1, <2>4, <2>5, <2>6
  <1> QED
    BY <1>5, <1>6 DEF Settled, q, hs

\* A client whose opening has been taken settles to the counts of its server.
LEMMA CountsPromises ==
    ASSUME SessionInv, Undisturbed, CountsInv
    PROVE  CountsAgree
  <1>1. TypeOK /\ CallsInv
    BY DEF SessionInv
  <1> SUFFICES ASSUME client.state # "BeforeOpen",
                      CountOf(toServer[Pool], "InitRunspacePool") = 0,
                      CountOf(toServer[Pool], "ConnectRunspacePool") = 0
               PROVE  Settles("min") = server.min /\ Settles("max") = server.max
    BY DEF CountsAgree
  <1>2. ~HasStart(toServer[Pool])
    <2> DEFINE q == toServer[Pool]
    <2>1. q \in Seq(ToServer[Pool])
      BY <1>1, PoolTypes
    <2> HIDE DEF q
    <2>2. \A type : CountOf(q, type) = 0 <=> \A i \in DOMAIN q : q[i].type # type
      BY <2>1, CountsType
    <2> QED
      BY <2>2 DEF q, HasStart, IsStart
  <1>3. /\ Settled(toClient[Pool], client.handlers, client.min, "min", server.min)
        /\ Settled(toClient[Pool], client.handlers, client.max, "max", server.max)
    BY <1>2 DEF CountsInv, Pending
  <1>4. client.min = client["min"] /\ client.max = client["max"]
    OBVIOUS
  <1>5. \A m : Value(m, "min") = m["min"] /\ Value(m, "max") = m["max"]
    BY DEF Value
  <1> QED
    BY <1>1, <1>3, <1>4, <1>5, SettledIs

\* CountsSettle: in whatever order the requests and the answers for the two
\* counts cross, and whatever else is on the way, a client that opens a pool or
\* takes one over has the counts of its server once it has processed all that
\* it is sent.
THEOREM CountsSettle == DocumentedSpec => [](Undisturbed => CountsAgree)
  <1> DEFINE Counting == Undisturbed => CountsInv
  <1>1. Init => Counting
    BY CountsInitially
  <1>2. SessionInv /\ OpeningInv /\ Counting /\ [DocumentedNext]_vars => Counting'
    BY CountsStep
  <1>3. SessionInv /\ Counting => (Undisturbed => CountsAgree)
    BY CountsPromises
  <1> HIDE DEF Counting
  <1> QED
    BY <1>1, <1>2, <1>3, SessionInitially, SessionKept, OpeningInitially, OpeningStep, PTL
    DEF DocumentedSpec
=============================================================================
