--------------------------- MODULE HostCallsProofs ---------------------------
(***************************************************************************)
(* CallsAwaited, proved for every pipeline, host, colour and buffer, and   *)
(* any number of calls: a host call whose id was given to a program is in  *)
(* exactly one place until its answer is read.  Then ParametersKept,       *)
(* OptionsKept and ResultIsOwn: what the client's host is asked, and what  *)
(* the server's program is answered, is what the other one meant.          *)
(***************************************************************************)
EXTENDS PipelinePrograms, WellFoundedInduction, NaturalsInduction, TLAPS

\* A sequence of anything.
IsQueue(q) == \E n \in Nat : /\ DOMAIN q = 1..n
                             /\ q = [i \in 1..n |-> q[i]]

\* No id is twice in a queue.
IsOnce(q) == \A i, j \in DOMAIN q : q[i].ci = q[j].ci /\ q[i].ci # NoCi => i = j

QueuesOK(queues) ==
    /\ DOMAIN queues = Targets /\ queues = [t \in Targets |-> queues[t]]
    /\ \A t \in Targets : IsQueue(queues[t]) /\ IsOnce(queues[t])
    /\ \A t, u \in Targets : t # u => Cis(queues[t]) \intersect Cis(queues[u]) = {}

\* The ids in either kind of queue.
Sent(queues) == UNION {Cis(queues[t]) : t \in Targets}

\* The inductive invariant: CallsAwaited, with ids in one place of one queue, of calls
\* that were counted before.
CallsInv ==
    /\ ci_counter \in Nat
    /\ QueuesOK(to_client) /\ QueuesOK(to_server)
    /\ \A ci \in DOMAIN waiting : ci \in Nat /\ ci < ci_counter
    /\ \A ci \in DOMAIN ci_events : ci_events[ci].target \in Targets
    /\ CallsAwaited
-----------------------------------------------------------------------------
(* Queues *)

\* A queue is a sequence of its elements.
LEMMA QueueIsSeq ==
    ASSUME NEW q, IsQueue(q)
    PROVE  q \in Seq({q[i] : i \in DOMAIN q})
BY DEF IsQueue

\* A message goes to the end of its queue, and its id with it.
LEMMA AppendQueue ==
    ASSUME NEW q, IsQueue(q), NEW m
    PROVE  /\ IsQueue(Append(q, m))
           /\ Cis(Append(q, m)) = Cis(q) \union ({m.ci} \ {NoCi})
           /\ IsOnce(q) /\ m.ci \notin Cis(q) => IsOnce(Append(q, m))
<1> DEFINE T == {q[i] : i \in DOMAIN q} \union {m}
           r == Append(q, m)
<1>1. PICK n \in Nat : DOMAIN q = 1..n /\ q = [i \in 1..n |-> q[i]]
  BY DEF IsQueue
<1>2. q \in Seq(T) /\ Len(q) = n
  BY <1>1
<1>3. /\ DOMAIN r = 1..(n + 1)
      /\ \A i \in 1..n : r[i] = q[i]
      /\ r[n + 1] = m /\ r \in Seq(T)
  BY <1>1, <1>2
<1>4. IsQueue(r)
  <2> HIDE DEF r, T
  <2>1. r \in [1..Len(r) -> T]
    BY <1>3
  <2>2. r = [i \in 1..(n + 1) |-> r[i]]
    BY <1>3, <2>1
  <2> QED
    BY <1>3, <2>2 DEF IsQueue
<1> HIDE DEF r
<1>5. Cis(r) = Cis(q) \union ({m.ci} \ {NoCi})
  BY <1>1, <1>3 DEF Cis
<1>6. IsOnce(q) /\ m.ci \notin Cis(q) => IsOnce(r)
  BY <1>1, <1>3 DEF IsOnce, Cis
<1> QED
  BY <1>4, <1>5, <1>6 DEF r

\* What is left of a queue without its head has all ids but that one's.
LEMMA TailQueue ==
    ASSUME NEW q, IsQueue(q), IsOnce(q), q # <<>>
    PROVE  /\ IsQueue(Tail(q)) /\ IsOnce(Tail(q))
           /\ Cis(q) = Cis(Tail(q)) \union ({Head(q).ci} \ {NoCi})
           /\ Head(q).ci \notin Cis(Tail(q))
<1> DEFINE T == {q[i] : i \in DOMAIN q}
           r == Tail(q)
<1>1. PICK n \in Nat : DOMAIN q = 1..n /\ q = [i \in 1..n |-> q[i]]
  BY DEF IsQueue
<1>2. q \in Seq(T) /\ Len(q) = n /\ n > 0
  BY <1>1
<1>3. /\ DOMAIN r = 1..(n - 1)
      /\ \A i \in 1..(n - 1) : r[i] = q[i + 1]
      /\ Head(q) = q[1] /\ r \in Seq(T)
  BY <1>1, <1>2
<1>4. IsQueue(r)
  <2> HIDE DEF r, T
  <2>1. r \in [1..Len(r) -> T]
    BY <1>3
  <2>2. r = [i \in 1..(n - 1) |-> r[i]]
    BY <1>3, <2>1
  <2> QED
    BY <1>2, <1>3, <2>2 DEF IsQueue
<1> HIDE DEF r
<1>5. IsOnce(r) /\ q[1].ci \notin Cis(r)
  <2>1. IsOnce(r)
    <3> SUFFICES ASSUME NEW i \in 1..(n - 1), NEW j \in 1..(n - 1),
                        r[i].ci = r[j].ci, r[i].ci # NoCi
                 PROVE  i = j
      BY <1>3 DEF IsOnce
    <3>1. i + 1 \in DOMAIN q /\ j + 1 \in DOMAIN q
      BY <1>1, <1>3
    <3>2. q[i + 1].ci = q[j + 1].ci /\ q[i + 1].ci # NoCi
      BY <1>3
    <3> QED
      BY <3>1, <3>2 DEF IsOnce
  <2>2. ASSUME q[1].ci \in Cis(r) PROVE FALSE
    <3>1. PICK i \in 1..(n - 1) : q[1].ci = q[i + 1].ci /\ q[1].ci # NoCi
      BY <1>3, <2>2 DEF Cis
    <3>2. i + 1 \in DOMAIN q /\ 1 \in DOMAIN q /\ i + 1 # 1
      BY <1>1, <1>2
    <3> QED
      BY <3>1, <3>2 DEF IsOnce
  <2> QED
    BY <2>1, <2>2
<1>6. Cis(q) = Cis(r) \union ({q[1].ci} \ {NoCi})
  <2>1. ASSUME NEW i \in 1..n PROVE i = 1 \/ (i - 1 \in 1..(n - 1) /\ q[i] = r[i - 1])
    BY <1>2, <1>3
  <2>2. ASSUME NEW i \in 1..(n - 1) PROVE i + 1 \in 1..n /\ r[i] = q[i + 1]
    BY <1>2, <1>3
  <2>3. ASSUME NEW x \in Cis(q) PROVE x \in Cis(r) \union ({q[1].ci} \ {NoCi})
    BY <1>1, <1>3, <2>1 DEF Cis
  <2>4. ASSUME NEW x \in Cis(r) PROVE x \in Cis(q)
    BY <1>1, <1>3, <2>2 DEF Cis
  <2>5. {q[1].ci} \ {NoCi} \subseteq Cis(q)
    <3>1. 1 \in DOMAIN q
      BY <1>1, <1>2
    <3> QED
      BY <3>1, Zenon DEF Cis
  <2> QED
    BY <2>3, <2>4, <2>5
<1> QED
  BY <1>3, <1>4, <1>5, <1>6 DEF r
-----------------------------------------------------------------------------
(* Void methods *)

\* A program is given the id of a call exactly if its method is not void.
IsAwaited(call) == call.returns = ~is_void(call.mi) /\ call.returns \in BOOLEAN

LEMMA AskingIsAwaited ==
    ASSUME NEW mi, mi \notin VoidMethods, NEW params, NEW given
    PROVE  IsAwaited(S!Call(mi, params, TRUE, given))
BY DEF IsAwaited, is_void, S!Call

LEMMA TellingIsVoid ==
    ASSUME NEW mi \in VoidMethods, NEW params, NEW given
    PROVE  IsAwaited(S!Call(mi, params, FALSE, given))
BY DEF IsAwaited, is_void, S!Call

LEMMA AsksAreAwaited ==
    ASSUME NEW mi, mi \notin VoidMethods, NEW params
    PROVE  IsAwaited(S!Asks(mi, params))
BY AskingIsAwaited DEF S!Asks

LEMMA TellsAreVoid ==
    ASSUME NEW mi \in VoidMethods, NEW params
    PROVE  IsAwaited(S!Tells(mi, params))
BY TellingIsVoid DEF S!Tells

LEMMA HostMethodsAwaited == \A call \in HostMethods : IsAwaited(call)
<1>1. \A mi \in {"GetName", "GetVersion", "GetInstanceId", "GetCurrentCulture",
                  "GetCurrentUICulture", "GetIsRunspacePushed"} : mi \notin VoidMethods
  BY DEF VoidMethods
<1>2. {"SetShouldExit", "EnterNestedPrompt", "ExitNestedPrompt", "NotifyBeginApplication",
       "NotifyEndApplication", "PopRunspace"} \subseteq VoidMethods
  BY DEF VoidMethods
<1> QED
  BY <1>1, <1>2, AsksAreAwaited, TellsAreVoid
  DEF HostMethods, S!get_name, S!get_version, S!get_instance_id, S!get_current_culture,
     S!get_current_ui_culture, S!set_should_exit, S!enter_nested_prompt,
     S!exit_nested_prompt, S!notify_begin_application, S!notify_end_application,
     S!pop_runspace, S!get_is_runspace_pushed

LEMMA UserInterfaceCallsAwaited == \A call \in UserInterfaceCalls : IsAwaited(call)
<1>1. \A mi \in {"ReadLine", "ReadLineAsSecureString", "Prompt", "PromptForChoice",
                  "PromptForChoiceMultipleSelection", "PromptForCredential1",
                  "PromptForCredential2"} : mi \notin VoidMethods
  BY DEF VoidMethods
<1>2. {"WriteErrorLine", "WriteDebugLine", "WriteVerboseLine", "WriteWarningLine",
       "WriteProgress", "Write1", "Write2", "WriteLine1", "WriteLine2", "WriteLine3"}
         \subseteq VoidMethods
  BY DEF VoidMethods
<1>3. \A value, foreground, background : IsAwaited(S!write(value, foreground, background))
  BY <1>2, TellingIsVoid DEF S!write
<1>4. \A line, foreground, background : IsAwaited(S!write_line(line, foreground, background))
  BY <1>2, TellingIsVoid DEF S!write_line
<1>5. \A c, m, u, n, t, o : IsAwaited(S!prompt_for_credential(c, m, u, n, t, o))
  <2> TAKE c, m, u, n, t, o
  <2> DEFINE plain  == t = None /\ o = None
             mi     == IF plain THEN "PromptForCredential1" ELSE "PromptForCredential2"
             names  == <<Str(c), Str(m), u, S!Given(n, Str(""))>>
             params == IF plain THEN names
                       ELSE names \o <<S!Given(t, PSCredentialTypes(3)),
                                       S!Given(o, PSCredentialUIOptions(1))>>
             given  == [text |-> n, first |-> t, second |-> o]
  <2>1. S!prompt_for_credential(c, m, u, n, t, o) = S!Call(mi, params, TRUE, given)
    BY Zenon DEF S!prompt_for_credential, S!None, None, S!Str, Str, S!PSCredentialTypes,
                 PSCredentialTypes, S!PSCredentialUIOptions, PSCredentialUIOptions
  <2>2. mi \notin VoidMethods
    BY <1>1
  <2> HIDE DEF mi, params, given
  <2>3. IsAwaited(S!Call(mi, params, TRUE, given))
    BY <2>2, AskingIsAwaited
  <2> QED
    BY <2>1, <2>3, Zenon
<1>6. \A c, m, choices, d : IsAwaited(S!prompt_for_multiple_choice(c, m, choices, d))
  BY <1>1, AsksAreAwaited DEF S!prompt_for_multiple_choice
<1>7. \A a1, a2, a3, a4 :
         /\ IsAwaited(S!read_line) /\ IsAwaited(S!read_line_as_secure_string)
         /\ IsAwaited(S!write_error_line(a1)) /\ IsAwaited(S!write_debug_line(a1))
         /\ IsAwaited(S!write_verbose_line(a1)) /\ IsAwaited(S!write_warning_line(a1))
         /\ IsAwaited(S!write_progress(a1, a2)) /\ IsAwaited(S!prompt(a1, a2, a3))
         /\ IsAwaited(S!prompt_for_choice(a1, a2, a3, a4))
  BY <1>1, <1>2, AsksAreAwaited, TellsAreVoid
  DEF S!read_line, S!read_line_as_secure_string, S!write_error_line, S!write_debug_line,
      S!write_verbose_line, S!write_warning_line, S!write_progress, S!prompt,
      S!prompt_for_choice
<1> QED
  BY <1>3, <1>4, <1>5, <1>6, <1>7 DEF UserInterfaceCalls

LEMMA RawUserInterfaceCallsAwaited == \A call \in RawUserInterfaceCalls : IsAwaited(call)
<1>1. \A mi \in {"GetForegroundColor", "GetBackgroundColor", "GetCursorPosition",
                  "GetWindowPosition", "GetCursorSize", "GetBufferSize", "GetWindowSize",
                  "GetWindowTitle", "GetMaxWindowSize", "GetMaxPhysicalWindowSize",
                  "GetKeyAvailable", "ReadKey", "GetBufferContents"} : mi \notin VoidMethods
  BY DEF VoidMethods
<1>2. {"FlushInputBuffer", "SetForegroundColor", "SetBackgroundColor", "SetCursorPosition",
       "SetWindowPosition", "SetCursorSize", "SetBufferSize", "SetWindowSize",
       "SetWindowTitle", "SetBufferContents1", "SetBufferContents2",
       "ScrollBufferContents"} \subseteq VoidMethods
  BY DEF VoidMethods
<1>3. \A a1, a2, a3, a4 :
         /\ IsAwaited(S!get_foreground_color) /\ IsAwaited(S!get_background_color)
         /\ IsAwaited(S!get_cursor_position) /\ IsAwaited(S!get_window_position)
         /\ IsAwaited(S!get_cursor_size) /\ IsAwaited(S!get_buffer_size)
         /\ IsAwaited(S!get_window_size) /\ IsAwaited(S!get_window_title)
         /\ IsAwaited(S!get_max_window_size) /\ IsAwaited(S!get_max_physical_window_size)
         /\ IsAwaited(S!get_key_available) /\ IsAwaited(S!read_key(a1))
         /\ IsAwaited(S!get_buffer_contents(a1, a2, a3, a4))
  BY <1>1, AsksAreAwaited
  DEF S!get_foreground_color, S!get_background_color, S!get_cursor_position,
      S!get_window_position, S!get_cursor_size, S!get_buffer_size, S!get_window_size,
      S!get_window_title, S!get_max_window_size, S!get_max_physical_window_size,
      S!get_key_available, S!read_key, S!get_buffer_contents
<1>4. \A a1, a2, a3, a4, a5, a6, a7 :
         /\ IsAwaited(S!flush_input_buffer) /\ IsAwaited(S!set_foreground_color(a1))
         /\ IsAwaited(S!set_background_color(a1)) /\ IsAwaited(S!set_cursor_position(a1, a2))
         /\ IsAwaited(S!set_window_position(a1, a2)) /\ IsAwaited(S!set_cursor_size(a1))
         /\ IsAwaited(S!set_buffer_size(a1, a2)) /\ IsAwaited(S!set_window_size(a1, a2))
         /\ IsAwaited(S!set_window_title(a1)) /\ IsAwaited(S!set_buffer_contents(a1, a2, a3))
         /\ IsAwaited(S!set_buffer_cells(a1, a2, a3, a4, a5, a6, a7))
         /\ IsAwaited(S!scroll_buffer_contents(a1, a2, a3, a4, a5, a6, a7))
  BY <1>2, TellsAreVoid
  DEF S!flush_input_buffer, S!set_foreground_color, S!set_background_color,
      S!set_cursor_position, S!set_window_position, S!set_cursor_size, S!set_buffer_size,
      S!set_window_size, S!set_window_title, S!set_buffer_contents, S!set_buffer_cells,
      S!scroll_buffer_contents
<1> QED
  BY <1>3, <1>4 DEF RawUserInterfaceCalls

LEMMA CallsAreAwaited == \A call \in Calls : IsAwaited(call)
BY HostMethodsAwaited, UserInterfaceCallsAwaited, RawUserInterfaceCallsAwaited DEF Calls
-----------------------------------------------------------------------------
(* The queues of the two targets *)

\* A message with a new id, or none, is queued.
LEMMA AppendQueues ==
    ASSUME NEW queues, QueuesOK(queues), NEW t \in Targets, NEW m,
           m.ci \notin Sent(queues)
    PROVE  LET new == [queues EXCEPT ![t] = Append(@, m)]
           IN  QueuesOK(new) /\ Sent(new) = Sent(queues) \union ({m.ci} \ {NoCi})
<1> DEFINE new == [queues EXCEPT ![t] = Append(@, m)]
<1>1. /\ DOMAIN queues = Targets /\ new = [u \in Targets |-> new[u]]
      /\ new[t] = Append(queues[t], m)
      /\ \A u \in Targets \ {t} : new[u] = queues[u]
  BY DEF QueuesOK
<1>2. m.ci \notin Cis(queues[t]) /\ \A u \in Targets : m.ci \notin Cis(queues[u])
  BY DEF Sent
<1>3. /\ IsQueue(new[t]) /\ IsOnce(new[t])
      /\ Cis(new[t]) = Cis(queues[t]) \union ({m.ci} \ {NoCi})
  <2>1. IsQueue(queues[t]) /\ IsOnce(queues[t])
    BY DEF QueuesOK
  <2> QED
    BY <1>1, <1>2, <2>1, AppendQueue
<1> HIDE DEF new
<1>4. QueuesOK(new)
  BY <1>1, <1>2, <1>3 DEF QueuesOK
<1>5. Sent(new) = Sent(queues) \union ({m.ci} \ {NoCi})
  BY <1>1, <1>3 DEF Sent
<1> QED
  BY <1>4, <1>5 DEF new

\* The head of a queue is taken out.
LEMMA TailQueues ==
    ASSUME NEW queues, QueuesOK(queues), NEW t \in Targets, queues[t] # <<>>
    PROVE  LET new == [queues EXCEPT ![t] = Tail(@)]
           IN  /\ QueuesOK(new) /\ Head(queues[t]).ci \notin Sent(new)
               /\ Sent(queues) = Sent(new) \union ({Head(queues[t]).ci} \ {NoCi})
<1> DEFINE new == [queues EXCEPT ![t] = Tail(@)]
           ci  == Head(queues[t]).ci
<1>1. /\ DOMAIN queues = Targets /\ new = [u \in Targets |-> new[u]]
      /\ new[t] = Tail(queues[t])
      /\ \A u \in Targets \ {t} : new[u] = queues[u]
  BY DEF QueuesOK
<1>2. /\ IsQueue(new[t]) /\ IsOnce(new[t]) /\ ci \notin Cis(new[t])
      /\ Cis(queues[t]) = Cis(new[t]) \union ({ci} \ {NoCi})
  <2>1. IsQueue(queues[t]) /\ IsOnce(queues[t])
    BY DEF QueuesOK
  <2> QED
    BY <1>1, <2>1, TailQueue
<1>3. \A u \in Targets \ {t} : ci \notin Cis(queues[u])
  <2>1. CASE ci = NoCi
    BY <2>1 DEF Cis
  <2>2. CASE ci # NoCi
    BY <2>2, <1>2 DEF QueuesOK
  <2> QED
    BY <2>1, <2>2
<1> HIDE DEF new, ci
<1>4. QueuesOK(new)
  BY <1>1, <1>2 DEF QueuesOK
<1>5. Sent(queues) = Sent(new) \union ({ci} \ {NoCi}) /\ ci \notin Sent(new)
  BY <1>1, <1>2, <1>3 DEF Sent
<1> QED
  BY <1>4, <1>5 DEF new, ci
-----------------------------------------------------------------------------
(* The invariant *)

\* What CallsAwaited says of the two kinds of queue as wholes.
LEMMA AwaitedInQueues ==
    CallsAwaited <=>
        /\ DOMAIN waiting = Sent(to_client) \union DOMAIN ci_events \union Sent(to_server)
        /\ Sent(to_client) \intersect (DOMAIN ci_events \union Sent(to_server)) = {}
        /\ DOMAIN ci_events \intersect Sent(to_server) = {}
BY DEF CallsAwaited, Sent

LEMMA AwaitedInQueuesNext ==
    CallsAwaited' <=>
        /\ DOMAIN waiting' = Sent(to_client') \union DOMAIN ci_events' \union Sent(to_server')
        /\ Sent(to_client') \intersect (DOMAIN ci_events' \union Sent(to_server')) = {}
        /\ DOMAIN ci_events' \intersect Sent(to_server') = {}
BY DEF CallsAwaited, Sent, Cis

LEMMA NoIdIsQueued == \A queues : NoCi \notin Sent(queues)
BY DEF Sent, Cis

LEMMA EmptyQueue == IsQueue(<<>>) /\ IsOnce(<<>>) /\ Cis(<<>>) = {}
<1> DEFINE q == <<>>
<1>1. q = [i \in 1..0 |-> q[i]] /\ DOMAIN q = 1..0
  OBVIOUS
<1> HIDE DEF q
<1>2. IsQueue(q)
  BY <1>1 DEF IsQueue
<1>3. DOMAIN q = {}
  BY <1>1
<1>4. IsOnce(q) /\ Cis(q) = {}
  BY <1>3 DEF IsOnce, Cis
<1> QED
  BY <1>2, <1>4 DEF q

\* Nothing has been called at first.
LEMMA InitCallsInv == Init => CallsInv
<1> SUFFICES ASSUME Init PROVE CallsInv
  OBVIOUS
<1> USE DEF Init, InitHostCalls
<1>1. \A t \in Targets : to_client[t] = <<>> /\ to_server[t] = <<>>
  OBVIOUS
<1>2. DOMAIN to_client = Targets /\ DOMAIN to_server = Targets
  OBVIOUS
<1>3. QueuesOK(to_client) /\ QueuesOK(to_server)
  BY <1>1, <1>2, EmptyQueue DEF QueuesOK
<1>4. Sent(to_client) = {} /\ Sent(to_server) = {}
  BY <1>1, EmptyQueue DEF Sent
<1>5. DOMAIN waiting = {} /\ DOMAIN ci_events = {}
  OBVIOUS
<1> QED
  BY <1>3, <1>4, <1>5, AwaitedInQueues DEF CallsInv

\* A call that returns something takes the next id, and a void one none.
LEMMA CallsInvHostCall ==
    ASSUME CallsInv, NEW t \in Targets, NEW call \in Calls, host_call(t, call)
    PROVE  CallsInv'
<1> DEFINE ci == IF is_void(call.mi) THEN NoCi ELSE ci_counter
           m  == [ci |-> ci, mi |-> call.mi, call |-> call,
                  mp |-> [i \in DOMAIN call.params |-> ForHost(call.params[i])]]
<1>1. call.returns = ~is_void(call.mi) /\ call.returns \in BOOLEAN
  BY CallsAreAwaited DEF IsAwaited
<1>2. /\ to_client' = [to_client EXCEPT ![t] = Append(@, m)]
      /\ ci_counter' = IF is_void(call.mi) THEN ci_counter ELSE ci_counter + 1
      /\ waiting' = IF call.returns THEN With(waiting, ci, [call |-> call, target |-> t])
                    ELSE waiting
      /\ UNCHANGED <<ci_events, to_server>>
  BY DEF host_call
<1>3. m.ci = ci
  OBVIOUS
<1> HIDE DEF m
<1>4. /\ ci_counter \in Nat /\ QueuesOK(to_client) /\ QueuesOK(to_server)
      /\ \A c \in DOMAIN waiting : c \in Nat /\ c < ci_counter
      /\ \A c \in DOMAIN ci_events : ci_events[c].target \in Targets
      /\ DOMAIN waiting = Sent(to_client) \union DOMAIN ci_events \union Sent(to_server)
      /\ Sent(to_client) \intersect (DOMAIN ci_events \union Sent(to_server)) = {}
      /\ DOMAIN ci_events \intersect Sent(to_server) = {}
  BY AwaitedInQueues DEF CallsInv
<1>5. ci \notin DOMAIN waiting
  BY <1>4 DEF NoCi
<1>6. QueuesOK(to_client') /\ Sent(to_client') = Sent(to_client) \union ({ci} \ {NoCi})
  BY <1>2, <1>3, <1>4, <1>5, AppendQueues
<1>7. QueuesOK(to_server') /\ Sent(to_server') = Sent(to_server)
  BY <1>2, <1>4
<1>8. CASE is_void(call.mi)
  <2>1. ci_counter' = ci_counter /\ waiting' = waiting /\ Sent(to_client') = Sent(to_client)
    BY <1>1, <1>2, <1>6, <1>8
  <2> QED
    BY <1>2, <1>4, <1>6, <1>7, <2>1, AwaitedInQueuesNext DEF CallsInv
<1>9. CASE ~is_void(call.mi)
  <2>1. ci = ci_counter /\ ci # NoCi /\ ci_counter' = ci_counter + 1
    BY <1>2, <1>4, <1>9 DEF NoCi
  <2>2. DOMAIN waiting' = DOMAIN waiting \union {ci}
    BY <1>1, <1>2, <1>9 DEF With
  <2>3. Sent(to_client') = Sent(to_client) \union {ci}
    BY <1>6, <2>1
  <2> HIDE DEF ci
  <2>4. CallsAwaited'
    <3>1. ci_events' = ci_events
      BY <1>2
    <3> QED
      BY <1>4, <1>5, <1>7, <2>2, <2>3, <3>1, AwaitedInQueuesNext
  <2>5. ci_counter' \in Nat /\ \A c \in DOMAIN waiting' : c \in Nat /\ c < ci_counter'
    BY <1>4, <2>1, <2>2
  <2> QED
    BY <1>2, <1>4, <1>6, <1>7, <2>4, <2>5 DEF CallsInv
<1> QED
  BY <1>8, <1>9

\* A call that is read leaves its queue and is open, unless it is void.
LEMMA CallsInvProcessHostCall ==
    ASSUME CallsInv, NEW t \in Targets, ProcessHostCall(t)
    PROVE  CallsInv'
<1> DEFINE ci == Head(to_client[t]).ci
<1>1. /\ to_client[t] # <<>>
      /\ ci_events' = IF ci # NoCi
                      THEN With(ci_events, ci, [mi |-> Head(to_client[t]).mi, target |-> t])
                      ELSE ci_events
      /\ to_client' = [to_client EXCEPT ![t] = Tail(@)]
      /\ UNCHANGED <<ci_counter, to_server, waiting>>
  BY DEF ProcessHostCall
<1>2. /\ DOMAIN ci_events' = DOMAIN ci_events \union ({ci} \ {NoCi})
      /\ \A c \in DOMAIN ci_events' : ci_events'[c].target \in Targets
  BY <1>1 DEF With, CallsInv
<1>3. /\ QueuesOK(to_client') /\ ci \notin Sent(to_client')
      /\ Sent(to_client) = Sent(to_client') \union ({ci} \ {NoCi})
  BY <1>1, TailQueues DEF CallsInv
<1>4. /\ DOMAIN waiting = Sent(to_client) \union DOMAIN ci_events \union Sent(to_server)
      /\ Sent(to_client) \intersect (DOMAIN ci_events \union Sent(to_server)) = {}
      /\ DOMAIN ci_events \intersect Sent(to_server) = {}
  BY AwaitedInQueues DEF CallsInv
<1> HIDE DEF ci
<1>5. CallsAwaited'
  <2>1. DOMAIN waiting' = Sent(to_client') \union DOMAIN ci_events' \union Sent(to_server')
    BY <1>1, <1>2, <1>3, <1>4
  <2>2. Sent(to_client') \intersect (DOMAIN ci_events' \union Sent(to_server')) = {}
    BY <1>1, <1>2, <1>3, <1>4
  <2>3. DOMAIN ci_events' \intersect Sent(to_server') = {}
    <3>1. Sent(to_server') = Sent(to_server)
      BY <1>1
    <3> QED
      BY <1>2, <1>3, <1>4, <3>1
  <2> QED
    BY <2>1, <2>2, <2>3, AwaitedInQueuesNext
<1> QED
  BY <1>1, <1>2, <1>3, <1>5 DEF CallsInv

\* An answer takes its call from the open ones to a queue, or leaves it open.
LEMMA CallsInvAnswer ==
    ASSUME CallsInv, Answer
    PROVE  CallsInv'
<1>1. PICK ci, value, error : ci \in DOMAIN ci_events /\ host_response(ci, value, error)
  BY DEF Answer
<1>2. UNCHANGED <<ci_counter, to_client, waiting>>
  BY <1>1 DEF host_response
<1>3. CASE IsSendable(value)
  <2> DEFINE t == ci_events[ci].target
             m == [ci |-> ci, mi |-> ci_events[ci].mi, mr |-> ForHost(value), me |-> error]
  <2>1. /\ to_server' = [to_server EXCEPT ![t] = Append(@, m)]
        /\ ci_events' = Restrict(ci_events, DOMAIN ci_events \ {ci})
    BY <1>1, <1>3 DEF host_response, AnsweredTo, Forgotten, Nothing
  <2>2. t \in Targets /\ m.ci = ci
    BY <1>1 DEF CallsInv
  <2> HIDE DEF t, m
  <2>3. ci \notin Sent(to_server) /\ ci # NoCi
    BY <1>1, AwaitedInQueues DEF CallsInv, NoCi
  <2>4. QueuesOK(to_server') /\ Sent(to_server') = Sent(to_server) \union {ci}
    <3>1. QueuesOK(to_server)
      BY DEF CallsInv
    <3> QED
      BY <2>1, <2>2, <2>3, <3>1, AppendQueues
  <2>5. /\ DOMAIN ci_events' = DOMAIN ci_events \ {ci}
        /\ \A c \in DOMAIN ci_events' : ci_events'[c] = ci_events[c]
    BY <2>1 DEF Restrict
  <2>6. CallsAwaited'
    BY <1>1, <1>2, <2>3, <2>4, <2>5, AwaitedInQueues, AwaitedInQueuesNext DEF CallsInv
  <2> QED
    BY <1>2, <2>4, <2>5, <2>6 DEF CallsInv
<1>4. CASE ~IsSendable(value)
  <2>1. UNCHANGED <<to_server, ci_events>>
    BY <1>1, <1>4 DEF host_response, Forgotten
  <2> QED
    BY <1>2, <2>1, AwaitedInQueues, AwaitedInQueuesNext DEF CallsInv
<1> QED
  BY <1>3, <1>4

\* With its answer, a call is over.
LEMMA CallsInvProcessHostResponse ==
    ASSUME CallsInv, NEW t \in Targets, ProcessHostResponse(t)
    PROVE  CallsInv'
<1> DEFINE ci == Head(to_server[t]).ci
<1>1. /\ to_server[t] # <<>>
      /\ to_server' = [to_server EXCEPT ![t] = Tail(@)]
      /\ waiting' = Restrict(waiting, DOMAIN waiting \ {ci})
      /\ UNCHANGED <<ci_counter, to_client, ci_events>>
  BY DEF ProcessHostResponse
<1>2. DOMAIN waiting' = DOMAIN waiting \ {ci}
  BY <1>1 DEF Restrict
<1>3. /\ QueuesOK(to_server') /\ ci \notin Sent(to_server')
      /\ Sent(to_server) = Sent(to_server') \union ({ci} \ {NoCi})
  BY <1>1, TailQueues DEF CallsInv
<1>4. NoCi \notin DOMAIN waiting
  BY DEF CallsInv, NoCi
<1>5. /\ DOMAIN waiting = Sent(to_client) \union DOMAIN ci_events \union Sent(to_server)
      /\ Sent(to_client) \intersect (DOMAIN ci_events \union Sent(to_server)) = {}
      /\ DOMAIN ci_events \intersect Sent(to_server) = {}
  BY AwaitedInQueues DEF CallsInv
<1>6. ci \in Sent(to_server) \/ ci = NoCi
  BY <1>3
<1> HIDE DEF ci
<1>7. DOMAIN waiting' = Sent(to_client) \union DOMAIN ci_events \union Sent(to_server')
  BY <1>2, <1>3, <1>4, <1>5, <1>6
<1>8. CallsAwaited'
  BY <1>1, <1>3, <1>5, <1>7, AwaitedInQueuesNext
<1> QED
  BY <1>1, <1>2, <1>3, <1>8 DEF CallsInv

\* The rest leaves the calls alone.
LEMMA CallsInvUnchanged ==
    ASSUME CallsInv, UNCHANGED <<ci_counter, to_client, ci_events, to_server, waiting>>
    PROVE  CallsInv'
BY AwaitedInQueues, AwaitedInQueuesNext DEF CallsInv

LEMMA CallsInvNext == CallsInv /\ [Next]_vars => CallsInv'
<1> SUFFICES ASSUME CallsInv, [Next]_vars PROVE CallsInv'
  OBVIOUS
<1>1. CASE Building \/ UNCHANGED vars \/ UNCHANGED callVars
  BY <1>1, CallsInvUnchanged DEF Building, vars, callVars
<1>2. CASE \E t \in Targets : \E call \in Calls : host_call(t, call)
  BY <1>2, CallsInvHostCall
<1>3. CASE \E t \in Targets : ProcessHostCall(t)
  BY <1>3, CallsInvProcessHostCall
<1>4. CASE Answer
  BY <1>4, CallsInvAnswer
<1>5. CASE KeyExchanged
  BY <1>5, CallsInvUnchanged DEF KeyExchanged
<1>6. CASE \E t \in Targets : ProcessHostResponse(t)
  BY <1>6, CallsInvProcessHostResponse
<1> QED
  BY <1>1, <1>2, <1>3, <1>4, <1>5, <1>6 DEF Next

\* Every call whose id a server program holds is on its way to the client, open there, or
\* answered and on its way back, and in one of these places only, for any number of calls
\* and whatever is asked and answered: a program that waits for an answer waits for one
\* that can come (ServerRunspacePool.host_call, ClientRunspacePool.host_response).
THEOREM CallsAreAccountedFor == Spec => []CallsAwaited
<1>1. CallsInv => CallsAwaited
  BY DEF CallsInv
<1> QED
  BY <1>1, InitCallsInv, CallsInvNext, PTL DEF Spec
-----------------------------------------------------------------------------
(* Arrays *)

\* A product grows with its factors, and a quotient and a remainder are unique.
LEMMA TimesGrows ==
    ASSUME NEW w \in Nat \ {0}, NEW a \in Int, NEW b \in Int, a <= b
    PROVE  a * w <= b * w /\ a * w \in Int /\ b * w \in Int
<1>1. PICK d \in Nat : b = a + d
  <2>1. b - a \in Nat /\ b = a + (b - a)
    OBVIOUS
  <2> QED
    BY <2>1
<1>2. b * w = a * w + d * w /\ d * w >= 0
  BY <1>1
<1> QED
  BY <1>2

LEMMA QuotientUnique ==
    ASSUME NEW w \in Nat \ {0}, NEW q \in Int, NEW r \in 0..(w - 1), NEW n \in Int, n = q * w + r
    PROVE  n \div w = q /\ n % w = r
<1> DEFINE p == n \div w
           s == n % w
<1>1. p \in Int /\ s \in 0..(w - 1) /\ n = p * w + s
  OBVIOUS
<1> HIDE DEF p, s
<1>2. ~(p + 1 <= q)
  <2> SUFFICES ASSUME p + 1 <= q PROVE FALSE
    OBVIOUS
  <2>1. (p + 1) * w <= q * w /\ q * w \in Int /\ p * w \in Int
    BY <1>1, TimesGrows
  <2>2. (p + 1) * w = p * w + w
    BY <1>1
  <2> QED
    BY <1>1, <2>1, <2>2
<1>3. ~(q + 1 <= p)
  <2> SUFFICES ASSUME q + 1 <= p PROVE FALSE
    OBVIOUS
  <2>1. (q + 1) * w <= p * w /\ q * w \in Int /\ p * w \in Int
    BY <1>1, TimesGrows
  <2>2. (q + 1) * w = q * w + w
    OBVIOUS
  <2> QED
    BY <1>1, <2>1, <2>2
<1>4. p = q
  BY <1>1, <1>2, <1>3
<1>5. q * w \in Int
  OBVIOUS
<1>6. s = r
  BY <1>1, <1>4, <1>5
<1> QED
  BY <1>4, <1>6 DEF p, s

LEMMA LeastNumber ==
    ASSUME NEW T \in SUBSET Nat, T # {}
    PROVE  \E n \in T : \A m \in T : n <= m
<1>1. IsWellFoundedOn(OpToRel(<, Nat), Nat)
  BY NatLessThanWellFounded
<1>2. PICK x \in T : \A y \in T : ~(<<y, x>> \in OpToRel(<, Nat))
  BY <1>1, WFMin
<1>3. \A y \in T : ~(y < x)
  BY <1>2 DEF OpToRel
<1> QED
  BY <1>3

\* The rows of a grid whose rows have the length w, one after the other.
Row(w, k)    == ((k - 1) \div w) + 1
Column(w, k) == ((k - 1) % w) + 1
Flat(rows, w, n) == [k \in 1..(n * w) |-> rows[Row(w, k)][Column(w, k)]]

LEMMA FlatPlaces ==
    ASSUME NEW w \in Nat \ {0}, NEW n \in Nat
    PROVE  /\ n * w \in Nat
           /\ \A k \in 1..(n * w) : Row(w, k) \in 1..n /\ Column(w, k) \in 1..w
           /\ \A i \in 1..n, j \in 1..w :
                 LET k == (i - 1) * w + j
                 IN  k \in 1..(n * w) /\ Row(w, k) = i /\ Column(w, k) = j
<1>1. n * w \in Nat
  OBVIOUS
<1>2. ASSUME NEW k \in 1..(n * w) PROVE Row(w, k) \in 1..n /\ Column(w, k) \in 1..w
  <2> DEFINE p == (k - 1) \div w
             s == (k - 1) % w
  <2>1. p \in Int /\ s \in 0..(w - 1) /\ k - 1 = p * w + s
    BY <1>1
  <2> HIDE DEF p, s
  <2>2. p * w \in Int
    BY <2>1
  <2>3. p < n
    <3> SUFFICES ASSUME n <= p PROVE FALSE
      BY <2>1
    <3>1. n * w <= p * w
      BY <2>1, TimesGrows
    <3> QED
      BY <1>1, <2>1, <2>2, <3>1
  <2>4. p >= 0
    <3> SUFFICES ASSUME p <= -1 PROVE FALSE
      BY <2>1
    <3>1. p * w <= (-1) * w /\ (-1) * w = -w
      BY <2>1, TimesGrows
    <3> QED
      BY <1>1, <2>1, <2>2, <3>1
  <2> QED
    BY <2>1, <2>3, <2>4 DEF Row, Column, p, s
<1>3. ASSUME NEW i \in 1..n, NEW j \in 1..w
      PROVE  LET k == (i - 1) * w + j
             IN  k \in 1..(n * w) /\ Row(w, k) = i /\ Column(w, k) = j
  <2> DEFINE k == (i - 1) * w + j
  <2>1. (i - 1) * w \in Nat
    OBVIOUS
  <2>2. (i - 1) * w + w = i * w
    OBVIOUS
  <2>3. i * w <= n * w
    BY TimesGrows
  <2>4. k \in 1..(n * w)
    BY <1>1, <2>1, <2>2, <2>3
  <2>5. (k - 1) \div w = i - 1 /\ (k - 1) % w = j - 1
    <3> DEFINE q == i - 1
               r == j - 1
               n1 == k - 1
    <3>1. r \in 0..(w - 1) /\ q \in Int /\ n1 \in Int /\ n1 = q * w + r
      BY <2>1
    <3> HIDE DEF q, r, n1
    <3>2. n1 \div w = q /\ n1 % w = r
      BY <3>1, QuotientUnique
    <3> QED
      BY <3>2 DEF q, r, n1
  <2> HIDE DEF k
  <2>6. Row(w, k) = i /\ Column(w, k) = j
    BY <2>5 DEF Row, Column
  <2> QED
    BY <2>4, <2>6 DEF k
<1> QED
  BY <1>1, <1>2, <1>3

\* Two sequences, one after the other, and a part of one.
LEMMA OneAfterOther ==
    ASSUME NEW X, NEW s \in Seq(X), NEW t \in Seq(X)
    PROVE  /\ s \o t \in Seq(X) /\ Len(s \o t) = Len(s) + Len(t)
           /\ \A k \in 1..Len(s) : (s \o t)[k] = s[k]
           /\ \A k \in 1..Len(t) : (s \o t)[Len(s) + k] = t[k]
OBVIOUS

LEMMA PartOf ==
    ASSUME NEW X, NEW s \in Seq(X), NEW m \in Nat, NEW n \in Nat, m + n <= Len(s)
    PROVE  SubSeq(s, m + 1, m + n) = [k \in 1..n |-> s[m + k]]
<1> DEFINE t == SubSeq(s, m + 1, m + n)
<1>1. t \in Seq(X) /\ Len(t) = n
  OBVIOUS
<1>2. \A k \in 1..n : t[k] = s[m + k]
  OBVIOUS
<1> HIDE DEF t
<1>3. t = [k \in 1..n |-> t[k]]
  BY <1>1
<1> QED
  BY <1>2, <1>3 DEF t

\* FlattenSeq of the library goes from row to row.
LEMMA FlattenIsFlat ==
    ASSUME NEW X, NEW rows \in Seq(Seq(X)), rows # <<>>, NEW w \in Nat \ {0},
           \A i \in DOMAIN rows : Len(rows[i]) = w
    PROVE  FlattenSeq(rows) = Flat(rows, w, Len(rows))
<1> DEFINE N == Len(rows)
           G == [n \in 1..N |-> Flat(rows, w, n)]
           Rounds(F) == F = [i \in 1..N |-> IF i = 1 THEN rows[i] ELSE F[i - 1] \o rows[i]]
<1>1. N \in Nat \ {0} /\ DOMAIN rows = 1..N /\ \A i \in 1..N : rows[i] \in Seq(X) /\ Len(rows[i]) = w
  OBVIOUS
<1> HIDE DEF N
<1>2. ASSUME NEW n \in 1..N
      PROVE  /\ Flat(rows, w, n) \in Seq(X) /\ Len(Flat(rows, w, n)) = n * w
             /\ DOMAIN Flat(rows, w, n) = 1..(n * w)
  <2>1. n \in Nat /\ n * w \in Nat
    BY <1>1
  <2>2. \A k \in 1..(n * w) : Row(w, k) \in 1..n /\ Column(w, k) \in 1..w
    BY <2>1, FlatPlaces
  <2>3. \A k \in 1..(n * w) : rows[Row(w, k)][Column(w, k)] \in X
    BY <1>1, <2>2
  <2>4. Flat(rows, w, n) \in [1..(n * w) -> X]
    BY <2>3 DEF Flat
  <2> QED
    BY <2>1, <2>4
<1>3. Flat(rows, w, 1) = rows[1]
  <2>1. 1 * w = w /\ 1 \in 1..N
    BY <1>1
  <2>2. \A k \in 1..w : Row(w, k) = 1 /\ Column(w, k) = k
    <3> TAKE k \in 1..w
    <3> DEFINE q == 0
               r == k - 1
    <3>1. r \in 0..(w - 1) /\ q \in Int /\ r \in Int /\ r = q * w + r
      OBVIOUS
    <3> HIDE DEF q, r
    <3>2. r \div w = q /\ r % w = r
      <4>1. \A n \in Int : n = q * w + r => n \div w = q /\ n % w = r
        BY <3>1, QuotientUnique, Zenon
      <4> QED
        BY <3>1, <4>1, Zenon
    <3>3. (k - 1) \div w = 0 /\ (k - 1) % w = k - 1
      BY <3>2 DEF q, r
    <3> QED
      BY <3>3 DEF Row, Column
  <2>3. Flat(rows, w, 1) = [k \in 1..w |-> rows[1][k]]
    BY <2>1, <2>2 DEF Flat
  <2>4. rows[1] = [k \in 1..w |-> rows[1][k]]
    BY <1>1, <2>1
  <2> QED
    BY <2>3, <2>4
<1>4. ASSUME NEW i \in 1..N, i # 1
      PROVE  Flat(rows, w, i) = Flat(rows, w, i - 1) \o rows[i]
  <2> DEFINE a == Flat(rows, w, i - 1)
             b == Flat(rows, w, i)
             m == (i - 1) * w
             n == i * w
  <2>1. i - 1 \in 1..N /\ i \in Nat /\ i - 1 \in Nat /\ i \in 1..i
    BY <1>1, <1>4
  <2>2. /\ a \in Seq(X) /\ Len(a) = m /\ b \in Seq(X) /\ Len(b) = n
        /\ rows[i] \in Seq(X) /\ Len(rows[i]) = w
    BY <1>1, <1>2, <2>1
  <2>3. n = m + w /\ m \in Nat
    BY <2>1
  <2>4. \A k \in 1..m : b[k] = a[k]
    <3>1. a = [k \in 1..m |-> rows[Row(w, k)][Column(w, k)]]
          /\ b = [k \in 1..n |-> rows[Row(w, k)][Column(w, k)]]
      BY DEF Flat
    <3> HIDE DEF a, b, m, n
    <3> QED
      BY <2>3, <3>1
  <2>5. \A j \in 1..w : b[m + j] = rows[i][j]
    <3> TAKE j \in 1..w
    <3>1. m + j \in 1..n /\ Row(w, m + j) = i /\ Column(w, m + j) = j
      <4>1. \A g \in 1..i, h \in 1..w : /\ (g - 1) * w + h \in 1..(i * w)
                                         /\ Row(w, (g - 1) * w + h) = g
                                         /\ Column(w, (g - 1) * w + h) = h
        BY <2>1, FlatPlaces
      <4> QED
        BY <2>1, <4>1, Zenon
    <3>2. b = [k \in 1..n |-> rows[Row(w, k)][Column(w, k)]]
      BY DEF Flat
    <3> HIDE DEF a, b, m, n
    <3> QED
      BY <3>1, <3>2
  <2> HIDE DEF a, b, m, n
  <2>6. /\ a \o rows[i] \in Seq(X) /\ Len(a \o rows[i]) = n
        /\ \A k \in 1..m : (a \o rows[i])[k] = a[k]
        /\ \A k \in 1..w : (a \o rows[i])[m + k] = rows[i][k]
    <3>1. /\ a \o rows[i] \in Seq(X) /\ Len(a \o rows[i]) = Len(a) + Len(rows[i])
          /\ \A k \in 1..Len(a) : (a \o rows[i])[k] = a[k]
          /\ \A k \in 1..Len(rows[i]) : (a \o rows[i])[Len(a) + k] = rows[i][k]
      <4>1. a \in Seq(X) /\ rows[i] \in Seq(X)
        BY <2>2
      <4> DEFINE t == rows[i]
      <4> HIDE DEF t
      <4>2. a \in Seq(X) /\ t \in Seq(X)
        BY <4>1 DEF t
      <4>3. /\ a \o t \in Seq(X) /\ Len(a \o t) = Len(a) + Len(t)
            /\ \A k \in 1..Len(a) : (a \o t)[k] = a[k]
            /\ \A k \in 1..Len(t) : (a \o t)[Len(a) + k] = t[k]
        BY <4>2, OneAfterOther
      <4> QED
        BY <4>3 DEF t
    <3> QED
      BY <2>2, <2>3, <3>1
  <2> DEFINE c == a \o rows[i]
  <2>10. (\A k \in 1..m : c[k] = a[k]) /\ \A k \in 1..w : c[m + k] = rows[i][k]
    BY <2>6
  <2> HIDE DEF c
  <2>7. ASSUME NEW k \in 1..n PROVE c[k] = b[k]
    <3>1. CASE k <= m
      BY <2>3, <2>4, <2>10, <3>1
    <3>2. CASE k > m
      <4>1. k - m \in 1..w /\ k = m + (k - m)
        BY <2>3, <3>2
      <4> QED
        BY <2>5, <2>10, <4>1
    <3> QED
      BY <2>3, <3>1, <3>2
  <2>8. c \in Seq(X) /\ Len(c) = n /\ \A k \in 1..n : c[k] = b[k]
    BY <2>6, <2>7 DEF c
  <2>9. c = b
    BY <2>2, <2>8
  <2> QED
    BY <2>9 DEF a, b, c
<1>5. Rounds(G)
  BY <1>1, <1>3, <1>4
<1>6. ASSUME NEW F, Rounds(F) PROVE F = G
  <2>1. /\ \A i \in 1..N : F[i] = IF i = 1 THEN rows[i] ELSE F[i - 1] \o rows[i]
        /\ F = [i \in 1..N |-> F[i]]
    BY <1>6
  <2>2. /\ \A i \in 1..N : G[i] = IF i = 1 THEN rows[i] ELSE G[i - 1] \o rows[i]
        /\ G = [i \in 1..N |-> G[i]]
    BY <1>5
  <2> HIDE DEF G
  <2> DEFINE T == {i \in Nat : i \in 1..N /\ F[i] # G[i]}
  <2>3. T = {}
    <3> SUFFICES ASSUME T # {} PROVE FALSE
      OBVIOUS
    <3>1. PICK i \in T : \A j \in T : i <= j
      <4>1. T \in SUBSET Nat
        OBVIOUS
      <4> HIDE DEF T
      <4> QED
        BY <4>1, LeastNumber
    <3>2. i \in 1..N /\ F[i] # G[i] /\ \A j \in 1..N : j < i => F[j] = G[j]
      BY <1>1, <3>1
    <3>3. i # 1 => F[i - 1] = G[i - 1]
      BY <1>1, <3>2
    <3> HIDE DEF T
    <3>4. CASE i = 1
      <4>1. F[i] = rows[i] /\ G[i] = rows[i]
        BY <2>1, <2>2, <3>2, <3>4
      <4> QED
        BY <3>2, <4>1
    <3>5. CASE i # 1
      <4>1. F[i] = F[i - 1] \o rows[i] /\ G[i] = G[i - 1] \o rows[i]
        BY <2>1, <2>2, <3>2, <3>5
      <4>2. F[i] = G[i]
        BY <3>3, <3>5, <4>1, Zenon
      <4> QED
        BY <3>2, <4>2
    <3> QED
      BY <3>4, <3>5
  <2>4. \A i \in 1..N : F[i] = G[i]
    BY <1>1, <2>3
  <2> HIDE DEF T
  <2> QED
    BY <2>1, <2>2, <2>4
<1>7. FlattenSeq(rows) = (CHOOSE F : Rounds(F))[N]
  BY <1>1 DEF FlattenSeq, N
<1>8. (CHOOSE F : Rounds(F)) = G
  <2> HIDE DEF G, Rounds
  <2> QED
    BY <1>5, <1>6
<1>9. G[N] = Flat(rows, w, N)
  BY <1>1
<1> HIDE DEF G, Rounds
<1> QED
  BY <1>7, <1>8, <1>9 DEF N

\* Grouped() takes the rows apart again.
LEMMA GroupedFlat ==
    ASSUME NEW X, NEW rows \in Seq(Seq(X)), rows # <<>>, NEW w \in Nat \ {0},
           \A i \in DOMAIN rows : Len(rows[i]) = w
    PROVE  Grouped(Flat(rows, w, Len(rows)), w) = rows
<1> DEFINE N == Len(rows)
           s == Flat(rows, w, N)
<1>1. N \in Nat \ {0} /\ DOMAIN rows = 1..N /\ \A i \in 1..N : rows[i] \in Seq(X) /\ Len(rows[i]) = w
  OBVIOUS
<1> HIDE DEF N
<1>2. N * w \in Nat /\ s \in Seq(X) /\ Len(s) = N * w
  <2>1. N * w \in Nat
    BY <1>1
  <2>2. \A k \in 1..(N * w) : Row(w, k) \in 1..N /\ Column(w, k) \in 1..w
    BY <1>1, FlatPlaces
  <2>3. \A k \in 1..(N * w) : rows[Row(w, k)][Column(w, k)] \in X
    BY <1>1, <2>2
  <2>4. s \in [1..(N * w) -> X]
    BY <2>3 DEF Flat
  <2> HIDE DEF s
  <2>5. ASSUME NEW n \in Nat, s \in [1..n -> X] PROVE s \in Seq(X) /\ Len(s) = n
    BY <2>5
  <2> QED
    BY <2>1, <2>4, <2>5
<1>3. \A i \in 1..N, j \in 1..w : s[(i - 1) * w + j] = rows[i][j]
  <2>1. N \in Nat
    BY <1>1
  <2>2. \A i \in 1..N, j \in 1..w : /\ (i - 1) * w + j \in 1..(N * w)
                                     /\ Row(w, (i - 1) * w + j) = i
                                     /\ Column(w, (i - 1) * w + j) = j
    BY <2>1, FlatPlaces
  <2>3. s = [k \in 1..(N * w) |-> rows[Row(w, k)][Column(w, k)]]
    BY DEF Flat
  <2> HIDE DEF s
  <2> QED
    BY <2>2, <2>3
<1> HIDE DEF s
<1>4. Len(s) \div w = N
  <2>1. N * w = N * w + 0 /\ 0 \in 0..(w - 1)
    BY <1>2
  <2> QED
    BY <1>1, <1>2, <2>1, QuotientUnique
<1>5. ASSUME NEW i \in 1..N PROVE SubSeq(s, (i - 1) * w + 1, i * w) = rows[i]
  <2>1. /\ i * w = (i - 1) * w + w /\ (i - 1) * w \in Nat /\ i * w \in Nat
        /\ i * w <= N * w
    BY <1>1, TimesGrows
  <2> DEFINE a == (i - 1) * w
  <2>2. a \in Nat /\ i * w = a + w /\ a + w <= Len(s)
    BY <1>2, <2>1
  <2>3. \A j \in 1..w : s[a + j] = rows[i][j]
    BY <1>3
  <2> HIDE DEF a
  <2>4. SubSeq(s, a + 1, a + w) = [j \in 1..w |-> s[a + j]]
    BY <1>2, <2>2, PartOf
  <2>5. rows[i] = [j \in 1..w |-> rows[i][j]]
    BY <1>1
  <2> QED
    BY <2>2, <2>3, <2>4, <2>5 DEF a
<1>6. Grouped(s, w) = [i \in 1..N |-> SubSeq(s, (i - 1) * w + 1, i * w)]
  BY <1>4 DEF Grouped
<1>7. Grouped(s, w) = [i \in 1..N |-> rows[i]]
  BY <1>5, <1>6
<1> QED
  BY <1>1, <1>7 DEF s, N

\* A cell that was sent is read as it was.
LEMMA CellsKept == \A c \in Cells : BufferCell_From(BufferCell_To(c)) = c
<1> SUFFICES ASSUME NEW c \in Cells PROVE BufferCell_From(BufferCell_To(c)) = c
  OBVIOUS
<1>1. IsCell(c)
  BY HostCallsAssumption
<1> QED
  BY <1>1 DEF IsCell, BufferCell_From, BufferCell_To, BufferCell, PSObject, Value,
              ConsoleColor, BufferCellType

\* So is a buffer with rows of one length: taken apart by its columns and then, as one
\* group, by its rows.
LEMMA ArraysKept ==
    ASSUME NEW g \in Grids, IsPackable(Array(g)), IsRectangular(Array(g))
    PROVE  _unpack_multi_dimensional_array(_create_multi_dimensional_array(Array(g))) = Array(g)
<1> DEFINE w == Len(g[1])
           N == Len(g)
           s == Flat(g, w, N)
           o == _create_multi_dimensional_array(Array(g))
           e == [i \in DOMAIN Value(o).mae |-> BufferCell_From(Value(o).mae[i])]
<1>1. g \in Seq(Seq(Cells)) /\ g # <<>> /\ Value(Array(g)) = g
  BY HostCallsAssumption DEF IsPackable, Array, Value
<1>2. N \in Nat \ {0} /\ w \in Nat \ {0} /\ \A i \in DOMAIN g : Len(g[i]) = w
  <2>1. \A i \in DOMAIN g : Len(g[i]) = Len(g[1]) /\ g[i] # <<>>
    BY <1>1 DEF IsRectangular, Type, Array
  <2>2. 1 \in DOMAIN g /\ g[1] \in Seq(Cells) /\ g[1] # <<>>
    BY <1>1, <2>1
  <2> QED
    BY <1>1, <2>1, <2>2
<1>3. FlattenSeq(g) = s /\ Grouped(s, w) = g
  BY <1>1, <1>2, FlattenIsFlat, GroupedFlat
<1>4. \A k \in DOMAIN s : s[k] \in Cells
  <2>1. DOMAIN s = 1..(N * w) /\ \A k \in 1..(N * w) : s[k] = g[Row(w, k)][Column(w, k)]
    BY DEF Flat
  <2>2. \A k \in 1..(N * w) : Row(w, k) \in 1..N /\ Column(w, k) \in 1..w
    BY <1>2, FlatPlaces
  <2>3. \A i \in 1..N : g[i] \in Seq(Cells) /\ Len(g[i]) = w
    BY <1>1, <1>2
  <2>4. \A i \in 1..N, j \in 1..w : g[i][j] \in Cells
    <3> HIDE DEF w, N
    <3> QED
      BY <2>3
  <2> HIDE DEF w, N, s
  <2> QED
    BY <2>1, <2>2, <2>4
<1>5. /\ Value(o).mae = [i \in DOMAIN s |-> BufferCell_To(s[i])]
      /\ Value(o).mal = <<N, w>>
  BY <1>1, <1>3 DEF _create_multi_dimensional_array, PSObject, Value, Lengths
<1>6. e = s
  <2>1. s = [k \in DOMAIN s |-> s[k]]
    BY DEF Flat
  <2>2. DOMAIN e = DOMAIN s
    BY <1>5
  <2>3. \A k \in DOMAIN s : e[k] = s[k]
    <3> TAKE k \in DOMAIN s
    <3>1. e[k] = BufferCell_From(BufferCell_To(s[k]))
      <4> HIDE DEF o, s
      <4> QED
        BY <1>5
    <3> QED
      BY <1>4, <3>1, CellsKept
  <2>4. e = [k \in DOMAIN e |-> e[k]]
    OBVIOUS
  <2> HIDE DEF e, s
  <2> QED
    BY <2>1, <2>2, <2>3, <2>4
<1>7. Grouped(g, N) = <<g>>
  <2>1. N \div N = 1
    <3>1. N = 1 * N + 0 /\ 0 \in 0..(N - 1) /\ 1 \in Int /\ N \in Int
      BY <1>2
    <3> HIDE DEF N
    <3> QED
      BY <1>2, <3>1, QuotientUnique
  <2>2. SubSeq(g, (1 - 1) * N + 1, 1 * N) = g
    <3>1. (1 - 1) * N + 1 = 1 /\ 1 * N = N
      BY <1>2
    <3> QED
      BY <1>1, <3>1
  <2>3. Grouped(g, N) = [i \in 1..1 |-> SubSeq(g, (i - 1) * N + 1, i * N)]
    BY <1>2, <2>1 DEF Grouped
  <2>4. Grouped(g, N) = [i \in 1..1 |-> g]
    BY <2>2, <2>3
  <2>5. <<g>> = [i \in 1..1 |-> g]
    OBVIOUS
  <2> QED
    BY <2>4, <2>5
<1>8. _unpack_multi_dimensional_array(o)
        = LET whole == Grouped(Grouped(e, Value(o).mal[2]), Value(o).mal[1])
          IN  IF whole = <<>> THEN <<"raised", 0>> ELSE Array(whole[1])
  BY DEF _unpack_multi_dimensional_array
<1>9. Grouped(Grouped(e, Value(o).mal[2]), Value(o).mal[1]) = <<g>>
  <2>1. Value(o).mal[2] = w /\ Value(o).mal[1] = N
    <3> HIDE DEF o, w, N
    <3> QED
      BY <1>5
  <2> HIDE DEF o, e, s, w, N
  <2> QED
    BY <1>3, <1>6, <1>7, <2>1
<1> HIDE DEF e, o
<1>10. _unpack_multi_dimensional_array(o) = Array(g)
  BY <1>8, <1>9
<1> QED
  BY <1>10 DEF o
-----------------------------------------------------------------------------
(* What is sent of a value, and read *)

\* The types of the values that are sent as they are.
PlainTypes ==
    {"None", "PSString", "PSInt", "PSBool", "PSList", "PSSecureString", "PSCredential",
     "PSVersion", "PSGuid", "PSDict"}

LEMMA PlainIsSent ==
    ASSUME NEW v, Type(v) \in PlainTypes
    PROVE  ForHost(v) = v
BY DEF ForHost, IsEnum, Enums, PlainTypes

\* A member of an enum is sent as its number, a structure as its notes.
LEMMA EnumsAreSent ==
    ASSUME NEW v, Type(v) \in Enums
    PROVE  ForHost(v) = Number(Value(v))
BY DEF ForHost, IsEnum, Enums

LEMMA StructuresAreSent ==
    ASSUME NEW v
    PROVE  /\ Type(v) = "Coordinates" => ForHost(v) = Coordinates_To(v)
           /\ Type(v) = "Size" => ForHost(v) = Size_To(v)
           /\ Type(v) = "Rectangle" => ForHost(v) = Rectangle_To(v)
           /\ Type(v) = "BufferCell" => ForHost(v) = BufferCell_To(v)
           /\ Type(v) = "KeyInfo" => ForHost(v) = KeyInfo_To(v)
           /\ Type(v) = "ProgressRecord" => ForHost(v) = ProgressRecord_To(v)
           /\ Type(v) = "Array" => ForHost(v) = _create_multi_dimensional_array(v)
           /\ Type(v) = "Choices" =>
                ForHost(v) = List([i \in DOMAIN Value(v) |-> ChoiceDescription_To(Value(v)[i])])
           /\ Type(v) = "Fields" =>
                ForHost(v) = List([i \in DOMAIN Value(v) |-> FieldDescription_To(Value(v)[i])])
BY DEF ForHost, IsEnum, Enums

LEMMA CoordinatesKept == \A x, y : Coordinates_From(ForHost(Coordinates(x, y))) = Coordinates(x, y)
<1> SUFFICES ASSUME NEW x, NEW y
             PROVE  Coordinates_From(ForHost(Coordinates(x, y))) = Coordinates(x, y)
  OBVIOUS
<1>1. ForHost(Coordinates(x, y)) = Coordinates_To(Coordinates(x, y))
  BY StructuresAreSent DEF Coordinates, Type
<1> QED
  BY <1>1 DEF Coordinates_From, Coordinates_To, Coordinates, PSObject, Value

LEMMA SizesKept == \A w, h : Size_From(ForHost(Size(w, h))) = Size(w, h)
<1> SUFFICES ASSUME NEW w, NEW h PROVE Size_From(ForHost(Size(w, h))) = Size(w, h)
  OBVIOUS
<1>1. ForHost(Size(w, h)) = Size_To(Size(w, h))
  BY StructuresAreSent DEF Size, Type
<1> QED
  BY <1>1 DEF Size_From, Size_To, Size, PSObject, Value

LEMMA RectanglesKept ==
    \A a, b, c, d : Rectangle_From(ForHost(Rectangle(a, b, c, d))) = Rectangle(a, b, c, d)
<1> SUFFICES ASSUME NEW a, NEW b, NEW c, NEW d
             PROVE  Rectangle_From(ForHost(Rectangle(a, b, c, d))) = Rectangle(a, b, c, d)
  OBVIOUS
<1>1. ForHost(Rectangle(a, b, c, d)) = Rectangle_To(Rectangle(a, b, c, d))
  BY StructuresAreSent DEF Rectangle, Type
<1> QED
  BY <1>1 DEF Rectangle_From, Rectangle_To, Rectangle, PSObject, Value

LEMMA KeysKept ==
    \A k, c, s, d : KeyInfo_From(ForHost(KeyInfo(k, c, ControlKeyStates(s), d)))
                      = KeyInfo(k, c, ControlKeyStates(s), d)
<1> SUFFICES ASSUME NEW k, NEW c, NEW s, NEW d
             PROVE  KeyInfo_From(ForHost(KeyInfo(k, c, ControlKeyStates(s), d)))
                      = KeyInfo(k, c, ControlKeyStates(s), d)
  OBVIOUS
<1> DEFINE v == KeyInfo(k, c, ControlKeyStates(s), d)
<1>1. ForHost(v) = KeyInfo_To(v)
  BY StructuresAreSent DEF KeyInfo, Type
<1> QED
  BY <1>1 DEF KeyInfo_From, KeyInfo_To, KeyInfo, PSObject, Value, ControlKeyStates

LEMMA RecordsKept ==
    \A n, a, t : ProgressRecord_From(ForHost(ProgressRecord(n, a, t))) = ProgressRecord(n, a, t)
<1> SUFFICES ASSUME NEW n, NEW a, NEW t
             PROVE  ProgressRecord_From(ForHost(ProgressRecord(n, a, t))) = ProgressRecord(n, a, t)
  OBVIOUS
<1>1. ForHost(ProgressRecord(n, a, t)) = ProgressRecord_To(ProgressRecord(n, a, t))
  BY StructuresAreSent DEF ProgressRecord, Type
<1> QED
  BY <1>1 DEF ProgressRecord_From, ProgressRecord_To, ProgressRecord, PSObject, Value

LEMMA ColorsKept == \A c \in Colors : /\ Type(c) = "ConsoleColor"
                                      /\ ConsoleColor(Value(ForHost(c))) = c
<1> SUFFICES ASSUME NEW c \in Colors
             PROVE  Type(c) = "ConsoleColor" /\ ConsoleColor(Value(ForHost(c))) = c
  OBVIOUS
<1>1. c = ConsoleColor(Value(c))
  BY HostCallsAssumption
<1>2. Type(c) = "ConsoleColor"
  BY <1>1 DEF ConsoleColor, Type
<1>3. ForHost(c) = Number(Value(c))
  BY <1>2, EnumsAreSent DEF Enums
<1> QED
  BY <1>1, <1>2, <1>3 DEF Number, Value

\* The cell that fills a region.
LEMMA FillsKept ==
    ASSUME NEW ch, NEW f \in Colors, NEW b \in Colors
    PROVE  BufferCell_From(ForHost(S!Fill(ch, f, b))) = S!Fill(ch, f, b)
<1>1. f = ConsoleColor(Value(f)) /\ b = ConsoleColor(Value(b))
  BY HostCallsAssumption
<1>2. ForHost(S!Fill(ch, f, b)) = BufferCell_To(S!Fill(ch, f, b))
  BY StructuresAreSent DEF S!Fill, S!BufferCell, Type
<1> QED
  BY <1>1, <1>2 DEF S!Fill, S!BufferCell, S!BufferCellType, BufferCell_From, BufferCell_To,
                    BufferCell, PSObject, Value, BufferCellType
-----------------------------------------------------------------------------
(* Answers *)

\* The value of an answer, in the type that its method has.
LEMMA AnswersKept ==
    ASSUME NEW mi, NEW v \in AnswersTo(mi) \union {None}, IsRectangular(v),
           Type(v) = "Array" => IsPackable(v)
    PROVE  _decode_host_resp_result(mi, ForHost(v)) = v
<1> DEFINE Structured == {"GetForegroundColor", "GetBackgroundColor", "GetCursorPosition",
                          "GetWindowPosition", "GetBufferSize", "GetWindowSize",
                          "GetMaxWindowSize", "GetMaxPhysicalWindowSize", "ReadKey",
                          "GetBufferContents"}
<1>1. CASE v = None
  <2>1. ForHost(v) = None
    BY <1>1, PlainIsSent DEF None, Type, PlainTypes
  <2> QED
    BY <1>1, <2>1 DEF _decode_host_resp_result
<1>2. CASE v # None /\ mi \notin Structured
  <2>1. Type(v) \in PlainTypes
    <3>1. v \in AnswersTo(mi)
      BY <1>2
    <3>2. CASE mi \in {"PromptForCredential1", "PromptForCredential2"}
      <4>1. v = C!prompt_for_credential(PSCredential("u", "p"))
        BY <1>2, <3>1, <3>2 DEF AnswersTo, Optional, C!prompt_for_credential
      <4> QED
        BY <4>1 DEF C!prompt_for_credential, PSCredential, Type, PlainTypes
    <3>3. CASE mi = "PromptForChoiceMultipleSelection"
      <4>1. PICK c \in {List(<<>>), Number(1)} : v = C!prompt_for_multiple_choice(c)
        BY <3>1, <3>3 DEF AnswersTo
      <4>2. Type(v) = "PSList"
        BY <4>1 DEF C!prompt_for_multiple_choice, C!Type, C!List, List, Number, Type
      <4> QED
        BY <4>2 DEF PlainTypes
    <3>4. CASE mi \in {"GetName", "GetVersion", "GetInstanceId", "GetCurrentCulture",
                       "GetCurrentUICulture", "ReadLine", "ReadLineAsSecureString", "Prompt",
                       "PromptForChoice", "GetCursorSize", "GetWindowTitle"}
      <4>1. \A x : Type(C!Str(x)) \in PlainTypes /\ Type(C!Secure(x)) \in PlainTypes
                  /\ Type(C!Number(x)) \in PlainTypes /\ Type(C!get_version(x)) \in PlainTypes
                  /\ Type(C!get_instance_id(x)) \in PlainTypes
                  /\ Type(C!prompt(x)) \in PlainTypes
        BY DEF Type, PlainTypes, C!Str, C!Secure, C!Number, C!get_version,
               C!get_instance_id, C!prompt
      <4> QED
        BY <3>1, <3>4, <4>1
        DEF AnswersTo, C!get_name, C!get_current_culture, C!get_current_ui_culture,
            C!read_line, C!read_line_as_secure_string, C!prompt_for_choice,
            C!get_cursor_size, C!get_window_title
    <3>5. CASE mi \in {"GetIsRunspacePushed", "GetKeyAvailable"}
      <4>1. v \in {C!get_is_runspace_pushed(FALSE), C!get_key_available(TRUE)}
        BY <3>1, <3>5 DEF AnswersTo
      <4>2. v[1] = "PSBool"
        <5>1. \A x : C!get_is_runspace_pushed(x)[1] = "PSBool"
                    /\ C!get_key_available(x)[1] = "PSBool"
          BY DEF C!get_is_runspace_pushed, C!get_key_available, C!Bool
        <5> QED
          BY <4>1, <5>1, Zenon
      <4> QED
        BY <4>2 DEF Type, PlainTypes
    <3> QED
      BY <1>2, <3>1, <3>2, <3>3, <3>4, <3>5 DEF AnswersTo
  <2> QED
    BY <1>2, <2>1, PlainIsSent DEF _decode_host_resp_result
<1>3. CASE v # None /\ mi \in {"GetForegroundColor", "GetBackgroundColor"}
  <2>1. v \in Colors
    BY <1>3 DEF AnswersTo, C!get_foreground_color, C!get_background_color
  <2>2. ForHost(v) # None
    <3>1. ForHost(v) = Number(Value(v))
      BY <2>1, ColorsKept, EnumsAreSent DEF Enums
    <3> QED
      BY <3>1 DEF Number, None
  <2> QED
    BY <1>3, <2>1, <2>2, ColorsKept DEF _decode_host_resp_result
<1>4. CASE v # None /\ mi \in {"GetCursorPosition", "GetWindowPosition"}
  <2>1. v = Coordinates(0, 1)
    BY <1>4 DEF AnswersTo, C!get_cursor_position, C!get_window_position,
                C!Coordinates, Coordinates
  <2>2. ForHost(v) # None
    <3>1. Type(v) = "Coordinates"
      BY <2>1 DEF Coordinates, Type
    <3>2. ForHost(v) = Coordinates_To(v)
      BY <3>1, StructuresAreSent
    <3> QED
      BY <3>2 DEF Coordinates_To, PSObject, None
  <2> QED
    BY <1>4, <2>1, <2>2, CoordinatesKept DEF _decode_host_resp_result
<1>5. CASE v # None /\ mi \in {"GetBufferSize", "GetWindowSize", "GetMaxWindowSize",
                               "GetMaxPhysicalWindowSize"}
  <2>1. v = Size(0, 1)
    BY <1>5 DEF AnswersTo, C!get_buffer_size, C!get_window_size, C!get_max_window_size,
                C!get_max_physical_window_size, C!Size, Size
  <2>2. ForHost(v) # None
    <3>1. Type(v) = "Size"
      BY <2>1 DEF Size, Type
    <3>2. ForHost(v) = Size_To(v)
      BY <3>1, StructuresAreSent
    <3> QED
      BY <3>2 DEF Size_To, PSObject, None
  <2> QED
    BY <1>5, <2>1, <2>2, SizesKept DEF _decode_host_resp_result
<1>6. CASE v # None /\ mi = "ReadKey"
  <2>1. v = KeyInfo(65, "a", ControlKeyStates(128), TRUE)
    BY <1>6 DEF AnswersTo, C!read_key, C!KeyInfo, KeyInfo
  <2>2. ForHost(v) # None
    <3>1. Type(v) = "KeyInfo"
      BY <2>1 DEF KeyInfo, Type
    <3>2. ForHost(v) = KeyInfo_To(v)
      BY <3>1, StructuresAreSent
    <3> QED
      BY <3>2 DEF KeyInfo_To, PSObject, None
  <2> QED
    <3>1. KeyInfo_From(ForHost(v)) = v
      <4> DEFINE down == TRUE
      <4>1. v = KeyInfo(65, "a", ControlKeyStates(128), down)
        BY <2>1
      <4> HIDE DEF down
      <4> QED
        BY <4>1, KeysKept
    <3> QED
      BY <1>6, <2>2, <3>1 DEF _decode_host_resp_result
<1>7. CASE v # None /\ mi = "GetBufferContents"
  <2>1. PICK g \in Grids : v = Array(g)
    BY <1>7 DEF AnswersTo, C!get_buffer_contents, C!Array, Array
  <2>2. Type(v) = "Array"
    BY <2>1 DEF Array, Type
  <2>3. ForHost(v) = _create_multi_dimensional_array(v)
    BY <2>2, StructuresAreSent
  <2>4. ForHost(v) # None
    BY <2>3 DEF _create_multi_dimensional_array, PSObject, None
  <2> QED
    BY <1>7, <2>1, <2>2, <2>3, <2>4, ArraysKept DEF _decode_host_resp_result
<1> QED
  BY <1>1, <1>2, <1>3, <1>4, <1>5, <1>6, <1>7
-----------------------------------------------------------------------------
(* Calls *)

\* The parameters of a call as they are sent, and in the form they are shown in.
OnWire(call) == [i \in DOMAIN call.params |-> ForHost(call.params[i])]
Shows(call)  == [i \in DOMAIN call.params |-> Shown(call.params[i])]

Sendable(call) ==
    \A i \in DOMAIN call.params :
        IsRectangular(call.params[i]) /\ (Type(call.params[i]) = "Array" => IsPackable(call.params[i]))

IsKept(call) ==
    Sendable(call) => _decode_host_call_parameters(call.mi, OnWire(call)) = Shows(call)

\* The methods whose parameters are decoded.
DecodedMethods ==
    {"Write2", "WriteLine3", "WriteProgress", "Prompt", "PromptForCredential2", "PromptForChoice",
     "PromptForChoiceMultipleSelection", "SetForegroundColor", "SetBackgroundColor",
     "SetCursorPosition", "SetWindowPosition", "SetBufferSize", "SetWindowSize", "ReadKey",
     "SetBufferContents1", "SetBufferContents2", "GetBufferContents", "ScrollBufferContents"}

LEMMA OthersAreShown ==
    ASSUME NEW v, Type(v) # "Fields"
    PROVE  Shown(v) = v
BY DEF Shown

LEMMA PlainIsShown ==
    ASSUME NEW v, Type(v) \in PlainTypes
    PROVE  ForHost(v) = v /\ Shown(v) = v
BY PlainIsSent, OthersAreShown DEF PlainTypes

LEMMA CallFields ==
    ASSUME NEW mi, NEW params, NEW returns, NEW given
    PROVE  LET call == S!Call(mi, params, returns, given)
           IN  call.mi = mi /\ call.params = params /\ call.given = given
BY DEF S!Call

LEMMA PlainCallsKept ==
    ASSUME NEW mi, mi \notin DecodedMethods, NEW params, NEW returns, NEW given,
           \A i \in DOMAIN params : Type(params[i]) \in PlainTypes
    PROVE  IsKept(S!Call(mi, params, returns, given))
<1> DEFINE call == S!Call(mi, params, returns, given)
<1>1. call.mi = mi /\ call.params = params
  BY CallFields
<1> HIDE DEF call
<1>2. OnWire(call) = Shows(call)
  BY <1>1, PlainIsShown DEF OnWire, Shows
<1>3. _decode_host_call_parameters(call.mi, OnWire(call)) = OnWire(call)
  BY <1>1 DEF _decode_host_call_parameters, DecodedMethods
<1> QED
  BY <1>2, <1>3 DEF IsKept, call

\* What is sent and shown of one parameter, of two, and so on.
LEMMA OneParameter ==
    ASSUME NEW mi, NEW a, NEW returns, NEW given
    PROVE  LET call == S!Call(mi, <<a>>, returns, given)
           IN  OnWire(call)[1] = ForHost(a) /\ Shows(call) = <<Shown(a)>>
BY CallFields DEF OnWire, Shows

LEMMA TwoParameters ==
    ASSUME NEW mi, NEW a, NEW b, NEW returns, NEW given
    PROVE  LET call == S!Call(mi, <<a, b>>, returns, given)
           IN  /\ OnWire(call)[1] = ForHost(a) /\ OnWire(call)[2] = ForHost(b)
               /\ Shows(call) = <<Shown(a), Shown(b)>>
BY CallFields DEF OnWire, Shows

LEMMA ThreeParameters ==
    ASSUME NEW mi, NEW a, NEW b, NEW c, NEW returns, NEW given
    PROVE  LET call == S!Call(mi, <<a, b, c>>, returns, given)
           IN  /\ OnWire(call)[1] = ForHost(a) /\ OnWire(call)[2] = ForHost(b)
               /\ OnWire(call)[3] = ForHost(c)
               /\ Shows(call) = <<Shown(a), Shown(b), Shown(c)>>
BY CallFields DEF OnWire, Shows

LEMMA FourParameters ==
    ASSUME NEW mi, NEW a, NEW b, NEW c, NEW d, NEW returns, NEW given
    PROVE  LET call == S!Call(mi, <<a, b, c, d>>, returns, given)
           IN  /\ OnWire(call)[1] = ForHost(a) /\ OnWire(call)[2] = ForHost(b)
               /\ OnWire(call)[3] = ForHost(c) /\ OnWire(call)[4] = ForHost(d)
               /\ Shows(call) = <<Shown(a), Shown(b), Shown(c), Shown(d)>>
BY CallFields DEF OnWire, Shows

LEMMA SixParameters ==
    ASSUME NEW mi, NEW a, NEW b, NEW c, NEW d, NEW e, NEW f, NEW returns, NEW given
    PROVE  LET call == S!Call(mi, <<a, b, c, d, e, f>>, returns, given)
           IN  /\ OnWire(call)[1] = ForHost(a) /\ OnWire(call)[2] = ForHost(b)
               /\ OnWire(call)[3] = ForHost(c) /\ OnWire(call)[4] = ForHost(d)
               /\ OnWire(call)[5] = ForHost(e) /\ OnWire(call)[6] = ForHost(f)
               /\ Shows(call) = <<Shown(a), Shown(b), Shown(c), Shown(d), Shown(e), Shown(f)>>
BY CallFields DEF OnWire, Shows

\* The decoding of a method, on the parameters it has.
LEMMA DecodedColors ==
    ASSUME NEW mi, NEW mp
    PROVE  /\ mi \in {"Write2", "WriteLine3"} =>
                _decode_host_call_parameters(mi, mp)
                  = <<ConsoleColor(Value(mp[1])), ConsoleColor(Value(mp[2])), mp[3]>>
           /\ mi \in {"SetForegroundColor", "SetBackgroundColor"} =>
                _decode_host_call_parameters(mi, mp) = <<ConsoleColor(Value(mp[1]))>>
BY DEF _decode_host_call_parameters

LEMMA DecodedStructures ==
    ASSUME NEW mi, NEW mp
    PROVE  /\ mi \in {"SetCursorPosition", "SetWindowPosition"} =>
                _decode_host_call_parameters(mi, mp) = <<Coordinates_From(mp[1])>>
           /\ mi \in {"SetBufferSize", "SetWindowSize"} =>
                _decode_host_call_parameters(mi, mp) = <<Size_From(mp[1])>>
           /\ mi = "GetBufferContents" =>
                _decode_host_call_parameters(mi, mp) = <<Rectangle_From(mp[1])>>
           /\ mi = "SetBufferContents1" =>
                _decode_host_call_parameters(mi, mp) = <<Rectangle_From(mp[1]), BufferCell_From(mp[2])>>
           /\ mi = "SetBufferContents2" =>
                _decode_host_call_parameters(mi, mp)
                  = <<Coordinates_From(mp[1]), _unpack_multi_dimensional_array(mp[2])>>
           /\ mi = "ScrollBufferContents" =>
                _decode_host_call_parameters(mi, mp)
                  = <<Rectangle_From(mp[1]), Coordinates_From(mp[2]), Rectangle_From(mp[3]),
                      BufferCell_From(mp[4])>>
           /\ mi = "ReadKey" =>
                _decode_host_call_parameters(mi, mp) = <<ReadKeyOptions(Value(mp[1]))>>
           /\ mi = "WriteProgress" =>
                _decode_host_call_parameters(mi, mp) = <<mp[1], ProgressRecord_From(mp[2])>>
BY DEF _decode_host_call_parameters

ReadFields(x) ==
    ListOfFields([i \in DOMAIN Value(x) |-> FieldDescription_From(Value(x)[i])])
ReadChoices(x) ==
    ListOfChoices([i \in DOMAIN Value(x) |-> ChoiceDescription_From(Value(x)[i])])

LEMMA DecodedPrompts ==
    ASSUME NEW mi, NEW mp
    PROVE  /\ mi = "Prompt" =>
                _decode_host_call_parameters(mi, mp)
                  = <<mp[1], mp[2], ReadFields(mp[3])>>
           /\ mi = "PromptForCredential2" =>
                _decode_host_call_parameters(mi, mp)
                  = <<mp[1], mp[2], mp[3], mp[4], PSCredentialTypes(Value(mp[5])),
                      PSCredentialUIOptions(Value(mp[6]))>>
           /\ mi \in {"PromptForChoice", "PromptForChoiceMultipleSelection"} =>
                _decode_host_call_parameters(mi, mp)
                  = <<mp[1], mp[2], ReadChoices(mp[3]), mp[4]>>
BY DEF _decode_host_call_parameters, ReadFields, ReadChoices

\* The types of the instance are those of HostTypes.
LEMMA SameTypes ==
    /\ \A x : S!Str(x) = Str(x) /\ S!Number(x) = Number(x) /\ S!ConsoleColor(x) = ConsoleColor(x)
              /\ S!PSCredentialTypes(x) = PSCredentialTypes(x) /\ S!List(x) = List(x)
              /\ S!PSCredentialUIOptions(x) = PSCredentialUIOptions(x) /\ S!Array(x) = Array(x)
              /\ S!ListOfFields(x) = ListOfFields(x) /\ S!ListOfChoices(x) = ListOfChoices(x)
    /\ \A x, y : S!Coordinates(x, y) = Coordinates(x, y) /\ S!Size(x, y) = Size(x, y)
    /\ \A a, b, c, d : S!Rectangle(a, b, c, d) = Rectangle(a, b, c, d)
    /\ S!None = None
BY DEF S!Str, Str, S!Number, Number, S!ConsoleColor, ConsoleColor, S!PSCredentialTypes,
       PSCredentialTypes, S!List, List, S!PSCredentialUIOptions, PSCredentialUIOptions,
       S!Array, Array, S!ListOfFields, ListOfFields, S!ListOfChoices, ListOfChoices,
       S!Coordinates, Coordinates, S!Size, Size, S!Rectangle, Rectangle, S!None, None

LEMMA PlainValues ==
    \A x : /\ Type(Str(x)) \in PlainTypes /\ Type(Number(x)) \in PlainTypes
           /\ Type(List(x)) \in PlainTypes /\ Type(None) \in PlainTypes
BY DEF Type, Str, Number, List, None, PlainTypes

\* What is neither a list of fields nor an array is shown as it is.
LEMMA ColorsShown ==
    \A c \in Colors : Shown(c) = c /\ ConsoleColor(Value(ForHost(c))) = c
BY ColorsKept, OthersAreShown

LEMMA StructuresShown ==
    /\ \A x, y : Shown(Coordinates(x, y)) = Coordinates(x, y) /\ Shown(Size(x, y)) = Size(x, y)
    /\ \A a, b, c, d : Shown(Rectangle(a, b, c, d)) = Rectangle(a, b, c, d)
    /\ \A a, b, c : Shown(S!Fill(a, b, c)) = S!Fill(a, b, c)
    /\ \A a, b, c : Shown(ProgressRecord(a, b, c)) = ProgressRecord(a, b, c)
    /\ \A g : Shown(Array(g)) = Array(g)
    /\ \A s : Shown(ListOfChoices(s)) = ListOfChoices(s)
BY DEF Shown, Type, Coordinates, Size, Rectangle, S!Fill, S!BufferCell, ProgressRecord, Array,
       ListOfChoices

\* The members of the enums a call may have.
LEMMA EnumsShown ==
    \A n : /\ Shown(ReadKeyOptions(n)) = ReadKeyOptions(n)
           /\ ReadKeyOptions(Value(ForHost(ReadKeyOptions(n)))) = ReadKeyOptions(n)
           /\ Shown(PSCredentialTypes(n)) = PSCredentialTypes(n)
           /\ PSCredentialTypes(Value(ForHost(PSCredentialTypes(n)))) = PSCredentialTypes(n)
           /\ Shown(PSCredentialUIOptions(n)) = PSCredentialUIOptions(n)
           /\ PSCredentialUIOptions(Value(ForHost(PSCredentialUIOptions(n)))) = PSCredentialUIOptions(n)
           /\ Shown(ConsoleColor(n)) = ConsoleColor(n)
           /\ ConsoleColor(Value(ForHost(ConsoleColor(n)))) = ConsoleColor(n)
<1> SUFFICES ASSUME NEW v, NEW n, v \in {ReadKeyOptions(n), PSCredentialTypes(n),
                                       PSCredentialUIOptions(n), ConsoleColor(n)}
             PROVE  Shown(v) = v /\ Value(ForHost(v)) = n
  OBVIOUS
<1>1. Type(v) \in Enums /\ Type(v) # "Fields" /\ Value(v) = n
  BY DEF Type, Value, Enums, ReadKeyOptions, PSCredentialTypes, PSCredentialUIOptions,
         ConsoleColor
<1>2. ForHost(v) = Number(n) /\ Shown(v) = v
  BY <1>1, EnumsAreSent, OthersAreShown
<1> QED
  BY <1>2 DEF Number, Value

\* Calls of one structure or colour.
LEMMA ColorCallsKept ==
    ASSUME NEW mi \in {"SetForegroundColor", "SetBackgroundColor"}, NEW c \in Colors,
           NEW returns, NEW given
    PROVE  IsKept(S!Call(mi, <<c>>, returns, given))
<1> DEFINE call == S!Call(mi, <<c>>, returns, given)
<1>1. call.mi = mi /\ OnWire(call)[1] = ForHost(c) /\ Shows(call) = <<Shown(c)>>
  BY CallFields, OneParameter
<1> HIDE DEF call
<1>2. _decode_host_call_parameters(call.mi, OnWire(call)) = <<c>>
  BY <1>1, DecodedColors, ColorsShown
<1> QED
  BY <1>1, <1>2, ColorsShown DEF IsKept, call

LEMMA PositionCallsKept ==
    ASSUME NEW mi \in {"SetCursorPosition", "SetWindowPosition"}, NEW x, NEW y,
           NEW returns, NEW given
    PROVE  IsKept(S!Call(mi, <<Coordinates(x, y)>>, returns, given))
<1> DEFINE v    == Coordinates(x, y)
           call == S!Call(mi, <<v>>, returns, given)
<1>1. call.mi = mi /\ OnWire(call)[1] = ForHost(v) /\ Shows(call) = <<Shown(v)>>
  BY CallFields, OneParameter
<1>2. Shown(v) = v /\ Coordinates_From(ForHost(v)) = v
  BY StructuresShown, CoordinatesKept
<1> HIDE DEF call, v
<1>3. _decode_host_call_parameters(call.mi, OnWire(call)) = <<v>>
  BY <1>1, <1>2, DecodedStructures
<1> QED
  BY <1>1, <1>2, <1>3 DEF IsKept, call, v

LEMMA SizeCallsKept ==
    ASSUME NEW mi \in {"SetBufferSize", "SetWindowSize"}, NEW x, NEW y, NEW returns, NEW given
    PROVE  IsKept(S!Call(mi, <<Size(x, y)>>, returns, given))
<1> DEFINE v    == Size(x, y)
           call == S!Call(mi, <<v>>, returns, given)
<1>1. call.mi = mi /\ OnWire(call)[1] = ForHost(v) /\ Shows(call) = <<Shown(v)>>
  BY CallFields, OneParameter
<1>2. Shown(v) = v /\ Size_From(ForHost(v)) = v
  BY StructuresShown, SizesKept
<1> HIDE DEF call, v
<1>3. _decode_host_call_parameters(call.mi, OnWire(call)) = <<v>>
  BY <1>1, <1>2, DecodedStructures
<1> QED
  BY <1>1, <1>2, <1>3 DEF IsKept, call, v

LEMMA GetContentsKept ==
    ASSUME NEW a, NEW b, NEW c, NEW d, NEW returns, NEW given
    PROVE  IsKept(S!Call("GetBufferContents", <<Rectangle(a, b, c, d)>>, returns, given))
<1> DEFINE v    == Rectangle(a, b, c, d)
           call == S!Call("GetBufferContents", <<v>>, returns, given)
<1>1. call.mi = "GetBufferContents" /\ OnWire(call)[1] = ForHost(v) /\ Shows(call) = <<Shown(v)>>
  BY CallFields, OneParameter
<1>2. Shown(v) = v /\ Rectangle_From(ForHost(v)) = v
  BY StructuresShown, RectanglesKept
<1> HIDE DEF call, v
<1>3. _decode_host_call_parameters(call.mi, OnWire(call)) = <<v>>
  BY <1>1, <1>2, DecodedStructures
<1> QED
  BY <1>1, <1>2, <1>3 DEF IsKept, call, v

LEMMA ReadKeyKept ==
    ASSUME NEW n, NEW returns, NEW given
    PROVE  IsKept(S!Call("ReadKey", <<ReadKeyOptions(n)>>, returns, given))
<1> DEFINE v    == ReadKeyOptions(n)
           call == S!Call("ReadKey", <<v>>, returns, given)
<1>1. call.mi = "ReadKey" /\ OnWire(call)[1] = ForHost(v) /\ Shows(call) = <<Shown(v)>>
  BY CallFields, OneParameter
<1>2. Shown(v) = v /\ ReadKeyOptions(Value(ForHost(v))) = v
  BY EnumsShown
<1> HIDE DEF call, v
<1>3. _decode_host_call_parameters(call.mi, OnWire(call)) = <<v>>
  BY <1>1, <1>2, DecodedStructures
<1> QED
  BY <1>1, <1>2, <1>3 DEF IsKept, call, v

LEMMA ProgressKept ==
    ASSUME NEW n, NEW a, NEW b, NEW c, NEW returns, NEW given
    PROVE  IsKept(S!Call("WriteProgress", <<Number(n), ProgressRecord(a, b, c)>>, returns, given))
<1> DEFINE u    == Number(n)
           v    == ProgressRecord(a, b, c)
           call == S!Call("WriteProgress", <<u, v>>, returns, given)
<1>1. /\ call.mi = "WriteProgress" /\ OnWire(call)[1] = ForHost(u) /\ OnWire(call)[2] = ForHost(v)
      /\ Shows(call) = <<Shown(u), Shown(v)>>
  BY CallFields, TwoParameters
<1>2. /\ Shown(v) = v /\ ProgressRecord_From(ForHost(v)) = v
      /\ Shown(u) = u /\ ForHost(u) = u
  BY StructuresShown, RecordsKept, PlainValues, PlainIsShown
<1> HIDE DEF call, u, v
<1>3. _decode_host_call_parameters(call.mi, OnWire(call)) = <<u, v>>
  BY <1>1, <1>2, DecodedStructures
<1> QED
  BY <1>1, <1>2, <1>3 DEF IsKept, call, u, v

LEMMA SetCellsKept ==
    ASSUME NEW a, NEW b, NEW c, NEW d, NEW ch, NEW f \in Colors, NEW k \in Colors,
           NEW returns, NEW given
    PROVE  IsKept(S!Call("SetBufferContents1", <<Rectangle(a, b, c, d), S!Fill(ch, f, k)>>,
                         returns, given))
<1> DEFINE u    == Rectangle(a, b, c, d)
           v    == S!Fill(ch, f, k)
           call == S!Call("SetBufferContents1", <<u, v>>, returns, given)
<1>1. /\ call.mi = "SetBufferContents1" /\ OnWire(call)[1] = ForHost(u)
      /\ OnWire(call)[2] = ForHost(v) /\ Shows(call) = <<Shown(u), Shown(v)>>
  BY CallFields, TwoParameters
<1>2. /\ Shown(u) = u /\ Rectangle_From(ForHost(u)) = u
      /\ Shown(v) = v /\ BufferCell_From(ForHost(v)) = v
  BY StructuresShown, RectanglesKept, FillsKept
<1> HIDE DEF call, u, v
<1>3. _decode_host_call_parameters(call.mi, OnWire(call)) = <<u, v>>
  BY <1>1, <1>2, DecodedStructures
<1> QED
  BY <1>1, <1>2, <1>3 DEF IsKept, call, u, v

LEMMA SetContentsKept ==
    ASSUME NEW x, NEW y, NEW g \in Grids, NEW returns, NEW given
    PROVE  IsKept(S!Call("SetBufferContents2", <<Coordinates(x, y), Array(g)>>, returns, given))
<1> DEFINE u    == Coordinates(x, y)
           v    == Array(g)
           call == S!Call("SetBufferContents2", <<u, v>>, returns, given)
<1>1. /\ call.mi = "SetBufferContents2" /\ OnWire(call)[1] = ForHost(u)
      /\ OnWire(call)[2] = ForHost(v) /\ Shows(call) = <<Shown(u), Shown(v)>>
      /\ call.params = <<u, v>>
  BY CallFields, TwoParameters
<1>2. SUFFICES ASSUME Sendable(call)
               PROVE  _decode_host_call_parameters(call.mi, OnWire(call)) = Shows(call)
  BY DEF IsKept
<1>3. Type(v) = "Array" /\ IsRectangular(v) /\ IsPackable(v)
  <2>1. Type(v) = "Array"
    BY DEF Array, Type
  <2>2. 2 \in DOMAIN call.params /\ call.params[2] = v
    BY <1>1
  <2> HIDE DEF call, v
  <2> QED
    BY <1>2, <2>1, <2>2 DEF Sendable
<1>4. /\ Shown(u) = u /\ Coordinates_From(ForHost(u)) = u
      /\ Shown(v) = v /\ _unpack_multi_dimensional_array(ForHost(v)) = v
  <2>1. ForHost(v) = _create_multi_dimensional_array(v)
    BY <1>3, StructuresAreSent
  <2> QED
    BY <1>3, <2>1, StructuresShown, CoordinatesKept, ArraysKept
<1> HIDE DEF call, u, v
<1>5. _decode_host_call_parameters(call.mi, OnWire(call)) = <<u, v>>
  BY <1>1, <1>4, DecodedStructures
<1> QED
  BY <1>1, <1>4, <1>5

LEMMA ScrollKept ==
    ASSUME NEW a, NEW b, NEW c, NEW d, NEW x, NEW y, NEW e, NEW h, NEW m, NEW n, NEW ch,
           NEW f \in Colors, NEW k \in Colors, NEW returns, NEW given
    PROVE  IsKept(S!Call("ScrollBufferContents",
                         <<Rectangle(a, b, c, d), Coordinates(x, y), Rectangle(e, h, m, n),
                           S!Fill(ch, f, k)>>, returns, given))
<1> DEFINE s    == Rectangle(a, b, c, d)
           t    == Coordinates(x, y)
           u    == Rectangle(e, h, m, n)
           v    == S!Fill(ch, f, k)
           call == S!Call("ScrollBufferContents", <<s, t, u, v>>, returns, given)
<1>1. /\ call.mi = "ScrollBufferContents" /\ OnWire(call)[1] = ForHost(s)
      /\ OnWire(call)[2] = ForHost(t) /\ OnWire(call)[3] = ForHost(u)
      /\ OnWire(call)[4] = ForHost(v)
      /\ Shows(call) = <<Shown(s), Shown(t), Shown(u), Shown(v)>>
  BY CallFields, FourParameters
<1>2. /\ Shown(s) = s /\ Rectangle_From(ForHost(s)) = s
      /\ Shown(t) = t /\ Coordinates_From(ForHost(t)) = t
      /\ Shown(u) = u /\ Rectangle_From(ForHost(u)) = u
      /\ Shown(v) = v /\ BufferCell_From(ForHost(v)) = v
  BY StructuresShown, RectanglesKept, CoordinatesKept, FillsKept
<1> HIDE DEF call, s, t, u, v
<1>3. _decode_host_call_parameters(call.mi, OnWire(call)) = <<s, t, u, v>>
  BY <1>1, <1>2, DecodedStructures
<1> QED
  BY <1>1, <1>2, <1>3 DEF IsKept, call, s, t, u, v

\* The two methods with colours: ones of Colors, or Black.
IsColor(c) == c \in Colors \/ c = ConsoleColor(0)

LEMMA ColoredTextKept ==
    ASSUME NEW mi \in {"Write2", "WriteLine3"}, NEW f, IsColor(f), NEW b, IsColor(b),
           NEW v, Type(v) \in PlainTypes, NEW returns, NEW given
    PROVE  IsKept(S!Call(mi, <<f, b, v>>, returns, given))
<1> DEFINE call == S!Call(mi, <<f, b, v>>, returns, given)
<1>1. /\ call.mi = mi /\ OnWire(call)[1] = ForHost(f) /\ OnWire(call)[2] = ForHost(b)
      /\ OnWire(call)[3] = ForHost(v) /\ Shows(call) = <<Shown(f), Shown(b), Shown(v)>>
  BY CallFields, ThreeParameters
<1>2. /\ Shown(f) = f /\ ConsoleColor(Value(ForHost(f))) = f
      /\ Shown(b) = b /\ ConsoleColor(Value(ForHost(b))) = b
      /\ Shown(v) = v /\ ForHost(v) = v
  BY ColorsShown, EnumsShown, PlainIsShown DEF IsColor
<1> HIDE DEF call
<1>3. _decode_host_call_parameters(call.mi, OnWire(call)) = <<f, b, v>>
  BY <1>1, <1>2, DecodedColors
<1> QED
  BY <1>1, <1>2, <1>3 DEF IsKept, call

LEMMA CredentialKept ==
    ASSUME NEW a, Type(a) \in PlainTypes, NEW b, Type(b) \in PlainTypes,
           NEW c, Type(c) \in PlainTypes, NEW d, Type(d) \in PlainTypes, NEW m, NEW n,
           NEW returns, NEW given
    PROVE  IsKept(S!Call("PromptForCredential2",
                         <<a, b, c, d, PSCredentialTypes(m), PSCredentialUIOptions(n)>>,
                         returns, given))
<1> DEFINE e    == PSCredentialTypes(m)
           f    == PSCredentialUIOptions(n)
           call == S!Call("PromptForCredential2", <<a, b, c, d, e, f>>, returns, given)
<1>1. /\ call.mi = "PromptForCredential2"
      /\ OnWire(call)[1] = ForHost(a) /\ OnWire(call)[2] = ForHost(b)
      /\ OnWire(call)[3] = ForHost(c) /\ OnWire(call)[4] = ForHost(d)
      /\ OnWire(call)[5] = ForHost(e) /\ OnWire(call)[6] = ForHost(f)
      /\ Shows(call) = <<Shown(a), Shown(b), Shown(c), Shown(d), Shown(e), Shown(f)>>
  BY CallFields, SixParameters
<1>2. /\ Shown(a) = a /\ ForHost(a) = a /\ Shown(b) = b /\ ForHost(b) = b
      /\ Shown(c) = c /\ ForHost(c) = c /\ Shown(d) = d /\ ForHost(d) = d
      /\ Shown(e) = e /\ PSCredentialTypes(Value(ForHost(e))) = e
      /\ Shown(f) = f /\ PSCredentialUIOptions(Value(ForHost(f))) = f
  BY PlainIsShown, EnumsShown
<1> HIDE DEF call, e, f
<1>3. _decode_host_call_parameters(call.mi, OnWire(call)) = <<a, b, c, d, e, f>>
  BY <1>1, <1>2, DecodedPrompts
<1> QED
  BY <1>1, <1>2, <1>3 DEF IsKept, call, e, f

\* A choice is kept, and of a field what is sent.
LEMMA ChoicesKept ==
    \A l, h : ChoiceDescription_From(ChoiceDescription_To(ChoiceDescription(l, h)))
                = ChoiceDescription(l, h)
BY DEF ChoiceDescription_From, ChoiceDescription_To, ChoiceDescription, PSObject, Value

LEMMA FieldsKept ==
    ASSUME NEW n, NEW t, NEW l, NEW h, NEW m, NEW d, NEW a
    PROVE  FieldDescription_From(FieldDescription_To(FieldDescription(n, t, l, h, m, d, a)))
             = Bare(FieldDescription(n, t, l, h, m, d, a))
<1> DEFINE F(e, b) == [Name |-> n, ParameterType |-> t, Label |-> l, HelpMessage |-> h,
                       IsMandatory |-> m, DefaultValue |-> e, Attributes |-> b]
           f == FieldDescription(n, t, l, h, m, d, a)
<1>1. f = <<"FieldDescription", F(d, a)>> /\ Value(f) = F(d, a)
  BY DEF FieldDescription, Value
<1>2. FieldDescription_From(FieldDescription_To(f)) = <<"FieldDescription", F(None, <<>>)>>
  BY <1>1 DEF FieldDescription_From, FieldDescription_To, FieldDescription, PSObject, Value
<1>3. [F(d, a) EXCEPT !.DefaultValue = None, !.Attributes = <<>>] = F(None, <<>>)
  <2>1. [F(d, a) EXCEPT !.DefaultValue = None] = F(None, a)
    OBVIOUS
  <2>2. [F(None, a) EXCEPT !.Attributes = <<>>] = F(None, <<>>)
    OBVIOUS
  <2> HIDE DEF F
  <2> QED
    BY <2>1, <2>2
<1> HIDE DEF F, f
<1>4. Bare(f) = <<"FieldDescription", [F(d, a) EXCEPT !.DefaultValue = None, !.Attributes = <<>>]>>
  BY <1>1 DEF Bare
<1> QED
  BY <1>2, <1>3, <1>4 DEF f

LEMMA ListedChoicesKept ==
    ASSUME NEW s, s = [i \in DOMAIN s |-> s[i]],
           \A i \in DOMAIN s : \E l, h : s[i] = ChoiceDescription(l, h)
    PROVE  ReadChoices(ForHost(ListOfChoices(s))) = ListOfChoices(s)
<1> DEFINE v == ListOfChoices(s)
           r == [i \in DOMAIN s |-> ChoiceDescription_To(s[i])]
<1>1. Type(v) = "Choices" /\ Value(v) = s
  BY DEF ListOfChoices, Type, Value
<1> HIDE DEF v
<1>2. ForHost(v) = List([i \in DOMAIN s |-> ChoiceDescription_To(s[i])])
  BY <1>1, StructuresAreSent
<1>3. Value(ForHost(v)) = r
  BY <1>2 DEF List, Value
<1>4. \A i \in DOMAIN s : ChoiceDescription_From(r[i]) = s[i]
  BY ChoicesKept
<1>5. [i \in DOMAIN Value(ForHost(v)) |-> ChoiceDescription_From(Value(ForHost(v))[i])]
        = [i \in DOMAIN s |-> ChoiceDescription_From(r[i])]
  BY <1>3
<1>6. [i \in DOMAIN s |-> ChoiceDescription_From(r[i])] = [i \in DOMAIN s |-> s[i]]
  <2> HIDE DEF r
  <2> QED
    BY <1>4
<1> QED
  BY <1>5, <1>6 DEF v, ReadChoices

LEMMA ListedFieldsKept ==
    ASSUME NEW s, \A i \in DOMAIN s : \E n, t, l, h, m, d, a :
                                       s[i] = FieldDescription(n, t, l, h, m, d, a)
    PROVE  ReadFields(ForHost(ListOfFields(s))) = Shown(ListOfFields(s))
<1> DEFINE v == ListOfFields(s)
           r == [i \in DOMAIN s |-> FieldDescription_To(s[i])]
<1>1. Type(v) = "Fields" /\ Value(v) = s
  BY DEF ListOfFields, Type, Value
<1> HIDE DEF v
<1>2. ForHost(v) = List([i \in DOMAIN s |-> FieldDescription_To(s[i])])
  BY <1>1, StructuresAreSent
<1>3. Value(ForHost(v)) = r
  BY <1>2 DEF List, Value
<1>4. \A i \in DOMAIN s : FieldDescription_From(r[i]) = Bare(s[i])
  BY FieldsKept
<1>5. [i \in DOMAIN Value(ForHost(v)) |-> FieldDescription_From(Value(ForHost(v))[i])]
        = [i \in DOMAIN s |-> FieldDescription_From(r[i])]
  BY <1>3
<1>6. [i \in DOMAIN s |-> FieldDescription_From(r[i])] = [i \in DOMAIN s |-> Bare(s[i])]
  <2> HIDE DEF r
  <2> QED
    BY <1>4
<1>7. Shown(v) = ListOfFields([i \in DOMAIN s |-> Bare(s[i])])
  BY <1>1 DEF Shown
<1> QED
  BY <1>5, <1>6, <1>7 DEF v, ReadFields

LEMMA ChoiceCallsKept ==
    ASSUME NEW mi \in {"PromptForChoice", "PromptForChoiceMultipleSelection"},
           NEW a, Type(a) \in PlainTypes, NEW b, Type(b) \in PlainTypes,
           NEW s, s = [i \in DOMAIN s |-> s[i]],
           \A i \in DOMAIN s : \E l, h : s[i] = ChoiceDescription(l, h),
           NEW d, Type(d) \in PlainTypes, NEW returns, NEW given
    PROVE  IsKept(S!Call(mi, <<a, b, ListOfChoices(s), d>>, returns, given))
<1> DEFINE c    == ListOfChoices(s)
           call == S!Call(mi, <<a, b, c, d>>, returns, given)
           read == ReadChoices(ForHost(c))
<1>1. /\ call.mi = mi /\ OnWire(call)[1] = ForHost(a) /\ OnWire(call)[2] = ForHost(b)
      /\ OnWire(call)[3] = ForHost(c) /\ OnWire(call)[4] = ForHost(d)
      /\ Shows(call) = <<Shown(a), Shown(b), Shown(c), Shown(d)>>
  BY CallFields, FourParameters
<1>2. read = c
  BY ListedChoicesKept
<1>3. /\ Shown(a) = a /\ ForHost(a) = a /\ Shown(b) = b /\ ForHost(b) = b
      /\ Shown(d) = d /\ ForHost(d) = d /\ Shown(c) = c
  BY PlainIsShown, StructuresShown
<1> HIDE DEF call, c
<1>4. _decode_host_call_parameters(call.mi, OnWire(call)) = <<a, b, read, d>>
  BY <1>1, <1>3, DecodedPrompts
<1> HIDE DEF read
<1> QED
  BY <1>1, <1>2, <1>3, <1>4 DEF IsKept, call, c

LEMMA PromptKept ==
    ASSUME NEW a, Type(a) \in PlainTypes, NEW b, Type(b) \in PlainTypes,
           NEW s, \A i \in DOMAIN s : \E n, t, l, h, m, d, x :
                                         s[i] = FieldDescription(n, t, l, h, m, d, x),
           NEW returns, NEW given
    PROVE  IsKept(S!Call("Prompt", <<a, b, ListOfFields(s)>>, returns, given))
<1> DEFINE c    == ListOfFields(s)
           call == S!Call("Prompt", <<a, b, c>>, returns, given)
           read == ReadFields(ForHost(c))
<1>1. /\ call.mi = "Prompt" /\ OnWire(call)[1] = ForHost(a) /\ OnWire(call)[2] = ForHost(b)
      /\ OnWire(call)[3] = ForHost(c) /\ Shows(call) = <<Shown(a), Shown(b), Shown(c)>>
  BY CallFields, ThreeParameters
<1>2. read = Shown(c)
  BY ListedFieldsKept
<1>3. Shown(a) = a /\ ForHost(a) = a /\ Shown(b) = b /\ ForHost(b) = b
  BY PlainIsShown
<1> HIDE DEF call, c
<1>4. _decode_host_call_parameters(call.mi, OnWire(call)) = <<a, b, read>>
  BY <1>1, <1>3, DecodedPrompts
<1> HIDE DEF read
<1> QED
  BY <1>1, <1>2, <1>3, <1>4 DEF IsKept, call, c
-----------------------------------------------------------------------------
(* The optional arguments *)

HasOptions(call) ==
    \A f \in DOMAIN call.given :
        call.given[f] # None => Sendable(call) /\ Effect(call.mi, Shows(call))[f] = call.given[f]

LEMMA NothingGiven ==
    ASSUME NEW mi, NEW params, NEW returns
    PROVE  HasOptions(S!Call(mi, params, returns, S!NotOptional))
BY CallFields, SameTypes DEF HasOptions, S!NotOptional

\* Parameters of other types than an array can always be sent.
LEMMA WithoutArrays ==
    ASSUME NEW call, \A i \in DOMAIN call.params : Type(call.params[i]) # "Array"
    PROVE  Sendable(call)
BY DEF Sendable, IsRectangular

LEMMA TypesOfOptions ==
    /\ \A x : Type(Str(x)) # "Array" /\ Type(ConsoleColor(x)) # "Array"
              /\ Type(PSCredentialTypes(x)) # "Array" /\ Type(PSCredentialUIOptions(x)) # "Array"
    /\ \A c : IsColor(c) => Type(c) # "Array"
BY ColorsKept DEF Type, Str, ConsoleColor, PSCredentialTypes, PSCredentialUIOptions, IsColor

\* write() and write_line(): the text and the colours.
LEMMA WriteKept ==
    ASSUME NEW x, NEW f \in Optional(Colors), NEW b \in Optional(Colors)
    PROVE  IsKept(S!write(x, f, b)) /\ HasOptions(S!write(x, f, b))
<1> DEFINE call == S!write(x, f, b)
           v    == Str(x)
           g    == [text |-> v, first |-> f, second |-> b]
           no   == FALSE
<1>1. Type(v) \in PlainTypes /\ Type(v) # "Array" /\ Shown(v) = v
  BY PlainValues, PlainIsShown, TypesOfOptions
<1>2. CASE f = None /\ b = None
  <2>1. call = S!Call("Write1", <<v>>, no, g)
    BY <1>2, SameTypes DEF S!write
  <2> HIDE DEF v, no
  <2>2. IsKept(call)
    <3>1. \A i \in DOMAIN <<v>> : Type(<<v>>[i]) \in PlainTypes
      BY <1>1
    <3> QED
      BY <2>1, <3>1, PlainCallsKept DEF DecodedMethods
  <2>3. call.mi = "Write1" /\ call.params = <<v>> /\ call.given = g /\ Shows(call) = <<v>>
    BY <1>1, <2>1, CallFields, OneParameter
  <2> HIDE DEF call
  <2>4. Sendable(call)
    BY <1>1, <2>3, WithoutArrays
  <2>5. HasOptions(call)
    BY <1>2, <2>3, <2>4 DEF HasOptions, Effect
  <2> QED
    BY <2>2, <2>5 DEF call
<1>3. CASE ~(f = None /\ b = None)
  <2> DEFINE fb == S!OrBlack(f)
             bb == S!OrBlack(b)
  <2>1. call = S!Call("Write2", <<fb, bb, v>>, no, g)
    BY <1>3, SameTypes DEF S!write
  <2>2. /\ IsColor(fb) /\ (f # None => fb = f)
        /\ IsColor(bb) /\ (b # None => bb = b)
    BY SameTypes DEF Optional, IsColor, S!OrBlack, S!Given
  <2> HIDE DEF v, fb, bb, no
  <2>3. IsKept(call)
    BY <1>1, <2>1, <2>2, ColoredTextKept
  <2>4. Shown(fb) = fb /\ Shown(bb) = bb
    BY <2>2, ColorsShown, EnumsShown DEF IsColor
  <2>5. /\ call.mi = "Write2" /\ call.params = <<fb, bb, v>> /\ call.given = g
        /\ Shows(call) = <<fb, bb, v>>
    BY <1>1, <2>1, <2>4, CallFields, ThreeParameters
  <2> HIDE DEF call
  <2>6. Sendable(call)
    BY <1>1, <2>2, <2>5, WithoutArrays, TypesOfOptions
  <2>7. HasOptions(call)
    BY <2>2, <2>5, <2>6 DEF HasOptions, Effect
  <2> QED
    BY <2>3, <2>7 DEF call
<1> QED
  BY <1>2, <1>3

LEMMA WriteLineKept ==
    ASSUME NEW l, l = None \/ \E x : l = Str(x), NEW f \in Optional(Colors),
           NEW b \in Optional(Colors)
    PROVE  IsKept(S!write_line(l, f, b)) /\ HasOptions(S!write_line(l, f, b))
<1> DEFINE call == S!write_line(l, f, b)
           v    == IF l = None THEN Str("") ELSE l
           g    == [text |-> l, first |-> f, second |-> b]
           no   == FALSE
<1>1. Type(v) \in PlainTypes /\ Type(v) # "Array" /\ Shown(v) = v
  <2>1. PICK x : v = Str(x)
    OBVIOUS
  <2> HIDE DEF v
  <2> QED
    BY <2>1, PlainValues, PlainIsShown, TypesOfOptions
<1>2. CASE f = None /\ b = None /\ l = None
  <2>1. call = S!Call("WriteLine1", <<>>, no, g)
    BY <1>2, SameTypes DEF S!write_line
  <2> HIDE DEF no
  <2>2. IsKept(call)
    BY <2>1, PlainCallsKept DEF DecodedMethods
  <2>3. HasOptions(call)
    BY <1>2, <2>1, CallFields DEF HasOptions
  <2> QED
    BY <2>2, <2>3
<1>3. CASE f = None /\ b = None /\ l # None
  <2>1. call = S!Call("WriteLine2", <<v>>, no, g) /\ v = l
    BY <1>3, SameTypes DEF S!write_line
  <2> HIDE DEF v, no
  <2>2. IsKept(call)
    <3>1. \A i \in DOMAIN <<v>> : Type(<<v>>[i]) \in PlainTypes
      BY <1>1
    <3> QED
      BY <2>1, <3>1, PlainCallsKept DEF DecodedMethods
  <2>3. call.mi = "WriteLine2" /\ call.params = <<v>> /\ call.given = g /\ Shows(call) = <<v>>
    BY <1>1, <2>1, CallFields, OneParameter
  <2> HIDE DEF call
  <2>4. Sendable(call)
    BY <1>1, <2>3, WithoutArrays
  <2>5. HasOptions(call)
    BY <1>3, <2>1, <2>3, <2>4 DEF HasOptions, Effect
  <2> QED
    BY <2>2, <2>5 DEF call
<1>4. CASE ~(f = None /\ b = None)
  <2> DEFINE fb == S!OrBlack(f)
             bb == S!OrBlack(b)
  <2>1. call = S!Call("WriteLine3", <<fb, bb, v>>, no, g)
    BY <1>4, SameTypes DEF S!write_line
  <2>2. /\ IsColor(fb) /\ (f # None => fb = f)
        /\ IsColor(bb) /\ (b # None => bb = b)
        /\ (l # None => v = l)
    BY SameTypes DEF Optional, IsColor, S!OrBlack, S!Given
  <2> HIDE DEF v, fb, bb, no
  <2>3. IsKept(call)
    BY <1>1, <2>1, <2>2, ColoredTextKept
  <2>4. Shown(fb) = fb /\ Shown(bb) = bb
    BY <2>2, ColorsShown, EnumsShown DEF IsColor
  <2>5. /\ call.mi = "WriteLine3" /\ call.params = <<fb, bb, v>> /\ call.given = g
        /\ Shows(call) = <<fb, bb, v>>
    BY <1>1, <2>1, <2>4, CallFields, ThreeParameters
  <2> HIDE DEF call
  <2>6. Sendable(call)
    BY <1>1, <2>2, <2>5, WithoutArrays, TypesOfOptions
  <2>7. HasOptions(call)
    BY <2>2, <2>5, <2>6 DEF HasOptions, Effect
  <2> QED
    BY <2>3, <2>7 DEF call
<1> QED
  BY <1>2, <1>3, <1>4

LEMMA TwoMore ==
    ASSUME NEW a, NEW b, NEW c, NEW d, NEW e, NEW f
    PROVE  <<a, b, c, d>> \o <<e, f>> = <<a, b, c, d, e, f>>
<1> DEFINE T == {a, b, c, d, e, f}
           r == <<a, b, c, d>> \o <<e, f>>
<1>1. <<a, b, c, d>> \in Seq(T) /\ <<e, f>> \in Seq(T)
  OBVIOUS
<1>2. /\ r \in Seq(T) /\ Len(r) = 6
      /\ r[1] = a /\ r[2] = b /\ r[3] = c /\ r[4] = d /\ r[5] = e /\ r[6] = f
  BY <1>1
<1> DEFINE s == <<a, b, c, d, e, f>>
<1>3. /\ s \in Seq(T) /\ Len(s) = 6
      /\ s[1] = a /\ s[2] = b /\ s[3] = c /\ s[4] = d /\ s[5] = e /\ s[6] = f
  OBVIOUS
<1> HIDE DEF r, s, T
<1>4. r \in [1..Len(r) -> T] /\ s \in [1..Len(s) -> T]
  <2>1. \A q \in Seq(T) : q \in [1..Len(q) -> T]
    OBVIOUS
  <2> QED
    BY <1>2, <1>3, <2>1, Zenon
<1>5. \A i \in 1..6 : i = 1 \/ i = 2 \/ i = 3 \/ i = 4 \/ i = 5 \/ i = 6
  OBVIOUS
<1>6. \A i \in 1..6 : r[i] = s[i]
  BY <1>2, <1>3, <1>5
<1>7. r = s
  BY <1>2, <1>3, <1>4, <1>6
<1> QED
  BY <1>7 DEF r, s

\* prompt_for_credential(): what is not given has a default, if anything is given.
LEMMA CredentialPromptKept ==
    ASSUME NEW x, NEW y, NEW z, NEW n, n = None \/ \E a : n = Str(a),
           NEW t, t = None \/ \E a : t = PSCredentialTypes(a),
           NEW o, o = None \/ \E a : o = PSCredentialUIOptions(a)
    PROVE  LET call == S!prompt_for_credential(x, y, Str(z), n, t, o)
           IN  IsKept(call) /\ HasOptions(call)
<1> DEFINE call   == S!prompt_for_credential(x, y, Str(z), n, t, o)
           c      == Str(x)
           m      == Str(y)
           u      == Str(z)
           target == IF n = None THEN Str("") ELSE n
           g      == [text |-> n, first |-> t, second |-> o]
           yes    == TRUE
<1>1. /\ Type(c) \in PlainTypes /\ Type(c) # "Array" /\ Shown(c) = c
      /\ Type(m) \in PlainTypes /\ Type(m) # "Array" /\ Shown(m) = m
      /\ Type(u) \in PlainTypes /\ Type(u) # "Array" /\ Shown(u) = u
      /\ Type(target) \in PlainTypes /\ Type(target) # "Array" /\ Shown(target) = target
  <2>1. PICK a : target = Str(a)
    OBVIOUS
  <2> HIDE DEF target
  <2> QED
    BY <2>1, PlainValues, PlainIsShown, TypesOfOptions
<1>2. n # None => target = n
  OBVIOUS
<1>3. CASE t = None /\ o = None
  <2>1. call = S!Call("PromptForCredential1", <<c, m, u, target>>, yes, g)
    BY <1>3, SameTypes DEF S!prompt_for_credential, S!Given
  <2> HIDE DEF c, m, u, target, yes
  <2>2. IsKept(call)
    <3>1. \A i \in DOMAIN <<c, m, u, target>> : Type(<<c, m, u, target>>[i]) \in PlainTypes
      BY <1>1
    <3> QED
      BY <2>1, <3>1, PlainCallsKept DEF DecodedMethods
  <2>3. /\ call.mi = "PromptForCredential1" /\ call.params = <<c, m, u, target>>
        /\ call.given = g /\ Shows(call) = <<c, m, u, target>>
    BY <1>1, <2>1, CallFields, FourParameters
  <2> HIDE DEF call
  <2>4. Sendable(call)
    BY <1>1, <2>3, WithoutArrays
  <2>5. HasOptions(call)
    BY <1>2, <1>3, <2>3, <2>4 DEF HasOptions, Effect
  <2> QED
    BY <2>2, <2>5 DEF call
<1>4. CASE ~(t = None /\ o = None)
  <2> DEFINE tt == IF t = None THEN PSCredentialTypes(3) ELSE t
             oo == IF o = None THEN PSCredentialUIOptions(1) ELSE o
  <2>1. call = S!Call("PromptForCredential2", <<c, m, u, target, tt, oo>>, yes, g)
    <3>1. <<c, m, u, target>> \o <<tt, oo>> = <<c, m, u, target, tt, oo>>
      <4> HIDE DEF c, m, u, target, tt, oo
      <4> QED
        BY TwoMore
    <3>2. call = S!Call("PromptForCredential2", <<c, m, u, target>> \o <<tt, oo>>, yes, g)
      BY <1>4, SameTypes DEF S!prompt_for_credential, S!Given
    <3> QED
      BY <3>1, <3>2
  <2>2. PICK a, b : tt = PSCredentialTypes(a) /\ oo = PSCredentialUIOptions(b)
    OBVIOUS
  <2>3. (t # None => tt = t) /\ (o # None => oo = o)
    OBVIOUS
  <2> HIDE DEF c, m, u, target, yes, tt, oo
  <2>4. IsKept(call)
    BY <1>1, <2>1, <2>2, CredentialKept
  <2>5. Shown(tt) = tt /\ Shown(oo) = oo /\ Type(tt) # "Array" /\ Type(oo) # "Array"
    BY <2>2, EnumsShown, TypesOfOptions
  <2>6. /\ call.mi = "PromptForCredential2" /\ call.params = <<c, m, u, target, tt, oo>>
        /\ call.given = g /\ Shows(call) = <<c, m, u, target, tt, oo>>
    BY <1>1, <2>1, <2>5, CallFields, SixParameters
  <2> HIDE DEF call
  <2>7. Sendable(call)
    BY <1>1, <2>5, <2>6, WithoutArrays
  <2>8. HasOptions(call)
    BY <1>2, <2>3, <2>6, <2>7 DEF HasOptions, Effect
  <2> QED
    BY <2>4, <2>8 DEF call
<1> QED
  BY <1>3, <1>4

\* The calls without optional arguments.
IsWhole(call) == IsKept(call) /\ HasOptions(call)

LEMMA WholeCalls ==
    ASSUME NEW mi, NEW params, \A returns, given : IsKept(S!Call(mi, params, returns, given))
    PROVE  IsWhole(S!Asks(mi, params)) /\ IsWhole(S!Tells(mi, params))
<1> DEFINE yes == TRUE
           no  == FALSE
<1>1. /\ S!Asks(mi, params) = S!Call(mi, params, yes, S!NotOptional)
      /\ S!Tells(mi, params) = S!Call(mi, params, no, S!NotOptional)
  BY DEF S!Asks, S!Tells
<1> HIDE DEF yes, no
<1> QED
  BY <1>1, NothingGiven DEF IsWhole

LEMMA WithoutParameters ==
    ASSUME NEW mi, mi \notin DecodedMethods
    PROVE  IsWhole(S!Asks(mi, <<>>)) /\ IsWhole(S!Tells(mi, <<>>))
BY PlainCallsKept, WholeCalls

LEMMA WithPlainParameter ==
    ASSUME NEW mi, mi \notin DecodedMethods, NEW v, Type(v) \in PlainTypes
    PROVE  IsWhole(S!Asks(mi, <<v>>)) /\ IsWhole(S!Tells(mi, <<v>>))
<1>1. \A i \in DOMAIN <<v>> : Type(<<v>>[i]) \in PlainTypes
  OBVIOUS
<1> QED
  BY <1>1, PlainCallsKept, WholeCalls

LEMMA HostMethodsWhole == \A call \in HostMethods : IsWhole(call)
<1>1. \A mi \in {"GetName", "GetVersion", "GetInstanceId", "GetCurrentCulture",
                  "GetCurrentUICulture", "GetIsRunspacePushed", "SetShouldExit",
                  "EnterNestedPrompt", "ExitNestedPrompt", "NotifyBeginApplication",
                  "NotifyEndApplication", "PopRunspace"} : mi \notin DecodedMethods
  BY DEF DecodedMethods
<1> QED
  BY <1>1, WithoutParameters, WithPlainParameter, PlainValues, SameTypes
  DEF HostMethods, S!get_name, S!get_version, S!get_instance_id, S!get_current_culture,
      S!get_current_ui_culture, S!set_should_exit, S!enter_nested_prompt,
      S!exit_nested_prompt, S!notify_begin_application, S!notify_end_application,
      S!pop_runspace, S!get_is_runspace_pushed

\* The fields and the choices that are prompted for.
LEMMA PromptsWhole ==
    /\ \A x, y, n, t, l, h, d, a :
          IsWhole(S!prompt(x, y, <<S!FieldDescription(n, t, l, h, TRUE, d, a)>>))
    /\ \A x, y, l, h, m, k, d :
          LET choices == <<S!ChoiceDescription(l, h), S!ChoiceDescription(m, k)>>
          IN  /\ IsWhole(S!prompt_for_choice(x, y, choices, d))
              /\ \A z \in {None, List(d)} : IsWhole(S!prompt_for_multiple_choice(x, y, choices, z))
<1>1. ASSUME NEW x, NEW y, NEW n, NEW t, NEW l, NEW h, NEW d, NEW a
      PROVE  IsWhole(S!prompt(x, y, <<S!FieldDescription(n, t, l, h, TRUE, d, a)>>))
  <2> DEFINE yes == TRUE
             s   == <<S!FieldDescription(n, t, l, h, yes, d, a)>>
             p   == <<Str(x), Str(y), ListOfFields(s)>>
  <2>1. S!prompt(x, y, s) = S!Asks("Prompt", p)
    BY SameTypes DEF S!prompt
  <2> HIDE DEF yes
  <2>2. S!FieldDescription(n, t, l, h, yes, d, a) = FieldDescription(n, t, l, h, yes, d, a)
    BY DEF S!FieldDescription, FieldDescription
  <2>3. \A i \in DOMAIN s : s[i] = FieldDescription(n, t, l, h, yes, d, a)
    BY <2>2
  <2> HIDE DEF s
  <2>4. \A returns, given : IsKept(S!Call("Prompt", p, returns, given))
    BY <2>3, PromptKept, PlainValues
  <2> HIDE DEF p
  <2>5. IsWhole(S!prompt(x, y, s))
    BY <2>1, <2>4, WholeCalls
  <2> QED
    BY <2>5 DEF s, yes
<1>2. ASSUME NEW x, NEW y, NEW l, NEW h, NEW m, NEW k, NEW d
      PROVE  LET choices == <<S!ChoiceDescription(l, h), S!ChoiceDescription(m, k)>>
             IN  /\ IsWhole(S!prompt_for_choice(x, y, choices, d))
                 /\ \A z \in {None, List(d)} :
                       IsWhole(S!prompt_for_multiple_choice(x, y, choices, z))
  <2> DEFINE s == <<S!ChoiceDescription(l, h), S!ChoiceDescription(m, k)>>
  <2>1. /\ S!ChoiceDescription(l, h) = ChoiceDescription(l, h)
        /\ S!ChoiceDescription(m, k) = ChoiceDescription(m, k)
    BY DEF S!ChoiceDescription, ChoiceDescription
  <2>2. s = [i \in DOMAIN s |-> s[i]] /\ \A i \in DOMAIN s : \E a, b : s[i] = ChoiceDescription(a, b)
    BY <2>1
  <2> HIDE DEF s
  <2>3. ASSUME NEW mi \in {"PromptForChoice", "PromptForChoiceMultipleSelection"},
               NEW v, Type(v) \in PlainTypes
        PROVE  IsWhole(S!Asks(mi, <<Str(x), Str(y), ListOfChoices(s), v>>))
    <3> DEFINE p == <<Str(x), Str(y), ListOfChoices(s), v>>
    <3>1. \A returns, given : IsKept(S!Call(mi, p, returns, given))
      BY <2>2, <2>3, ChoiceCallsKept, PlainValues
    <3> HIDE DEF p
    <3>2. IsWhole(S!Asks(mi, p))
      BY <3>1, WholeCalls
    <3> QED
      BY <3>2 DEF p
  <2>4. IsWhole(S!prompt_for_choice(x, y, s, d))
    <3>1. S!prompt_for_choice(x, y, s, d)
            = S!Asks("PromptForChoice", <<Str(x), Str(y), ListOfChoices(s), Number(d)>>)
      BY SameTypes DEF S!prompt_for_choice
    <3> QED
      BY <2>3, <3>1, PlainValues
  <2>5. ASSUME NEW z \in {None, List(d)} PROVE IsWhole(S!prompt_for_multiple_choice(x, y, s, z))
    <3> DEFINE v == IF z = None THEN List(<<>>) ELSE z
    <3>1. S!prompt_for_multiple_choice(x, y, s, z)
            = S!Asks("PromptForChoiceMultipleSelection", <<Str(x), Str(y), ListOfChoices(s), v>>)
      BY SameTypes DEF S!prompt_for_multiple_choice
    <3>2. Type(v) \in PlainTypes
      BY PlainValues
    <3> HIDE DEF v
    <3> QED
      BY <2>3, <3>1, <3>2
  <2> QED
    BY <2>4, <2>5 DEF s
<1> QED
  BY <1>1, <1>2

LEMMA UserInterfaceCallsWhole == \A call \in UserInterfaceCalls : IsWhole(call)
<1>1. \A mi \in {"ReadLine", "ReadLineAsSecureString", "WriteErrorLine", "WriteDebugLine",
                  "WriteVerboseLine", "WriteWarningLine"} : mi \notin DecodedMethods
  BY DEF DecodedMethods
<1>2. \A x : /\ IsWhole(S!read_line) /\ IsWhole(S!read_line_as_secure_string)
             /\ IsWhole(S!write_error_line(x)) /\ IsWhole(S!write_debug_line(x))
             /\ IsWhole(S!write_verbose_line(x)) /\ IsWhole(S!write_warning_line(x))
  BY <1>1, WithoutParameters, WithPlainParameter, PlainValues, SameTypes
  DEF S!read_line, S!read_line_as_secure_string, S!write_error_line, S!write_debug_line,
      S!write_verbose_line, S!write_warning_line
<1>3. \A n, a, b, c : IsWhole(S!write_progress(n, ProgressRecord(a, b, c)))
  <2> TAKE n, a, b, c
  <2> DEFINE p == <<Number(n), ProgressRecord(a, b, c)>>
  <2>1. S!write_progress(n, ProgressRecord(a, b, c)) = S!Tells("WriteProgress", p)
    BY SameTypes DEF S!write_progress
  <2>2. \A returns, given : IsKept(S!Call("WriteProgress", p, returns, given))
    BY ProgressKept
  <2> HIDE DEF p
  <2> QED
    BY <2>1, <2>2, WholeCalls
<1>4. \A f, b \in Optional(Colors) : IsWhole(S!write("a", f, b))
  BY WriteKept DEF IsWhole
<1>5. \A l \in Optional({Str("a")}), f, b \in Optional(Colors) : IsWhole(S!write_line(l, f, b))
  BY WriteLineKept DEF IsWhole, Optional
<1>6. \A n \in Optional({Str("d")}), t \in Optional({PSCredentialTypes(2)}),
         o \in Optional({PSCredentialUIOptions(4)}) :
            IsWhole(S!prompt_for_credential("c", "m", Str("u"), n, t, o))
  <2> TAKE n \in Optional({Str("d")}), t \in Optional({PSCredentialTypes(2)}),
           o \in Optional({PSCredentialUIOptions(4)})
  <2>1. /\ n = None \/ \E a : n = Str(a)
        /\ t = None \/ \E a : t = PSCredentialTypes(a)
        /\ o = None \/ \E a : o = PSCredentialUIOptions(a)
    BY DEF Optional
  <2> QED
    BY <2>1, CredentialPromptKept DEF IsWhole
<1>7. \A d \in Optional({List(<<Number(1)>>)}) : d \in {None, List(<<Number(1)>>)}
  BY DEF Optional
<1> DEFINE yes     == TRUE
           fields  == <<S!FieldDescription("n", "t", "l", "h", yes, Number(1), <<"a">>)>>
           choices == <<S!ChoiceDescription("l", "h"), S!ChoiceDescription("m", "h")>>
<1>8. IsWhole(S!prompt("c", "m", fields))
  BY PromptsWhole, Zenon
<1>9. /\ IsWhole(S!prompt_for_choice("c", "m", choices, 1))
      /\ \A d \in Optional({List(<<Number(1)>>)}) :
            IsWhole(S!prompt_for_multiple_choice("c", "m", choices, d))
  BY <1>7, PromptsWhole
<1> DEFINE some ==
    {S!read_line, S!read_line_as_secure_string, S!write_error_line("a"),
       S!write_debug_line("a"), S!write_verbose_line("a"), S!write_warning_line("a"),
       S!write_progress(1, ProgressRecord(2, "a", 1)), S!prompt("c", "m", fields),
       S!prompt_for_choice("c", "m", choices, 1)}
<1>10. \A call \in some : IsWhole(call)
  <2> HIDE DEF fields, choices
  <2> QED
    BY <1>2, <1>3, <1>8, <1>9
<1> DEFINE
  writes  == {S!write("a", f, b) : f, b \in Optional(Colors)}
  lines   == {S!write_line(l, f, b) : l \in Optional({Str("a")}), f, b \in Optional(Colors)}
  prompts == {S!prompt_for_credential("c", "m", Str("u"), n, t, o) :
                  n \in Optional({Str("d")}), t \in Optional({PSCredentialTypes(2)}),
                  o \in Optional({PSCredentialUIOptions(4)})}
  several == {S!prompt_for_multiple_choice("c", "m", choices, d) :
                  d \in Optional({List(<<Number(1)>>)})}
<1>11. UserInterfaceCalls = some \union writes \union lines \union prompts \union several
  BY DEF UserInterfaceCalls
<1> HIDE DEF choices
<1>12. \A call \in writes : IsWhole(call)
  BY <1>4
<1>13. \A call \in lines : IsWhole(call)
  BY <1>5
<1>14. \A call \in prompts : IsWhole(call)
  BY <1>6
<1>15. \A call \in several : IsWhole(call)
  BY <1>9
<1> HIDE DEF some, writes, lines, prompts, several
<1> QED
  BY <1>10, <1>11, <1>12, <1>13, <1>14, <1>15

LEMMA StructureCallsWhole ==
    /\ \A x, y : /\ IsWhole(S!set_cursor_position(x, y)) /\ IsWhole(S!set_window_position(x, y))
                 /\ IsWhole(S!set_buffer_size(x, y)) /\ IsWhole(S!set_window_size(x, y))
    /\ \A a, b, c, d : IsWhole(S!get_buffer_contents(a, b, c, d))
    /\ \A n : IsWhole(S!read_key(ReadKeyOptions(n)))
<1>1. ASSUME NEW x, NEW y
      PROVE  /\ IsWhole(S!set_cursor_position(x, y)) /\ IsWhole(S!set_window_position(x, y))
             /\ IsWhole(S!set_buffer_size(x, y)) /\ IsWhole(S!set_window_size(x, y))
  <2>1. /\ S!set_cursor_position(x, y) = S!Tells("SetCursorPosition", <<Coordinates(x, y)>>)
        /\ S!set_window_position(x, y) = S!Tells("SetWindowPosition", <<Coordinates(x, y)>>)
        /\ S!set_buffer_size(x, y) = S!Tells("SetBufferSize", <<Size(x, y)>>)
        /\ S!set_window_size(x, y) = S!Tells("SetWindowSize", <<Size(x, y)>>)
    BY SameTypes DEF S!set_cursor_position, S!set_window_position, S!set_buffer_size,
                     S!set_window_size
  <2>2. /\ IsWhole(S!Tells("SetCursorPosition", <<Coordinates(x, y)>>))
        /\ IsWhole(S!Tells("SetWindowPosition", <<Coordinates(x, y)>>))
    BY PositionCallsKept, WholeCalls
  <2>3. /\ IsWhole(S!Tells("SetBufferSize", <<Size(x, y)>>))
        /\ IsWhole(S!Tells("SetWindowSize", <<Size(x, y)>>))
    BY SizeCallsKept, WholeCalls
  <2> QED
    BY <2>1, <2>2, <2>3
<1>2. ASSUME NEW a, NEW b, NEW c, NEW d PROVE IsWhole(S!get_buffer_contents(a, b, c, d))
  <2>1. S!get_buffer_contents(a, b, c, d) = S!Asks("GetBufferContents", <<Rectangle(a, b, c, d)>>)
    BY SameTypes DEF S!get_buffer_contents
  <2> QED
    BY <2>1, GetContentsKept, WholeCalls
<1>3. ASSUME NEW n PROVE IsWhole(S!read_key(ReadKeyOptions(n)))
  <2>1. S!read_key(ReadKeyOptions(n)) = S!Asks("ReadKey", <<ReadKeyOptions(n)>>)
    BY DEF S!read_key
  <2> QED
    BY <2>1, ReadKeyKept, WholeCalls
<1> QED
  BY <1>1, <1>2, <1>3

LEMMA BufferCallsWhole ==
    /\ \A c \in Colors : IsWhole(S!set_foreground_color(c)) /\ IsWhole(S!set_background_color(c))
    /\ \A a, b, c, d, ch : \A f, k \in Colors : IsWhole(S!set_buffer_cells(a, b, c, d, ch, f, k))
    /\ \A x, y : \A g \in Grids : IsWhole(S!set_buffer_contents(x, y, g))
    /\ \A a, b, c, d, x, y, e, h, m, n, ch : \A f, k \in Colors :
          IsWhole(S!scroll_buffer_contents(Rectangle(a, b, c, d), x, y, Rectangle(e, h, m, n), ch, f, k))
<1>1. ASSUME NEW c \in Colors
      PROVE  IsWhole(S!set_foreground_color(c)) /\ IsWhole(S!set_background_color(c))
  <2>1. /\ S!set_foreground_color(c) = S!Tells("SetForegroundColor", <<c>>)
        /\ S!set_background_color(c) = S!Tells("SetBackgroundColor", <<c>>)
    BY DEF S!set_foreground_color, S!set_background_color
  <2> QED
    BY <2>1, ColorCallsKept, WholeCalls
<1>2. ASSUME NEW a, NEW b, NEW c, NEW d, NEW ch, NEW f \in Colors, NEW k \in Colors
      PROVE  IsWhole(S!set_buffer_cells(a, b, c, d, ch, f, k))
  <2>1. S!set_buffer_cells(a, b, c, d, ch, f, k)
          = S!Tells("SetBufferContents1", <<Rectangle(a, b, c, d), S!Fill(ch, f, k)>>)
    BY SameTypes DEF S!set_buffer_cells
  <2> QED
    BY <2>1, SetCellsKept, WholeCalls
<1>3. ASSUME NEW x, NEW y, NEW g \in Grids PROVE IsWhole(S!set_buffer_contents(x, y, g))
  <2>1. S!set_buffer_contents(x, y, g)
          = S!Tells("SetBufferContents2", <<Coordinates(x, y), Array(g)>>)
    BY SameTypes DEF S!set_buffer_contents
  <2> QED
    BY <2>1, SetContentsKept, WholeCalls
<1>4. ASSUME NEW a, NEW b, NEW c, NEW d, NEW x, NEW y, NEW e, NEW h, NEW m, NEW n, NEW ch,
             NEW f \in Colors, NEW k \in Colors
      PROVE  IsWhole(S!scroll_buffer_contents(Rectangle(a, b, c, d), x, y, Rectangle(e, h, m, n),
                                              ch, f, k))
  <2> DEFINE p == <<Rectangle(a, b, c, d), Coordinates(x, y), Rectangle(e, h, m, n),
                    S!Fill(ch, f, k)>>
  <2>1. S!scroll_buffer_contents(Rectangle(a, b, c, d), x, y, Rectangle(e, h, m, n), ch, f, k)
          = S!Tells("ScrollBufferContents", p)
    BY SameTypes DEF S!scroll_buffer_contents
  <2>2. \A returns, given : IsKept(S!Call("ScrollBufferContents", p, returns, given))
    BY ScrollKept
  <2> HIDE DEF p
  <2> QED
    BY <2>1, <2>2, WholeCalls
<1> QED
  BY <1>1, <1>2, <1>3, <1>4

LEMMA RawUserInterfaceCallsWhole == \A call \in RawUserInterfaceCalls : IsWhole(call)
<1>1. \A mi \in {"GetForegroundColor", "GetBackgroundColor", "GetCursorPosition",
                  "GetWindowPosition", "GetCursorSize", "GetBufferSize", "GetWindowSize",
                  "GetWindowTitle", "GetMaxWindowSize", "GetMaxPhysicalWindowSize",
                  "GetKeyAvailable", "FlushInputBuffer", "SetCursorSize", "SetWindowTitle"} :
            mi \notin DecodedMethods
  BY DEF DecodedMethods
<1>2. /\ IsWhole(S!get_foreground_color) /\ IsWhole(S!get_background_color)
      /\ IsWhole(S!get_cursor_position) /\ IsWhole(S!get_window_position)
      /\ IsWhole(S!get_cursor_size) /\ IsWhole(S!get_buffer_size)
      /\ IsWhole(S!get_window_size) /\ IsWhole(S!get_window_title)
      /\ IsWhole(S!get_max_window_size) /\ IsWhole(S!get_max_physical_window_size)
      /\ IsWhole(S!get_key_available) /\ IsWhole(S!flush_input_buffer)
  BY <1>1, WithoutParameters
  DEF S!get_foreground_color, S!get_background_color, S!get_cursor_position,
      S!get_window_position, S!get_cursor_size, S!get_buffer_size, S!get_window_size,
      S!get_window_title, S!get_max_window_size, S!get_max_physical_window_size,
      S!get_key_available, S!flush_input_buffer
<1>3. \A x : IsWhole(S!set_cursor_size(x)) /\ IsWhole(S!set_window_title(x))
  BY <1>1, WithPlainParameter, PlainValues, SameTypes DEF S!set_cursor_size, S!set_window_title
<1> DEFINE red  == CHOOSE c \in Colors : TRUE
           cell == Str("a")
           grid == {S!set_buffer_contents(1, 2, g) : g \in Grids}
           some ==
    {S!get_foreground_color, S!get_background_color, S!get_cursor_position,
       S!get_window_position, S!get_cursor_size, S!get_buffer_size, S!get_window_size,
       S!get_window_title, S!get_max_window_size, S!get_max_physical_window_size,
       S!get_key_available, S!read_key(ReadKeyOptions(5)), S!flush_input_buffer,
       S!set_foreground_color(red), S!set_background_color(red), S!set_cursor_position(1, 2),
       S!set_window_position(1, 2), S!set_cursor_size(1), S!set_buffer_size(1, 2),
       S!set_window_size(1, 2), S!set_window_title("a"),
       S!set_buffer_cells(1, 2, 3, 4, cell, red, red), S!get_buffer_contents(1, 2, 3, 4),
       S!scroll_buffer_contents(Rectangle(1, 2, 3, 4), 5, 6, Rectangle(7, 8, 9, 10), cell, red, red)}
<1>4. RawUserInterfaceCalls = some \union grid
  BY DEF RawUserInterfaceCalls
<1>5. red \in Colors
  <2>1. \E c \in Colors : TRUE
    BY HostCallsAssumption
  <2> QED
    BY <2>1
<1> HIDE DEF red, cell
<1>6. \A call \in grid : IsWhole(call)
  BY BufferCallsWhole
<1>7. \A call \in some : IsWhole(call)
  BY <1>2, <1>3, <1>5, StructureCallsWhole, BufferCallsWhole
<1> HIDE DEF some, grid
<1> QED
  BY <1>4, <1>6, <1>7

LEMMA CallsWhole == \A call \in Calls : IsWhole(call)
BY HostMethodsWhole, UserInterfaceCallsWhole, RawUserInterfaceCallsWhole DEF Calls
-----------------------------------------------------------------------------
(* What is in the messages *)

IsPacked(v) == Type(v) = "Array" => IsPackable(v)

\* The message of a call for t, of the calls asked.
CallMessageOK(m, t, asked) ==
    /\ m.call \in Calls /\ m.mi = m.call.mi /\ m.mp = OnWire(m.call)
    /\ \A i \in DOMAIN m.call.params : IsPacked(m.call.params[i])
    /\ m.ci # NoCi => asked[m.ci] = [call |-> m.call, target |-> t]

\* The message of an answer for t, to one of the calls asked.
AnswerMessageOK(m, t, asked, given) ==
    /\ m.ci \in DOMAIN given /\ m.ci # NoCi
    /\ m.mi = asked[m.ci].call.mi /\ t = asked[m.ci].target
    /\ given[m.ci].value \in AnswersTo(m.mi) \union {None} /\ IsPacked(given[m.ci].value)
    /\ m.mr = ForHost(given[m.ci].value) /\ m.me = given[m.ci].error

\* The messages and the open calls are of the calls that their ids are waited for with.
MessagesInv ==
    /\ \A t \in Targets : \A i \in DOMAIN to_client[t] : CallMessageOK(to_client[t][i], t, waiting)
    /\ \A ci \in DOMAIN ci_events : /\ ci_events[ci].mi = waiting[ci].call.mi
                                    /\ ci_events[ci].target = waiting[ci].target
    /\ \A t \in Targets : \A i \in DOMAIN to_server[t] :
          AnswerMessageOK(to_server[t][i], t, waiting, answered)

\* What is in a queue after a message is added to it, and after its head is taken out.
LEMMA AppendElements ==
    ASSUME NEW q, IsQueue(q), NEW m, NEW i \in DOMAIN Append(q, m)
    PROVE  Append(q, m)[i] = m \/ (i \in DOMAIN q /\ Append(q, m)[i] = q[i])
<1> DEFINE T == {q[j] : j \in DOMAIN q} \union {m}
<1>1. PICK n \in Nat : DOMAIN q = 1..n /\ q = [j \in 1..n |-> q[j]]
  BY DEF IsQueue
<1>2. q \in Seq(T) /\ Len(q) = n
  BY <1>1
<1>3. DOMAIN Append(q, m) = 1..(n + 1)
  BY <1>1, <1>2
<1> QED
  BY <1>1, <1>2, <1>3

LEMMA TailElements ==
    ASSUME NEW q, IsQueue(q), q # <<>>
    PROVE  /\ 1 \in DOMAIN q /\ Head(q) = q[1]
           /\ \A i \in DOMAIN Tail(q) : i + 1 \in DOMAIN q /\ Tail(q)[i] = q[i + 1]
<1> DEFINE T == {q[j] : j \in DOMAIN q}
<1>1. PICK n \in Nat : DOMAIN q = 1..n /\ q = [j \in 1..n |-> q[j]]
  BY DEF IsQueue
<1>2. q \in Seq(T) /\ Len(q) = n /\ n > 0
  BY <1>1
<1>3. DOMAIN Tail(q) = 1..(n - 1) /\ \A i \in 1..(n - 1) : Tail(q)[i] = q[i + 1]
  BY <1>1, <1>2
<1> QED
  BY <1>1, <1>2, <1>3

\* Every id of a message and of an open call is waited for.
LEMMA IdsAreAwaited ==
    ASSUME CallsInv
    PROVE  /\ \A t \in Targets : \A i \in DOMAIN to_client[t] :
                to_client[t][i].ci \in DOMAIN waiting \union {NoCi}
           /\ \A ci \in DOMAIN ci_events : ci \in DOMAIN waiting
           /\ \A t \in Targets : \A i \in DOMAIN to_server[t] :
                to_server[t][i].ci \in DOMAIN waiting \union {NoCi}
           /\ NoCi \notin DOMAIN waiting
<1>1. DOMAIN waiting = Sent(to_client) \union DOMAIN ci_events \union Sent(to_server)
  BY AwaitedInQueues DEF CallsInv
<1> QED
  BY <1>1 DEF Sent, Cis, CallsInv, NoCi

\* No call was on its way at first.
LEMMA InitMessagesInv == Init => MessagesInv
<1> SUFFICES ASSUME Init PROVE MessagesInv
  OBVIOUS
<1> USE DEF Init, InitHostCalls
<1>1. \A t \in Targets : DOMAIN to_client[t] = {} /\ DOMAIN to_server[t] = {}
  OBVIOUS
<1>2. DOMAIN ci_events = {}
  OBVIOUS
<1> QED
  BY <1>1, <1>2 DEF MessagesInv

\* A message is right of the calls that have its id, whatever other ids are waited for.
LEMMA SameCallMessage ==
    ASSUME NEW m, NEW t, NEW asked, NEW later, CallMessageOK(m, t, asked),
           m.ci # NoCi => later[m.ci] = asked[m.ci]
    PROVE  CallMessageOK(m, t, later)
BY DEF CallMessageOK

LEMMA SameAnswerMessage ==
    ASSUME NEW m, NEW t, NEW asked, NEW later, NEW given, NEW then,
           AnswerMessageOK(m, t, asked, given),
           later[m.ci] = asked[m.ci], then[m.ci] = given[m.ci], m.ci \in DOMAIN then
    PROVE  AnswerMessageOK(m, t, later, then)
BY DEF AnswerMessageOK

LEMMA MessagesInvHostCall ==
    ASSUME CallsInv, MessagesInv, NEW t \in Targets, NEW call \in Calls, host_call(t, call)
    PROVE  MessagesInv'
<1> DEFINE ci == IF is_void(call.mi) THEN NoCi ELSE ci_counter
           m  == [ci |-> ci, mi |-> call.mi, call |-> call,
                  mp |-> [i \in DOMAIN call.params |-> ForHost(call.params[i])]]
           w  == [call |-> call, target |-> t]
<1>1. call.returns = ~is_void(call.mi) /\ call.returns \in BOOLEAN
  BY CallsAreAwaited DEF IsAwaited
<1>2. /\ to_client' = [to_client EXCEPT ![t] = Append(@, m)]
      /\ waiting' = IF call.returns THEN With(waiting, ci, w) ELSE waiting
      /\ UNCHANGED <<ci_events, to_server, answered>>
      /\ \A i \in DOMAIN call.params : IsPacked(call.params[i])
  BY DEF host_call, IsPacked
<1>3. ci \notin DOMAIN waiting
  BY DEF CallsInv, NoCi
<1>4. /\ \A c \in DOMAIN waiting : waiting'[c] = waiting[c]
      /\ ci # NoCi => waiting'[ci] = w
  BY <1>1, <1>2, <1>3 DEF With
<1>5. CallMessageOK(m, t, waiting')
  <2>1. m.call = call /\ m.mi = call.mi /\ m.mp = OnWire(call) /\ m.ci = ci
    BY DEF OnWire
  <2> HIDE DEF m, ci
  <2> QED
    BY <1>2, <1>4, <2>1 DEF CallMessageOK
<1> HIDE DEF m, ci, w
<1>6. ASSUME NEW u \in Targets, NEW i \in DOMAIN to_client'[u]
      PROVE  CallMessageOK(to_client'[u][i], u, waiting')
  <2>1. CASE to_client'[u][i] = m /\ u = t
    BY <1>5, <2>1
  <2>2. CASE i \in DOMAIN to_client[u] /\ to_client'[u][i] = to_client[u][i]
    <3>1. CallMessageOK(to_client[u][i], u, waiting)
      BY <2>2 DEF MessagesInv
    <3>2. to_client[u][i].ci # NoCi => to_client[u][i].ci \in DOMAIN waiting
      BY <2>2, IdsAreAwaited
    <3> QED
      BY <1>4, <2>2, <3>1, <3>2, SameCallMessage
  <2>3. IsQueue(to_client[t]) /\ DOMAIN to_client = Targets
    BY DEF CallsInv, QueuesOK
  <2> QED
    BY <1>2, <2>1, <2>2, <2>3, AppendElements
<1>7. ASSUME NEW c \in DOMAIN ci_events'
      PROVE  ci_events'[c].mi = waiting'[c].call.mi /\ ci_events'[c].target = waiting'[c].target
  BY <1>2, <1>4, IdsAreAwaited DEF MessagesInv
<1>8. ASSUME NEW u \in Targets, NEW i \in DOMAIN to_server'[u]
      PROVE  AnswerMessageOK(to_server'[u][i], u, waiting', answered')
  <2>1. i \in DOMAIN to_server[u] /\ to_server'[u][i] = to_server[u][i]
    BY <1>2
  <2>2. AnswerMessageOK(to_server[u][i], u, waiting, answered)
    BY <2>1 DEF MessagesInv
  <2>3. to_server[u][i].ci \in DOMAIN waiting
    BY <2>1, <2>2, IdsAreAwaited DEF AnswerMessageOK
  <2>4. to_server[u][i].ci \in DOMAIN answered
    BY <2>2 DEF AnswerMessageOK
  <2> QED
    BY <1>2, <1>4, <2>1, <2>2, <2>3, <2>4, SameAnswerMessage
<1> QED
  BY <1>6, <1>7, <1>8 DEF MessagesInv

LEMMA MessagesInvProcessHostCall ==
    ASSUME CallsInv, MessagesInv, NEW t \in Targets, ProcessHostCall(t)
    PROVE  MessagesInv'
<1> DEFINE m == Head(to_client[t])
           e == [mi |-> m.mi, target |-> t]
<1>1. /\ to_client[t] # <<>>
      /\ ci_events' = IF m.ci # NoCi THEN With(ci_events, m.ci, e) ELSE ci_events
      /\ to_client' = [to_client EXCEPT ![t] = Tail(@)]
      /\ UNCHANGED <<to_server, waiting, answered>>
  BY DEF ProcessHostCall
<1>2. IsQueue(to_client[t]) /\ DOMAIN to_client = Targets
  BY DEF CallsInv, QueuesOK
<1>3. CallMessageOK(m, t, waiting)
  BY <1>1, <1>2, TailElements DEF MessagesInv
<1>4. m.ci # NoCi => waiting[m.ci].call.mi = e.mi /\ waiting[m.ci].target = e.target
  BY <1>3 DEF CallMessageOK
<1> HIDE DEF m, e
<1>5. ASSUME NEW u \in Targets, NEW i \in DOMAIN to_client'[u]
      PROVE  CallMessageOK(to_client'[u][i], u, waiting')
  <2>1. CASE u # t
    BY <1>1, <1>2, <2>1 DEF MessagesInv
  <2>2. CASE u = t
    <3>1. to_client'[u] = Tail(to_client[t])
      BY <1>1, <1>2, <2>2
    <3>2. i + 1 \in DOMAIN to_client[t] /\ to_client'[u][i] = to_client[t][i + 1]
      BY <1>1, <1>2, <3>1, TailElements
    <3> QED
      BY <1>1, <2>2, <3>2 DEF MessagesInv
  <2> QED
    BY <2>1, <2>2
<1>6. ASSUME NEW c \in DOMAIN ci_events'
      PROVE  ci_events'[c].mi = waiting'[c].call.mi /\ ci_events'[c].target = waiting'[c].target
  <2>1. (c = m.ci /\ c # NoCi /\ ci_events'[c] = e)
          \/ (c \in DOMAIN ci_events /\ ci_events'[c] = ci_events[c])
    BY <1>1 DEF With
  <2> QED
    BY <1>1, <1>4, <2>1 DEF MessagesInv
<1>7. \A u \in Targets : \A i \in DOMAIN to_server'[u] :
         AnswerMessageOK(to_server'[u][i], u, waiting', answered')
  BY <1>1 DEF MessagesInv
<1> QED
  BY <1>5, <1>6, <1>7 DEF MessagesInv

\* What an open call is answered with.
LEMMA AnswerGiven ==
    ASSUME Answer
    PROVE  \E ci \in DOMAIN ci_events : \E value \in AnswersTo(ci_events[ci].mi) \union {None} :
              \E error : host_response(ci, value, error)
BY DEF Answer

LEMMA MessagesInvAnswer ==
    ASSUME CallsInv, MessagesInv, Answer
    PROVE  MessagesInv'
<1>1. PICK ci, value, error :
         /\ ci \in DOMAIN ci_events /\ host_response(ci, value, error)
         /\ value \in AnswersTo(ci_events[ci].mi) \union {None}
  BY AnswerGiven
<1>2. UNCHANGED <<to_client, waiting>>
  BY <1>1 DEF host_response
<1>3. \A u \in Targets : \A i \in DOMAIN to_client'[u] :
         CallMessageOK(to_client'[u][i], u, waiting')
  BY <1>2 DEF MessagesInv
<1>4. CASE ~IsSendable(value)
  <2>1. UNCHANGED <<to_server, ci_events, answered>>
    BY <1>1, <1>4 DEF host_response, Forgotten
  <2> QED
    BY <1>2, <1>3, <2>1 DEF MessagesInv
<1>5. CASE IsSendable(value)
  <2> DEFINE t == ci_events[ci].target
             m == [ci |-> ci, mi |-> ci_events[ci].mi, mr |-> ForHost(value), me |-> error]
             a == [value |-> value, error |-> error]
  <2>1. /\ to_server' = [to_server EXCEPT ![t] = Append(@, m)]
        /\ ci_events' = Restrict(ci_events, DOMAIN ci_events \ {ci})
        /\ answered' = With(answered, ci, a)
    BY <1>1, <1>5 DEF host_response, AnsweredTo, Forgotten, Nothing
  <2>2. /\ \A c \in DOMAIN answered \ {ci} : c \in DOMAIN answered' /\ answered'[c] = answered[c]
        /\ ci \in DOMAIN answered' /\ answered'[ci] = a
    BY <2>1 DEF With
  <2>3. ci \notin Sent(to_server) /\ ci # NoCi
    BY <1>1, AwaitedInQueues DEF CallsInv, NoCi
  <2>4. AnswerMessageOK(m, t, waiting', answered')
    <3>1. IsPacked(value)
      BY <1>5 DEF IsSendable, IsPacked
    <3>2. /\ m.ci = ci /\ m.mi = ci_events[ci].mi /\ m.mr = ForHost(value) /\ m.me = error
          /\ a.value = value /\ a.error = error
      OBVIOUS
    <3>3. waiting'[ci].call.mi = ci_events[ci].mi /\ waiting'[ci].target = t
      BY <1>1, <1>2 DEF MessagesInv
    <3>4. value \in AnswersTo(m.mi) \union {None}
      BY <1>1, <3>2
    <3> HIDE DEF m, a, t
    <3> QED
      BY <2>2, <2>3, <3>1, <3>2, <3>3, <3>4 DEF AnswerMessageOK
  <2> HIDE DEF m, a, t
  <2>5. ASSUME NEW u \in Targets, NEW i \in DOMAIN to_server'[u]
        PROVE  AnswerMessageOK(to_server'[u][i], u, waiting', answered')
    <3>1. CASE to_server'[u][i] = m /\ u = t
      BY <2>4, <3>1
    <3>2. CASE i \in DOMAIN to_server[u] /\ to_server'[u][i] = to_server[u][i]
      <4>1. AnswerMessageOK(to_server[u][i], u, waiting, answered)
        BY <3>2 DEF MessagesInv
      <4>2. to_server[u][i].ci \in DOMAIN answered /\ to_server[u][i].ci # NoCi
        BY <4>1 DEF AnswerMessageOK
      <4>3. to_server[u][i].ci # ci
        BY <2>3, <3>2, <4>2 DEF Sent, Cis
      <4> QED
        BY <1>2, <2>2, <3>2, <4>1, <4>2, <4>3, SameAnswerMessage
    <3>3. IsQueue(to_server[u]) /\ DOMAIN to_server = Targets
      BY DEF CallsInv, QueuesOK
    <3>4. CASE u = t
      <4>1. to_server'[u] = Append(to_server[u], m)
        BY <2>1, <3>3, <3>4
      <4> QED
        BY <3>1, <3>2, <3>3, <3>4, <4>1, AppendElements
    <3>5. CASE u # t
      BY <2>1, <3>2, <3>3, <3>5
    <3> QED
      BY <3>4, <3>5
  <2>6. ASSUME NEW c \in DOMAIN ci_events'
        PROVE  ci_events'[c].mi = waiting'[c].call.mi /\ ci_events'[c].target = waiting'[c].target
    <3>1. c \in DOMAIN ci_events /\ ci_events'[c] = ci_events[c]
      BY <2>1 DEF Restrict
    <3> QED
      BY <1>2, <3>1 DEF MessagesInv
  <2> QED
    BY <1>3, <2>5, <2>6 DEF MessagesInv
<1> QED
  BY <1>4, <1>5

LEMMA MessagesInvProcessHostResponse ==
    ASSUME CallsInv, MessagesInv, NEW t \in Targets, ProcessHostResponse(t)
    PROVE  MessagesInv'
<1> DEFINE ci == Head(to_server[t]).ci
<1>1. /\ to_server[t] # <<>>
      /\ to_server' = [to_server EXCEPT ![t] = Tail(@)]
      /\ waiting' = Restrict(waiting, DOMAIN waiting \ {ci})
      /\ answered' = Restrict(answered, DOMAIN answered \ {ci})
      /\ UNCHANGED <<to_client, ci_events>>
  BY DEF ProcessHostResponse
<1>2. IsQueue(to_server[t]) /\ DOMAIN to_server = Targets
  BY DEF CallsInv, QueuesOK
<1>3. ci \in Sent(to_server) /\ ci # NoCi
  <2>1. 1 \in DOMAIN to_server[t] /\ Head(to_server[t]) = to_server[t][1]
    BY <1>1, <1>2, TailElements
  <2>2. AnswerMessageOK(to_server[t][1], t, waiting, answered)
    BY <2>1 DEF MessagesInv
  <2>3. to_server[t][1].ci = ci /\ ci # NoCi
    BY <2>1, <2>2 DEF AnswerMessageOK
  <2>4. ci \in Cis(to_server[t])
    BY <2>1, <2>3 DEF Cis
  <2> QED
    BY <2>3, <2>4 DEF Sent
<1>4. ci \notin Sent(to_client) /\ ci \notin DOMAIN ci_events /\ ci \notin Sent(to_server')
  <2>1. ci \notin Sent(to_server')
    BY <1>1, TailQueues DEF CallsInv
  <2> QED
    BY <1>3, <2>1, AwaitedInQueues DEF CallsInv
<1> HIDE DEF ci
<1>5. /\ \A c \in DOMAIN waiting \ {ci} : waiting'[c] = waiting[c]
      /\ \A c \in DOMAIN answered \ {ci} : c \in DOMAIN answered' /\ answered'[c] = answered[c]
  BY <1>1 DEF Restrict
<1>6. ASSUME NEW u \in Targets, NEW i \in DOMAIN to_client'[u]
      PROVE  CallMessageOK(to_client'[u][i], u, waiting')
  <2>1. i \in DOMAIN to_client[u] /\ to_client'[u][i] = to_client[u][i]
    BY <1>1
  <2>2. CallMessageOK(to_client[u][i], u, waiting)
    BY <2>1 DEF MessagesInv
  <2>3. to_client[u][i].ci # NoCi => to_client[u][i].ci \in DOMAIN waiting
    BY <2>1, IdsAreAwaited
  <2>4. to_client[u][i].ci # NoCi => to_client[u][i].ci # ci
    BY <1>4, <2>1 DEF Sent, Cis
  <2> QED
    BY <1>5, <2>1, <2>2, <2>3, <2>4, SameCallMessage
<1>7. ASSUME NEW c \in DOMAIN ci_events'
      PROVE  ci_events'[c].mi = waiting'[c].call.mi /\ ci_events'[c].target = waiting'[c].target
  <2>1. c \in DOMAIN ci_events /\ ci_events' = ci_events
    BY <1>1
  <2>2. c \in DOMAIN waiting \ {ci}
    BY <1>4, <2>1, IdsAreAwaited
  <2> QED
    BY <1>5, <2>1, <2>2 DEF MessagesInv
<1>8. ASSUME NEW u \in Targets, NEW i \in DOMAIN to_server'[u]
      PROVE  AnswerMessageOK(to_server'[u][i], u, waiting', answered')
  <2>1. PICK j \in DOMAIN to_server[u] : to_server'[u][i] = to_server[u][j]
    <3>1. CASE u # t
      BY <1>1, <1>2, <3>1
    <3>2. CASE u = t
      <4>1. to_server'[u] = Tail(to_server[u])
        BY <1>1, <1>2, <3>2
      <4>2. i + 1 \in DOMAIN to_server[u] /\ to_server'[u][i] = to_server[u][i + 1]
        BY <1>1, <1>2, <3>2, <4>1, TailElements
      <4> QED
        BY <4>2
    <3> QED
      BY <3>1, <3>2
  <2>2. AnswerMessageOK(to_server[u][j], u, waiting, answered)
    BY DEF MessagesInv
  <2>3. to_server[u][j].ci \in DOMAIN answered /\ to_server[u][j].ci # NoCi
    BY <2>2 DEF AnswerMessageOK
  <2>4. to_server[u][j].ci \in DOMAIN waiting
    BY <2>3, IdsAreAwaited
  <2>5. to_server[u][j].ci # ci
    <3>1. to_server'[u][i].ci \in Sent(to_server')
      BY <2>1, <2>3 DEF Sent, Cis
    <3> QED
      BY <1>4, <2>1, <3>1
  <2> QED
    BY <1>5, <2>1, <2>2, <2>3, <2>4, <2>5, SameAnswerMessage
<1> QED
  BY <1>6, <1>7, <1>8 DEF MessagesInv

LEMMA MessagesInvUnchanged ==
    ASSUME MessagesInv, UNCHANGED <<to_client, ci_events, to_server, waiting, answered>>
    PROVE  MessagesInv'
BY DEF MessagesInv

LEMMA MessagesInvNext == CallsInv /\ MessagesInv /\ [Next]_vars => MessagesInv'
<1> SUFFICES ASSUME CallsInv, MessagesInv, [Next]_vars PROVE MessagesInv'
  OBVIOUS
<1>1. CASE Building \/ UNCHANGED vars \/ UNCHANGED callVars
  BY <1>1, MessagesInvUnchanged DEF Building, vars, callVars
<1>2. CASE \E t \in Targets : \E call \in Calls : host_call(t, call)
  BY <1>2, MessagesInvHostCall
<1>3. CASE \E t \in Targets : ProcessHostCall(t)
  BY <1>3, MessagesInvProcessHostCall
<1>4. CASE Answer
  BY <1>4, MessagesInvAnswer
<1>5. CASE KeyExchanged
  BY <1>5, MessagesInvUnchanged DEF KeyExchanged
<1>6. CASE \E t \in Targets : ProcessHostResponse(t)
  BY <1>6, MessagesInvProcessHostResponse
<1> QED
  BY <1>1, <1>2, <1>3, <1>4, <1>5, <1>6 DEF Next
-----------------------------------------------------------------------------
(* What a program is shown *)

Kept == ParametersKept /\ OptionsKept /\ ResultIsOwn

\* Only the event of a call or of a response shows anything of one.
LEMMA OtherwiseKept ==
    /\ last.kind \notin {"call", "response"} => Kept
    /\ last'.kind \notin {"call", "response"} => Kept'
    /\ Kept /\ UNCHANGED last => Kept'
BY DEF Kept, ParametersKept, OptionsKept, ResultIsOwn, HostResponseEvent

\* A call is decoded as it was made, of the message it was sent in.
LEMMA KeptProcessHostCall ==
    ASSUME CallsInv, MessagesInv, NEW t \in Targets, ProcessHostCall(t)
    PROVE  Kept'
<1> DEFINE m    == Head(to_client[t])
           call == m.call
           e    == HostCallEvent(m)
<1>1. to_client[t] # <<>> /\ last' = e
  BY DEF ProcessHostCall
<1>2. /\ call \in Calls /\ m.mi = call.mi /\ m.mp = OnWire(call)
      /\ \A i \in DOMAIN call.params : IsPacked(call.params[i])
  <2>1. IsQueue(to_client[t])
    BY DEF CallsInv, QueuesOK
  <2>2. CallMessageOK(m, t, waiting)
    BY <1>1, <2>1, TailElements DEF MessagesInv
  <2> QED
    BY <2>2 DEF CallMessageOK
<1>3. IsKept(call) /\ HasOptions(call)
  BY <1>2, CallsWhole DEF IsWhole
<1>4. /\ e.kind = "call" /\ e.call = call /\ e.mi = m.mi
      /\ e.method_parameters = _decode_host_call_parameters(m.mi, m.mp)
  BY DEF HostCallEvent
<1> HIDE DEF m, call, e
<1>5. (\A i \in DOMAIN call.params : IsRectangular(call.params[i])) => Sendable(call)
  BY <1>2 DEF Sendable, IsPacked
<1>6. Sendable(call) => e.method_parameters = Shows(call)
  BY <1>2, <1>3, <1>4 DEF IsKept
<1>7. ParametersKept'
  BY <1>1, <1>2, <1>4, <1>5, <1>6 DEF ParametersKept, Shows
<1>8. OptionsKept'
  BY <1>1, <1>2, <1>3, <1>4, <1>6 DEF OptionsKept, HasOptions
<1>9. ResultIsOwn'
  BY <1>1, <1>4 DEF ResultIsOwn
<1> QED
  BY <1>7, <1>8, <1>9 DEF Kept

\* A response has the method, the target, the value and the error of its own answer.
LEMMA KeptProcessHostResponse ==
    ASSUME CallsInv, MessagesInv, NEW t \in Targets, ProcessHostResponse(t)
    PROVE  Kept'
<1> DEFINE m      == Head(to_server[t])
           asked  == waiting[m.ci]
           answer == answered[m.ci]
           e      == HostResponseEvent(m, t)
<1>1. to_server[t] # <<>> /\ last' = e
  BY DEF ProcessHostResponse
<1>2. /\ m.mi = asked.call.mi /\ t = asked.target /\ m.me = answer.error
      /\ answer.value \in AnswersTo(m.mi) \union {None} /\ IsPacked(answer.value)
      /\ m.mr = ForHost(answer.value)
  <2>1. IsQueue(to_server[t])
    BY DEF CallsInv, QueuesOK
  <2>2. AnswerMessageOK(m, t, waiting, answered)
    BY <1>1, <2>1, TailElements DEF MessagesInv
  <2> QED
    BY <2>2 DEF AnswerMessageOK
<1>3. /\ e.kind = "response" /\ e.mi = m.mi /\ e.target = t /\ e.error = m.me
      /\ e.result = _decode_host_resp_result(m.mi, m.mr) /\ e.asked = asked /\ e.answer = answer
  BY DEF HostResponseEvent
<1> HIDE DEF m, asked, answer, e
<1>4. IsRectangular(answer.value) => e.result = answer.value
  BY <1>2, <1>3, AnswersKept DEF IsPacked
<1>5. ResultIsOwn'
  BY <1>1, <1>2, <1>3, <1>4 DEF ResultIsOwn
<1>6. ParametersKept' /\ OptionsKept'
  BY <1>1, <1>3 DEF ParametersKept, OptionsKept
<1> QED
  BY <1>5, <1>6 DEF Kept

LEMMA InitKept == Init => Kept
<1> SUFFICES ASSUME Init PROVE Kept
  OBVIOUS
<1>1. last.kind = "host"
  BY DEF Init, InitHostCalls
<1> QED
  BY <1>1, OtherwiseKept

LEMMA KeptNext == Kept /\ CallsInv /\ MessagesInv /\ [Next]_vars => Kept'
<1> SUFFICES ASSUME Kept, CallsInv, MessagesInv, [Next]_vars PROVE Kept'
  OBVIOUS
<1>1. CASE last' = Nothing
  BY <1>1, OtherwiseKept DEF Nothing
<1>2. CASE UNCHANGED vars
  BY <1>2, OtherwiseKept DEF vars
<1>3. CASE \E t \in Targets : \E call \in Calls : host_call(t, call)
  BY <1>1, <1>3 DEF host_call
<1>4. CASE \E t \in Targets : ProcessHostCall(t)
  BY <1>4, KeptProcessHostCall
<1>5. CASE Answer
  <2>1. last' = Nothing \/ last' = [kind |-> "raised"]
    BY <1>5, AnswerGiven, Zenon DEF host_response
  <2> QED
    BY <1>1, <2>1, OtherwiseKept
<1>6. CASE KeyExchanged
  BY <1>1, <1>6 DEF KeyExchanged
<1>7. CASE \E t \in Targets : ProcessHostResponse(t)
  BY <1>7, KeptProcessHostResponse
<1> QED
  BY <1>1, <1>2, <1>3, <1>4, <1>5, <1>6, <1>7 DEF Next, Building

LEMMA WholeInvariant == Spec => [](Kept /\ CallsInv /\ MessagesInv)
BY InitKept, KeptNext, InitCallsInv, CallsInvNext, InitMessagesInv, MessagesInvNext, PTL DEF Spec

\* The client's host is shown the method and the parameters that the server program called
\* with, in their types and places, for any colours, cells and buffers with rows of one
\* length: the decoding by method (_events.py) undoes the conversion of the requestor
\* (_host.py), lists of cells with their lengths included.
THEOREM ParametersAreKept == Spec => []ParametersKept
BY WholeInvariant, PTL DEF Kept

\* Every optional argument given to write(), write_line() or prompt_for_credential()
\* reaches the host in its place, in each overload that is chosen when others are left out.
THEOREM OptionsAreKept == Spec => []OptionsKept
BY WholeInvariant, PTL DEF Kept

\* Whatever the order of calls and answers, a response has the method and the target of
\* the call of its id, and the value and the error that this call was answered with
\* (ClientRunspacePool.host_response, _decode_host_resp_result).
THEOREM ResultsAreOwn == Spec => []ResultIsOwn
BY WholeInvariant, PTL DEF Kept
=============================================================================
