------------------------------ MODULE HostCalls ------------------------------
(***************************************************************************)
(* A server program makes host calls for its pool and for a pipeline, with *)
(* the methods of ServerHostRequestor; the client program reads them from  *)
(* its events and answers those that return something, in any order, with  *)
(* the methods of ClientHostResponder.  The two pools are Opened.          *)
(***************************************************************************)
EXTENDS HostTypes, Functions

CONSTANTS
    Pool, Pipeline, \* what a call is made for
    Colors,         \* values of ConsoleColor
    Hosts,          \* HostInfo the client may be opened with
    Cells,          \* cells of a buffer
    Grids,          \* contents of a buffer, as rows of cells
    Together,       \* bound: the methods that are called while another call is outstanding
    MaxCi,          \* bound: call ids
    MaxOpen         \* bound: calls that are outstanding

Targets == {Pool, Pipeline}

\* What a cell is made of: a character, two colours and a type.
IsCell(c) ==
    LET fields == Value(c)
    IN  c = BufferCell(fields.Character, ConsoleColor(Value(fields.ForegroundColor)),
                       ConsoleColor(Value(fields.BackgroundColor)),
                       BufferCellType(Value(fields.BufferCellType)))

ASSUME HostCallsAssumption ==
    /\ Pool # Pipeline
    /\ Colors # {} /\ \A c \in Colors : c = ConsoleColor(Value(c))
    /\ \A c \in Cells : IsCell(c)
    /\ \A h \in Hosts : IsHost(h)
    /\ Grids \subseteq Seq(Seq(Cells))
    /\ MaxCi \in Nat /\ MaxOpen \in Nat

VARIABLES
    ci_counter,     \* server: _ci_counter
    to_client,      \* host call messages on their way, by target
    ci_events,      \* client: _ci_events, the calls that may be answered
    to_server,      \* responses on their way, by target
    has_key,        \* whether the session key has been exchanged
    waiting,        \* history: the calls whose id the server program was given
    answered,       \* history: the answers of the client program, before conversion
    last            \* what a program has just been shown

callVars == <<ci_counter, to_client, ci_events, to_server, has_key, waiting, answered>>

S == INSTANCE ServerHostRequestor
C == INSTANCE ClientHostResponder

Nothing == [kind |-> "nothing"]
-----------------------------------------------------------------------------
(* The calls of the server program *)

Optional(values) == values \union {None}

UserInterfaceCalls ==
    LET fields == <<S!FieldDescription("n", "t", "l", "h", TRUE, Number(1), <<"a">>)>>
        choices == <<S!ChoiceDescription("l", "h"), S!ChoiceDescription("m", "h")>>
    IN  {S!read_line, S!read_line_as_secure_string, S!write_error_line("a"),
         S!write_debug_line("a"), S!write_verbose_line("a"), S!write_warning_line("a"),
         S!write_progress(1, ProgressRecord(2, "a", 1)), S!prompt("c", "m", fields),
         S!prompt_for_choice("c", "m", choices, 1)}
        \union {S!write("a", f, b) : f, b \in Optional(Colors)}
        \union {S!write_line(l, f, b) : l \in Optional({Str("a")}), f, b \in Optional(Colors)}
        \union {S!prompt_for_credential("c", "m", Str("u"), n, t, o) :
                    n \in Optional({Str("d")}), t \in Optional({PSCredentialTypes(2)}),
                    o \in Optional({PSCredentialUIOptions(4)})}
        \union {S!prompt_for_multiple_choice("c", "m", choices, d) :
                    d \in Optional({List(<<Number(1)>>)})}

RawUserInterfaceCalls ==
    LET red == CHOOSE c \in Colors : TRUE
        cell == Str("a")
    IN  {S!get_foreground_color, S!get_background_color, S!get_cursor_position,
         S!get_window_position, S!get_cursor_size, S!get_buffer_size, S!get_window_size,
         S!get_window_title, S!get_max_window_size, S!get_max_physical_window_size,
         S!get_key_available, S!read_key(ReadKeyOptions(5)), S!flush_input_buffer,
         S!set_foreground_color(red), S!set_background_color(red), S!set_cursor_position(1, 2),
         S!set_window_position(1, 2), S!set_cursor_size(1), S!set_buffer_size(1, 2),
         S!set_window_size(1, 2), S!set_window_title("a"),
         S!set_buffer_cells(1, 2, 3, 4, cell, red, red), S!get_buffer_contents(1, 2, 3, 4),
         S!scroll_buffer_contents(Rectangle(1, 2, 3, 4), 5, 6, Rectangle(7, 8, 9, 10), cell, red, red)}
        \union {S!set_buffer_contents(1, 2, g) : g \in Grids}

HostMethods ==
    {S!get_name, S!get_version, S!get_instance_id, S!get_current_culture,
     S!get_current_ui_culture, S!set_should_exit(1), S!enter_nested_prompt,
     S!exit_nested_prompt, S!notify_begin_application, S!notify_end_application,
     S!pop_runspace, S!get_is_runspace_pushed}

Calls == HostMethods \union UserInterfaceCalls \union RawUserInterfaceCalls
-----------------------------------------------------------------------------
(* Server: a host call *)

VoidMethods ==
    {"SetShouldExit", "EnterNestedPrompt", "ExitNestedPrompt", "NotifyBeginApplication",
     "NotifyEndApplication", "PushRunspace", "PopRunspace", "Write1", "Write2", "WriteLine1",
     "WriteLine2", "WriteLine3", "WriteErrorLine", "WriteDebugLine", "WriteProgress",
     "WriteVerboseLine", "WriteWarningLine", "SetForegroundColor", "SetBackgroundColor",
     "SetCursorPosition", "SetWindowPosition", "SetCursorSize", "SetBufferSize",
     "SetWindowSize", "SetWindowTitle", "FlushInputBuffer", "SetBufferContents1",
     "SetBufferContents2", "ScrollBufferContents"}

is_void(mi) == mi \in VoidMethods

NoCi == -100    \* the call id of every call that is not answered

\* table[ci] = value
With(table, ci, value) ==
    [c \in DOMAIN table \union {ci} |-> IF c = ci THEN value ELSE table[c]]

\* Bound: the calls that are on their way or open.
Outstanding ==
    Cardinality(DOMAIN ci_events) + Len(to_client[Pool]) + Len(to_client[Pipeline])
        + Len(to_server[Pool]) + Len(to_server[Pipeline])

\* A method raises before it sends anything if an array has no rows.
host_call(t, call) ==
    LET void == is_void(call.mi)
        ci == IF void THEN NoCi ELSE ci_counter
    IN  /\ \A i \in DOMAIN call.params :
                Type(call.params[i]) = "Array" => IsPackable(call.params[i])
        /\ Outstanding < MaxOpen /\ (call.mi \in Together \/ Outstanding = 0) /\ (~void => ci_counter <= MaxCi)
        /\ ci_counter' = IF void THEN ci_counter ELSE ci_counter + 1
        /\ to_client' = [to_client EXCEPT ![t] = Append(@,
                [ci |-> ci, mi |-> call.mi, call |-> call,
                 mp |-> [i \in DOMAIN call.params |-> ForHost(call.params[i])]])]
        /\ waiting' = IF call.returns THEN With(waiting, ci, [call |-> call, target |-> t])
                      ELSE waiting
        /\ last' = Nothing
        /\ UNCHANGED <<ci_events, to_server, has_key, answered>>
-----------------------------------------------------------------------------
(* Client: what the event of a call shows, and the answer *)

_decode_host_call_parameters(mi, mp) ==
    LET AsList(From(_), list) == [i \in DOMAIN Value(list) |-> From(Value(list)[i])]
        Color(i) == ConsoleColor(Value(mp[i]))
    IN  CASE mi \in {"Write2", "WriteLine3"} -> <<Color(1), Color(2), mp[3]>>
          [] mi = "WriteProgress" -> <<mp[1], ProgressRecord_From(mp[2])>>
          [] mi = "Prompt" -> <<mp[1], mp[2], ListOfFields(AsList(FieldDescription_From, mp[3]))>>
          [] mi = "PromptForCredential2" ->
                <<mp[1], mp[2], mp[3], mp[4], PSCredentialTypes(Value(mp[5])),
                  PSCredentialUIOptions(Value(mp[6]))>>
          [] mi \in {"PromptForChoice", "PromptForChoiceMultipleSelection"} ->
                <<mp[1], mp[2], ListOfChoices(AsList(ChoiceDescription_From, mp[3])), mp[4]>>
          [] mi \in {"SetForegroundColor", "SetBackgroundColor"} -> <<Color(1)>>
          [] mi \in {"SetCursorPosition", "SetWindowPosition"} -> <<Coordinates_From(mp[1])>>
          [] mi \in {"SetBufferSize", "SetWindowSize"} -> <<Size_From(mp[1])>>
          [] mi = "ReadKey" -> <<ReadKeyOptions(Value(mp[1]))>>
          [] mi = "SetBufferContents1" -> <<Rectangle_From(mp[1]), BufferCell_From(mp[2])>>
          [] mi = "SetBufferContents2" ->
                <<Coordinates_From(mp[1]), _unpack_multi_dimensional_array(mp[2])>>
          [] mi = "GetBufferContents" -> <<Rectangle_From(mp[1])>>
          [] mi = "ScrollBufferContents" ->
                <<Rectangle_From(mp[1]), Coordinates_From(mp[2]), Rectangle_From(mp[3]),
                  BufferCell_From(mp[4])>>
          [] OTHER -> mp

\* The parameters are decoded whenever they are read from the event.
HostCallEvent(m) ==
    [kind |-> "call", call |-> m.call, mi |-> m.mi,
     method_parameters |-> _decode_host_call_parameters(m.mi, m.mp)]

\* PipelineHostCall and RunspacePoolHostCall
ProcessHostCall(t) ==
    /\ to_client[t] # <<>>
    /\ LET m == Head(to_client[t])
       IN  /\ ci_events' = IF m.ci # NoCi THEN With(ci_events, m.ci, [mi |-> m.mi, target |-> t])
                           ELSE ci_events
           /\ last' = HostCallEvent(m)
    /\ to_client' = [to_client EXCEPT ![t] = Tail(@)]
    /\ UNCHANGED <<ci_counter, to_server, has_key, waiting, answered>>

\* What the client program answers a call with: the method of its name.
AnswersTo(mi) ==
    CASE mi = "GetName" -> {C!get_name("a")}
      [] mi = "GetVersion" -> {C!get_version("1.0")}
      [] mi = "GetInstanceId" -> {C!get_instance_id("id")}
      [] mi = "GetCurrentCulture" -> {C!get_current_culture("a")}
      [] mi = "GetCurrentUICulture" -> {C!get_current_ui_culture("a")}
      [] mi = "GetIsRunspacePushed" -> {C!get_is_runspace_pushed(FALSE)}
      [] mi = "ReadLine" -> {C!read_line("")}
      [] mi = "ReadLineAsSecureString" -> {C!read_line_as_secure_string("s")}
      [] mi = "Prompt" -> {C!prompt([n |-> 1])}
      [] mi \in {"PromptForCredential1", "PromptForCredential2"} ->
            {C!prompt_for_credential(c) : c \in Optional({PSCredential("u", "p")})}
      [] mi = "PromptForChoice" -> {C!prompt_for_choice(0)}
      [] mi = "PromptForChoiceMultipleSelection" ->
            {C!prompt_for_multiple_choice(c) : c \in {List(<<>>), Number(1)}}
      [] mi = "GetForegroundColor" -> {C!get_foreground_color(c) : c \in Colors}
      [] mi = "GetBackgroundColor" -> {C!get_background_color(c) : c \in Colors}
      [] mi = "GetCursorPosition" -> {C!get_cursor_position(0, 1)}
      [] mi = "GetWindowPosition" -> {C!get_window_position(0, 1)}
      [] mi = "GetCursorSize" -> {C!get_cursor_size(0)}
      [] mi = "GetBufferSize" -> {C!get_buffer_size(0, 1)}
      [] mi = "GetWindowSize" -> {C!get_window_size(0, 1)}
      [] mi = "GetWindowTitle" -> {C!get_window_title("a")}
      [] mi = "GetMaxWindowSize" -> {C!get_max_window_size(0, 1)}
      [] mi = "GetMaxPhysicalWindowSize" -> {C!get_max_physical_window_size(0, 1)}
      [] mi = "GetKeyAvailable" -> {C!get_key_available(TRUE)}
      [] mi = "ReadKey" -> {C!read_key("a", TRUE, ControlKeyStates(128), 65)}
      [] mi = "GetBufferContents" -> {C!get_buffer_contents(g) : g \in Grids}
      [] OTHER -> {}

\* A secure string can be sent when the session key is known.
IsSendable(value) ==
    /\ Type(value) \in {"PSSecureString", "PSCredential"} => has_key
    /\ Type(value) = "Array" => IsPackable(value)

\* Mutant: the call is forgotten before its answer is known to be sent.
Forgotten_First(ci) == Restrict(ci_events, DOMAIN ci_events \ {ci})
Forgotten(ci) == IF last'.kind = "raised" THEN ci_events ELSE Restrict(ci_events, DOMAIN ci_events \ {ci})

\* Mutant: a pipeline's call is answered like the pool's.
AnsweredTo_Pool(event) == Pool
AnsweredTo(event) == event.target

\* Without a value the message has no mr, without an error no me.
host_response(ci, value, error) ==
    LET event == ci_events[ci]
    IN  /\ last' = IF IsSendable(value) THEN Nothing ELSE [kind |-> "raised"]
        /\ IF IsSendable(value)
             THEN /\ to_server' = [to_server EXCEPT ![AnsweredTo(event)] = Append(@,
                        [ci |-> ci, mi |-> event.mi, mr |-> ForHost(value), me |-> error])]
                  /\ answered' = With(answered, ci, [value |-> value, error |-> error])
             ELSE UNCHANGED <<to_server, answered>>
        /\ ci_events' = Forgotten(ci)
        /\ UNCHANGED <<ci_counter, to_client, has_key, waiting>>

Answer ==
    \E ci \in DOMAIN ci_events :
        \/ \E v \in AnswersTo(ci_events[ci].mi) : host_response(ci, v, None)
        \/ host_response(ci, None, <<"ErrorRecord", "e">>)

\* External: the key exchange of the session, at any moment.
KeyExchanged ==
    /\ ~has_key /\ has_key' = TRUE /\ last' = Nothing
    /\ UNCHANGED <<ci_counter, to_client, ci_events, to_server, waiting, answered>>
-----------------------------------------------------------------------------
(* Server: what the event of a response shows *)

_decode_host_resp_result(mi, result) ==
    IF result = None THEN None
    ELSE CASE mi \in {"GetForegroundColor", "GetBackgroundColor"} -> ConsoleColor(Value(result))
           [] mi \in {"GetCursorPosition", "GetWindowPosition"} -> Coordinates_From(result)
           [] mi \in {"GetBufferSize", "GetWindowSize", "GetMaxWindowSize",
                      "GetMaxPhysicalWindowSize"} -> Size_From(result)
           [] mi = "ReadKey" -> KeyInfo_From(result)
           [] mi = "GetBufferContents" -> _unpack_multi_dimensional_array(result)
           [] OTHER -> result

HostResponseEvent(m, t) ==
    [kind |-> "response", ci |-> m.ci, mi |-> m.mi, target |-> t,
     result |-> _decode_host_resp_result(m.mi, m.mr), error |-> m.me,
     asked |-> waiting[m.ci], answer |-> answered[m.ci]]

\* PipelineHostResponse and RunspacePoolHostResponse; the program then goes on.
ProcessHostResponse(t) ==
    /\ to_server[t] # <<>>
    /\ LET m == Head(to_server[t])
       IN  /\ last' = HostResponseEvent(m, t)
           /\ waiting' = Restrict(waiting, DOMAIN waiting \ {m.ci})
           /\ answered' = Restrict(answered, DOMAIN answered \ {m.ci})
    /\ to_server' = [to_server EXCEPT ![t] = Tail(@)]
    /\ UNCHANGED <<ci_counter, to_client, ci_events, has_key>>
-----------------------------------------------------------------------------
\* The client is opened with its host, which the server reads from InitRunspacePool.
InitHostCalls ==
    /\ ci_counter = 1 /\ has_key = FALSE
    /\ to_client = [t \in Targets |-> <<>>] /\ to_server = [t \in Targets |-> <<>>]
    /\ ci_events = <<>> /\ waiting = <<>> /\ answered = <<>>
    /\ \E h \in Hosts : last = [kind |-> "host", sent |-> h, host_info |-> HostInfo_From(HostInfo_To(h))]
-----------------------------------------------------------------------------
(* What a server that calls its client's host relies on *)

\* A value in the form that is sent: a field goes without its default value and
\* its attributes, and the rows of an array have one length.
IsField(v) == Type(v) = "FieldDescription"
Bare(f) == [f EXCEPT ![2] = [@ EXCEPT !.DefaultValue = None, !.Attributes = <<>>]]
Shown(v) == IF Type(v) = "Fields" THEN ListOfFields([i \in DOMAIN Value(v) |-> Bare(Value(v)[i])]) ELSE v

IsRectangular(v) ==
    Type(v) = "Array" => \A i \in DOMAIN Value(v) : Len(Value(v)[i]) = Len(Value(v)[1]) /\ Value(v)[i] # <<>>

\* What a host shows or asks for, out of the optional arguments.
Effect(mi, mp) ==
    CASE mi = "Write1" -> [text |-> mp[1], first |-> None, second |-> None]
      [] mi = "WriteLine1" -> [text |-> Str(""), first |-> None, second |-> None]
      [] mi = "WriteLine2" -> [text |-> mp[1], first |-> None, second |-> None]
      [] mi \in {"Write2", "WriteLine3"} -> [text |-> mp[3], first |-> mp[1], second |-> mp[2]]
      [] mi = "PromptForCredential1" -> [text |-> mp[4], first |-> None, second |-> None]
      [] mi = "PromptForCredential2" -> [text |-> mp[4], first |-> mp[5], second |-> mp[6]]
      [] OTHER -> S!NotOptional

\* The client's event shows the method and the parameters of the call, in their types
\* and places, after the enums, structures and arrays have been sent as ints, notes
\* and lists (_host.py against _events.py, which decodes by the method alone).
ParametersKept ==
    last.kind = "call" /\ (\A i \in DOMAIN last.call.params : IsRectangular(last.call.params[i]))
        => /\ last.mi = last.call.mi
           /\ last.method_parameters = [i \in DOMAIN last.call.params |-> Shown(last.call.params[i])]

\* Every optional argument that was given reaches the host, in its place, whichever
\* others were left out: the overload is chosen by what is given (write, write_line,
\* prompt_for_credential).
OptionsKept ==
    last.kind = "call" =>
        \A f \in DOMAIN last.call.given :
            last.call.given[f] # None => Effect(last.mi, last.method_parameters)[f] = last.call.given[f]

\* A response is for the call of its id, whatever order the calls are answered in: of
\* its method and target, with the value and the error its own answer had, in the type
\* of the method (host_response, _decode_host_resp_result).
ResultIsOwn ==
    last.kind = "response" =>
        /\ last.mi = last.asked.call.mi /\ last.target = last.asked.target
        /\ last.error = last.answer.error
        /\ IsRectangular(last.answer.value) => last.result = last.answer.value

\* The calls whose id a server program holds are those that are on their way, open at
\* the client or answered, each in one place: a method is void exactly if its requestor
\* returns nothing, and an answer that cannot be sent leaves its call open.
Cis(queue) == {queue[i].ci : i \in DOMAIN queue} \ {NoCi}

CallsAwaited ==
    LET sent == UNION {Cis(to_client[t]) : t \in Targets}
        back == UNION {Cis(to_server[t]) : t \in Targets}
    IN  /\ DOMAIN waiting = sent \union DOMAIN ci_events \union back
        /\ sent \intersect (DOMAIN ci_events \union back) = {} /\ DOMAIN ci_events \intersect back = {}

=============================================================================
