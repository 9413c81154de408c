--------------------------- MODULE PipelinePrograms ---------------------------
(***************************************************************************)
(* The two programs of a pipeline: the client's builds it and starts it,   *)
(* the server's reads its commands, starts it and makes host calls for it  *)
(* and for its pool, which the client's answers.                           *)
(***************************************************************************)
EXTENDS Commands, HostCalls

VARIABLE running    \* whether the server's pipeline is Running

vars == <<commandVars, callVars, last, running>>

\* ServerPipeline.start.  Bound: what has been sent and read is let go.
Start ==
    /\ metadata # NoMessage /\ running' = TRUE
    /\ objects' = <<>> /\ commands' = <<>> /\ meant' = <<>> /\ wanted' = <<>> /\ redirects' = 0
    /\ their_capability' = Unknown
    /\ created_with' = NoMessage /\ message' = NoMessage /\ metadata' = NoMessage

\* Bound: the programs build first and call then.
Building == ~running /\ last' = Nothing /\ UNCHANGED <<callVars, running>>
Calling == running /\ UNCHANGED <<commandVars, running>>

Init == InitCommands /\ InitHostCalls /\ running = FALSE

Next ==
    \/ Building /\ add_command
    \/ Building /\ add_script
    \/ Building /\ add_same_command
    \/ Building /\ add_parameter
    \/ Building /\ add_statement
    \/ Building /\ RedirectCommand
    \/ Building /\ StartPowerShell
    \/ Building /\ StartGetCommandMetadata
    \/ Building /\ ProcessStart
    \/ Start /\ last' = Nothing /\ UNCHANGED callVars
    \/ Calling /\ \E t \in Targets : \E call \in Calls : host_call(t, call)
    \/ Calling /\ \E t \in Targets : ProcessHostCall(t)
    \/ Calling /\ Answer
    \/ Calling /\ KeyExchanged
    \/ Calling /\ \E t \in Targets : ProcessHostResponse(t)

Spec == Init /\ [][Next]_vars
-----------------------------------------------------------------------------
\* The server reads the host the client was opened with as it is, although its ten
\* fields are sent by their index in the class and read by number (HostDefaultData); and
\* its pipeline has the settings and the host the client's was created with, the pool's
\* apartment state or an empty host where none was given, and always a list of names
\* (ClientPowerShell.__init__, GetMetadata.__init__).  The apartment state STA is 0, and
\* the pool's is taken for it.
SettingsKept ==
    /\ last.kind = "host" => last.host_info = last.sent
    /\ IsRead /\ created_with.apartment_state # ApartmentState(0) =>
          \A f \in DOMAIN created_with :
             metadata[f] = IF created_with[f] # None THEN created_with[f]
                           ELSE CASE f = "host" -> DefaultHost [] f = "apartment_state" -> PoolApartment
                                  [] OTHER -> None
    /\ metadata.type = "GetMetadata" =>
          /\ metadata.namespace = created_with.namespace
          /\ List(metadata.name) = created_with.name \/ metadata.name = <<created_with.name>>
=============================================================================
