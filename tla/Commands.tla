------------------------------- MODULE Commands -------------------------------
(***************************************************************************)
(* psrpcore._command and _pipeline: a client program builds the commands   *)
(* of a ClientPowerShell, starts it, and the server reads them back from   *)
(* the CreatePipeline message.  A Command is an object that a program may  *)
(* keep: "objects" has them all, "commands" are indices into it.           *)
(***************************************************************************)
EXTENDS HostTypes, Functions

CONSTANTS
    Texts,          \* what a command may be called
    Peers,          \* protocol versions the client may have learnt of the server
    Settings,       \* what ClientPowerShell is created with
    Requests,       \* what ClientGetCommandMetadata is created with
    PoolApartment,  \* runspace_pool.apartment_state
    MaxCalls,       \* bound: commands, parameters and redirections of a pipeline
    MaxRedirected   \* bound: commands and redirections up to the last redirection

Win7RC == 20    \* ProtocolVersion: 2.0, 2.2 and 2.3
Pwsh3 == 22
Pwsh5 == 23
Unknown == 0    \* their_capability is not set

ApartmentState(n) == <<"ApartmentState", n>>

NoMessage == [type |-> "None"]

\* The arguments of the two constructors; a name is a string or a list.
SettingFields == {"add_to_history", "apartment_state", "history", "host", "is_nested", "no_input"}
IsSettings(given) ==
    /\ given = [f \in SettingFields |-> given[f]]
    /\ given.host = None \/ IsHost(given.host)
IsRequest(request) ==
    /\ request = [name |-> request.name, namespace |-> request.namespace]
    /\ request.name \in {Str(Value(request.name)), List(Value(request.name))}

ASSUME CommandsAssumption ==
    /\ Peers \subseteq {Unknown, Win7RC, 21, Pwsh3, Pwsh5}
    /\ \A given \in Settings : IsSettings(given)
    /\ \A request \in Requests : IsRequest(request)
    /\ MaxCalls \in Nat /\ MaxRedirected \in Nat

VARIABLES
    their_capability,   \* the protocol version the client knows of, or Unknown
    objects,            \* every Command object of the client program
    commands,           \* metadata.commands: indices of objects
    meant,              \* history: the statements the program has put together
    wanted,             \* history: what each object's streams were last redirected to
    redirects,          \* history: how many calls of the redirect_ methods
    created_with,       \* history: what the constructor was given
    message,            \* CreatePipeline or GetCommandMetadata on its way
    metadata            \* the server pipeline's metadata

builderVars == <<objects, commands, meant, wanted, redirects>>
commandVars == <<their_capability, builderVars, created_with, message, metadata>>
-----------------------------------------------------------------------------
(* Command *)

Streams == {"Error", "Warning", "Verbose", "Debug", "Information"}
RedirectTo == {"none", "Output", "Null"}    \* _validate_redirection_to

Command(name, is_script, use_local_scope) ==
    [command_text |-> name, is_script |-> is_script, use_local_scope |-> use_local_scope,
     parameters |-> <<>>, end_of_statement |-> FALSE, merge_unclaimed |-> FALSE,
     merge_my |-> "none", merge_to |-> "none", merge |-> [s \in Streams |-> "none"]]

redirect_warning(c, to) == [c EXCEPT !.merge["Warning"] = to]
redirect_verbose(c, to) == [c EXCEPT !.merge["Verbose"] = to]
redirect_debug(c, to) == [c EXCEPT !.merge["Debug"] = to]
redirect_information(c, to) == [c EXCEPT !.merge["Information"] = to]

\* Mutant: merge_my and merge_to keep what an earlier call has set.
MergedError_Kept(c, to) == IF to = "Output" THEN <<"Error", to>> ELSE <<c.merge_my, c.merge_to>>
\* merge_my and merge_to: for version 2, which has no Null.
MergedError(c, to) ==
    IF to = "none" THEN <<"none", "none">>
    ELSE IF to # "Null" THEN <<"Error", to>> ELSE <<c.merge_my, c.merge_to>>

redirect_error(c, to) ==
    [c EXCEPT !.merge_my = MergedError(c, to)[1], !.merge_to = MergedError(c, to)[2],
              !.merge["Error"] = to]

redirect_all(c, to) ==
    redirect_information(redirect_debug(redirect_verbose(redirect_warning(
        redirect_error(c, to), to), to), to), to)

\* The streams a peer of this version has a Merge field for.
KnownMerges(protocol) ==
    (IF protocol >= Pwsh3 THEN Streams \ {"Information"} ELSE {})
        \union (IF protocol >= Pwsh5 THEN {"Information"} ELSE {})

Command_To(c, peer) ==
    [Cmd |-> c.command_text, Args |-> c.parameters, IsScript |-> c.is_script,
     UseLocalScope |-> c.use_local_scope, MergeMyResult |-> c.merge_my, MergeToResult |-> c.merge_to,
     MergePreviousResults |-> IF c.merge_unclaimed THEN {"Output", "Error"} ELSE {},
     Merge |-> Restrict(c.merge, KnownMerges(IF peer = Unknown THEN Win7RC ELSE peer))]

\* A stream without a field is not redirected.
Command_From(o) ==
    [command_text |-> o.Cmd, is_script |-> o.IsScript, use_local_scope |-> o.UseLocalScope,
     parameters |-> o.Args, end_of_statement |-> FALSE,
     merge_unclaimed |-> o.MergePreviousResults = {"Output", "Error"},
     merge_my |-> o.MergeMyResult, merge_to |-> o.MergeToResult,
     merge |-> [s \in Streams |-> IF s \in DOMAIN o.Merge THEN o.Merge[s] ELSE "none"]]
-----------------------------------------------------------------------------
(* PowerShell *)

\* Mutant: the command after the last of a statement begins it.
Joined_Early(batches, c) ==
    IF c.end_of_statement THEN Append(batches, <<c>>)
    ELSE [batches EXCEPT ![Len(batches)] = Append(@, c)]
\* extra_cmds: a command goes to the last batch, and its end begins another.
Joined(batches, c) ==
    LET joined == [batches EXCEPT ![Len(batches)] = Append(@, c)]
    IN  IF c.end_of_statement THEN Append(joined, <<>>) ELSE joined

\* The last batch is empty if the last command ends a statement.
PowerShell_To(pipeline, peer) ==
    LET batches == FoldLeft(Joined, <<<<>>>>, pipeline.commands)
        sent == [i \in DOMAIN batches |->
                    [j \in DOMAIN batches[i] |-> Command_To(batches[i][j], peer)]]
        history == pipeline.history
    IN  [type |-> "CreatePipeline", NoInput |-> pipeline.no_input,
         ApartmentState |-> pipeline.apartment_state, AddToHistory |-> pipeline.add_to_history,
         HostInfo |-> HostInfo_To(pipeline.host), IsNested |-> pipeline.is_nested,
         PowerShell |-> IF Len(sent) > 1
                        THEN [Cmds |-> sent[1], History |-> history, ExtraCmds |-> sent]
                        ELSE [Cmds |-> sent[1], History |-> history]]

\* After each batch, the last command so far ends its statement.
Ended(cmds) == [cmds EXCEPT ![Len(cmds)].end_of_statement = TRUE]

\* The commands read so far, and those of the next batch.
ReadMore(cmds, batch) == Ended(cmds \o [j \in DOMAIN batch |-> Command_From(batch[j])])

PowerShell_From(o) ==
    LET batches == IF "ExtraCmds" \in DOMAIN o.PowerShell THEN o.PowerShell.ExtraCmds
                   ELSE <<o.PowerShell.Cmds>>
    IN  [type |-> "PowerShell", commands |-> FoldLeft(ReadMore, <<>>, batches),
         add_to_history |-> o.AddToHistory, apartment_state |-> o.ApartmentState,
         history |-> o.PowerShell.History, host |-> HostInfo_From(o.HostInfo),
         is_nested |-> o.IsNested, no_input |-> o.NoInput]
-----------------------------------------------------------------------------
(* GetMetadata *)

GetMetadata(name, namespace) ==
    [type |-> "GetMetadata", name |-> IF Type(name) = "PSList" THEN Value(name) ELSE <<name>>,
     namespace |-> namespace]

GetMetadata_To(m) == [type |-> "GetCommandMetadata", Name |-> m.name, Namespace |-> m.namespace]

GetMetadata_From(o) == GetMetadata(List(o.Name), o.Namespace)
-----------------------------------------------------------------------------
(* ClientPowerShell *)

IsBuilding == message = NoMessage /\ metadata = NoMessage

\* A program's statement goes on until add_statement.
Said(statements, c) ==
    IF \A i \in DOMAIN commands : i = Len(commands) => objects[commands[i]].end_of_statement
    THEN Append(statements, <<c>>)
    ELSE [statements EXCEPT ![Len(statements)] = Append(@, c)]

Meaning(c) == [text |-> c.command_text, is_script |-> c.is_script, scope |-> c.use_local_scope,
               unclaimed |-> c.merge_unclaimed, parameters |-> c.parameters]

Parameters == FoldLeft(LAMBDA n, c : n + Len(c.parameters), 0, objects)
MayCall == IsBuilding /\ Len(commands) + Parameters + redirects < MaxCalls

\* add_command and add_script with a new Command object.
AddNew(c) ==
    /\ MayCall
    /\ objects' = Append(objects, c)
    /\ commands' = Append(commands, Len(objects) + 1)
    /\ wanted' = Append(wanted, [s \in Streams |-> "none"])
    /\ meant' = Said(meant, Meaning(c))
    /\ UNCHANGED <<their_capability, redirects, created_with, message, metadata>>

\* Bound: local scope and unclaimed errors go together.
add_command == \E t \in Texts : \E set \in BOOLEAN :
    AddNew([Command(t, FALSE, IF set THEN Bool(TRUE) ELSE None) EXCEPT !.merge_unclaimed = set])

add_script == \E t \in Texts : AddNew(Command(t, TRUE, None))

\* add_command with a Command object that is in the pipeline already.
add_same_command ==
    /\ MayCall /\ commands # <<>>
    /\ commands' = Append(commands, Last(commands))
    /\ meant' = Said(meant, Meaning(objects[Last(commands)]))
    /\ UNCHANGED <<their_capability, objects, wanted, redirects, created_with, message, metadata>>

\* add_parameter of the last command; add_argument has no name.
add_parameter == \E name \in {None, Str("n")} :
    LET c == Last(commands)
        parameter == <<name, Number(Parameters + 1)>>
    IN  /\ MayCall /\ commands # <<>>
        /\ objects' = [objects EXCEPT ![c].parameters = Append(@, parameter)]
        /\ meant' = [meant EXCEPT ![Len(meant)][Len(Last(meant))].parameters = Append(@, parameter)]
        /\ UNCHANGED <<their_capability, commands, wanted, redirects, created_with, message, metadata>>

\* Nothing happens without a command.
add_statement ==
    /\ IsBuilding /\ commands # <<>>
    /\ objects' = [objects EXCEPT ![Last(commands)].end_of_statement = TRUE]
    /\ UNCHANGED <<their_capability, commands, meant, wanted, redirects, created_with, message, metadata>>

Redirect(streams, c, to) ==
    LET i == Last(commands)
    IN  /\ MayCall /\ Len(commands) + redirects < MaxRedirected
        /\ redirects' = redirects + 1
        /\ objects' = [objects EXCEPT ![i] = c]
        /\ wanted' = [wanted EXCEPT ![i] = [s \in Streams |-> IF s \in streams THEN to ELSE @[s]]]
        /\ UNCHANGED <<their_capability, commands, meant, created_with, message, metadata>>

\* Bound: of the command added last.
RedirectCommand == commands # <<>> /\ \E to \in RedirectTo :
    LET c == objects[Last(commands)]
    IN  \/ Redirect({"Error"}, redirect_error(c, to), to)
        \/ Redirect({"Warning"}, redirect_warning(c, to), to)
        \/ Redirect({"Verbose"}, redirect_verbose(c, to), to)
        \/ Redirect({"Debug"}, redirect_debug(c, to), to)
        \/ Redirect({"Information"}, redirect_information(c, to), to)
        \/ Redirect(Streams, redirect_all(c, to), to)

DefaultHost == HostInfo([IsHostNull |-> TRUE, IsHostUINull |-> TRUE, IsHostRawUINull |-> TRUE,
                         UseRunspaceHost |-> TRUE, HostDefaultData |-> None])

\* Mutant: the default goes first.
OrElse_Default(value, default) == IF default \in {None, ApartmentState(0)} THEN value ELSE default
\* A false value is like none: 0, which is STA.
OrElse(value, default) == IF value \in {None, ApartmentState(0)} THEN default ELSE value

\* The constructor, and the commands that were added since.
ClientPowerShell(given, cmds) ==
    [commands |-> cmds, add_to_history |-> given.add_to_history, history |-> given.history,
     is_nested |-> given.is_nested, no_input |-> given.no_input,
     apartment_state |-> OrElse(given.apartment_state, PoolApartment),
     host |-> OrElse(given.host, DefaultHost)]

Added == [i \in DOMAIN commands |-> objects[commands[i]]]

\* Start of a ClientPowerShell, which raises without a command; the message is
\* serialized at once.  Bound: settings are for a pipeline of one command.
StartPowerShell == \E given \in Settings :
    /\ IsBuilding /\ commands # <<>>
    /\ Len(commands) > 1 => given.host = None
    /\ created_with' = given
    /\ message' = PowerShell_To(ClientPowerShell(given, Added), their_capability)
    /\ UNCHANGED <<their_capability, builderVars, metadata>>

\* Bound: ClientGetCommandMetadata is created and started when nothing else is built.
StartGetCommandMetadata == \E request \in Requests :
    /\ IsBuilding /\ objects = <<>>
    /\ created_with' = request
    /\ message' = GetMetadata_To(GetMetadata(request.name, request.namespace))
    /\ UNCHANGED <<their_capability, builderVars, metadata>>

\* Server: _process_CreatePipeline and _process_GetCommandMetadata
ProcessStart ==
    /\ message # NoMessage
    /\ metadata' = IF message.type = "CreatePipeline" THEN PowerShell_From(message)
                   ELSE GetMetadata_From(message)
    /\ message' = NoMessage
    /\ UNCHANGED <<their_capability, builderVars, created_with>>

InitCommands ==
    /\ their_capability \in Peers
    /\ objects = <<>> /\ commands = <<>> /\ meant = <<>> /\ wanted = <<>> /\ redirects = 0
    /\ created_with = NoMessage /\ message = NoMessage /\ metadata = NoMessage
-----------------------------------------------------------------------------
(* What a program that builds a pipeline relies on *)

IsRead == metadata.type = "PowerShell"

\* The statements a list of commands falls into: a command is in the one that begins
\* behind the ends before it.
Statements(cmds) ==
    LET EndsBefore(i) == Cardinality({j \in 1..(i - 1) : cmds[j].end_of_statement})
        Of(k) == {i \in DOMAIN cmds : EndsBefore(i) = k - 1}
    IN  [k \in 1..(IF cmds = <<>> THEN 0 ELSE EndsBefore(Len(cmds)) + 1) |->
            SubSeq(cmds, Min(Of(k)), Max(Of(k)))]

NoneTwice == \A i, j \in DOMAIN commands : commands[i] = commands[j] => i = j

\* The server reads the statements the program put together, each with its commands in
\* order and their parameters: a parameter and an end of statement go to the command
\* added last, and the message has them as batches, with an empty one behind the last
\* (add_parameter, add_statement, PowerShell.ToPSObjectForRemoting).  An object that is
\* in the pipeline twice is one command, with one end.
StatementsKept ==
    IsRead /\ NoneTwice =>
        LET read == Statements(metadata.commands)
        IN  meant = [i \in DOMAIN read |-> [j \in DOMAIN read[i] |-> Meaning(read[i][j])]]

\* Every stream the peer knows of goes where the program last redirected it, and version
\* 2's fields merge an error stream that goes to Output and none that is not redirected
\* (Command.redirect_error, the protocol versions of Command.ToPSObjectForRemoting).
RedirectionsKept ==
    IsRead => \A i \in DOMAIN commands :
        LET read == metadata.commands[i]
            want == wanted[commands[i]]
        IN  /\ their_capability >= Pwsh3 => \A s \in Streams \ {"Information"} : read.merge[s] = want[s]
            /\ their_capability >= Pwsh5 => read.merge["Information"] = want["Information"]
            /\ want["Error"] = "Output" => read.merge_my = "Error" /\ read.merge_to = "Output"
            /\ want["Error"] = "none" => read.merge_my = "none" /\ read.merge_to = "none"

=============================================================================
