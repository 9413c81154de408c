------------------------- MODULE MCPipelinePrograms -------------------------
(* Values for PipelinePrograms: a pipeline without any setting and two with   *)
(* all of them, one of them with STA; two colours, one of them the default,   *)
(* buffers of every shape up to two by two and two that are not rectangular.  *)
EXTENDS PipelinePrograms

MCSettings ==
    LET full == [add_to_history |-> Bool(TRUE), apartment_state |-> ApartmentState(2), history |-> Str("h"),
                 host |-> [DefaultHost EXCEPT ![2].UseRunspaceHost = FALSE],
                 is_nested |-> Bool(TRUE), no_input |-> Bool(FALSE)]
        none == [add_to_history |-> Bool(FALSE), apartment_state |-> None, history |-> None, host |-> None,
                 is_nested |-> Bool(FALSE), no_input |-> Bool(TRUE)]
    IN  {none, full, [full EXCEPT !.apartment_state = ApartmentState(0)]}

MCRequests == {[name |-> n, namespace |-> ns] :
                  n \in {Str("n"), List(<<Str("n"), Str("m")>>)}, ns \in {None, List(<<Str("ns")>>)}}

MCPoolApartment == ApartmentState(1)
MCColors == {ConsoleColor(0), ConsoleColor(12)}

a == BufferCell(Str("a"), ConsoleColor(0), ConsoleColor(12), BufferCellType(1))
b == BufferCell(Str("b"), ConsoleColor(12), ConsoleColor(0), BufferCellType(0))

MCCells == {a, b}

MCGrids == {<<<<a>>>>, <<<<a, b>>>>, <<<<a>>, <<b>>>>, <<<<a, b>>, <<b, b>>>>,
            <<<<a>>, <<a, b>>>>, <<<<>>>>, <<>>}

MCData == HostDefaultData([ForegroundColor |-> ConsoleColor(12), BackgroundColor |-> ConsoleColor(0),
                           CursorPosition |-> Coordinates(1, 2), WindowPosition |-> Coordinates(3, 4),
                           CursorSize |-> Number(5), BufferSize |-> Size(6, 7), WindowSize |-> Size(8, 9),
                           MaxWindowSize |-> Size(10, 11), MaxPhysicalWindowSize |-> Size(12, 13),
                           WindowTitle |-> Str("t")])

MCHosts == {HostInfo([IsHostNull |-> n, IsHostUINull |-> n, IsHostRawUINull |-> TRUE,
                      UseRunspaceHost |-> u, HostDefaultData |-> d]) : n, u \in BOOLEAN, d \in {None, MCData}}

MCTogether == {"ReadLine", "ReadLineAsSecureString", "GetForegroundColor", "GetCursorPosition",
               "WriteProgress", "PromptForCredential1"}
=============================================================================
