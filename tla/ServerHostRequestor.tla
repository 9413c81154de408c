------------------------- MODULE ServerHostRequestor -------------------------
(***************************************************************************)
(* psrpcore._host.ServerHostRequestor: the call each method makes, as the  *)
(* method, its parameters before they are converted, and what the caller   *)
(* gets: a method that returns the call id asks, one that returns nothing  *)
(* tells.  "given" keeps the optional arguments of the caller.             *)
(***************************************************************************)
EXTENDS HostTypes

Call(mi, params, returns, given) ==
    [mi |-> mi, params |-> params, returns |-> returns, given |-> given]

NotOptional == [text |-> None, first |-> None, second |-> None]
Asks(mi, params) == Call(mi, params, TRUE, NotOptional)
Tells(mi, params) == Call(mi, params, FALSE, NotOptional)
-----------------------------------------------------------------------------
(* PSHost *)

get_name == Asks("GetName", <<>>)
get_version == Asks("GetVersion", <<>>)
get_instance_id == Asks("GetInstanceId", <<>>)
get_current_culture == Asks("GetCurrentCulture", <<>>)
get_current_ui_culture == Asks("GetCurrentUICulture", <<>>)
set_should_exit(exit_code) == Tells("SetShouldExit", <<Number(exit_code)>>)
enter_nested_prompt == Tells("EnterNestedPrompt", <<>>)
exit_nested_prompt == Tells("ExitNestedPrompt", <<>>)
notify_begin_application == Tells("NotifyBeginApplication", <<>>)
notify_end_application == Tells("NotifyEndApplication", <<>>)
pop_runspace == Tells("PopRunspace", <<>>)
get_is_runspace_pushed == Asks("GetIsRunspacePushed", <<>>)
-----------------------------------------------------------------------------
(* PSHostUserInterface *)

read_line == Asks("ReadLine", <<>>)
read_line_as_secure_string == Asks("ReadLineAsSecureString", <<>>)

Given(option, default) == IF option = None THEN default ELSE option

\* A colour that is not given is 0, Black, if the other one is.
OrBlack(color) == Given(color, ConsoleColor(0))

\* Mutant: both colours must be given.
write_Both(value, foreground, background) ==
    Call(IF None \in {foreground, background} THEN "Write1" ELSE "Write2",
         IF None \in {foreground, background} THEN <<Str(value)>>
         ELSE <<OrBlack(foreground), OrBlack(background), Str(value)>>,
         FALSE, [text |-> Str(value), first |-> foreground, second |-> background])
write(value, foreground, background) ==
    LET plain == foreground = None /\ background = None
    IN  Call(IF plain THEN "Write1" ELSE "Write2",
             IF plain THEN <<Str(value)>> ELSE <<OrBlack(foreground), OrBlack(background), Str(value)>>,
             FALSE, [text |-> Str(value), first |-> foreground, second |-> background])

write_line(line, foreground, background) ==
    LET plain == foreground = None /\ background = None
        text  == IF line = None THEN Str("") ELSE line
    IN  Call(IF ~plain THEN "WriteLine3" ELSE IF line = None THEN "WriteLine1" ELSE "WriteLine2",
             IF ~plain THEN <<OrBlack(foreground), OrBlack(background), text>>
             ELSE IF line = None THEN <<>> ELSE <<line>>,
             FALSE, [text |-> line, first |-> foreground, second |-> background])

write_error_line(line) == Tells("WriteErrorLine", <<Str(line)>>)
write_debug_line(line) == Tells("WriteDebugLine", <<Str(line)>>)

write_progress(source_id, record) == Tells("WriteProgress", <<Number(source_id), record>>)

write_verbose_line(line) == Tells("WriteVerboseLine", <<Str(line)>>)
write_warning_line(line) == Tells("WriteWarningLine", <<Str(line)>>)

prompt(caption, message, descriptions) ==
    Asks("Prompt", <<Str(caption), Str(message), ListOfFields(descriptions)>>)

prompt_for_credential(caption, message, username, target_name, types, options) ==
    LET plain == types = None /\ options = None
        target == Given(target_name, Str(""))
        names == <<Str(caption), Str(message), username, target>>
    IN  Call(IF plain THEN "PromptForCredential1" ELSE "PromptForCredential2",
             IF plain THEN names
             ELSE names \o <<Given(types, PSCredentialTypes(3)), Given(options, PSCredentialUIOptions(1))>>,
             TRUE, [text |-> target_name, first |-> types, second |-> options])

prompt_for_choice(caption, message, choices, default_choice) ==
    Asks("PromptForChoice", <<Str(caption), Str(message), ListOfChoices(choices), Number(default_choice)>>)

\* No default choices are an empty list.
prompt_for_multiple_choice(caption, message, choices, default_choices) ==
    Asks("PromptForChoiceMultipleSelection",
         <<Str(caption), Str(message), ListOfChoices(choices),
           IF default_choices = None THEN List(<<>>) ELSE default_choices>>)
-----------------------------------------------------------------------------
(* PSHostRawUserInterface *)

get_foreground_color == Asks("GetForegroundColor", <<>>)
set_foreground_color(color) == Tells("SetForegroundColor", <<color>>)
get_background_color == Asks("GetBackgroundColor", <<>>)
set_background_color(color) == Tells("SetBackgroundColor", <<color>>)
get_cursor_position == Asks("GetCursorPosition", <<>>)
set_cursor_position(x, y) == Tells("SetCursorPosition", <<Coordinates(x, y)>>)
get_window_position == Asks("GetWindowPosition", <<>>)
set_window_position(x, y) == Tells("SetWindowPosition", <<Coordinates(x, y)>>)
get_cursor_size == Asks("GetCursorSize", <<>>)
set_cursor_size(size) == Tells("SetCursorSize", <<Number(size)>>)
get_buffer_size == Asks("GetBufferSize", <<>>)
set_buffer_size(width, height) == Tells("SetBufferSize", <<Size(width, height)>>)
get_window_size == Asks("GetWindowSize", <<>>)
set_window_size(width, height) == Tells("SetWindowSize", <<Size(width, height)>>)
get_window_title == Asks("GetWindowTitle", <<>>)
set_window_title(title) == Tells("SetWindowTitle", <<Str(title)>>)
get_max_window_size == Asks("GetMaxWindowSize", <<>>)
get_max_physical_window_size == Asks("GetMaxPhysicalWindowSize", <<>>)
get_key_available == Asks("GetKeyAvailable", <<>>)
read_key(options) == Asks("ReadKey", <<options>>)
flush_input_buffer == Tells("FlushInputBuffer", <<>>)

\* The cell that fills a region is complete.
Fill(character, foreground, background) ==
    BufferCell(character, foreground, background, BufferCellType(0))

set_buffer_cells(left, top, right, bottom, character, foreground, background) ==
    Tells("SetBufferContents1", <<Rectangle(left, top, right, bottom),
                                  Fill(character, foreground, background)>>)

set_buffer_contents(x, y, contents) ==
    Tells("SetBufferContents2", <<Coordinates(x, y), Array(contents)>>)

get_buffer_contents(left, top, right, bottom) ==
    Asks("GetBufferContents", <<Rectangle(left, top, right, bottom)>>)

scroll_buffer_contents(source, x, y, clip, character, foreground, background) ==
    Tells("ScrollBufferContents", <<source, Coordinates(x, y), clip,
                                    Fill(character, foreground, background)>>)
=============================================================================
