------------------------- MODULE ClientHostResponder -------------------------
(***************************************************************************)
(* psrpcore._host.ClientHostResponder: the value each method answers with, *)
(* before it is converted.                                                 *)
(***************************************************************************)
EXTENDS HostTypes

get_name(name) == Str(name)
\* A string becomes a PSVersion.
get_version(version) == <<"PSVersion", version>>
get_instance_id(instance_id) == <<"PSGuid", instance_id>>
get_current_culture(culture) == Str(culture)
get_current_ui_culture(culture) == Str(culture)
get_is_runspace_pushed(is_pushed) == Bool(is_pushed)
read_line(line) == Str(line)
read_line_as_secure_string(line) == Secure(line)
prompt(choices) == <<"PSDict", choices>>
\* No credential is None.
prompt_for_credential(credential) == credential
prompt_for_choice(choice) == Number(choice)

\* A single choice becomes a list of one.
prompt_for_multiple_choice(choices) == IF Type(choices) = "PSList" THEN choices ELSE List(<<choices>>)

get_foreground_color(color) == color
get_background_color(color) == color
get_cursor_position(x, y) == Coordinates(x, y)
get_window_position(x, y) == Coordinates(x, y)
get_cursor_size(size) == Number(size)
get_buffer_size(width, height) == Size(width, height)
get_window_size(width, height) == Size(width, height)
get_window_title(title) == Str(title)
get_max_window_size(width, height) == Size(width, height)
get_max_physical_window_size(width, height) == Size(width, height)
get_key_available(waiting) == Bool(waiting)

read_key(character, key_down, control_key_state, key_code) ==
    KeyInfo(key_code, character, control_key_state, key_down)

get_buffer_contents(cells) == Array(cells)
=============================================================================
