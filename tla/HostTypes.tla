------------------------------ MODULE HostTypes ------------------------------
(***************************************************************************)
(* psrpcore.types._host: the .NET types of a host and the objects they are *)
(* sent as.  A value is tagged with its type, <<type, value>>, since        *)
(* whether a number is a colour or an int is what the conversions change.  *)
(***************************************************************************)
EXTENDS Integers, Sequences, SequencesExt

None == <<"None", 0>>
Str(s) == <<"PSString", s>>
Number(n) == <<"PSInt", n>>
Bool(b) == <<"PSBool", b>>
List(s) == <<"PSList", s>>
Secure(s) == <<"PSSecureString", s>>
PSCredential(user, password) == <<"PSCredential", [user |-> user, password |-> password]>>
PSObject(fields) == <<"PSObject", fields>>

\* The enums, and EnumClass(number) and member.value
Enums == {"ConsoleColor", "BufferCellType", "ReadKeyOptions", "ControlKeyStates",
          "PSCredentialTypes", "PSCredentialUIOptions"}
ConsoleColor(n) == <<"ConsoleColor", n>>
BufferCellType(n) == <<"BufferCellType", n>>
ReadKeyOptions(n) == <<"ReadKeyOptions", n>>
ControlKeyStates(n) == <<"ControlKeyStates", n>>
PSCredentialTypes(n) == <<"PSCredentialTypes", n>>
PSCredentialUIOptions(n) == <<"PSCredentialUIOptions", n>>

Type(v) == v[1]
Value(v) == v[2]
-----------------------------------------------------------------------------
(* The types, each with ToPSObjectForRemoting(.., for_host=True) and       *)
(* FromPSObjectForRemoting, of an object that is not of the type already    *)

Coordinates(x, y) == <<"Coordinates", [X |-> x, Y |-> y]>>

Coordinates_To(c) == PSObject([x |-> Value(c).X, y |-> Value(c).Y])

\* Mutant: the two are swapped.
Coordinates_From_Swapped(o) == Coordinates(Value(o).y, Value(o).x)
Coordinates_From(o) == Coordinates(Value(o).x, Value(o).y)

Size(width, height) == <<"Size", [Width |-> width, Height |-> height]>>

Size_To(s) == PSObject([width |-> Value(s).Width, height |-> Value(s).Height])

Size_From(o) == Size(Value(o).width, Value(o).height)

Rectangle(left, top, right, bottom) ==
    <<"Rectangle", [Left |-> left, Top |-> top, Right |-> right, Bottom |-> bottom]>>

Rectangle_To(r) ==
    PSObject([left |-> Value(r).Left, top |-> Value(r).Top,
              right |-> Value(r).Right, bottom |-> Value(r).Bottom])

Rectangle_From(o) == Rectangle(Value(o).left, Value(o).top, Value(o).right, Value(o).bottom)

BufferCell(character, foreground, background, type) ==
    <<"BufferCell", [Character |-> character, ForegroundColor |-> foreground,
                     BackgroundColor |-> background, BufferCellType |-> type]>>

BufferCell_To(c) ==
    PSObject([character |-> Value(c).Character,
              foregroundColor |-> Value(Value(c).ForegroundColor),
              backgroundColor |-> Value(Value(c).BackgroundColor),
              bufferCellType |-> Value(Value(c).BufferCellType)])

BufferCell_From(o) ==
    BufferCell(Value(o).character, ConsoleColor(Value(o).foregroundColor),
               ConsoleColor(Value(o).backgroundColor), BufferCellType(Value(o).bufferCellType))

ChoiceDescription(label, helpMessage) ==
    <<"ChoiceDescription", [Label |-> label, HelpMessage |-> helpMessage]>>

ChoiceDescription_To(c) ==
    PSObject([label |-> Value(c).Label, helpMessage |-> Value(c).HelpMessage])

ChoiceDescription_From(o) == ChoiceDescription(Value(o).label, Value(o).helpMessage)

\* The three names of the parameter's type go together.
FieldDescription(name, type, label, help, mandatory, default, attributes) ==
    <<"FieldDescription", [Name |-> name, ParameterType |-> type, Label |-> label,
                           HelpMessage |-> help, IsMandatory |-> mandatory,
                           DefaultValue |-> default, Attributes |-> attributes]>>

\* Neither the default value nor the attributes are sent.
FieldDescription_To(f) ==
    PSObject([name |-> Value(f).Name, parameterType |-> Value(f).ParameterType,
              label |-> Value(f).Label, helpMessage |-> Value(f).HelpMessage,
              isMandatory |-> Value(f).IsMandatory, metadata |-> <<>>,
              modifiedByRemotingProtocol |-> FALSE, isFromRemoteHost |-> FALSE])

FieldDescription_From(o) ==
    FieldDescription(Value(o).name, Value(o).parameterType, Value(o).label, Value(o).helpMessage,
                     Value(o).isMandatory, None, Value(o).metadata)

KeyInfo(code, character, state, down) ==
    <<"KeyInfo", [VirtualKeyCode |-> code, Character |-> character,
                  ControlKeyState |-> state, KeyDown |-> down]>>

KeyInfo_To(k) ==
    PSObject([virtualKeyCode |-> Value(k).VirtualKeyCode, character |-> Value(k).Character,
              controlKeyState |-> Value(Value(k).ControlKeyState), keyDown |-> Value(k).KeyDown])

KeyInfo_From(o) ==
    KeyInfo(Value(o).virtualKeyCode, Value(o).character,
            ControlKeyStates(Value(o).controlKeyState), Value(o).keyDown)

ProgressRecord(id, activity, record_type) ==
    <<"ProgressRecord", [ActivityId |-> id, Activity |-> activity, RecordType |-> record_type]>>

\* The type of a record has another name in the message; the other fields are like the activity.
ProgressRecord_To(r) ==
    PSObject([ActivityId |-> Value(r).ActivityId, Activity |-> Value(r).Activity,
              Type |-> Value(r).RecordType])

ProgressRecord_From(o) == ProgressRecord(Value(o).ActivityId, Value(o).Activity, Value(o).Type)
-----------------------------------------------------------------------------
(* Arrays of two dimensions: the elements one after the other, and the two *)
(* lengths                                                                 *)

\* The lists of descriptions that a prompt has are told from others by a tag of their own.
ListOfChoices(s) == <<"Choices", s>>
ListOfFields(s) == <<"Fields", s>>

Array(rows) == <<"Array", rows>>

\* values[0] raises for an array without rows.
IsPackable(array) == Value(array) # <<>>

Lengths(rows) == <<Len(rows), Len(rows[1])>>

_create_multi_dimensional_array(array) ==
    LET flattened == FlattenSeq(Value(array))
    IN  PSObject([mae |-> [i \in DOMAIN flattened |-> BufferCell_To(flattened[i])],
                  mal |-> Lengths(Value(array))])

\* Groups of count elements; what does not fill a group is lost.
Grouped(s, count) ==
    IF count = 0 THEN <<>>
    ELSE [i \in 1..(Len(s) \div count) |-> SubSeq(s, (i - 1) * count + 1, i * count)]

\* final_list[0] raises if no group was filled.
_unpack_multi_dimensional_array(o) ==
    LET elements == [i \in DOMAIN Value(o).mae |-> BufferCell_From(Value(o).mae[i])]
        whole == Grouped(Grouped(elements, Value(o).mal[2]), Value(o).mal[1])
    IN  IF whole = <<>> THEN <<"raised", 0>> ELSE Array(whole[1])
-----------------------------------------------------------------------------
(* What the methods of both programs make of a value before it is sent *)

IsEnum(v) == Type(v) \in Enums

ForHost(v) ==
    CASE IsEnum(v) -> Number(Value(v))
      [] Type(v) = "Coordinates" -> Coordinates_To(v)
      [] Type(v) = "Size" -> Size_To(v)
      [] Type(v) = "Rectangle" -> Rectangle_To(v)
      [] Type(v) = "BufferCell" -> BufferCell_To(v)
      [] Type(v) = "KeyInfo" -> KeyInfo_To(v)
      [] Type(v) = "ProgressRecord" -> ProgressRecord_To(v)
      [] Type(v) = "Array" -> _create_multi_dimensional_array(v)
      [] Type(v) = "Choices" -> List([i \in DOMAIN Value(v) |-> ChoiceDescription_To(Value(v)[i])])
      [] Type(v) = "Fields" -> List([i \in DOMAIN Value(v) |-> FieldDescription_To(Value(v)[i])])
      [] OTHER -> v
-----------------------------------------------------------------------------
(* What the host of a client is, sent when a pool is opened *)

\* The properties in the order of the class: the index is the key of the dict.
DataFields == <<"ForegroundColor", "BackgroundColor", "CursorPosition", "WindowPosition",
                "CursorSize", "BufferSize", "WindowSize", "MaxWindowSize",
                "MaxPhysicalWindowSize", "WindowTitle">>

HostDefaultData(fields) == <<"HostDefaultData", fields>>

HostDefaultData_To(data) ==
    PSObject([idx \in 0..9 |->
        LET value == Value(data)[DataFields[idx + 1]]
        IN  [T |-> Type(value),
             V |-> CASE Type(value) = "ConsoleColor" -> Number(Value(value))
                     [] Type(value) = "Coordinates" -> Coordinates_To(value)
                     [] Type(value) = "Size" -> Size_To(value)
                     [] OTHER -> value]])

HostDefaultData_From(o) ==
    LET data == Value(o)
    IN  HostDefaultData([
            ForegroundColor |-> ConsoleColor(Value(data[0].V)),
            BackgroundColor |-> ConsoleColor(Value(data[1].V)),
            CursorPosition |-> Coordinates_From(data[2].V),
            WindowPosition |-> Coordinates_From(data[3].V), CursorSize |-> data[4].V,
            BufferSize |-> Size_From(data[5].V), WindowSize |-> Size_From(data[6].V),
            MaxWindowSize |-> Size_From(data[7].V), MaxPhysicalWindowSize |-> Size_From(data[8].V),
            WindowTitle |-> data[9].V])

\* What has all the fields of the class, of their types.
IsHostData(d) ==
    LET f == Value(d)
        IsPosition(c) == c = Coordinates(Value(c).X, Value(c).Y)
        IsSize(s) == s = Size(Value(s).Width, Value(s).Height)
    IN  /\ d = HostDefaultData([n \in Range(DataFields) |-> f[n]])
        /\ f.ForegroundColor = ConsoleColor(Value(f.ForegroundColor))
        /\ f.BackgroundColor = ConsoleColor(Value(f.BackgroundColor))
        /\ IsPosition(f.CursorPosition) /\ IsPosition(f.WindowPosition)
        /\ f.CursorSize = Number(Value(f.CursorSize)) /\ f.WindowTitle = Str(Value(f.WindowTitle))
        /\ IsSize(f.BufferSize) /\ IsSize(f.WindowSize)
        /\ IsSize(f.MaxWindowSize) /\ IsSize(f.MaxPhysicalWindowSize)

\* Four flags; default data that is not set is not sent, and read as None.
HostInfo(fields) == <<"HostInfo", fields>>

IsHost(h) ==
    LET data == Value(h).HostDefaultData
    IN  /\ h = HostInfo([n \in {"IsHostNull", "IsHostUINull", "IsHostRawUINull", "UseRunspaceHost",
                                "HostDefaultData"} |-> Value(h)[n]])
        /\ data = None \/ IsHostData(data)

HostInfo_To(h) ==
    PSObject([Value(h) EXCEPT !.HostDefaultData = IF @ = None THEN @ ELSE HostDefaultData_To(@)])

HostInfo_From(o) ==
    HostInfo([Value(o) EXCEPT !.HostDefaultData = IF @ = None THEN @ ELSE HostDefaultData_From(@)])
=============================================================================
