----------------------------- MODULE ClixmlShell -----------------------------
(***************************************************************************)
(* psrpcore._clixml_shell: a program writes values to the streams of a     *)
(* ClixmlShell, and what data_to_send() returns to its stdout or stderr.   *)
(* When it has ended, ClixmlOutput reads each of the two as one text and   *)
(* collects the streams again.  The program keeps a PSDateTime, which it   *)
(* sets forward and back and writes too.                                   *)
(***************************************************************************)
EXTENDS ClixmlValues, Functions

CONSTANTS
    Texts,          \* strings the program writes to its output
    Messages,       \* and to the other streams
    Spans,          \* durations, as PSDuration
    Steps,          \* the ones the time is set forward or back by
    Numbers,        \* ints
    Start,          \* the time the program starts at
    MaxWrites,      \* bound: values written
    MaxWaits        \* bound: changes of the time

ASSUME ClixmlShellAssumption ==
    /\ Messages \subseteq Texts
    /\ Spans \subseteq Durations /\ Steps \subseteq Spans /\ Start \in DateTimes /\ Numbers \subseteq Int
    /\ MaxWrites \in Nat /\ MaxWaits \in Nat

VARIABLES
    stdout,         \* _stdout: <<value, stream>> that have not been sent
    written_marker, \* _written_marker
    pieces,         \* what the program's stdout and stderr have got from data_to_send()
    written, sent,  \* history: every <<value, stream>> written, and sent to each source
    time,           \* the program's time
    waits, now,     \* history: how often it was changed, and what it must be
    ended,          \* the program has ended and is read: "no", "read" or "raised"
    output          \* the ClixmlOutput, by stream

clockVars == <<time, waits, now>>
vars == <<stdout, written_marker, pieces, written, sent, clockVars, ended, output>>

Sources == {"stdout", "stderr"}
Streams == {"output", "error", "debug", "information"}  \* verbose and warning are like debug
-----------------------------------------------------------------------------
Write(v, stream) ==
    /\ ended = "no" /\ Len(written) < MaxWrites
    /\ stdout' = Append(stdout, <<v, stream>>)
    /\ written' = Append(written, <<v, stream>>)
    /\ UNCHANGED <<written_marker, pieces, sent, clockVars, ended, output>>

\* Bound: the constants are written first, and by a program that has left the time
\* alone; messages and times at any moment.
write_output ==
    \/ /\ written = <<>> /\ waits = 0
       /\ \/ \E t \in Texts : Write(Text(t), "output")
          \/ \E d \in Spans : Write(Duration(d), "output")
          \/ \E n \in Numbers : Write(PyInt(n), "output")
          \/ Write(Bad, "output")
    \/ \E t \in Messages : Write(Text(t), "output")
    \/ Write(DateTime(time), "output") \/ Write(Duration(Elapsed(time, Start)), "output")

\* write_error, write_debug, write_verbose, write_warning, write_information
write_message == \E t \in Messages, s \in Streams \ {"output"} : Write(Text(t), s)

\* Mutant: the buffer is sent and kept.
Sent_Kept(buffer) == buffer
Sent(buffer) == <<>>

\* Of what was written, what neither source has got.
Unsent == SubSeq(written, Len(sent["stdout"]) + Len(sent["stderr"]) + 1, Len(written))

\* The program calls data_to_send() and writes the piece to a source.  The marker
\* counts as written whether or not there was anything to send, and also when
\* serialize_clixml() raises, which leaves the buffer as it is; a piece without
\* the marker starts with a line break.
data_to_send(source) ==
    LET elements == [i \in DOMAIN stdout |->
                       [element |-> Serialize(stdout[i][1]), stream |-> stdout[i][2]]]
    IN  /\ ended = "no"
        /\ written_marker' = TRUE
        /\ IF stdout = <<>> \/ \E i \in DOMAIN stdout : stdout[i][1] = Bad
             THEN UNCHANGED <<stdout, pieces, sent>>
             ELSE /\ pieces' = [pieces EXCEPT ![source] =
                                  Append(@, [marker |-> ~written_marker, objs |-> elements])]
                  /\ stdout' = Sent(stdout)
                  /\ sent' = [sent EXCEPT ![source] = @ \o Unsent]
        /\ UNCHANGED <<written, clockVars, ended, output>>

\* Bound: the time is changed before anything is written.
Wait(d) ==
    /\ ended = "no" /\ written = <<>> /\ waits < MaxWaits
    /\ waits' = waits + 1
    /\ \/ time' = AddToDate(time, d) /\ now' = now + TotalNanoseconds(d)
       \/ time' = SubFromDate(time, d) /\ now' = now - TotalNanoseconds(d)
    /\ UNCHANGED <<stdout, written_marker, pieces, written, sent, ended, output>>

\* What from_clixml() makes of a value: a string of the error and debug streams
\* becomes the message of a record, one of the information stream does not.
Collected(v, stream) ==
    IF stream \in {"error", "debug"} THEN [kind |-> "record", stream |-> stream, message |-> v]
                                     ELSE v

OfStream(pairs, stream) ==
    LET mine == SelectSeq(pairs, LAMBDA p : p[2] = stream)
    IN  [i \in DOMAIN mine |-> Collected(mine[i][1], stream)]

Objs(ps) == FlattenSeq([i \in DOMAIN ps |-> ps[i].objs])

\* The text of a source is all its pieces.  deserialize_clixml() strips the marker
\* and the first start tag, and ElementTree.fromstring() raises if there is a
\* second root, the Objs of another piece.
OneRoot(ps) == Len(ps) <= 1

\* ClixmlOutput.from_clixml([stdout, stderr])
from_clixml ==
    LET objs == Objs(pieces["stdout"] \o pieces["stderr"])
        read == [i \in DOMAIN objs |-> <<Deserialize(objs[i].element), objs[i].stream>>]
    IN  /\ ended = "no" /\ objs # <<>>
        /\ IF \/ \E source \in Sources : ~OneRoot(pieces[source])
              \/ \E i \in DOMAIN read : read[i][1] = Error
             THEN ended' = "raised" /\ UNCHANGED output
             ELSE ended' = "read" /\ output' = [s \in Streams |-> OfStream(read, s)]
        /\ UNCHANGED <<stdout, written_marker, pieces, written, sent, clockVars>>

Init ==
    /\ stdout = <<>> /\ written_marker = FALSE /\ pieces = [source \in Sources |-> <<>>]
    /\ written = <<>> /\ sent = [source \in Sources |-> <<>>]
    /\ time = Start /\ waits = 0 /\ now = TotalNanoseconds(Start)
    /\ ended = "no" /\ output = [s \in Streams |-> <<>>]

Next ==
    \/ write_output \/ write_message
    \/ \E source \in Sources : data_to_send(source)
    \/ \E d \in Steps : Wait(d)
    \/ from_clixml

Spec == Init /\ [][Next]_vars
-----------------------------------------------------------------------------
(* What the format takes *)

\* A string of characters that XML has, none with a zero for its low byte,
\* which the search for escapes can take for the start of a unit.
PlainText(text) ==
    /\ \A i \in DOMAIN text : text[i] % 256 # 0 \/ text[i] < 256
    /\ ~NoXml(SerializeString(text))

Tick(n) == n \div NanosPerTick

\* Whole seconds that end in a zero are cut short (DurationKept).
WholeTens(d) ==
    LET total == Tick(TotalNanoseconds(d))
        ticks == IF total < 0 THEN -total ELSE total
        seconds == (ticks \div Ticks) % 60
    IN  ticks % Ticks = 0 /\ seconds # 0 /\ seconds % 10 = 0

Supported(v) ==
    CASE v.kind = "string"   -> PlainText(v.text)
      [] v.kind = "duration" -> ~WholeTens(v.span)
      [] v.kind = "date"     -> v.time.micro >= 0
      [] v.kind = "int"      -> v.n \in (-IntMax - 1)..LongMax
      [] OTHER               -> FALSE

\* The value down to a tick, and two halves of a surrogate pair as the character
\* that they are in UTF-16.
Rounded(v) ==
    CASE v.kind = "string"   -> Text(Decoded(Bytes(v.text)))
      [] v.kind = "duration" -> Duration(PSDuration(Tick(TotalNanoseconds(v.span)) * NanosPerTick))
      [] v.kind = "date"     -> DateTime([v.time EXCEPT !.nano = Tick(@) * NanosPerTick])
      [] OTHER               -> v
-----------------------------------------------------------------------------
\* What the program has written and not sent.
Waiting == {p[1] : p \in Range(stdout)}

\* TextKept: a string is read as it was written, underscores that look like the
\* start of an escape, control characters and surrogates included.
TextKept ==
    \A v \in Waiting :
        v.kind = "string" /\ Supported(v) => Deserialize(Serialize(v)) = Rounded(v)

\* TimesKept: a duration or a date is read as it was written, to a tick, which
\* is what .NET has.
TimesKept ==
    \A v \in Waiting :
        v.kind \in {"duration", "date"} /\ Supported(v) => Deserialize(Serialize(v)) = Rounded(v)

\* DurationKept: the same without an exception: "a serialized Duration object
\* can only go up to a .NET Tick".
DurationKept ==
    \A v \in Waiting : v.kind = "duration" => Deserialize(Serialize(v)) = Rounded(v)

\* ClockExact: however often it is set forward and back, a PSDateTime is exact to
\* the nanosecond, and so is the difference of two.
ClockExact ==
    /\ TotalNanoseconds(time) = now
    /\ TotalNanoseconds(Elapsed(time, Start)) = now - TotalNanoseconds(Start)

\* OutputKept: what the program has sent, a piece at most to each of stdout and
\* stderr, is in the ClixmlOutput: each value once, in its stream and in order, what
\* went to stdout before what went to stderr.
OutputKept ==
    LET all     == sent["stdout"] \o sent["stderr"]
        rounded == [i \in DOMAIN all |-> <<Rounded(all[i][1]), all[i][2]>>]
        fit     == /\ \A source \in Sources : OneRoot(pieces[source])
                   /\ \A i \in DOMAIN all : Supported(all[i][1])
    IN  ended # "no" /\ fit =>
            /\ ended = "read"
            /\ \A s \in Streams : output[s] = OfStream(rounded, s)
=============================================================================
