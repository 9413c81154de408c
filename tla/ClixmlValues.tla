---------------------------- MODULE ClixmlValues ----------------------------
(***************************************************************************)
(* psrpcore.types._serializer: the elements that primitive values are      *)
(* written as, and the values that are read from them.  A text is a        *)
(* sequence of code points; where the code looks at the digits of a number *)
(* the model has them as a sequence, the rest of a text is a record of its *)
(* fields.                                                                 *)
(***************************************************************************)
EXTENDS PSTimes, Sequences, SequencesExt

CONSTANTS
    MicroDigits,    \* digits of a microsecond below a second: 6 in the code,
    NanoDigits,     \* and of a nanosecond below a microsecond: 3
    IntMax,         \* the greatest Int32: 2^31 - 1 in the code
    LongMax         \* the greatest Int64: 2^63 - 1 in the code

ASSUME ClixmlValuesAssumption ==
    /\ MicroDigits \in Nat \ {0} /\ NanoDigits \in Nat \ {0} /\ Nanos = 10 ^ NanoDigits
    /\ IntMax \in Nat /\ LongMax \in Nat /\ IntMax < LongMax

Error == [kind |-> "error"]
-----------------------------------------------------------------------------
(* Strings *)

Underscore == 95
LowerX     == 120
UpperX     == 88

HexDigit == [n \in 0..15 |-> IF n < 10 THEN 48 + n ELSE 65 + n - 10]
HexValue(c) ==
    IF c \in 48..57 THEN c - 48 ELSE IF c \in 65..70 THEN c - 55 ELSE c - 87
IsHex(c) == c \in (48..57) \union (65..70) \union (97..102)

\* _xHHHH_ for a UTF-16 unit
Escape(unit) ==
    <<Underscore, LowerX, HexDigit[unit \div 4096], HexDigit[(unit \div 256) % 16],
      HexDigit[(unit \div 16) % 16], HexDigit[unit % 16], Underscore>>

\* The UTF-16 units of a code point.
Units(c) ==
    IF c < 65536 THEN <<c>>
    ELSE <<55296 + (c - 65536) \div 1024, 56320 + ((c - 65536) % 1024)>>

\* _STRING_SERIAL_ESCAPE: C0, C1, what is above U+FFFF, and surrogates, of which
\* U+D900 to U+DBFF are left out.
Escaped(c) ==
    \/ c \in (0..31) \union (127..159)
    \/ c \in (55296..55551) \union (56320..57343)
    \/ c >= 65536

\* Mutant: an underscore is written as it is.
SerializeString_Bare(text) ==
    FlattenSeq([i \in DOMAIN text |->
                  IF Escaped(text[i]) THEN FlattenSeq([j \in DOMAIN Units(text[i]) |->
                                                         Escape(Units(text[i])[j])])
                                      ELSE <<text[i]>>])

\* _serialize_string: an underscore before an x of either case is escaped too.
SerializeString(text) ==
    LET Char(i) ==
            IF Escaped(text[i])
              THEN FlattenSeq([j \in DOMAIN Units(text[i]) |-> Escape(Units(text[i])[j])])
            ELSE IF text[i] = Underscore /\ i < Len(text) /\ text[i + 1] \in {LowerX, UpperX}
              THEN Escape(Underscore)
            ELSE <<text[i]>>
    IN  FlattenSeq([i \in DOMAIN text |-> Char(i)])

\* What is written to XML is not read again: a surrogate cannot be encoded, and
\* U+FFFE and U+FFFF are not characters.
NoXml(text) == \E i \in DOMAIN text : text[i] \in (55296..57343) \union {65534, 65535}

\* value.encode("utf-16-be")
Bytes(text) ==
    LET units == FlattenSeq([i \in DOMAIN text |-> Units(text[i])])
    IN  FlattenSeq([i \in DOMAIN units |-> <<units[i] \div 256, units[i] % 256>>])

\* _STRING_DESERIAL_FIND at place i of b: 00 5F 00 78, four times 00 and a hex
\* digit, 00 5F.
EscapeAt(b, i) ==
    /\ i + 13 <= Len(b)
    /\ \A k \in 0..6 : b[i + 2 * k] = 0
    /\ b[i + 1] = Underscore /\ b[i + 3] = LowerX /\ b[i + 13] = Underscore
    /\ \A k \in 2..5 : IsHex(b[i + 2 * k + 1])

\* re.sub(_STRING_DESERIAL_FIND, rplcr, b): from the left, at any byte.
Unescaped(b) ==
    LET Hex(i) == HexValue(b[i])
        from[i \in 1..(Len(b) + 1)] ==
            IF i > Len(b) THEN <<>>
            ELSE IF EscapeAt(b, i)
              THEN <<16 * Hex(i + 5) + Hex(i + 7), 16 * Hex(i + 9) + Hex(i + 11)>> \o from[i + 14]
            ELSE <<b[i]>> \o from[i + 1]
    IN  from[1]

\* decode("utf-16-be", errors = "surrogatepass") joins two surrogates.
Decoded(b) ==
    LET unit == [i \in 1..(Len(b) \div 2) |-> 256 * b[2 * i - 1] + b[2 * i]]
        High(i) == i < Len(unit) /\ unit[i] \in 55296..56319 /\ unit[i + 1] \in 56320..57343
        from[i \in 1..(Len(unit) + 2)] ==
            IF i > Len(unit) THEN <<>>
            ELSE IF High(i)
              THEN <<65536 + (unit[i] - 55296) * 1024 + unit[i + 1] - 56320>> \o from[i + 2]
            ELSE <<unit[i]>> \o from[i + 1]
    IN  from[1]

\* _deserialize_string
DeserializeString(text) == Decoded(Unescaped(Bytes(text)))
-----------------------------------------------------------------------------
(* Durations and dates *)

Micros       == 10 ^ MicroDigits       \* in a second
NanosPerTick == 10 ^ (NanoDigits - 1)
TickDigits   == MicroDigits + 1
Ticks        == 10 ^ TickDigits        \* in a second

\* The decimal digits of n, width of them: str.format with leading zeros.
Padded(n, width) == [i \in 1..width |-> 48 + ((n \div 10 ^ (width - i)) % 10)]
Digits(n) == Padded(n, CHOOSE w \in 1..10 : n < 10 ^ w /\ \A v \in 1..(w - 1) : n >= 10 ^ v)

Number(digits) == FoldLeft(LAMBDA n, c : 10 * n + c - 48, 0, digits)

Dot == <<46>>

\* text.rstrip(".0")
RStrip(text) == SubSeq(text, 1, SelectLastInSeq(text, LAMBDA c : c \notin {46, 48}))

\* The seconds of a duration: "{seconds:.7f}" without what rstrip takes away.
SecondsText(ticks) ==
    LET text == RStrip(Digits(ticks \div Ticks) \o Dot \o Padded(ticks % Ticks, TickDigits))
    IN  IF text = <<>> THEN <<48>> ELSE text

\* _serialize_duration: 0 and <<>> for what is left out.
SerializeDuration(d) ==
    LET total   == TotalNanoseconds(d) \div NanosPerTick
        ticks   == IF total < 0 THEN -total ELSE total
        days    == ticks \div (86400 * Ticks)
        rest    == ticks % (86400 * Ticks)
        hours   == rest \div (3600 * Ticks)
        minutes == (rest % (3600 * Ticks)) \div (60 * Ticks)
        seconds == rest % (60 * Ticks)
        T(n)    == IF rest # 0 \/ days = 0 THEN n ELSE 0
    IN  [tag |-> "TS", negative |-> total < 0, days |-> days,
         hours |-> T(hours), minutes |-> T(minutes),
         seconds |-> IF (rest # 0 \/ days = 0) /\ (seconds # 0 \/ (hours = 0 /\ minutes = 0))
                       THEN SecondsText(seconds) ELSE <<>>]

\* Mutant: the fraction is read as the number its digits are.
FractionTicks_AsWritten(digits) == Number(digits)

\* int(fraction.ljust(7, "0"))
FractionTicks(digits) == Number(digits) * 10 ^ (TickDigits - Len(digits))

\* _deserialize_duration of what is written: the groups of _DURATION_PATTERN.
DeserializeDuration(e) ==
    LET dot     == SelectInSeq(e.seconds, LAMBDA c : c = 46)
        whole   == IF dot = 0 THEN e.seconds ELSE SubSeq(e.seconds, 1, dot - 1)
        digits  == IF dot = 0 THEN <<>> ELSE SubSeq(e.seconds, dot + 1, Len(e.seconds))
        seconds == Number(whole) + 60 * e.minutes + 3600 * e.hours + 86400 * e.days
        total   == (seconds * Ticks + FractionTicks(digits)) * NanosPerTick
    IN  PSDuration(IF e.negative THEN -total ELSE total)

\* _serialize_datetime: the fraction has a digit more when there are nanoseconds.
SerializeDateTime(t) ==
    [tag |-> "DT", second |-> t.micro \div Micros,
     fraction |-> IF t.micro % Micros = 0 /\ t.nano = 0 THEN <<>>
                  ELSE Padded(t.micro % Micros, MicroDigits)
                         \o (IF t.nano = 0 THEN <<>> ELSE Digits(t.nano \div NanosPerTick))]

\* strftime("%Y") of a year before 1000 has fewer than the four digits that
\* strptime("%Y") asks for.
ShortYear(e) == e.second < 0

\* The digit below microseconds, in nanoseconds.
LastDigit(digits) == (Last(digits) - 48) * 10 ^ (NanoDigits + MicroDigits - Len(digits))

\* _deserialize_datetime; "%f" is a number of microseconds with zeros left out at
\* the end.
DeserializeDateTime(e) ==
    LET long   == Len(e.fraction) > MicroDigits
        digits == IF long THEN Front(e.fraction) ELSE e.fraction
    IN  [micro |-> e.second * Micros + Number(digits) * 10 ^ (MicroDigits - Len(digits)),
         nano  |-> IF long THEN LastDigit(e.fraction) ELSE 0]
-----------------------------------------------------------------------------
(* Every value has a kind; a "bad" one makes serialize() raise. *)

Text(text)  == [kind |-> "string", text |-> text]
Duration(d) == [kind |-> "duration", span |-> d]
DateTime(t) == [kind |-> "date", time |-> t]
PyInt(n)    == [kind |-> "int", n |-> n]
Bad         == [kind |-> "bad"]

\* An int that says nothing of its type: only its upper bound is looked at.
IntTag(n) == IF n > IntMax THEN "I64" ELSE "I32"

Serialize(v) ==
    CASE v.kind = "string"   -> [tag |-> "S", text |-> SerializeString(v.text)]
      [] v.kind = "duration" -> SerializeDuration(v.span)
      [] v.kind = "date"     -> SerializeDateTime(v.time)
      [] v.kind = "int"      -> [tag |-> IntTag(v.n), n |-> v.n]

\* PSInt(text) and PSInt64(text) check the bounds of their type.
InBounds(e) ==
    LET max == IF e.tag = "I32" THEN IntMax ELSE LongMax
    IN  e.n \in (-max - 1)..max

\* What XML or the reader refuses.
Refused(e) ==
    \/ e.tag = "S" /\ NoXml(e.text)
    \/ e.tag = "DT" /\ ShortYear(e)
    \/ e.tag \in {"I32", "I64"} /\ ~InBounds(e)

Deserialize(e) ==
    IF Refused(e) THEN Error
    ELSE CASE e.tag = "S"  -> Text(DeserializeString(e.text))
           [] e.tag = "TS" -> Duration(DeserializeDuration(e))
           [] e.tag = "DT" -> DateTime(DeserializeDateTime(e))
           [] e.tag \in {"I32", "I64"} -> PyInt(e.n)
=============================================================================
