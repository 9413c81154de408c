------------------------------- MODULE PSTimes -------------------------------
(***************************************************************************)
(* PSDateTime and PSDuration of psrpcore.types._primitive: a Python        *)
(* datetime or timedelta, which goes down to microseconds, and one more    *)
(* field for the nanoseconds below, of which a microsecond has Nanos: 1000 *)
(* in the code.                                                            *)
(***************************************************************************)
EXTENDS Integers

CONSTANT Nanos

ASSUME PSTimesAssumption == Nanos \in Nat \ {0}

\* A PSDuration; micro stands for days, seconds and microseconds of the
\* timedelta, which Python keeps normalised.  A PSDateTime; micro counts from
\* the year 1000 on.
Durations == [micro : Int, nano : 0..(Nanos - 1)]
DateTimes == [micro : Int, nano : 0..(Nanos - 1)]

\* _timedelta_total_nanoseconds; the same number is a PSDateTime's place in time.
TotalNanoseconds(t) == t.nano + t.micro * Nanos

\* PSDuration(nanoseconds = n)
PSDuration(n) == [micro |-> n \div Nanos, nano |-> n % Nanos]

AddDurations(d, e) == PSDuration(TotalNanoseconds(d) + TotalNanoseconds(e))
SubDurations(d, e) == PSDuration(TotalNanoseconds(d) - TotalNanoseconds(e))
Negated(d)         == PSDuration(-TotalNanoseconds(d))

\* Mutant: what is above a microsecond is cut off.
AddToDate_NoCarry(t, d) ==
    [micro |-> t.micro + d.micro, nano |-> (t.nano + d.nano) % Nanos]

\* PSDateTime.__add__: the base class adds the microseconds, and a carry of the
\* nanoseconds is added as a timedelta of its own.
AddToDate(t, d) ==
    LET diff == t.nano + d.nano
    IN  IF diff > Nanos - 1
          THEN [micro |-> t.micro + d.micro + (diff \div Nanos), nano |-> diff % Nanos]
          ELSE [micro |-> t.micro + d.micro, nano |-> diff]

\* PSDateTime.__sub__ of a duration and of a date
SubFromDate(t, d) == AddToDate(t, Negated(d))
Elapsed(t, u) ==
    AddDurations(PSDuration((t.micro - u.micro) * Nanos), PSDuration(t.nano - u.nano))
=============================================================================
