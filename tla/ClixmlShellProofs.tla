-------------------------- MODULE ClixmlShellProofs --------------------------
(***************************************************************************)
(* The arithmetic of PSTimes is exact to the nanosecond, and what it gives *)
(* is normalised, whatever number of nanoseconds a microsecond has.        *)
(* ClockExact of ClixmlShell follows for every Start and all Steps: the    *)
(* time is a PSDateTime that has gone forward and back by exactly what the *)
(* program asked for.                                                      *)
(***************************************************************************)
EXTENDS ClixmlShell, TLAPS

\* What div and mod of a positive divisor are.
LEMMA DivMod ==
    ASSUME NEW n \in Int
    PROVE  /\ n \div Nanos \in Int
           /\ n % Nanos \in 0..(Nanos - 1)
           /\ n = (n % Nanos) + (n \div Nanos) * Nanos
BY PSTimesAssumption

\* PSDuration(nanoseconds = n) is normalised and n nanoseconds long.
LEMMA PSDurationExact ==
    ASSUME NEW n \in Int
    PROVE  PSDuration(n) \in Durations /\ TotalNanoseconds(PSDuration(n)) = n
BY DivMod DEF PSDuration, Durations, TotalNanoseconds

LEMMA TotalIsInt ==
    ASSUME NEW t \in Durations
    PROVE  TotalNanoseconds(t) \in Int
BY PSTimesAssumption DEF Durations, TotalNanoseconds

\* The sum, the difference and the negative of durations.
THEOREM DurationsExact ==
    ASSUME NEW d \in Durations, NEW e \in Durations
    PROVE  /\ AddDurations(d, e) \in Durations
           /\ SubDurations(d, e) \in Durations
           /\ Negated(d) \in Durations
           /\ TotalNanoseconds(AddDurations(d, e)) = TotalNanoseconds(d) + TotalNanoseconds(e)
           /\ TotalNanoseconds(SubDurations(d, e)) = TotalNanoseconds(d) - TotalNanoseconds(e)
           /\ TotalNanoseconds(Negated(d)) = -TotalNanoseconds(d)
<1> DEFINE D == TotalNanoseconds(d)  E == TotalNanoseconds(e)
<1>1. D \in Int /\ E \in Int  BY TotalIsInt
<1>2. D + E \in Int /\ D - E \in Int /\ -D \in Int  BY <1>1
<1>3. PSDuration(D + E) \in Durations /\ TotalNanoseconds(PSDuration(D + E)) = D + E
  BY <1>2, PSDurationExact
<1>4. PSDuration(D - E) \in Durations /\ TotalNanoseconds(PSDuration(D - E)) = D - E
  BY <1>2, PSDurationExact
<1>5. PSDuration(-D) \in Durations /\ TotalNanoseconds(PSDuration(-D)) = -D
  BY <1>2, PSDurationExact
<1> QED  BY <1>3, <1>4, <1>5 DEF AddDurations, SubDurations, Negated

\* Nanoseconds of a sum of microseconds.
LEMMA Distribute ==
    ASSUME NEW a \in Int, NEW b \in Int, NEW c \in Int
    PROVE  /\ (a + b) * Nanos = a * Nanos + b * Nanos
           /\ (a + b + c) * Nanos = a * Nanos + b * Nanos + c * Nanos
           /\ a * Nanos \in Int
<1>1. Nanos \in Int  BY PSTimesAssumption
<1>2. (a + b) * Nanos = a * Nanos + b * Nanos  BY <1>1
<1>3. ((a + b) + c) * Nanos = (a + b) * Nanos + c * Nanos  BY <1>1
<1> QED  BY <1>1, <1>2, <1>3

\* A date and a duration: PSDateTime.__add__ loses no nanosecond and carries
\* what does not fit in the field.
THEOREM AddToDateExact ==
    ASSUME NEW t \in DateTimes, NEW d \in Durations
    PROVE  /\ AddToDate(t, d) \in DateTimes
           /\ TotalNanoseconds(AddToDate(t, d)) = TotalNanoseconds(t) + TotalNanoseconds(d)
<1>1. PICK a \in Int, m \in 0..(Nanos - 1) : t = [micro |-> a, nano |-> m]
  BY DEF DateTimes
<1>2. PICK b \in Int, n \in 0..(Nanos - 1) : d = [micro |-> b, nano |-> n]
  BY DEF Durations
<1>3. m \in Int /\ n \in Int /\ m + n \in Nat /\ Nanos \in Nat /\ a + b \in Int
  BY PSTimesAssumption
<1>4. /\ TotalNanoseconds(t) = m + a * Nanos
      /\ TotalNanoseconds(d) = n + b * Nanos
  BY <1>1, <1>2 DEF TotalNanoseconds
<1>5. CASE m + n > Nanos - 1
  <2>1. PICK q \in Int, r \in 0..(Nanos - 1) :
           q = (m + n) \div Nanos /\ r = (m + n) % Nanos /\ m + n = r + q * Nanos
    BY <1>3, DivMod
  <2>2. AddToDate(t, d) = [micro |-> a + b + q, nano |-> r]
    BY <1>1, <1>2, <1>5, <2>1 DEF AddToDate
  <2>3. AddToDate(t, d) \in DateTimes  BY <1>3, <2>1, <2>2 DEF DateTimes
  <2>4. TotalNanoseconds(AddToDate(t, d)) = r + (a + b + q) * Nanos
    BY <2>2 DEF TotalNanoseconds
  <2>5. TotalNanoseconds(AddToDate(t, d)) = r + (a * Nanos + b * Nanos + q * Nanos)
    BY <2>4, Distribute
  <2>6. a * Nanos \in Int /\ b * Nanos \in Int /\ q * Nanos \in Int  BY Distribute
  <2>7. TotalNanoseconds(AddToDate(t, d)) = (m + a * Nanos) + (n + b * Nanos)
    <3> DEFINE A == a * Nanos  B == b * Nanos  Q == q * Nanos
    <3>1. /\ A \in Int /\ B \in Int /\ Q \in Int /\ m + n = r + Q
          /\ TotalNanoseconds(AddToDate(t, d)) = r + (A + B + Q)
      BY <2>1, <2>5, <2>6
    <3> HIDE DEF A, B, Q
    <3>2. TotalNanoseconds(AddToDate(t, d)) = (m + A) + (n + B)  BY <1>3, <2>1, <3>1
    <3> QED  BY <3>2 DEF A, B
  <2> QED  BY <1>4, <2>3, <2>7
<1>6. CASE ~(m + n > Nanos - 1)
  <2>1. AddToDate(t, d) = [micro |-> a + b, nano |-> m + n]
    BY <1>1, <1>2, <1>6 DEF AddToDate
  <2>2. m + n \in 0..(Nanos - 1)  BY <1>3, <1>6
  <2>3. AddToDate(t, d) \in DateTimes  BY <1>3, <2>1, <2>2 DEF DateTimes
  <2>4. TotalNanoseconds(AddToDate(t, d)) = (m + n) + (a * Nanos + b * Nanos)
    BY <2>1, Distribute DEF TotalNanoseconds
  <2>5. a * Nanos \in Int /\ b * Nanos \in Int  BY Distribute
  <2> DEFINE A == a * Nanos  B == b * Nanos
  <2>6. A \in Int /\ B \in Int  BY <2>5
  <2> HIDE DEF A, B
  <2>7. (m + n) + (A + B) = (m + A) + (n + B)  BY <1>3, <2>6
  <2> QED  BY <1>4, <2>3, <2>4, <2>7 DEF A, B
<1> QED  BY <1>5, <1>6

\* PSDateTime.__sub__ of a duration adds its negative.
THEOREM SubFromDateExact ==
    ASSUME NEW t \in DateTimes, NEW d \in Durations
    PROVE  /\ SubFromDate(t, d) \in DateTimes
           /\ TotalNanoseconds(SubFromDate(t, d)) = TotalNanoseconds(t) - TotalNanoseconds(d)
<1>1. Negated(d) \in Durations /\ TotalNanoseconds(Negated(d)) = -TotalNanoseconds(d)
  BY DurationsExact
<1>2. /\ AddToDate(t, Negated(d)) \in DateTimes
      /\ TotalNanoseconds(AddToDate(t, Negated(d)))
           = TotalNanoseconds(t) + TotalNanoseconds(Negated(d))
  BY <1>1, AddToDateExact
<1>3. TotalNanoseconds(t) \in Int /\ TotalNanoseconds(d) \in Int
  BY TotalIsInt DEF DateTimes, Durations
<1> QED  BY <1>1, <1>2, <1>3 DEF SubFromDate

\* PSDateTime.__sub__ of a date.
THEOREM ElapsedExact ==
    ASSUME NEW t \in DateTimes, NEW u \in DateTimes
    PROVE  /\ Elapsed(t, u) \in Durations
           /\ TotalNanoseconds(Elapsed(t, u)) = TotalNanoseconds(t) - TotalNanoseconds(u)
<1>1. /\ t.micro \in Int /\ t.nano \in Int /\ u.micro \in Int /\ u.nano \in Int
      /\ Nanos \in Int
  BY PSTimesAssumption DEF DateTimes
<1>2. (t.micro - u.micro) * Nanos \in Int /\ t.nano - u.nano \in Int  BY <1>1
<1>3. /\ PSDuration((t.micro - u.micro) * Nanos) \in Durations
      /\ TotalNanoseconds(PSDuration((t.micro - u.micro) * Nanos)) = (t.micro - u.micro) * Nanos
  BY <1>2, PSDurationExact
<1>4. /\ PSDuration(t.nano - u.nano) \in Durations
      /\ TotalNanoseconds(PSDuration(t.nano - u.nano)) = t.nano - u.nano
  BY <1>2, PSDurationExact
<1>5. /\ Elapsed(t, u) \in Durations
      /\ TotalNanoseconds(Elapsed(t, u)) = (t.micro - u.micro) * Nanos + (t.nano - u.nano)
  BY <1>3, <1>4, DurationsExact DEF Elapsed
<1>6. (t.micro - u.micro) * Nanos = t.micro * Nanos - u.micro * Nanos  BY <1>1
<1> QED  BY <1>1, <1>5, <1>6 DEF TotalNanoseconds
-----------------------------------------------------------------------------
\* The inductive invariant: the time is also normalised, which a step relies on
\* to carry at most once.
ClockInv ==
    /\ time \in DateTimes
    /\ TotalNanoseconds(time) = now

LEMMA ClockInit == Init => ClockInv
BY ClixmlShellAssumption DEF Init, ClockInv

LEMMA ClockStep == ClockInv /\ [Next]_vars => ClockInv'
<1> SUFFICES ASSUME ClockInv, [Next]_vars
             PROVE  ClockInv'
  OBVIOUS
<1>1. CASE UNCHANGED clockVars
  BY <1>1 DEF ClockInv, clockVars
<1>2. ASSUME NEW d \in Steps, Wait(d)
      PROVE  ClockInv'
  <2>1. d \in Durations  BY ClixmlShellAssumption
  <2>2. time \in DateTimes /\ TotalNanoseconds(time) = now  BY DEF ClockInv
  <2>3. CASE time' = AddToDate(time, d) /\ now' = now + TotalNanoseconds(d)
    BY <2>1, <2>2, <2>3, AddToDateExact DEF ClockInv
  <2>4. CASE time' = SubFromDate(time, d) /\ now' = now - TotalNanoseconds(d)
    BY <2>1, <2>2, <2>4, SubFromDateExact DEF ClockInv
  <2> QED  BY <1>2, <2>3, <2>4 DEF Wait
<1>3. ASSUME NEW v, NEW s, Write(v, s)
      PROVE  UNCHANGED clockVars
  BY <1>3 DEF Write, clockVars
<1>4. write_output => UNCHANGED clockVars
  BY <1>3 DEF write_output
<1>5. write_message => UNCHANGED clockVars
  BY <1>3 DEF write_message
<1>6. ASSUME NEW source \in Sources, data_to_send(source)
      PROVE  UNCHANGED clockVars
  BY <1>6 DEF data_to_send, clockVars
<1>7. from_clixml => UNCHANGED clockVars
  BY DEF from_clixml, clockVars
<1>8. UNCHANGED vars => UNCHANGED clockVars
  BY DEF vars, clockVars
<1> QED  BY <1>1, <1>2, <1>4, <1>5, <1>6, <1>7, <1>8 DEF Next

\* However often the program sets its time forward and back (PSDateTime.__add__
\* and __sub__), the time and its distance from Start are exact.
THEOREM ClockIsExact == Spec => []ClockExact
<1>1. ClockInv => ClockExact
  <2> SUFFICES ASSUME ClockInv
               PROVE  ClockExact
    OBVIOUS
  <2>1. time \in DateTimes /\ Start \in DateTimes  BY ClixmlShellAssumption DEF ClockInv
  <2>2. TotalNanoseconds(Elapsed(time, Start)) = TotalNanoseconds(time) - TotalNanoseconds(Start)
    BY <2>1, ElapsedExact
  <2> QED  BY <2>2 DEF ClockInv, ClockExact
<1> QED  BY <1>1, ClockInit, ClockStep, PTL DEF Spec
=============================================================================
