---------------------------- MODULE MCClixmlShell ----------------------------
(* Values for ClixmlShell: strings of pieces that matter to the escapes, and  *)
(* durations on both sides of every unit.                                     *)
EXTENDS ClixmlShell

\* "_", "x", "X", "x005F_", "_x0041_", a control character, U+1F3B5, the halves
\* of its surrogate pair, and "00"
Pieces == {<<95>>, <<120>>, <<88>>, <<120, 48, 48, 53, 70, 95>>,
           <<95, 120, 48, 48, 52, 49, 95>>, <<10>>, <<127925>>, <<55356>>, <<57269>>}

\* A surrogate that is not escaped, and a text that looks like an escape at an
\* odd byte.
Unsupported == {<<55722>>, <<16640, 24320, 30720, 12288, 12288, 12288, 12288, 24320>>}

MCTexts == {a \o b : a, b \in Pieces} \union Pieces \union {<<>>} \union Unsupported
MCMessages == {<<95, 120>>, <<10>>}

MCSteps == {PSDuration(99), PSDuration(-86406007)}

\* In ticks of ten nanoseconds, a hundred to a second, and four nanoseconds more.
MCTicks == {0, 1, 10, 105, 900, 5905, 6000, 36000 * 10, 366100, 8640000, 8640001, 9006100}
MCSpans ==
    {PSDuration(10 * n) : n \in MCTicks} \union {PSDuration(-10 * n) : n \in MCTicks}
        \union {PSDuration(4), PSDuration(-4), PSDuration(10000)}
        \union MCSteps

MCNumbers == {-129, -128, 127, 128, 1000}
MCStart   == [micro |-> 5, nano |-> 7]
=============================================================================
