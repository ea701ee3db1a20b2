------------------------------ MODULE MCSsd1306 ------------------------------
EXTENDS Ssd1306

Run(n, c) == [i \in 1..n |-> c]

\* echo of a short line; a line with no newline; a line longer than the display
\* is wide; a full line behind a new line; as many lines as the display has; more
\* characters than it has room for.
SomeTexts == {Run(4, "a") \o <<NL>>, Run(9, "b"), Run(23, "c"),
              Run(12, "d") \o <<NL>> \o Run(12, "e"),
              <<"f", NL, NL, NL, NL, NL, NL, NL, "g", "h">>,
              Run(170, "i")}

TwoLines == {Run(4, "a") \o <<NL>>, Run(2, "b") \o <<NL>>}
=============================================================================
