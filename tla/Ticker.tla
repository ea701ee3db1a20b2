------------------------------- MODULE Ticker -------------------------------
(***************************************************************************)
(* What the counting-thread drivers promise the reader of their log, in an *)
(* unsigned word of W values: a line follows each count, and shows no less *)
(* than its own number and no more than has been counted.  A lock around   *)
(* both lets one count at most be ahead of the log, so that the n-th line  *)
(* shows exactly n.                                                        *)
(***************************************************************************)
EXTENDS Naturals

CONSTANT W      \* number of values of the counter's C type

VARIABLES ahead,    \* how many counts may be ahead of the log
          count,    \* what has been counted (mod W)
          lines,    \* how many lines have been logged (mod W)
          printed   \* the value shown by the last of them

vars == <<ahead, count, lines, printed>>

Init == ahead \in 1..(W - 1) /\ count = 0 /\ lines = 0 /\ printed = 0

\* How far the word n is ahead of the word m.
Ahead(n, m) == IF n < m THEN n + W - m ELSE n - m

Due == Ahead(count, lines)

Count == /\ Due < ahead
         /\ count' = (count + 1) % W
         /\ UNCHANGED <<ahead, lines, printed>>

Tick == /\ printed' \in 0..(W - 1) /\ Ahead(printed', lines) \in 1..Due
        /\ lines' = (lines + 1) % W
        /\ UNCHANGED <<ahead, count>>

Spec == Init /\ [][Count \/ Tick]_vars
=============================================================================
