-------------------------- MODULE MCExclusiveDevice --------------------------
(***************************************************************************)
(* Device files that several processes have open: the ioctl device of      *)
(* lkmpg, and the drivers that keep a text.  A behaviour is of one of the  *)
(* two, as `chosen` says.                                                  *)
(***************************************************************************)
EXTENDS ExclusiveDevice, TextDevice

\* Two processes, a text that fits message and one that is cut off.
CONSTANTS a, b
ShortAndLong == {<<b>>, <<a, a, a>>}
AllOps == {"read", "write", "set", "get", "nth"}

\* A text that leaves room in the buffer, one that fills it, and one that is cut off.
OneToThree == {<<1>>, <<2, 2>>, <<2, 1, 1>>}

VARIABLE chosen

ioctlVars == vars
allVars   == <<ioctlVars, textVars, chosen>>

MCInit == Init /\ TextInit /\ chosen \in {"ioctl", "text"}
          /\ (chosen = "ioctl" => driver = "chardev")

OfTheIoctl == chosen = "ioctl" /\ UNCHANGED <<textVars, chosen>>
OfTheText  == chosen = "text" /\ UNCHANGED <<ioctlVars, chosen>>

MCNext == (OfTheIoctl /\ Next) \/ (OfTheText /\ TextNext)

MCSpec == MCInit /\ [][MCNext]_allVars
=============================================================================
