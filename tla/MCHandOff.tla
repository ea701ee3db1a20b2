------------------------------ MODULE MCHandOff ------------------------------
(***************************************************************************)
(* Drivers whose read wakes somebody up: a kernel thread that waits, or a  *)
(* process that registered for a signal.  A behaviour is of one of the     *)
(* two, as `chosen` says.                                                  *)
(***************************************************************************)
EXTENDS HandOff, Signal, TLC

CONSTANTS r1, r2, t1, t2, c1, c2
TwoReaders == {r1, r2}
TwoTasks   == {t1, t2}
TwoCats    == {c1, c2}

VARIABLE chosen

handOffVars == vars
allVars     == <<handOffVars, signalVars, chosen>>

MCInit == Init /\ SignalInit /\ chosen \in {"thread", "signal"}

OfTheThread == chosen = "thread" /\ UNCHANGED <<signalVars, chosen>>
OfTheSignal == chosen = "signal" /\ UNCHANGED <<handOffVars, chosen>>

MCNext == (OfTheThread /\ Next) \/ (OfTheSignal /\ SignalNext)

\* The fairness of HandOff!FairSpec.
MCSpec == /\ MCInit /\ [][MCNext]_allVars
          /\ WF_allVars(OfTheThread /\ WaitFunction)
          /\ WF_allVars(OfTheThread /\ DriverExit)
          /\ \A r \in Readers : WF_allVars(OfTheThread /\ EtxRead(r))
=============================================================================
