------------------------------ MODULE MCI2cBus ------------------------------
(* What 31 and 40 put on an I2C bus: the bus itself, edge by edge, and    *)
(* the registers of a sensor, transfer by transfer.  A behaviour is of one   *)
(* of the two, as `chosen` says.                                             *)
EXTENDS I2cBus, Bmp280

(* A slave at 0x3C and one address nobody answers to; bytes that end in 0    *)
(* and in 1, alone, in pairs, and in two messages; the slave's own address   *)
(* byte (120) in each place, the one where it can be mistaken included.      *)
Messages(addr, bufs) == {[addr |-> addr, buf |-> b] : b \in bufs}

SomeTransfers ==
  LET One == Messages(60, {<<>>, <<165>>, <<64, 174>>, <<165, 64>>, <<64, 165>>, <<165, 165, 64>>,
                           <<120>>, <<64, 120>>, <<165, 120, 64>>})
             \cup Messages(29, {<<>>, <<165>>})
      Two == Messages(60, {<<64>>, <<165>>}) \X Messages(61, {<<165>>, <<64, 165>>})
  IN  {<<m>> : m \in One} \cup Two

(* Registers that differ from one another and from the reset and from what   *)
(* the probe asks for.                                                       *)
SomeGarbage ==
  {[mode |-> "normal", config |-> [os_temp |-> 1, os_pres |-> 3, odr |-> 0, filter |-> 1]],
   [mode |-> "sleep", config |-> [os_temp |-> 0, os_pres |-> 0, odr |-> 5, filter |-> 0]]}

VARIABLE chosen

busVars == vars
allVars == <<busVars, sensorVars, chosen>>

MCInit == Init /\ SensorInit /\ chosen \in {"bus", "sensor"}

OfTheBus    == chosen = "bus" /\ UNCHANGED <<sensorVars, chosen>>
OfTheSensor == chosen = "sensor" /\ UNCHANGED <<busVars, chosen>>

MCNext == (OfTheBus /\ Next) \/ (OfTheSensor /\ SensorNext)

MCSpec == MCInit /\ [][MCNext]_allVars /\ WF_allVars(OfTheSensor /\ Access(Core))
=============================================================================
