------------------------------- MODULE Bmp280 -------------------------------
(***************************************************************************)
(* The pressure sensor of 40_bmp280_i2c.  The probe finds the sensor,      *)
(* resets and configures it and sets it measuring; the remove function     *)
(* means to put it to sleep; etx_read takes one measure.  The device file  *)
(* exists before the probe runs, a register is read in two transfers       *)
(* without a lock, any transfer may fail, and a failed write may have      *)
(* reached the sensor in part.  The sensor outlives the module.            *)
(***************************************************************************)
EXTENDS Naturals, Sequences

CONSTANTS Readers,   \* processes that read the device file
          Tries,     \* how often bmp280_init asks for the chip id
          Garbage    \* what other registers may look like as ctrl_meas and config

VARIABLES
  bmpState,   \* "unloaded", "probing", "bound", "unbound" (the probe failed), "removing"
  bmpTodo,    \* the accesses each thread has yet to make
  bmpHalf,    \* the first transfer of a read: not made ("none"), "sent" or "failed"
  bmpMixed,   \* another thread's transfer came after that first one
  bmpTry,     \* try_count
  conf, dev,  \* conf; bmp.conf, and of bmp.calib_param and of ...
  ucomp,      \* ... ucomp_data from which registers they were read, and whether mixed
  temp,       \* what conf_sensor read of the two registers it is going to write
  pointer,    \* in the sensor: the register the next read begins at
  regs        \* in the sensor: ctrl_meas and config

sensorVars == <<bmpState, bmpTodo, bmpHalf, bmpMixed, bmpTry, conf, dev, temp, ucomp,
                pointer, regs>>

Core    == "core"                 \* the thread that runs insmod and rmmod
Threads == Readers \cup {Core}

Modes  == {"sleep", "normal"}
Config == [os_temp : {0, 1}, os_pres : {0, 3}, odr : {0, 5}, filter : {0, 1}]
ResetConfig == [os_temp |-> 0, os_pres |-> 0, odr |-> 0, filter |-> 0]
ResetRegs   == [mode |-> "sleep", config |-> ResetConfig]

ASSUME SensorAssumption == /\ Tries \in Nat \ {0}
                           /\ Garbage \subseteq [mode : Modes, config : Config]
                           /\ Core \notin Readers

\* What the probe asks for: BMP280_OS_4X, BMP280_ODR_1000_MS, BMP280_FILTER_COEFF_2.
Asked(config) == [config EXCEPT !.os_pres = 3, !.odr = 5, !.filter = 1]

NotRead == [from |-> "none", mixed |-> FALSE]

\* A register, or where a read continues after the one it asked for.
Registers == {"id", "calib", "ctrl", "press", "past"}

SensorInit ==
  /\ bmpState = "unloaded"
  /\ bmpTodo = [t \in Threads |-> <<>>]
  /\ bmpHalf = [t \in Threads |-> "none"] /\ bmpMixed = [t \in Threads |-> FALSE]
  /\ bmpTry = 0
  /\ conf = ResetConfig /\ dev = [conf |-> ResetConfig, calib |-> NotRead]
  /\ temp = ResetRegs
  /\ ucomp = NotRead
  /\ pointer = "id" /\ regs = ResetRegs

-----------------------------------------------------------------------------
(* The accesses of each function, in order *)

\* conf_sensor, with the configuration of the caller ("conf") or of the device.
ConfSensor(mode, source) ==
  <<"ctrl", "reset", source>> \o (IF mode = "sleep" THEN <<>> ELSE <<"mode">>)

BmpInit == <<"id", "reset", "calib">>
Probe   == BmpInit \o <<"config">> \o ConfSensor("sleep", "conf")
           \o ConfSensor("normal", "dev.conf") \o <<"press">>
Remove  == ConfSensor("sleep", "dev.conf")

\* i2c_add_driver finds the sensor; the module's variables are new.
LoadSensor ==
  /\ bmpState = "unloaded" /\ bmpState' = "probing"
  /\ bmpTodo' = [bmpTodo EXCEPT ![Core] = Probe]
  /\ bmpTry' = Tries
  /\ conf' = ResetConfig /\ dev' = [conf |-> ResetConfig, calib |-> NotRead]
  /\ temp' = ResetRegs /\ ucomp' = NotRead
  /\ UNCHANGED <<bmpHalf, bmpMixed, pointer, regs>>

\* rmmod is refused while the device file is open; without a bound sensor
\* there is nothing to remove.
UnloadSensor ==
  /\ bmpState \in {"bound", "unbound"}
  /\ \A r \in Readers : bmpTodo[r] = <<>>
  /\ IF bmpState = "bound"
     THEN bmpState' = "removing" /\ bmpTodo' = [bmpTodo EXCEPT ![Core] = Remove]
     ELSE bmpState' = "unloaded" /\ UNCHANGED bmpTodo
  /\ UNCHANGED <<bmpHalf, bmpMixed, bmpTry, conf, dev, temp, ucomp, pointer, regs>>

\* etx_read
ReadSensor(r) ==
  /\ bmpState \in {"probing", "bound", "unbound"} /\ bmpTodo[r] = <<>>
  /\ bmpTodo' = [bmpTodo EXCEPT ![r] = <<"press">>]
  /\ UNCHANGED <<bmpState, bmpHalf, bmpMixed, bmpTry, conf, dev, temp, ucomp, pointer, regs>>

-----------------------------------------------------------------------------
(* How an access ends *)

Doing(t, accesses) == bmpTodo[t] # <<>> /\ Head(bmpTodo[t]) \in accesses

\* The next access of the function; after the last one the function returns.
Goes(t) ==
  /\ bmpTodo' = [bmpTodo EXCEPT ![t] = Tail(@)]
  /\ bmpState' = IF t # Core \/ Len(bmpTodo[t]) > 1 THEN bmpState
                 ELSE IF bmpState = "probing" THEN "bound" ELSE "unloaded"

\* The function gives up; only the probe's caller takes notice.
GivesUp(t) ==
  /\ bmpTodo' = [bmpTodo EXCEPT ![t] = <<>>]
  /\ bmpState' = IF t # Core THEN bmpState
                 ELSE IF bmpState = "probing" THEN "unbound" ELSE "unloaded"

\* Seeded fault: the tries are not counted.
TriesAgainForEver(t) == UNCHANGED <<bmpTodo, bmpState, bmpTry>>

\* No chip id, or a wrong one: again, as long as tries are left.
TriesAgain(t) ==
  /\ bmpTry' = bmpTry - 1
  /\ IF bmpTry = 1 THEN GivesUp(t) ELSE UNCHANGED <<bmpTodo, bmpState>>

-----------------------------------------------------------------------------
(* bmp280_get_regs: i2c_reg_read sends the register's address and then      *)
(* receives, even if the address could not be sent.                         *)

Reads == {"id", "calib", "config", "ctrl", "press"}
Address(access) == IF access = "config" THEN "ctrl" ELSE access

\* A transfer of t falls between the two of every other thread that is reading.
FallsBetween(t) ==
  bmpMixed' = [u \in Threads |-> u # t /\ (bmpMixed[u] \/ bmpHalf[u] # "none")]

SendAddress(t) ==
  /\ Doing(t, Reads) /\ bmpHalf[t] = "none"
  /\ \E sent \in BOOLEAN :
       /\ bmpHalf' = [bmpHalf EXCEPT ![t] = IF sent THEN "sent" ELSE "failed"]
       /\ pointer' \in {Address(Head(bmpTodo[t]))} \cup (IF sent THEN {} ELSE {pointer})
  /\ FallsBetween(t)
  /\ UNCHANGED <<bmpState, bmpTodo, bmpTry, conf, dev, temp, ucomp, regs>>

\* Seeded fault: the second transfer's result replaces the first's.
ResultOfSecond(t, received) == received

\* ret |= i2c_master_recv(...): negative if either transfer failed.
Result(t, received) == received /\ bmpHalf[t] = "sent"

\* The sensor may go on behind the registers it sent.
ReceiveData(t, access, succeeds) ==
  /\ Doing(t, {access}) /\ bmpHalf[t] # "none"
  /\ \E received \in BOOLEAN : succeeds = Result(t, received)
  /\ pointer' \in {pointer, "past"}
  /\ bmpHalf' = [bmpHalf EXCEPT ![t] = "none"]
  /\ FallsBetween(t)
  /\ UNCHANGED regs

\* bmp280_init compares the chip id with three: another register may hold one.
ReadId(t) ==
  \/ /\ ReceiveData(t, "id", TRUE)
     /\ Goes(t)
     /\ UNCHANGED <<bmpTry, conf, dev, temp, ucomp>>
  \/ /\ ReceiveData(t, "id", FALSE) \/ (pointer # "id" /\ ReceiveData(t, "id", TRUE))
     /\ TriesAgain(t)
     /\ UNCHANGED <<conf, dev, temp, ucomp>>

\* What t receives, and whether it is sure to be what it asked for.
Taken(t) == [from |-> pointer, mixed |-> bmpMixed[t]]

\* get_calib_param; bmp280_init then clears the device's configuration.
GetCalibParam(t) ==
  /\ ReceiveData(t, "calib", TRUE)
  /\ dev' = [conf |-> ResetConfig, calib |-> Taken(t)]
  /\ Goes(t)
  /\ UNCHANGED <<bmpTry, conf, temp, ucomp>>

\* Bits read where the pointer is: anywhere but at ctrl_meas they may be any.
ReadAt == IF pointer = "ctrl" THEN {regs} ELSE Garbage

\* bmp280_get_config; the probe then overwrites three of its fields.
GetConfig(t) ==
  /\ ReceiveData(t, "config", TRUE)
  /\ \E read \in ReadAt : /\ conf' = Asked(read.config)
                          /\ dev' = [dev EXCEPT !.conf = read.config]
  /\ Goes(t)
  /\ UNCHANGED <<bmpTry, temp, ucomp>>

ReadCtrl(t) ==
  /\ ReceiveData(t, "ctrl", TRUE)
  /\ temp' \in ReadAt
  /\ Goes(t)
  /\ UNCHANGED <<bmpTry, conf, dev, ucomp>>

\* bmp280_get_uncomp_data: a value out of the range is reported, and kept.
GetUncompData(t) ==
  /\ ReceiveData(t, "press", TRUE)
  /\ ucomp' = Taken(t)
  /\ Goes(t) \/ GivesUp(t)
  /\ UNCHANGED <<bmpTry, conf, dev, temp>>

ReadFails(t) ==
  /\ \E access \in Reads \ {"id"} : ReceiveData(t, access, FALSE)
  /\ GivesUp(t)
  /\ UNCHANGED <<bmpTry, conf, dev, temp, ucomp>>

-----------------------------------------------------------------------------
(* bmp280_set_regs: one transfer, of which a failed one may have done part  *)

\* conf_sensor writes ctrl_meas with the mode bits it read, then config.
Written(config) == [mode |-> temp.mode, config |-> config]
CtrlMeasOnly(config) ==
  [mode |-> temp.mode, config |-> [regs.config EXCEPT !.os_temp = config.os_temp,
                                                      !.os_pres = config.os_pres]]

Source(access) == IF access = "conf" THEN conf ELSE dev.conf

\* What the sensor's registers are after as much of the access as it received.
Effects(access) ==
  CASE access = "reset" -> <<ResetRegs>>
    [] access = "mode"  -> <<[mode |-> "normal", config |-> CtrlMeasOnly(dev.conf).config]>>
    [] access \in {"conf", "dev.conf"} ->
         <<CtrlMeasOnly(Source(access)), Written(Source(access))>>

Writes == {"reset", "conf", "dev.conf", "mode"}

SetRegs(t, succeeds) ==
  /\ Doing(t, Writes)
  /\ LET effects == Effects(Head(bmpTodo[t]))
     IN  IF succeeds
         THEN regs' = effects[Len(effects)] /\ pointer' = "past"
         ELSE \/ UNCHANGED <<regs, pointer>>
              \/ regs' \in {effects[k] : k \in DOMAIN effects} \cup {regs}
                 /\ pointer' = "past"
  /\ FallsBetween(t)
  /\ UNCHANGED <<bmpHalf, bmpTry, conf, temp, ucomp>>

\* conf_sensor keeps the configuration it wrote.
Write(t) ==
  /\ SetRegs(t, TRUE)
  /\ dev' = IF Doing(t, {"conf"}) THEN [dev EXCEPT !.conf = conf] ELSE dev
  /\ Goes(t)

\* Seeded fault: the result of the write is not looked at.
WriteFailsUnseen(t) == SetRegs(t, FALSE) /\ Goes(t) /\ UNCHANGED dev

WriteFails(t) == SetRegs(t, FALSE) /\ GivesUp(t) /\ UNCHANGED dev

Access(t) ==
  \/ SendAddress(t)
  \/ ReadId(t) \/ GetCalibParam(t) \/ GetConfig(t) \/ ReadCtrl(t) \/ GetUncompData(t)
  \/ ReadFails(t)
  \/ Write(t) \/ WriteFails(t)

SensorNext ==
  \/ LoadSensor \/ UnloadSensor
  \/ \E r \in Readers : ReadSensor(r)
  \/ \E t \in Threads : Access(t)

SensorSpec == SensorInit /\ [][SensorNext]_sensorVars

-----------------------------------------------------------------------------
(* Properties *)

\* Whatever failed before, whatever the registers held from an earlier load and
\* whatever readers did meanwhile: once the probe has succeeded the sensor is
\* measuring with the configuration the probe asked for, and bmp.conf is what
\* its registers hold.
ProbedSensorMeasures ==
  bmpState = "bound" => /\ regs.mode = "normal"
                        /\ regs.config = Asked(regs.config)
                        /\ dev.conf = regs.config

\* A measure or a calibration taken from other registers than its own was taken
\* by a thread whose two transfers another one's fell between: no failed
\* transfer alone passes for one.
MeasuresAreGenuine ==
  /\ ucomp.from \in {"none", "press"} \/ ucomp.mixed
  /\ dev.calib.from \in {"none", "calib"} \/ dev.calib.mixed

\* The probe and the remove function end however often the bus fails.
SensorCoreReturns == bmpTodo[Core] # <<>> ~> bmpTodo[Core] = <<>>
=============================================================================
