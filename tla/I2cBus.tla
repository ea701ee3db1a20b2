------------------------------- MODULE I2cBus -------------------------------
(***************************************************************************)
(* The bit-banged I2C bus of 31_real_i2c_bus_driver: etx_i2c_xfer drives   *)
(* the two GPIO pins of the bus one edge at a time, and a slave on the     *)
(* other end makes bytes of the edges it sees.  The pins are driven high   *)
(* as well as low, so a slave that acknowledges may meet a pin that still  *)
(* holds the last bit.                                                     *)
(***************************************************************************)
EXTENDS Naturals, Sequences

CONSTANTS SlaveAddr,   \* the address the slave answers to
          Transfers,   \* what etx_i2c_xfer is called with: sequences of messages
                       \* [addr, buf]
          MaxXfers     \* bound on the number of transfers in a behaviour

VARIABLES
  pc,          \* where etx_i2c_xfer is
  gpio,        \* the pin operations it has yet to make before it goes on
  msgs, i, num, ret,  \* its argument, its counters and its result
  nack,        \* what ETX_I2C_Read_NACK_ACK read
  scl, sda,    \* the levels of the two wires
  out,         \* what the SDA pin does: drives "low", drives "high", or "in"
  pulls,       \* the slave holds SDA low
  state,       \* the slave: "idle", or in an "addr" or "data" byte, or "deaf"
  n, shift,    \* ... how many clocks of the byte it saw, and the bits in them
  received,    \* ... the data bytes it took in this transfer
  xfers        \* how many transfers were begun

master == <<msgs, i, num, ret>>
slave  == <<pulls, state, n, shift, received>>
vars   == <<pc, gpio, master, nack, scl, sda, out, slave, xfers>>

ASSUME BusAssumption ==
  /\ SlaveAddr \in 0..127
  /\ \A ms \in Transfers : /\ ms \in Seq([addr : 0..127, buf : Seq(0..255)])
                           /\ Len(ms) \in {1, 2}

Init ==
  /\ pc = "idle" /\ gpio = <<>>
  /\ msgs = <<>> /\ i = 1 /\ num = 0 /\ ret = 0
  /\ nack = FALSE
  /\ scl = 1 /\ sda = 1 /\ out = "in"         \* both wires are pulled up
  /\ pulls = FALSE /\ state = "idle" /\ n = 0 /\ shift = 0 /\ received = <<>>
  /\ xfers = 0

-----------------------------------------------------------------------------
(* The wires, and the slave that watches them *)

\* The level of SDA; against each other the pin and the slave may come to either.
Level(drive, held) ==
  CASE drive = "low"               -> {0}
    [] drive = "high" /\ held      -> {0, 1}
    [] drive = "in" /\ held        -> {0}
    [] drive # "low" /\ ~held      -> {1}

\* SDA changes: while SCL is high that is a START or a STOP.
SdaBecomes(drive) ==
  /\ out' = drive
  /\ sda' \in Level(drive, pulls)
  /\ IF scl = 0 \/ sda' = sda
     THEN UNCHANGED slave
     ELSE /\ state' = IF sda' = 0 THEN "addr" ELSE "idle"
          /\ n' = 0 /\ shift' = 0
          /\ UNCHANGED <<pulls, received>>
  /\ UNCHANGED scl

\* The slave samples SDA when SCL rises ...
SclRises ==
  /\ scl' = 1
  /\ sda' \in Level(out, pulls)
  /\ IF scl = 1 \/ state \in {"idle", "deaf"}
     THEN UNCHANGED <<n, shift>>
     ELSE n' = n + 1 /\ shift' = IF n < 8 THEN 2 * shift + sda' ELSE shift
  /\ UNCHANGED <<out, pulls, state, received>>

\* ... and when SCL falls after the eighth bit it acknowledges its address and
\* the data it has room for.
SlaveAnswers(accepts) ==
  /\ accepts => state = "data" \/ shift = 2 * SlaveAddr
  /\ pulls' = accepts
  /\ state' = IF accepts THEN "data" ELSE "deaf"
  /\ received' = IF accepts /\ state = "data" THEN Append(received, shift) ELSE received
  /\ UNCHANGED <<n, shift>>

SclFalls ==
  /\ scl' = 0
  /\ \/ /\ state \in {"addr", "data"} /\ n = 8
        /\ \E accepts \in BOOLEAN : SlaveAnswers(accepts)
     \/ /\ ~(state \in {"addr", "data"} /\ n = 8)
        /\ pulls' = FALSE
        /\ IF n = 9 THEN n' = 0 /\ shift' = 0 ELSE UNCHANGED <<n, shift>>
        /\ UNCHANGED <<state, received>>
  /\ sda' \in Level(out, pulls')
  /\ UNCHANGED out

-----------------------------------------------------------------------------
(* The pin operations *)

SDA(level) == [pin |-> "SDA", level |-> level]
SCL(level) == [pin |-> "SCL", level |-> level]
Level1(b)  == IF b = 1 THEN "high" ELSE "low"

Gpio(pin, levels) ==
  gpio # <<>> /\ Head(gpio).pin = pin /\ Head(gpio).level \in levels /\ gpio' = Tail(gpio)

\* ETX_I2C_Set_SDA, ETX_I2C_Clear_SDA
DriveSDA ==
  /\ Gpio("SDA", {"low", "high"})
  /\ SdaBecomes(Head(gpio).level)
  /\ UNCHANGED <<pc, master, nack, xfers>>

\* ETX_I2C_Read_SDA makes the pin an input only now, while SCL is high.
ReadSDA ==
  /\ Gpio("SDA", {"in"})
  /\ SdaBecomes("in") /\ nack' = (sda' = 1)
  /\ UNCHANGED <<pc, master, xfers>>

\* ETX_I2C_Set_SCL
SetSCL ==
  /\ Gpio("SCL", {"high"})
  /\ SclRises
  /\ UNCHANGED <<pc, master, nack, xfers>>

\* ETX_I2C_Clear_SCL
ClearSCL ==
  /\ Gpio("SCL", {"low"})
  /\ SclFalls
  /\ UNCHANGED <<pc, master, nack, xfers>>

Sart == <<SDA("high"), SCL("high"), SDA("low"), SCL("low")>>   \* the code's spelling

\* Seeded fault: SDA is not brought low first.
StopFromHigh == <<SCL("high"), SDA("high"), SCL("low")>>

Stop == <<SDA("low"), SCL("high"), SDA("high"), SCL("low")>>

\* The eight bits of a byte, the most significant first, each with its clock.
Bits(byte) ==
  [k \in 1..24 |-> LET bit == (byte \div 2 ^ (7 - (k - 1) \div 3)) % 2
                   IN  <<SDA(Level1(bit)), SCL("high"), SCL("low")>>[((k - 1) % 3) + 1]]

ReadNackAck == <<SCL("high"), SDA("in"), SCL("low")>>

-----------------------------------------------------------------------------
(* etx_i2c_xfer *)

Goto(from, to) == gpio = <<>> /\ pc = from /\ pc' = to

\* ETX_I2C_Init claims the pins and drives both high, or fails.
Xfer(ms) ==
  /\ xfers < MaxXfers /\ xfers' = xfers + 1
  /\ msgs' = ms /\ i' = 1 /\ num' = 0 /\ ret' = 0
  /\ received' = <<>>
  /\ \/ Goto("idle", "message") /\ gpio' = <<SCL("high"), SDA("high")>> \o Sart
     \/ Goto("idle", "deinit") /\ gpio' = Stop
  /\ UNCHANGED <<nack, scl, sda, out, pulls, state, n, shift>>

\* ETX_I2C_Send_Addr: the seven bits of the address and the write bit.
SendAddr ==
  /\ i <= Len(msgs)
  /\ Goto("message", "ack")
  /\ gpio' = Bits(2 * msgs[i].addr) \o ReadNackAck
  /\ UNCHANGED <<master, nack, scl, sda, out, slave, xfers>>

SendByte ==
  /\ Goto("ack", "ack") /\ ~nack
  /\ num < Len(msgs[i].buf)
  /\ num' = num + 1
  /\ gpio' = Bits(msgs[i].buf[num + 1]) \o ReadNackAck
  /\ UNCHANGED <<msgs, i, ret, nack, scl, sda, out, slave, xfers>>

\* Seeded fault: what ETX_I2C_Send_Byte returns is not looked at.
MessageSentUnasked ==
  /\ Goto("ack", "message")
  /\ num = Len(msgs[i].buf)
  /\ i' = i + 1 /\ num' = 0 /\ ret' = ret + 1
  /\ UNCHANGED <<gpio, msgs, nack, scl, sda, out, slave, xfers>>

MessageSent ==
  /\ Goto("ack", "message") /\ ~nack
  /\ num = Len(msgs[i].buf)
  /\ i' = i + 1 /\ num' = 0 /\ ret' = ret + 1
  /\ UNCHANGED <<gpio, msgs, nack, scl, sda, out, slave, xfers>>

Abort ==
  /\ Goto("ack", "deinit") /\ nack
  /\ ret' = 0
  /\ gpio' = Stop
  /\ UNCHANGED <<msgs, i, num, nack, scl, sda, out, slave, xfers>>

AllSent ==
  /\ i > Len(msgs)
  /\ Goto("message", "deinit")
  /\ gpio' = Stop
  /\ UNCHANGED <<master, nack, scl, sda, out, slave, xfers>>

\* ETX_I2C_DeInit gives the pins back; they keep their levels.
DeInit ==
  /\ Goto("deinit", "idle")
  /\ UNCHANGED <<gpio, master, nack, scl, sda, out, slave, xfers>>

Next ==
  \/ DriveSDA \/ ReadSDA \/ SetSCL \/ ClearSCL
  \/ (\E ms \in Transfers : Xfer(ms))
  \/ SendAddr \/ SendByte \/ MessageSent \/ Abort \/ AllSent \/ DeInit

Spec == Init /\ [][Next]_vars

-----------------------------------------------------------------------------
(* Properties *)

\* What follows the first address on the wire: no START is repeated between
\* messages, so the address of a second one arrives as data.
Payload(ms) == LET Rest(m) == <<2 * m.addr>> \o m.buf
               IN  IF Len(ms) = 1 THEN ms[1].buf ELSE ms[1].buf \o Rest(ms[2])

\* A byte that ends in 1 leaves SDA driven high into its acknowledgement, and when
\* ETX_I2C_Read_SDA lets go of the pin the slave may see a START.  It takes the
\* byte behind it for an address, and its own it would acknowledge and not keep.
Mistakable(ms) ==
  \E k \in 2..Len(Payload(ms)) :
    Payload(ms)[k] = 2 * SlaveAddr /\ Payload(ms)[k - 1] % 2 = 1

\* Whatever the slave refuses and whatever its acknowledgements meet on the wire,
\* it takes the bytes in order, none twice and none changed, and etx_i2c_xfer
\* reports success exactly if it took them all, unless one is mistakable.
ReportedAsReceived ==
  msgs # <<>> /\ ~Mistakable(msgs) =>
    /\ Len(received) <= Len(Payload(msgs))
    /\ received = SubSeq(Payload(msgs), 1, Len(received))
    /\ pc = "idle" /\ ret = Len(msgs) => received = Payload(msgs)
    /\ pc = "idle" /\ received = Payload(msgs) /\ received # <<>> => ret = Len(msgs)

\* However a transfer ended, nothing is left on the bus that the next one could
\* stumble over: the slave saw a STOP and lets go of SDA.
BusIsReleased == pc = "idle" => state = "idle" /\ ~pulls /\ sda = 1 /\ n = 0
=============================================================================
