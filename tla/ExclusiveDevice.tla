--------------------------- MODULE ExclusiveDevice ---------------------------
(***************************************************************************)
(* The character device of lkmpg_book/06_chardev_ioctl/chardev2.c.  Its    *)
(* ioctl is guarded by the flag already_open, which atomic_cmpxchg sets    *)
(* and atomic_set clears: a second caller is turned away with -EBUSY, a    *)
(* call that changes nothing here.  read and write reach the same buffer   *)
(* byte by byte and never look at the flag.                                *)
(*                                                                         *)
(* A file's position is moved by read alone (the driver has no llseek).    *)
(* IOCTL_GET_NTH_BYTE only returns a byte; its index is not modelled.      *)
(***************************************************************************)
EXTENDS Integers, Sequences

CONSTANTS Procs,     \* processes that have the device open
          BUF_LEN,   \* message has BUF_LEN + 1 bytes
          NUL,       \* the terminating byte
          Chars,     \* the other bytes
          Texts,     \* what the processes write
          Lengths,   \* the sizes they read with
          Ops        \* the calls they make

ASSUME BufLenAssumption  == BUF_LEN \in Nat \ {0}
ASSUME NulAssumption     == NUL \notin Chars
ASSUME TextsAssumption   == Texts \subseteq Seq(Chars)
ASSUME LengthsAssumption == Lengths \subseteq Nat \ {0}
ASSUME OpsAssumption     == Ops \subseteq {"read", "write", "set", "get", "nth"}

VARIABLES
  message,       \* the message the device will give when asked
  already_open,  \* whether the flag is CDEV_EXCLUSIVE_OPEN
  pc,            \* where each process is: "user" | "writing" | "reading" | "leaving"
  op,            \* the call it is in, or "none"
  text,          \* the text it writes
  limit,         \* the number of bytes it was asked to copy
  pos,           \* the index of the next byte it copies
  got,           \* what it has read
  offset,        \* the position of its file
  lastSet,       \* history: the text of the last completed IOCTL_SET_MSG
  raw            \* history: write(2) was called, which ignores the flag

vars == <<message, already_open, pc, op, text, limit, pos, got, offset, lastSet, raw>>

\* The bytes of message, and one more that lies behind it.
Indices == 0..(BUF_LEN + 1)
Bytes   == Chars \cup {NUL}

Truncated(t) == SubSeq(t, 1, IF Len(t) < BUF_LEN THEN Len(t) ELSE BUF_LEN)
ByteAt(t, i) == IF i < Len(t) THEN t[i + 1] ELSE NUL

Exclusive == {"set", "get", "nth"}
Inside(p) == op[p] \in Exclusive

TypeOK ==
  /\ message \in [Indices -> Bytes]
  /\ already_open \in BOOLEAN
  /\ pc \in [Procs -> {"user", "writing", "reading", "leaving"}]
  /\ op \in [Procs -> Ops \cup {"none"}]
  /\ text \in [Procs -> Seq(Chars)]
  /\ limit \in [Procs -> Nat]
  /\ pos \in [Procs -> Indices]
  /\ offset \in [Procs -> Indices]
  /\ \A p \in Procs : /\ pc[p] = "user"    <=> op[p] = "none"
                      /\ pc[p] = "writing" => op[p] \in {"write", "set"}
                      /\ pc[p] = "reading" => op[p] \in {"read", "get"}
                      /\ pc[p] = "leaving" => Inside(p)

Init ==
  /\ message = [i \in Indices |-> NUL]
  /\ already_open = FALSE
  /\ pc = [p \in Procs |-> "user"]
  /\ op = [p \in Procs |-> "none"]
  /\ text = [p \in Procs |-> <<>>]
  /\ limit = [p \in Procs |-> 0]
  /\ pos = [p \in Procs |-> 0]
  /\ got = [p \in Procs |-> <<>>]
  /\ offset = [p \in Procs |-> 0]
  /\ lastSet = <<>> /\ raw = FALSE

-----------------------------------------------------------------------------
(* Entering the handlers *)

Goto(p, label) == pc' = [pc EXCEPT ![p] = label]
Enter(p, o)    == o \in Ops /\ pc[p] = "user" /\ op' = [op EXCEPT ![p] = o]

\* Seeded fault: the flag is set without looking at its value.
CmpxchgBlind == already_open' = TRUE
\* atomic_cmpxchg(&already_open, CDEV_NOT_USED, CDEV_EXCLUSIVE_OPEN)
Cmpxchg == ~already_open /\ already_open' = TRUE

\* Start of device_write with length bytes of t.
StartWrite(p, t, length) ==
  /\ Goto(p, "writing")
  /\ text'  = [text EXCEPT ![p] = t]
  /\ limit' = [limit EXCEPT ![p] = length]
  /\ pos'   = [pos EXCEPT ![p] = 0]
  /\ UNCHANGED <<message, got, offset, lastSet>>

Write(p) ==
  /\ Enter(p, "write")
  /\ \E t \in Texts : StartWrite(p, t, Len(t))
  /\ raw' = TRUE
  /\ UNCHANGED already_open

\* IOCTL_SET_MSG counts the bytes of the text up to and with its NUL.
IoctlSet(p) ==
  /\ Enter(p, "set") /\ Cmpxchg
  /\ \E t \in Texts : StartWrite(p, t, IF Len(t) < BUF_LEN THEN Len(t) + 1 ELSE BUF_LEN)
  /\ UNCHANGED raw

\* Start of device_read at position at, up to its test for the end of message.
StartRead(p, at, length, atEnd) ==
  /\ Goto(p, IF message[at] = NUL THEN atEnd ELSE "reading")
  /\ limit' = [limit EXCEPT ![p] = length]
  /\ pos'   = [pos EXCEPT ![p] = at]
  /\ got'   = [got EXCEPT ![p] = <<>>]
  /\ UNCHANGED <<message, text, lastSet, raw>>

Read(p) ==
  /\ "read" \in Ops /\ pc[p] = "user"
  /\ \E n \in Lengths : StartRead(p, offset[p], n, "user")
  /\ LET atEnd == message[offset[p]] = NUL
     IN /\ op' = [op EXCEPT ![p] = IF atEnd THEN "none" ELSE "read"]
        /\ offset' = [offset EXCEPT ![p] = IF atEnd THEN 0 ELSE @]
  /\ UNCHANGED already_open

\* IOCTL_GET_MSG reads from 0, with a length beyond the buffer's.
IoctlGet(p) ==
  /\ Enter(p, "get") /\ Cmpxchg
  /\ StartRead(p, 0, BUF_LEN + 2, "leaving")
  /\ UNCHANGED offset

IoctlNth(p) ==
  /\ Enter(p, "nth") /\ Cmpxchg
  /\ Goto(p, "leaving")
  /\ UNCHANGED <<message, text, limit, pos, got, offset, lastSet, raw>>

-----------------------------------------------------------------------------
(* The loops of device_write and device_read, and the end of device_ioctl *)

Finish(p) ==
  IF Inside(p) THEN Goto(p, "leaving") /\ UNCHANGED op
               ELSE Goto(p, "user") /\ op' = [op EXCEPT ![p] = "none"]

\* Seeded fault: one byte more than message may hold.
MoreToWriteOffByOne(p) == pos[p] < limit[p] /\ pos[p] <= BUF_LEN
MoreToWrite(p) == pos[p] < limit[p] /\ pos[p] < BUF_LEN

StoreByte(p) ==
  /\ pc[p] = "writing" /\ MoreToWrite(p)
  /\ message' = [message EXCEPT ![pos[p]] = ByteAt(text[p], pos[p])]
  /\ pos' = [pos EXCEPT ![p] = @ + 1]
  /\ UNCHANGED <<already_open, pc, op, text, limit, got, offset, lastSet, raw>>

WriteDone(p) ==
  /\ pc[p] = "writing" /\ ~MoreToWrite(p)
  /\ Finish(p)
  /\ lastSet' = IF op[p] = "set" THEN Truncated(text[p]) ELSE lastSet
  /\ UNCHANGED <<message, already_open, text, limit, pos, got, offset, raw>>

MoreToRead(p) == Len(got[p]) < limit[p] /\ message[pos[p]] # NUL

FetchByte(p) ==
  /\ pc[p] = "reading" /\ MoreToRead(p)
  /\ got' = [got EXCEPT ![p] = Append(@, message[pos[p]])]
  /\ pos' = [pos EXCEPT ![p] = @ + 1]
  /\ UNCHANGED <<message, already_open, pc, op, text, limit, offset, lastSet, raw>>

ReadDone(p) ==
  /\ pc[p] = "reading" /\ ~MoreToRead(p)
  /\ Finish(p)
  /\ offset' = [offset EXCEPT ![p] = IF op[p] = "read" THEN pos[p] ELSE @]
  /\ UNCHANGED <<message, already_open, text, limit, pos, got, lastSet, raw>>

\* atomic_set(&already_open, CDEV_NOT_USED)
ClearFlag == already_open' = FALSE

Leave(p) ==
  /\ pc[p] = "leaving"
  /\ ClearFlag
  /\ Goto(p, "user")
  /\ op' = [op EXCEPT ![p] = "none"]
  /\ UNCHANGED <<message, text, limit, pos, got, offset, lastSet, raw>>

Next == \E p \in Procs : \/ Write(p) \/ Read(p) \/ IoctlSet(p) \/ IoctlGet(p) \/ IoctlNth(p)
                         \/ StoreByte(p) \/ WriteDone(p) \/ FetchByte(p) \/ ReadDone(p)
                         \/ Leave(p)

Spec == Init /\ [][Next]_vars

-----------------------------------------------------------------------------
(* Properties *)

\* The flag is set exactly while a process is in device_ioctl, and no two are.
OneIoctl ==
  /\ already_open <=> \E p \in Procs : Inside(p)
  /\ \A p, q \in Procs : Inside(p) /\ Inside(q) => p = q

\* A reader never passes the last byte of message, whoever writes it meanwhile:
\* nothing overwrites the NUL there.
StopsInside == \A p \in Procs : pos[p] <= BUF_LEN /\ offset[p] <= BUF_LEN

\* As long as nobody has used write(2), IOCTL_GET_MSG returns the text of one
\* IOCTL_SET_MSG, the last one, and never a mixture of two: this is what the
\* flag is for.
GetReturnsLastSet ==
  [][~raw => \A p \in Procs : ReadDone(p) /\ op[p] = "get" => got[p] = lastSet]_vars
=============================================================================
