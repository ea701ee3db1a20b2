------------------------ MODULE ExclusiveDevice_proofs ------------------------
(***************************************************************************)
(* Devices behind a file.  The ioctl device, for any number of processes,  *)
(* any buffer length, any texts and any mix of calls: one process at a     *)
(* time is in device_ioctl, no reader leaves the buffer, and while only    *)
(* ioctls write a get returns the last set.  Then the twelve drivers that  *)
(* keep a text, for any processes, buffer size, sizes read with and texts  *)
(* written: who has the file open and who holds the lock, that a read      *)
(* gives what was there at one moment, and that a process which reads to   *)
(* the end, undisturbed, has the text.                                     *)
(***************************************************************************)
EXTENDS ExclusiveDevice, TextDevice, FiniteSetTheorems, WellFoundedInduction, TLAPS

\* The last byte of message is never overwritten.
Terminated == message[BUF_LEN] = NUL

IInv == TypeOK /\ OneIoctl /\ StopsInside /\ Terminated

\* A text has a byte at every index below its length.
LEMMA ByteIsByte ==
  ASSUME NEW t \in Seq(Chars), NEW i \in Nat
  PROVE  ByteAt(t, i) \in Bytes
<1>1. CASE i < Len(t)
  <2>1. i + 1 \in 1..Len(t)  BY <1>1
  <2>2. t[i + 1] \in Chars   BY <2>1
  <2> QED  BY <1>1, <2>2 DEF ByteAt, Bytes
<1>2. CASE ~(i < Len(t))
  BY <1>2 DEF ByteAt, Bytes
<1> QED  BY <1>1, <1>2

LEMMA InitInvariant == Init => IInv
<1> SUFFICES ASSUME Init PROVE IInv  OBVIOUS
<1> USE BufLenAssumption
<1>1. TypeOK
  <2>1. message \in [Indices -> Bytes] /\ pos \in [Procs -> Indices]
        /\ offset \in [Procs -> Indices] /\ limit \in [Procs -> Nat]
    BY DEF Init, Indices, Bytes
  <2>2. text \in [Procs -> Seq(Chars)]
    BY DEF Init
  <2> QED  BY <2>1, <2>2 DEF Init, TypeOK, Inside, Exclusive
<1>2. OneIoctl
  BY DEF Init, OneIoctl, Inside, Exclusive
<1>3. StopsInside /\ Terminated
  BY DEF Init, StopsInside, Terminated, Indices
<1> QED  BY <1>1, <1>2, <1>3 DEF IInv

\* A process outside enters an ioctl: the flag was clear, so it is the only one.
LEMMA EnterAlone ==
  ASSUME IInv, NEW p \in Procs, NEW o \in Exclusive, Enter(p, o), Cmpxchg
  PROVE  OneIoctl'
BY DEF IInv, TypeOK, OneIoctl, Enter, Cmpxchg, Inside, Exclusive

\* A call that is no ioctl, or a step inside a call, disturbs nothing.
LEMMA SameInside ==
  ASSUME IInv, UNCHANGED already_open, \A p \in Procs : Inside(p)' = Inside(p)
  PROVE  OneIoctl'
BY DEF IInv, OneIoctl

LEMMA StartWriteKeeps ==
  ASSUME IInv, NEW p \in Procs, NEW t \in Texts, NEW o \in Ops \cap {"write", "set"},
         NEW n \in Nat, Enter(p, o), StartWrite(p, t, n), already_open' \in BOOLEAN
  PROVE  TypeOK' /\ StopsInside' /\ Terminated'
<1> USE BufLenAssumption, TextsAssumption, OpsAssumption
    DEF IInv, StopsInside, Terminated, StartWrite, Goto, Enter
<1>1. t \in Seq(Chars)  OBVIOUS
<1>2. TypeOK'
  <2>1. /\ message' \in [Indices -> Bytes] /\ text' \in [Procs -> Seq(Chars)]
        /\ limit' \in [Procs -> Nat] /\ offset' \in [Procs -> Indices]
    BY <1>1 DEF TypeOK
  <2>2. pos' \in [Procs -> Indices]
    BY DEF TypeOK, Indices
  <2>3. /\ pc' \in [Procs -> {"user", "writing", "reading", "leaving"}]
        /\ op' \in [Procs -> Ops \cup {"none"}]
    BY DEF TypeOK
  <2>4. ASSUME NEW q \in Procs
        PROVE  /\ pc'[q] = "user"    <=> op'[q] = "none"
               /\ pc'[q] = "writing" => op'[q] \in {"write", "set"}
               /\ pc'[q] = "reading" => op'[q] \in {"read", "get"}
               /\ pc'[q] = "leaving" => Inside(q)'
    BY <2>4 DEF TypeOK, Inside, Exclusive
  <2> QED  BY <2>1, <2>2, <2>3, <2>4 DEF TypeOK
<1>3. StopsInside' /\ Terminated'
  BY DEF TypeOK, Indices
<1> QED  BY <1>2, <1>3

LEMMA StepInvariant == IInv /\ [Next]_vars => IInv'
<1> SUFFICES ASSUME IInv, [Next]_vars PROVE IInv'  OBVIOUS
<1> USE BufLenAssumption, NulAssumption, TextsAssumption, LengthsAssumption, OpsAssumption
<1>1. ASSUME NEW p \in Procs, Write(p) PROVE IInv'
  <2>1. PICK t \in Texts : StartWrite(p, t, Len(t))  BY <1>1 DEF Write
  <2>2. t \in Seq(Chars) /\ Len(t) \in Nat  OBVIOUS
  <2>3. Enter(p, "write") /\ UNCHANGED already_open  BY <1>1 DEF Write
  <2>4. "write" \in Ops \cap {"write", "set"}  BY <2>3 DEF Enter
  <2>5. already_open' \in BOOLEAN  BY <2>3 DEF IInv, TypeOK
  <2>6. TypeOK' /\ StopsInside' /\ Terminated'
    BY <2>1, <2>2, <2>3, <2>4, <2>5, StartWriteKeeps
  <2>7. OneIoctl'
    BY <2>3, SameInside DEF Enter, Inside, Exclusive, IInv, TypeOK
  <2> QED  BY <2>6, <2>7 DEF IInv
<1>2. ASSUME NEW p \in Procs, IoctlSet(p) PROVE IInv'
  <2> DEFINE n(t) == IF Len(t) < BUF_LEN THEN Len(t) + 1 ELSE BUF_LEN
  <2>1. PICK t \in Texts : StartWrite(p, t, n(t))  BY <1>2 DEF IoctlSet
  <2>2. n(t) \in Nat
    <3>1. Len(t) \in Nat  OBVIOUS
    <3> QED  BY <3>1
  <2>3. Enter(p, "set") /\ Cmpxchg  BY <1>2 DEF IoctlSet
  <2>4. "set" \in Ops \cap {"write", "set"} /\ "set" \in Exclusive
    BY <2>3 DEF Enter, Exclusive
  <2>5. already_open' \in BOOLEAN  BY <2>3 DEF Cmpxchg
  <2> HIDE DEF n
  <2>6. TypeOK' /\ StopsInside' /\ Terminated'
    BY <2>1, <2>2, <2>3, <2>4, <2>5, StartWriteKeeps
  <2>7. OneIoctl'  BY <2>3, <2>4, EnterAlone
  <2> QED  BY <2>6, <2>7 DEF IInv
<1>3. ASSUME NEW p \in Procs, Read(p) PROVE IInv'
  <2>1. PICK n \in Lengths : StartRead(p, offset[p], n, "user")  BY <1>3 DEF Read
  <2>2. TypeOK'
    BY <1>3, <2>1 DEF Read, StartRead, Goto, IInv, TypeOK, Inside, Exclusive, Indices
  <2>3. OneIoctl'
    BY <1>3, SameInside DEF Read, Inside, Exclusive, IInv, TypeOK
  <2>4. StopsInside' /\ Terminated'
    BY <1>3, <2>1 DEF Read, StartRead, IInv, TypeOK, StopsInside, Terminated, Indices
  <2> QED  BY <2>2, <2>3, <2>4 DEF IInv
<1>4. ASSUME NEW p \in Procs, IoctlGet(p) PROVE IInv'
  <2>1. Enter(p, "get") /\ Cmpxchg /\ StartRead(p, 0, BUF_LEN + 2, "leaving")
    BY <1>4 DEF IoctlGet
  <2>2. TypeOK'
    BY <1>4, <2>1 DEF IoctlGet, Enter, Cmpxchg, StartRead, Goto, IInv, TypeOK, Inside,
                      Exclusive, Indices
  <2>3. OneIoctl'  BY <2>1, EnterAlone DEF Exclusive
  <2>4. StopsInside' /\ Terminated'
    BY <1>4, <2>1 DEF IoctlGet, StartRead, IInv, TypeOK, StopsInside, Terminated, Indices
  <2> QED  BY <2>2, <2>3, <2>4 DEF IInv
<1>5. ASSUME NEW p \in Procs, IoctlNth(p) PROVE IInv'
  <2>1. Enter(p, "nth") /\ Cmpxchg  BY <1>5 DEF IoctlNth
  <2>2. TypeOK'
    BY <1>5, <2>1 DEF IoctlNth, Enter, Cmpxchg, Goto, IInv, TypeOK, Inside, Exclusive
  <2>3. OneIoctl'  BY <2>1, EnterAlone DEF Exclusive
  <2>4. StopsInside' /\ Terminated'
    BY <1>5 DEF IoctlNth, IInv, StopsInside, Terminated
  <2> QED  BY <2>2, <2>3, <2>4 DEF IInv
<1>6. ASSUME NEW p \in Procs, StoreByte(p) PROVE IInv'
  <2>1. pos[p] \in Nat /\ pos[p] < BUF_LEN /\ pos[p] \in Indices
    BY <1>6 DEF StoreByte, MoreToWrite, IInv, TypeOK, Indices
  <2>2. ByteAt(text[p], pos[p]) \in Bytes
    BY <2>1, ByteIsByte DEF IInv, TypeOK
  <2>3. TypeOK'
    <3>1. message' \in [Indices -> Bytes]
      BY <1>6, <2>2 DEF StoreByte, IInv, TypeOK
    <3>2. pos' \in [Procs -> Indices]
      BY <1>6, <2>1 DEF StoreByte, IInv, TypeOK, Indices
    <3> QED  BY <1>6, <3>1, <3>2 DEF StoreByte, IInv, TypeOK, Inside
  <2>4. OneIoctl'
    BY <1>6, SameInside DEF StoreByte, Inside
  <2>5. StopsInside' /\ Terminated'
    BY <1>6, <2>1 DEF StoreByte, IInv, TypeOK, StopsInside, Terminated, Indices
  <2> QED  BY <2>3, <2>4, <2>5 DEF IInv
<1>7. ASSUME NEW p \in Procs, WriteDone(p) PROVE IInv'
  <2>1. TypeOK'
    <3>1. CASE Inside(p)
      <4>1. pc' = [pc EXCEPT ![p] = "leaving"] /\ op' = op
        BY <1>7, <3>1 DEF WriteDone, Finish, Goto
      <4> QED  BY <1>7, <3>1, <4>1 DEF WriteDone, IInv, TypeOK, Inside
    <3>2. CASE ~Inside(p)
      <4>1. pc' = [pc EXCEPT ![p] = "user"] /\ op' = [op EXCEPT ![p] = "none"]
        BY <1>7, <3>2 DEF WriteDone, Finish, Goto
      <4>2. offset' \in [Procs -> Indices]
        BY <1>7 DEF WriteDone, IInv, TypeOK
      <4> QED  BY <1>7, <4>1, <4>2 DEF WriteDone, IInv, TypeOK, Inside
    <3> QED  BY <3>1, <3>2
  <2>2. OneIoctl'
    BY <1>7, SameInside DEF WriteDone, Finish, Inside, Exclusive, IInv, TypeOK
  <2>3. StopsInside' /\ Terminated'
    BY <1>7 DEF WriteDone, IInv, TypeOK, StopsInside, Terminated
  <2> QED  BY <2>1, <2>2, <2>3 DEF IInv
<1>8. ASSUME NEW p \in Procs, FetchByte(p) PROVE IInv'
  <2>1. pos[p] \in Nat /\ pos[p] < BUF_LEN
    BY <1>8 DEF FetchByte, MoreToRead, IInv, TypeOK, StopsInside, Terminated, Indices
  <2>2. TypeOK'
    BY <1>8, <2>1 DEF FetchByte, IInv, TypeOK, Inside, Indices
  <2>3. OneIoctl'
    BY <1>8, SameInside DEF FetchByte, Inside
  <2>4. StopsInside' /\ Terminated'
    BY <1>8, <2>1 DEF FetchByte, IInv, TypeOK, StopsInside, Terminated
  <2> QED  BY <2>2, <2>3, <2>4 DEF IInv
<1>9. ASSUME NEW p \in Procs, ReadDone(p) PROVE IInv'
  <2>1. TypeOK'
    <3>1. CASE Inside(p)
      <4>1. pc' = [pc EXCEPT ![p] = "leaving"] /\ op' = op
        BY <1>9, <3>1 DEF ReadDone, Finish, Goto
      <4> QED  BY <1>9, <3>1, <4>1 DEF ReadDone, IInv, TypeOK, Inside
    <3>2. CASE ~Inside(p)
      <4>1. pc' = [pc EXCEPT ![p] = "user"] /\ op' = [op EXCEPT ![p] = "none"]
        BY <1>9, <3>2 DEF ReadDone, Finish, Goto
      <4>2. offset' \in [Procs -> Indices]
        BY <1>9 DEF ReadDone, IInv, TypeOK
      <4> QED  BY <1>9, <4>1, <4>2 DEF ReadDone, IInv, TypeOK, Inside
    <3> QED  BY <3>1, <3>2
  <2>2. OneIoctl'
    BY <1>9, SameInside DEF ReadDone, Finish, Inside, Exclusive, IInv, TypeOK
  <2>3. StopsInside' /\ Terminated'
    BY <1>9 DEF ReadDone, IInv, TypeOK, StopsInside, Terminated
  <2> QED  BY <2>1, <2>2, <2>3 DEF IInv
<1>10. ASSUME NEW p \in Procs, Leave(p) PROVE IInv'
  <2>1. TypeOK'
    BY <1>10 DEF Leave, ClearFlag, Goto, IInv, TypeOK, Inside
  <2>2. OneIoctl'
    BY <1>10 DEF Leave, ClearFlag, IInv, TypeOK, OneIoctl, Inside, Exclusive
  <2>3. StopsInside' /\ Terminated'
    BY <1>10 DEF Leave, IInv, StopsInside, Terminated
  <2> QED  BY <2>1, <2>2, <2>3 DEF IInv
<1>11. CASE UNCHANGED vars
  BY <1>11 DEF vars, IInv, TypeOK, OneIoctl, StopsInside, Terminated, Inside
<1> QED
  BY <1>1, <1>2, <1>3, <1>4, <1>5, <1>6, <1>7, <1>8, <1>9, <1>10, <1>11 DEF Next

\* The inductive invariant holds in every state.
THEOREM Invariant == Spec => []IInv
<1> QED  BY InitInvariant, StepInvariant, PTL DEF Spec

\* At most one process is in device_ioctl, and the flag says whether one is.
THEOREM IoctlExcludes == Spec => []OneIoctl
<1>1. IInv => OneIoctl  BY DEF IInv
<1> QED  BY Invariant, <1>1, PTL

\* No reader runs past the end of message, whatever is written meanwhile.
THEOREM ReaderStops == Spec => []StopsInside
<1>1. IInv => StopsInside  BY DEF IInv
<1> QED  BY Invariant, <1>1, PTL

\* The variables have their types, and a process is where its call says.
THEOREM TypeCorrect == Spec => []TypeOK
<1>1. IInv => TypeOK  BY DEF IInv
<1> QED  BY Invariant, <1>1, PTL

-----------------------------------------------------------------------------
(* What IOCTL_GET_MSG returns *)

\* message begins with the bytes of s and a terminator.
Holds(s) == message[Len(s)] = NUL /\ \A i \in 0..Len(s) - 1 : message[i] = s[i + 1]

Unwritten == \A p \in Procs : pc[p] # "writing"

OnlyIoctlsWrite == ~raw => \A p \in Procs : op[p] # "write"

SetTyped == lastSet \in Seq(Chars) /\ got \in [Procs -> Seq(Bytes)]

HoldsLastSet == ~raw /\ Unwritten => Holds(lastSet)

\* Where an IOCTL_SET_MSG has got to.
HalfWritten ==
  ~raw => \A p \in Procs : pc[p] = "writing" =>
    /\ limit[p] = IF Len(text[p]) < BUF_LEN THEN Len(text[p]) + 1 ELSE BUF_LEN
    /\ pos[p] <= limit[p]
    /\ \A i \in 0..pos[p] - 1 : message[i] = ByteAt(text[p], i)

\* Where an IOCTL_GET_MSG has got to.
HalfRead ==
  \A p \in Procs : pc[p] = "reading" /\ op[p] = "get" =>
    /\ limit[p] = BUF_LEN + 2 /\ Len(got[p]) = pos[p]
    /\ ~raw => \A i \in 0..pos[p] - 1 : got[p][i + 1] = message[i] /\ message[i] # NUL

Copies == OnlyIoctlsWrite /\ SetTyped /\ HoldsLastSet /\ HalfWritten /\ HalfRead

\* As long as only ioctls write, nobody else writes or gets beside a writer.
LEMMA WriterAlone ==
  ASSUME IInv, OnlyIoctlsWrite, ~raw, NEW p \in Procs, NEW q \in Procs,
         pc[p] = "writing", pc[q] = "writing" \/ op[q] = "get"
  PROVE  p = q /\ op[p] = "set"
BY DEF IInv, TypeOK, OneIoctl, OnlyIoctlsWrite, Inside, Exclusive

\* What device_write keeps of a text, byte by byte.
LEMMA TruncatedText ==
  ASSUME NEW t \in Seq(Chars)
  PROVE  /\ Truncated(t) \in Seq(Chars)
         /\ Len(Truncated(t)) = IF Len(t) < BUF_LEN THEN Len(t) ELSE BUF_LEN
         /\ \A i \in 0..Len(Truncated(t)) - 1 : Truncated(t)[i + 1] = ByteAt(t, i)
<1> DEFINE n == IF Len(t) < BUF_LEN THEN Len(t) ELSE BUF_LEN
<1>1. n \in 0..Len(t)
  BY BufLenAssumption
<1> HIDE DEF n
<1>2. /\ SubSeq(t, 1, n) \in Seq(Chars) /\ Len(SubSeq(t, 1, n)) = n
      /\ \A i \in 1..n : SubSeq(t, 1, n)[i] = t[i]
  BY <1>1
<1>3. \A i \in 0..n - 1 : i + 1 \in 1..n /\ i < Len(t)
  BY <1>1
<1>4. Truncated(t) = SubSeq(t, 1, n)
  BY DEF Truncated, n
<1>5. \A i \in 0..n - 1 : Truncated(t)[i + 1] = ByteAt(t, i)
  BY <1>2, <1>3, <1>4 DEF ByteAt
<1> QED BY <1>2, <1>4, <1>5 DEF n

LEMMA InitCopies == Init => Copies
<1> SUFFICES ASSUME Init PROVE Copies
  OBVIOUS
<1>1. SetTyped
  BY DEF Init, SetTyped
<1>2. Holds(<<>>)
  BY BufLenAssumption DEF Init, Holds, Indices
<1> QED BY <1>1, <1>2
        DEF Copies, Init, OnlyIoctlsWrite, HoldsLastSet, HalfWritten, HalfRead

\* write(2) ends what can be promised of message.
LEMMA WriteCopies ==
  ASSUME IInv, Copies, NEW p \in Procs, Write(p)
  PROVE  Copies'
<1>1. raw' /\ pc[p] = "user" /\ UNCHANGED <<lastSet, got>>
      /\ op' = [op EXCEPT ![p] = "write"] /\ pc' = [pc EXCEPT ![p] = "writing"]
  BY DEF Write, Enter, StartWrite, Goto
<1>2. \A q \in Procs : q # p => limit'[q] = limit[q] /\ pos'[q] = pos[q]
  BY DEF Write, StartWrite, IInv, TypeOK
<1>3. HalfRead'
  BY <1>1, <1>2 DEF HalfRead, Copies, IInv, TypeOK
<1> QED BY <1>1, <1>3 DEF Copies, OnlyIoctlsWrite, SetTyped, HoldsLastSet, HalfWritten

\* IOCTL_SET_MSG enters: no other ioctl is under way.
LEMMA SetCopies ==
  ASSUME IInv, Copies, NEW p \in Procs, IoctlSet(p)
  PROVE  Copies'
<1> USE BufLenAssumption
<1>1. \A q \in Procs : ~Inside(q)
  BY DEF IoctlSet, Cmpxchg, IInv, OneIoctl
<1>2. PICK t \in Texts :
        StartWrite(p, t, IF Len(t) < BUF_LEN THEN Len(t) + 1 ELSE BUF_LEN)
  BY DEF IoctlSet
<1>3. /\ op' = [op EXCEPT ![p] = "set"] /\ pc' = [pc EXCEPT ![p] = "writing"]
      /\ UNCHANGED <<message, got, lastSet, raw>> /\ pc[p] = "user"
  BY <1>2 DEF IoctlSet, Enter, StartWrite, Goto
<1>4. OnlyIoctlsWrite' /\ SetTyped'
  BY <1>3 DEF Copies, OnlyIoctlsWrite, SetTyped, IInv, TypeOK
<1>5. ~Unwritten'
  BY <1>3 DEF Unwritten, IInv, TypeOK
<1>6. HalfWritten'
  <2> SUFFICES ASSUME ~raw, NEW q \in Procs, pc'[q] = "writing"
               PROVE  /\ limit'[q] = IF Len(text'[q]) < BUF_LEN THEN Len(text'[q]) + 1
                                     ELSE BUF_LEN
                      /\ pos'[q] <= limit'[q]
                      /\ \A i \in 0..pos'[q] - 1 : message'[i] = ByteAt(text'[q], i)
    BY <1>3 DEF HalfWritten
  <2>1. q = p
    BY <1>1, <1>3 DEF Copies, OnlyIoctlsWrite, IInv, TypeOK, Inside, Exclusive
  <2>2. text'[p] = t /\ pos'[p] = 0
        /\ limit'[p] = IF Len(t) < BUF_LEN THEN Len(t) + 1 ELSE BUF_LEN
    BY <1>2 DEF StartWrite, IInv, TypeOK
  <2>3. Len(t) \in Nat
    BY TextsAssumption
  <2> QED BY <2>1, <2>2, <2>3
<1>7. HalfRead'
  BY <1>1, <1>3 DEF HalfRead, Inside, Exclusive, IInv, TypeOK
<1> QED BY <1>4, <1>5, <1>6, <1>7 DEF Copies, HoldsLastSet

\* Calls that begin to read, or only enter and leave, touch neither message nor a copy
\* under way.
LEMMA OtherCopies ==
  ASSUME IInv, Copies, NEW p \in Procs, Read(p) \/ IoctlGet(p) \/ IoctlNth(p) \/ Leave(p)
  PROVE  Copies'
<1> USE BufLenAssumption
<1>1. /\ UNCHANGED <<message, text, lastSet, raw>>
      /\ pc[p] # "writing" /\ pc'[p] # "writing" /\ op'[p] # "write"
      /\ \A q \in Procs : q # p => /\ pc'[q] = pc[q] /\ op'[q] = op[q] /\ pos'[q] = pos[q]
                                   /\ limit'[q] = limit[q] /\ got'[q] = got[q]
  BY DEF Read, IoctlGet, IoctlNth, Leave, Enter, StartRead, Goto, IInv, TypeOK, Copies, SetTyped
<1>2. got' \in [Procs -> Seq(Bytes)]
  <2>1. got' = got \/ got' = [got EXCEPT ![p] = <<>>]
    BY DEF Read, IoctlGet, IoctlNth, Leave, StartRead
  <2>2. <<>> \in Seq(Bytes)
    OBVIOUS
  <2> QED BY <2>1, <2>2 DEF Copies, SetTyped
<1>3. pc'[p] = "reading" /\ op'[p] = "get"
      => limit'[p] = BUF_LEN + 2 /\ got'[p] = <<>> /\ pos'[p] = 0
  BY DEF Read, IoctlGet, IoctlNth, Leave, Enter, StartRead, Goto, IInv, TypeOK, Copies, SetTyped
<1>4. OnlyIoctlsWrite' /\ SetTyped'
  BY <1>1, <1>2 DEF Copies, OnlyIoctlsWrite, SetTyped
<1>5. Unwritten' => Unwritten
  BY <1>1 DEF Unwritten
<1>6. HoldsLastSet'
  BY <1>1, <1>5 DEF Copies, HoldsLastSet, Holds
<1>7. HalfWritten'
  BY <1>1 DEF Copies, HalfWritten, ByteAt
<1>8. HalfRead'
  BY <1>1, <1>3 DEF Copies, HalfRead
<1> QED BY <1>4, <1>6, <1>7, <1>8 DEF Copies

\* A byte stored is one of the only writer's, or a raw write has spoilt the promise.
LEMMA StoreCopies ==
  ASSUME IInv, Copies, NEW p \in Procs, StoreByte(p)
  PROVE  Copies'
<1> USE BufLenAssumption
<1>1. /\ pc[p] = "writing" /\ pos[p] < limit[p] /\ pos[p] < BUF_LEN /\ pos[p] \in Nat
      /\ message' = [message EXCEPT ![pos[p]] = ByteAt(text[p], pos[p])]
      /\ pos' = [pos EXCEPT ![p] = pos[p] + 1]
      /\ UNCHANGED <<pc, op, text, limit, got, lastSet, raw>>
  BY DEF StoreByte, MoreToWrite, IInv, TypeOK, Indices
<1>2. OnlyIoctlsWrite' /\ SetTyped' /\ ~Unwritten'
  BY <1>1 DEF Copies, OnlyIoctlsWrite, SetTyped, Unwritten
<1>3. HalfWritten'
  <2> SUFFICES ASSUME ~raw, NEW q \in Procs, pc[q] = "writing"
               PROVE  /\ limit[q] = IF Len(text[q]) < BUF_LEN THEN Len(text[q]) + 1
                                    ELSE BUF_LEN
                      /\ pos'[q] <= limit[q]
                      /\ \A i \in 0..pos'[q] - 1 : message'[i] = ByteAt(text[q], i)
    BY <1>1 DEF HalfWritten, ByteAt
  <2>1. q = p
    BY <1>1, WriterAlone DEF Copies
  <2>2. pos'[p] = pos[p] + 1 /\ limit[p] \in Nat
    BY <1>1 DEF IInv, TypeOK
  <2>3. /\ limit[p] = IF Len(text[p]) < BUF_LEN THEN Len(text[p]) + 1 ELSE BUF_LEN
        /\ \A i \in 0..pos[p] - 1 : message[i] = ByteAt(text[p], i)
    BY <1>1 DEF Copies, HalfWritten
  <2>4. ASSUME NEW i \in 0..pos[p] PROVE message'[i] = ByteAt(text[p], i)
    <3>1. i \in Indices
      BY <1>1 DEF Indices
    <3> QED BY <1>1, <2>3, <3>1 DEF IInv, TypeOK
  <2> QED BY <1>1, <2>1, <2>2, <2>3, <2>4
<1>4. HalfRead'
  <2> SUFFICES ASSUME NEW q \in Procs, pc[q] = "reading", op[q] = "get"
               PROVE  /\ limit[q] = BUF_LEN + 2 /\ Len(got[q]) = pos'[q]
                      /\ ~raw => \A i \in 0..pos'[q] - 1 : /\ got[q][i + 1] = message'[i]
                                                           /\ message'[i] # NUL
    BY <1>1 DEF HalfRead
  <2>1. q # p /\ raw
    BY <1>1, WriterAlone DEF Copies
  <2>2. pos'[q] = pos[q]
    BY <1>1, <2>1 DEF IInv, TypeOK
  <2> QED BY <2>1, <2>2 DEF Copies, HalfRead
<1> QED BY <1>2, <1>3, <1>4 DEF Copies, HoldsLastSet

\* A complete IOCTL_SET_MSG leaves its text, as much as fits, and a terminator.
LEMMA WriteDoneCopies ==
  ASSUME IInv, Copies, NEW p \in Procs, WriteDone(p)
  PROVE  Copies'
<1> USE BufLenAssumption
<1>1. /\ pc[p] = "writing" /\ ~MoreToWrite(p)
      /\ lastSet' = IF op[p] = "set" THEN Truncated(text[p]) ELSE lastSet
      /\ UNCHANGED <<message, text, limit, pos, got, raw>>
      /\ pc'[p] \in {"leaving", "user"} /\ op'[p] \in {op[p], "none"}
      /\ \A q \in Procs : q # p => pc'[q] = pc[q] /\ op'[q] = op[q]
  BY DEF WriteDone, Finish, Goto, IInv, TypeOK
<1>2. text[p] \in Seq(Chars) /\ limit[p] \in Nat /\ pos[p] \in Nat /\ Len(text[p]) \in Nat
  BY DEF IInv, TypeOK, Indices
<1>3. OnlyIoctlsWrite'
  BY <1>1 DEF Copies, OnlyIoctlsWrite
<1>4. SetTyped'
  BY <1>1, <1>2, TruncatedText DEF Copies, SetTyped
<1>5. HoldsLastSet'
  <2> SUFFICES ASSUME ~raw
               PROVE  /\ message[Len(lastSet')] = NUL
                      /\ \A i \in 0..Len(lastSet') - 1 : message[i] = lastSet'[i + 1]
    BY <1>1 DEF HoldsLastSet, Holds
  <2> DEFINE t == Truncated(text[p])
  <2>1. lastSet' = t
    BY <1>1, WriterAlone DEF Copies
  <2>2. /\ pos[p] <= limit[p]
        /\ limit[p] = IF Len(text[p]) < BUF_LEN THEN Len(text[p]) + 1 ELSE BUF_LEN
        /\ \A i \in 0..pos[p] - 1 : message[i] = ByteAt(text[p], i)
    BY <1>1 DEF Copies, HalfWritten
  <2>3. pos[p] = limit[p]
    BY <1>1, <1>2, <2>2 DEF MoreToWrite
  <2>4. /\ Len(t) = IF Len(text[p]) < BUF_LEN THEN Len(text[p]) ELSE BUF_LEN
        /\ \A i \in 0..Len(t) - 1 : t[i + 1] = ByteAt(text[p], i)
    BY <1>2, TruncatedText
  <2> HIDE DEF t
  <2>5. \A i \in 0..Len(t) - 1 : message[i] = t[i + 1]
    BY <1>2, <2>2, <2>3, <2>4
  <2>6. message[Len(t)] = NUL
    <3>1. CASE Len(text[p]) < BUF_LEN
      <4>1. message[Len(t)] = ByteAt(text[p], Len(text[p]))
        BY <1>2, <2>2, <2>3, <2>4, <3>1
      <4> QED BY <1>2, <4>1 DEF ByteAt
    <3>2. CASE ~(Len(text[p]) < BUF_LEN)
      BY <2>4, <3>2 DEF IInv, Terminated
    <3> QED BY <3>1, <3>2
  <2> QED BY <2>1, <2>5, <2>6
<1>6. HalfWritten'
  BY <1>1 DEF Copies, HalfWritten, ByteAt
<1>7. HalfRead'
  BY <1>1 DEF Copies, HalfRead
<1> QED BY <1>3, <1>4, <1>5, <1>6, <1>7 DEF Copies

\* A byte fetched extends what a reader has of message.
LEMMA FetchCopies ==
  ASSUME IInv, Copies, NEW p \in Procs, FetchByte(p)
  PROVE  Copies'
<1> USE BufLenAssumption
<1>1. /\ pc[p] = "reading" /\ message[pos[p]] # NUL
      /\ got' = [got EXCEPT ![p] = Append(got[p], message[pos[p]])]
      /\ pos' = [pos EXCEPT ![p] = pos[p] + 1]
      /\ UNCHANGED <<message, pc, op, text, limit, lastSet, raw>>
  BY DEF FetchByte, MoreToRead
<1>2. got[p] \in Seq(Bytes) /\ pos[p] \in Nat /\ message[pos[p]] \in Bytes
  BY DEF IInv, TypeOK, Indices, Copies, SetTyped
<1>3. OnlyIoctlsWrite' /\ HoldsLastSet'
  BY <1>1 DEF Copies, OnlyIoctlsWrite, HoldsLastSet, Unwritten, Holds
<1>4. SetTyped'
  <2>1. Append(got[p], message[pos[p]]) \in Seq(Bytes)
    BY <1>2
  <2> QED BY <1>1, <2>1 DEF Copies, SetTyped
<1>5. HalfWritten'
  <2>1. \A q \in Procs : pc[q] = "writing" => pos'[q] = pos[q]
    BY <1>1 DEF IInv, TypeOK
  <2> QED BY <1>1, <2>1 DEF Copies, HalfWritten, ByteAt
<1>6. HalfRead'
  <2> SUFFICES ASSUME NEW q \in Procs, pc[q] = "reading", op[q] = "get"
               PROVE  /\ limit[q] = BUF_LEN + 2 /\ Len(got'[q]) = pos'[q]
                      /\ ~raw => \A i \in 0..pos'[q] - 1 : /\ got'[q][i + 1] = message[i]
                                                           /\ message[i] # NUL
    BY <1>1 DEF HalfRead
  <2>1. /\ limit[q] = BUF_LEN + 2 /\ Len(got[q]) = pos[q]
        /\ ~raw => \A i \in 0..pos[q] - 1 : got[q][i + 1] = message[i] /\ message[i] # NUL
    BY DEF Copies, HalfRead
  <2>2. CASE q # p
    <3>1. pos'[q] = pos[q] /\ got'[q] = got[q]
      BY <1>1, <2>2 DEF IInv, TypeOK, Copies, SetTyped
    <3> QED BY <2>1, <3>1
  <2>3. CASE q = p
    <3>1. pos'[p] = pos[p] + 1 /\ got'[p] = Append(got[p], message[pos[p]])
      BY <1>1 DEF IInv, TypeOK, Copies, SetTyped
    <3>2. /\ Len(got'[p]) = Len(got[p]) + 1
          /\ got'[p][Len(got[p]) + 1] = message[pos[p]]
          /\ \A i \in 1..Len(got[p]) : got'[p][i] = got[p][i]
      BY <1>2, <3>1
    <3>3. ASSUME ~raw, NEW i \in 0..pos'[p] - 1
          PROVE  got'[p][i + 1] = message[i] /\ message[i] # NUL
      <4>1. CASE i = pos[p]
        BY <1>1, <2>1, <2>3, <3>2, <4>1
      <4>2. CASE i # pos[p]
        <5>1. i \in 0..pos[p] - 1 /\ i + 1 \in 1..Len(got[p])
          BY <1>2, <2>1, <2>3, <3>1, <4>2
        <5> QED BY <2>1, <2>3, <3>2, <3>3, <5>1
      <4> QED BY <4>1, <4>2
    <3>4. Len(got'[p]) = pos'[p]
      BY <2>1, <2>3, <3>1, <3>2
    <3> QED BY <2>1, <2>3, <3>3, <3>4
  <2> QED BY <2>2, <2>3
<1> QED BY <1>3, <1>4, <1>5, <1>6 DEF Copies

LEMMA ReadDoneCopies ==
  ASSUME IInv, Copies, NEW p \in Procs, ReadDone(p)
  PROVE  Copies'
<1>1. /\ pc[p] = "reading" /\ UNCHANGED <<message, text, limit, pos, got, lastSet, raw>>
      /\ pc'[p] \in {"leaving", "user"} /\ op'[p] \in {op[p], "none"}
      /\ \A q \in Procs : q # p => pc'[q] = pc[q] /\ op'[q] = op[q]
  BY DEF ReadDone, Finish, Goto, IInv, TypeOK
<1>2. Unwritten' => Unwritten
  BY <1>1 DEF Unwritten
<1> QED BY <1>1, <1>2 DEF Copies, OnlyIoctlsWrite, SetTyped, HoldsLastSet, Holds, HalfWritten,
                         ByteAt, HalfRead

\* Who has copied up to the terminator has the text that was set last.
LEMMA GetIsLastSet ==
  ASSUME IInv, Copies, ~raw, NEW p \in Procs, ReadDone(p), op[p] = "get"
  PROVE  got[p] = lastSet
<1> USE BufLenAssumption
<1>1. /\ pc[p] = "reading" /\ pos[p] \in Nat /\ pos[p] <= BUF_LEN
      /\ got[p] \in Seq(Bytes) /\ lastSet \in Seq(Chars) /\ Len(lastSet) \in Nat
  BY DEF ReadDone, IInv, TypeOK, Indices, StopsInside, Copies, SetTyped
<1>2. /\ limit[p] = BUF_LEN + 2 /\ Len(got[p]) = pos[p]
      /\ \A i \in 0..pos[p] - 1 : got[p][i + 1] = message[i] /\ message[i] # NUL
  BY <1>1 DEF Copies, HalfRead
<1>3. message[pos[p]] = NUL
  BY <1>1, <1>2 DEF ReadDone, MoreToRead
<1>4. Unwritten
  BY <1>1, WriterAlone DEF Unwritten, Copies
<1>5. /\ message[Len(lastSet)] = NUL
      /\ \A i \in 0..Len(lastSet) - 1 : message[i] = lastSet[i + 1]
  BY <1>4 DEF Copies, HoldsLastSet, Holds
<1>6. \A i \in 0..Len(lastSet) - 1 : message[i] # NUL
  <2>1. \A i \in 0..Len(lastSet) - 1 : lastSet[i + 1] \in Chars
    BY <1>1
  <2> QED BY <1>5, <2>1, NulAssumption
<1>7. Len(lastSet) = pos[p]
  <2>1. ~(Len(lastSet) < pos[p])
    BY <1>1, <1>2, <1>5
  <2>2. ~(pos[p] < Len(lastSet))
    BY <1>1, <1>3, <1>6
  <2> QED BY <1>1, <2>1, <2>2
<1>8. \A i \in 1..Len(got[p]) : got[p][i] = lastSet[i]
  <2>1. ASSUME NEW i \in 1..pos[p] PROVE got[p][i] = lastSet[i]
    <3>1. i - 1 \in 0..pos[p] - 1 /\ (i - 1) + 1 = i
      BY <1>1
    <3>2. got[p][(i - 1) + 1] = message[i - 1] /\ message[i - 1] = lastSet[(i - 1) + 1]
      BY <1>2, <1>5, <1>7, <3>1
    <3> QED BY <3>1, <3>2
  <2> QED BY <1>2, <2>1
<1> QED BY <1>1, <1>2, <1>7, <1>8

\* As long as only ioctls write, IOCTL_GET_MSG returns the text that the last complete
\* IOCTL_SET_MSG set, for any processes, texts and length of the buffer.
THEOREM GetsTheLastSet == Spec => GetReturnsLastSet
<1>1. IInv /\ Copies /\ [Next]_vars => Copies'
  <2>1. CASE UNCHANGED vars
    BY <2>1 DEF vars, Copies, OnlyIoctlsWrite, SetTyped, HoldsLastSet, Unwritten, Holds,
                HalfWritten, ByteAt, HalfRead
  <2> QED BY <2>1, WriteCopies, SetCopies, OtherCopies, StoreCopies, WriteDoneCopies,
             FetchCopies, ReadDoneCopies DEF Next
<1>2. IInv /\ Copies /\ [Next]_vars
      => [~raw => \A p \in Procs : ReadDone(p) /\ op[p] = "get" => got[p] = lastSet]_vars
  BY GetIsLastSet
<1> QED BY Invariant, InitCopies, <1>1, <1>2, PTL DEF Spec, GetReturnsLastSet

-----------------------------------------------------------------------------
(* Drivers that keep a text: types, calls and bounds *)

\* A set of numbers that is not empty has a least one.
LEMMA LeastExists ==
  ASSUME NEW S, S \subseteq Nat, S # {}
  PROVE  \E n \in S : \A m \in S : n <= m
<1> DEFINE R == StrictSubsetOrdering(Nat)
           T == {0..n : n \in S}
<1>1. T \subseteq FiniteSubsetsOf(Nat) /\ T # {}
  <2>1. \A n \in S : IsFiniteSet(0..n) /\ 0..n \subseteq Nat  BY FS_Interval
  <2> QED  BY <2>1 DEF FiniteSubsetsOf
<1>2. IsWellFoundedOn(R, FiniteSubsetsOf(Nat))
  BY FS_StrictSubsetOrderingWellFounded
<1> HIDE DEF R
<1>3. \E x \in T : \A y \in T : ~(<<y, x>> \in R)
  <2> HIDE DEF T
  <2> QED  BY <1>1, <1>2, WFMin
<1>4. PICK n \in S : \A m \in S : ~(<<0..m, 0..n>> \in R)  BY <1>3
<1>5. ASSUME NEW m \in S, m < n PROVE FALSE
  <2>1. 0..m \subseteq 0..n /\ n \in 0..n /\ n \notin 0..m  BY <1>5
  <2>2. 0..m \in SUBSET Nat /\ 0..n \in SUBSET Nat  OBVIOUS
  <2> QED  BY <1>4, <2>1, <2>2 DEF R, StrictSubsetOrdering
<1> QED  BY <1>5

TextCalls == [kind : {"read", "write", "end"}, count : Nat, data : Seq({1, 2}), pos : Nat,
              left : Nat, snap : Seq(0..2), torn : BOOLEAN]
Buffers   == Users \cup {Module}

TextTypeOK ==
  /\ driver \in DOMAIN Drivers
  /\ already \in BOOLEAN /\ slipped \in BOOLEAN /\ toggle \in BOOLEAN
  /\ holder \in Users \cup {"nobody"}
  /\ bytes \in [Buffers -> [Index -> 0..2]]
  /\ The.opens = "one" => bytes[Module][0] # 0
  /\ length \in 0..TextSize
  /\ at \in [Users -> {"out", "opening", "open", "waiting", "copying"}]
  /\ off \in [Users -> Nat]
  /\ call \in [Users -> TextCalls \cup {NoCall}]
  /\ taken \in [Users -> Seq(0..2)]
  /\ disturbed \in [Users -> BOOLEAN]

CallIsWhole(u) ==
  /\ call[u] = NoCall <=> at[u] \notin {"waiting", "copying"}
  /\ at[u] = "waiting" => call[u].kind # "end"
  /\ call[u] # NoCall /\ call[u].kind = "write" =>
       /\ The.writes # "nothing" /\ call[u].count = Len(call[u].data)
       /\ Unchecked => call[u].count <= TextSize

\* What a call may still copy is in its text and in the buffer.
CopyFits(u) ==
  at[u] = "copying" =>
    /\ Start(u) <= call[u].pos
    /\ call[u].kind = "end" => call[u].left = 0 /\ call[u].pos = Start(u)
    /\ call[u].kind = "write" =>
         /\ call[u].left > 0 => call[u].pos + call[u].left <= TextSize /\ The.writes # "unread"
         /\ The.whole => call[u].pos <= TextSize
         /\ call[u].pos + call[u].left - Start(u) <= Len(call[u].data)
    /\ call[u].kind = "read" =>
         /\ call[u].pos + call[u].left <= Len(call[u].snap) /\ Len(call[u].snap) <= TextSize
         /\ call[u].pos - Start(u) <= Len(taken[u])
         /\ The.whole => call[u].pos + call[u].left = Len(call[u].snap)

InCall   == \A u \in Users : CallIsWhole(u)
InBounds == \A u \in Users : CopyFits(u)

TextSound == TextTypeOK /\ InCall /\ InBounds

\* What the rows of Drivers have in common.
GoodRow(r) ==
  /\ r.opens \in {"any", "own", "one", "test"}
  /\ r.calls \in {"free", "mutex", "semaphore"}
  /\ r.ends \in {"empty", "size", "length", "nul"}
  /\ r.writes \in {"nothing", "at offset", "anew", "unread", "over"}
  /\ r.whole \in BOOLEAN /\ r.again \in BOOLEAN
  /\ r.writes # "nothing" => r.opens \in {"any", "own"}
  /\ r.opens \in {"one", "own", "test"} => ~r.whole
  /\ r.ends = "length" => r.opens = "any" /\ r.writes # "unread"

\* Every driver of the table is of the kinds the model knows; chardev is the one that
\* is opened by one process, and the drivers with an end of their own give all at once.
LEMMA Rows ==
  driver \in DOMAIN Drivers =>
    /\ GoodRow(The)
    /\ The.opens = "one" => driver = "chardev"
    /\ driver \in {"etx_proc", "buffer2k", "etx"} => The.whole
    /\ driver \in {"etx_proc", "buffer2k"} => The.again
    /\ driver \in {"buffer2k", "etx"} => The.ends = "length"
<1>1. driver \in DOMAIN Drivers =>
        driver \in {"example2", "semaphore", "chardev", "watchdog", "cdev", "kmalloc", "etx",
                   "ack", "helloworld", "buffer1k", "buffer2k", "etx_proc"}
  BY DEF Drivers
<1>2. driver = "example2" => The = Example2  BY DEF The, Drivers
<1>3. driver = "semaphore" => The = Semaphore  BY DEF The, Drivers
<1>4. driver = "chardev" => The = Chardev  BY DEF The, Drivers
<1>5. driver = "watchdog" => The = Watchdog  BY DEF The, Drivers
<1>6. driver = "cdev" => The = HelloCdev  BY DEF The, Drivers
<1>7. driver = "kmalloc" => The = Kmalloc  BY DEF The, Drivers
<1>8. driver = "etx" => The = EtxDevice  BY DEF The, Drivers
<1>9. driver = "ack" => The = SampleDriver  BY DEF The, Drivers
<1>10. driver = "helloworld" => The = HelloWorld  BY DEF The, Drivers
<1>11. driver = "buffer1k" => The = Buffer1k  BY DEF The, Drivers
<1>12. driver = "buffer2k" => The = Buffer2k  BY DEF The, Drivers
<1>13. driver = "etx_proc" => The = EtxProc  BY DEF The, Drivers
<1>14. /\ GoodRow(Example2) /\ GoodRow(Semaphore) /\ GoodRow(Chardev) /\ GoodRow(Watchdog)
       /\ GoodRow(HelloCdev) /\ GoodRow(Kmalloc) /\ GoodRow(EtxDevice)
       /\ GoodRow(SampleDriver) /\ GoodRow(HelloWorld) /\ GoodRow(Buffer1k)
       /\ GoodRow(Buffer2k) /\ GoodRow(EtxProc)
  BY DEF GoodRow, Row, Example2, Semaphore, Chardev, Watchdog, HelloCdev, Kmalloc,
         EtxDevice, SampleDriver, HelloWorld, Buffer1k, Buffer2k, EtxProc
<1>15. Example2.opens # "one" /\ Semaphore.opens # "one" /\ Watchdog.opens # "one"
       /\ HelloCdev.opens # "one" /\ Kmalloc.opens # "one" /\ EtxDevice.opens # "one"
       /\ SampleDriver.opens # "one" /\ HelloWorld.opens # "one" /\ Buffer1k.opens # "one"
       /\ Buffer2k.opens # "one" /\ EtxProc.opens # "one"
  BY DEF Row, Example2, Semaphore, Watchdog, HelloCdev, Kmalloc,
         EtxDevice, SampleDriver, HelloWorld, Buffer1k, Buffer2k, EtxProc
<1>16. /\ EtxProc.whole /\ Buffer2k.whole /\ EtxDevice.whole
       /\ EtxProc.again /\ Buffer2k.again
       /\ Buffer2k.ends = "length" /\ EtxDevice.ends = "length"
  BY DEF Row, EtxProc, Buffer2k, EtxDevice
<1> QED  BY <1>1, <1>2, <1>3, <1>4, <1>5, <1>6, <1>7, <1>8, <1>9, <1>10, <1>11, <1>12, <1>13,
            <1>14, <1>15, <1>16

\* The NUL strlen stops at: in the buffer, or the one behind it.
LEMMA StrlenIsThere ==
  ASSUME TextTypeOK, NEW b \in Buffers
  PROVE  Strlen(b) \in 0..TextSize
<1> DEFINE S == {n \in 0..TextSize : n < TextSize => bytes[b][n] = 0}
<1>1. TextSize \in S /\ S \subseteq Nat
  BY TextAssumption
<1>2. PICK n \in S : \A m \in S : n <= m
  <2> HIDE DEF S
  <2> QED BY <1>1, LeastExists
<1>3. \A i \in 0..(n - 1) : bytes[b][i] # 0
  BY <1>2, TextAssumption
<1> QED  BY <1>2, <1>3 DEF Strlen

\* The text in a buffer is as long as its end says, and fits.
LEMMA TextFits ==
  ASSUME TextTypeOK, NEW b \in Buffers
  PROVE  /\ Limit(b) \in 0..TextSize
         /\ Text(b) \in Seq(0..2) /\ Len(Text(b)) = Limit(b)
         /\ \A i \in 1..Limit(b) : Text(b)[i] = bytes[b][i - 1]
<1>1. Limit(b) \in 0..TextSize
  <2>1. The.ends \in {"empty", "size", "length", "nul"}  BY Rows DEF TextTypeOK, GoodRow
  <2>2. length \in 0..TextSize  BY DEF TextTypeOK
  <2>3. Strlen(b) \in 0..TextSize  BY StrlenIsThere
  <2> HIDE DEF TextTypeOK
  <2>4. CASE The.ends = "empty"  BY <2>4, TextAssumption DEF Limit
  <2>5. CASE The.ends = "size"  BY <2>5, TextAssumption DEF Limit
  <2>6. CASE The.ends = "length"  BY <2>2, <2>6, TextAssumption DEF Limit
  <2>7. CASE The.ends = "nul"  BY <2>3, <2>7, TextAssumption DEF Limit
  <2> QED  BY <2>1, <2>4, <2>5, <2>6, <2>7
<1>2. \A i \in 1..Limit(b) : bytes[b][i - 1] \in 0..2
  BY <1>1, TextAssumption DEF TextTypeOK, Index
<1> QED  BY <1>1, <1>2 DEF Text

\* What a process reads is a buffer.
LEMMA BufferIs == ASSUME NEW u \in Users PROVE Buffer(u) \in Buffers
BY DEF Buffer, Buffers

\* At first nobody is in a call.
LEMMA TextInitSound == TextInit => TextSound
<1> SUFFICES ASSUME TextInit PROVE TextSound  OBVIOUS
<1>1. TextTypeOK
  <2>1. bytes \in [Buffers -> [Index -> 0..2]]
    BY DEF TextInit, Buffers
  <2>2. length \in 0..TextSize
    BY TextAssumption DEF TextInit
  <2>3. taken \in [Users -> Seq(0..2)] /\ off \in [Users -> Nat]
    BY DEF TextInit
  <2>4. The.opens = "one" => bytes[Module][0] # 0
    <3>1. The.opens = "one" => driver = "chardev"  BY Rows DEF TextInit
    <3>2. 0 \in Index /\ Module \in Users \cup {Module}  BY TextAssumption DEF Index
    <3> QED  BY <3>1, <3>2 DEF TextInit, EmptyAtFirst
  <2> QED  BY <2>1, <2>2, <2>3, <2>4 DEF TextInit, TextTypeOK
<1> QED  BY <1>1 DEF TextInit, TextSound, InCall, InBounds, CallIsWhole, CopyFits

\* A step of u leaves alone the call and the file of v, but for the mark that a write
\* overlaps it.
Marks(v) == /\ call[v] \in TextCalls
            /\ call'[v] = [call[v] EXCEPT !.torn = TRUE]
Spares(v) == /\ at'[v] = at[v] /\ off'[v] = off[v] /\ taken'[v] = taken[v]
             /\ call'[v] = call[v] \/ Marks(v)

\* No call is told from a call by its kind.
LEMMA CallIsNoCall == NoCall \notin TextCalls
<1> SUFFICES ASSUME NoCall \in TextCalls PROVE FALSE  OBVIOUS
<1>1. NoCall.kind = "none"  BY DEF NoCall
<1>2. NoCall.kind \in {"read", "write", "end"}  BY DEF TextCalls
<1> QED  BY <1>1, <1>2

\* A call that is marked stays a call.
LEMMA MarkedCall == ASSUME NEW v, Marks(v) PROVE call'[v] \in TextCalls
BY DEF Marks, TextCalls

\* A process that a step of another leaves alone stays sound.
LEMMA SparedSound ==
  ASSUME TextSound, NEW v \in Users, driver' = driver, Spares(v)
  PROVE  CallIsWhole(v)' /\ CopyFits(v)'
<1>1. CallIsWhole(v) /\ CopyFits(v)  BY DEF TextSound, InCall, InBounds
<1>2. /\ call'[v] = NoCall <=> call[v] = NoCall
      /\ call[v] # NoCall =>
           /\ call'[v].kind = call[v].kind /\ call'[v].count = call[v].count
           /\ call'[v].data = call[v].data /\ call'[v].pos = call[v].pos
           /\ call'[v].left = call[v].left /\ call'[v].snap = call[v].snap
  <2>1. CASE call'[v] = call[v]  BY <2>1
  <2>2. CASE Marks(v)
    <3>1. call'[v] \in TextCalls  BY <2>2 DEF Marks, TextCalls
    <3> QED  BY <2>2, <3>1, CallIsNoCall DEF Marks, TextCalls
  <2> QED  BY <2>1, <2>2 DEF Spares
<1>3. Start(v)' = Start(v) /\ The' = The /\ Unchecked' = Unchecked
  BY DEF Start, The, Spares, Unchecked
<1> QED  BY <1>1, <1>2, <1>3 DEF CallIsWhole, CopyFits, Spares

\* open, release and llseek.
LEMMA OutsideSound ==
  ASSUME TextSound, NEW u \in Users,
         OpenAny(u) \/ OpenOne(u) \/ OpenTests(u) \/ OpenSets(u) \/ Release(u) \/ Seek(u)
  PROVE  TextSound'
<1>1. /\ at' = at \/ \E to \in {"out", "opening", "open"} : at' = [at EXCEPT ![u] = to]
      /\ at[u] \in {"out", "opening", "open"}
      /\ off' = off \/ off' = [off EXCEPT ![u] = 0]
      /\ taken' = taken \/ taken' = [taken EXCEPT ![u] = <<>>]
      /\ \/ disturbed' = disturbed
         \/ \E d \in BOOLEAN : disturbed' = [disturbed EXCEPT ![u] = d]
      /\ already' \in BOOLEAN /\ slipped' \in BOOLEAN
      /\ UNCHANGED <<driver, holder, length, toggle, call>>
  BY DEF OpenAny, OpenOne, OpenTests, OpenSets, Release, Seek, Goes, FromTheBeginning, CmpxchgOpen,
         TextSound, TextTypeOK, BeingWritten
<1>2. /\ bytes' \in [Buffers -> [Index -> 0..2]]
      /\ The.opens = "one" => bytes'[Module][0] # 0
  <2>1. CASE OpenOne(u)
    <3>1. The.opens = "one" /\ 0 \in Index /\ Module \in Buffers
      BY <2>1, TextAssumption DEF OpenOne, Index, Buffers
    <3>2. bytes[Module][0] \in 1..2
      BY <3>1 DEF TextSound, TextTypeOK
    <3> DEFINE f == [i \in Index |-> 3 - bytes[Module][0]]
    <3>3. f \in [Index -> 0..2] /\ f[0] # 0  BY <3>1, <3>2
    <3>4. bytes' = [bytes EXCEPT ![Module] = f]  BY <2>1 DEF OpenOne
    <3> HIDE DEF f
    <3> QED  BY <3>1, <3>3, <3>4 DEF TextSound, TextTypeOK
  <2>2. CASE UNCHANGED bytes
    BY <2>2 DEF TextSound, TextTypeOK
  <2>3. CASE The.opens = "own" /\ \E b \in 0..2 : bytes' = [bytes EXCEPT ![u] = [i \in Index |-> b]]
    BY <2>3 DEF TextSound, TextTypeOK, Buffers
  <2>4. CASE OpenAny(u) \/ Release(u)
    BY <2>2, <2>3, <2>4 DEF OpenAny, Release
  <2> QED  BY <2>1, <2>2, <2>4 DEF OpenTests, OpenSets, Seek
<1>3. TextTypeOK'
  <2>1. taken' \in [Users -> Seq(0..2)]
    <3>1. <<>> \in Seq(0..2)  OBVIOUS
    <3> QED  BY <1>1, <3>1 DEF TextSound, TextTypeOK
  <2>2. The' = The  BY <1>1 DEF The
  <2>3. at' \in [Users -> {"out", "opening", "open", "waiting", "copying"}]
    <3>1. \A to \in {"out", "opening", "open"} :
            [at EXCEPT ![u] = to] \in [Users -> {"out", "opening", "open", "waiting", "copying"}]
      BY DEF TextSound, TextTypeOK
    <3> QED  BY <1>1, <3>1 DEF TextSound, TextTypeOK
  <2>5. off' \in [Users -> Nat]
    <3>1. off \in [Users -> Nat]  BY DEF TextSound, TextTypeOK
    <3> QED  BY <1>1, <3>1
  <2>4. disturbed' \in [Users -> BOOLEAN]
    BY <1>1, Zenon DEF TextSound, TextTypeOK
  <2> QED  BY <1>1, <1>2, <2>1, <2>2, <2>3, <2>4, <2>5 DEF TextSound, TextTypeOK
<1>4. ASSUME NEW v \in Users PROVE CallIsWhole(v)' /\ CopyFits(v)'
  <2>1. CASE v = u
    BY <1>1, <2>1 DEF TextSound, TextTypeOK, InCall, CallIsWhole, CopyFits
  <2>2. CASE v # u
    <3>1. Spares(v)  BY <1>1, <2>2 DEF TextSound, TextTypeOK, Spares
    <3> QED  BY <1>1, <3>1, SparedSound
  <2> QED  BY <2>1, <2>2
<1> QED  BY <1>3, <1>4 DEF TextSound, InCall, InBounds

CallBecomes(u, c, to) ==
  /\ at[u] # "copying" /\ at' = [at EXCEPT ![u] = to] /\ call' = [call EXCEPT ![u] = c]
  /\ to = "open" <=> c = NoCall
  /\ to = "waiting" => c.kind # "end"
  /\ to = "waiting" /\ c.kind = "write" =>
       The.writes # "nothing" /\ c.count = Len(c.data) /\ (Unchecked => c.count <= TextSize)
  /\ UNCHANGED <<driver, already, holder, bytes, length, toggle, off, taken, disturbed, slipped>>

\* A call is asked for, or given up.
LEMMA CallsSound ==
  ASSUME TextSound, NEW u \in Users, ReadText(u) \/ WriteText(u) \/ Interrupted(u)
  PROVE  TextSound'
<1>1. PICK c \in TextCalls \cup {NoCall}, to \in {"waiting", "open"} : CallBecomes(u, c, to)
  <2>1. CASE Interrupted(u)
    BY <2>1, CallIsNoCall DEF Interrupted, Goes, NoCall, CallBecomes
  <2>2. ASSUME NEW kind \in {"read", "write"}, NEW n \in Nat, NEW w \in Seq({1, 2}),
               Calls(u, kind, n, w),
               kind = "write" =>
                 The.writes # "nothing" /\ n = Len(w) /\ (Unchecked => n <= TextSize)
        PROVE  \E c \in TextCalls \cup {NoCall}, to \in {"waiting", "open"} : CallBecomes(u, c, to)
    <3> DEFINE c == [kind |-> kind, count |-> n, data |-> w, pos |-> 0, left |-> 0,
                     snap |-> <<>>, torn |-> FALSE]
    <3>1. c \in TextCalls  BY DEF TextCalls
    <3>2. c # NoCall  BY <3>1, CallIsNoCall
    <3>3. c.kind = kind /\ c.count = n /\ c.data = w  OBVIOUS
    <3>4. /\ at[u] = "open" /\ at' = [at EXCEPT ![u] = "waiting"] /\ call' = [call EXCEPT ![u] = c]
          /\ UNCHANGED <<driver, already, holder, bytes, length, toggle, off, taken, disturbed, slipped>>
      BY <2>2 DEF Calls, Goes
    <3> HIDE DEF c
    <3>5. CallBecomes(u, c, "waiting")  BY <2>2, <3>2, <3>3, <3>4 DEF CallBecomes
    <3> QED  BY <3>1, <3>5
  <2>3. CASE ReadText(u)
    <3>1. PICK n \in Counts : Calls(u, "read", n, <<>>)
      BY <2>3 DEF ReadText
    <3>2. n \in Nat /\ <<>> \in Seq({1, 2})  BY TextAssumption
    <3> QED  BY <2>2, <3>1, <3>2
  <2>4. CASE WriteText(u)
    <3>1. PICK w \in Written : (Unchecked => Len(w) <= TextSize) /\ Calls(u, "write", Len(w), w)
      BY <2>4 DEF WriteText
    <3>2. w \in Seq({1, 2}) /\ Len(w) \in Nat  BY TextAssumption
    <3>3. The.writes # "nothing"  BY <2>4 DEF WriteText
    <3> QED  BY <2>2, <3>1, <3>2, <3>3
  <2> QED  BY <2>1, <2>3, <2>4
<1>2. TextTypeOK'
  BY <1>1 DEF TextSound, TextTypeOK, CallBecomes, The
<1>3. ASSUME NEW v \in Users PROVE CallIsWhole(v)' /\ CopyFits(v)'
  <2>1. CASE v = u
    <3>1. call'[u] = c /\ at'[u] = to /\ The' = The /\ Unchecked' = Unchecked
      BY <1>1 DEF TextSound, TextTypeOK, The, Unchecked, CallBecomes
    <3> QED  BY <1>1, <2>1, <3>1 DEF CallIsWhole, CopyFits, CallBecomes
  <2>2. CASE v # u
    <3>1. Spares(v)  BY <1>1, <2>2 DEF TextSound, TextTypeOK, Spares, CallBecomes
    <3> QED  BY <1>1, <3>1, SparedSound DEF CallBecomes
  <2> QED  BY <2>1, <2>2
<1> QED  BY <1>2, <1>3 DEF TextSound, InCall, InBounds

\* The text that is read: all of it, unless procfs3 cuts it.
LEMMA GivenIs ==
  ASSUME TextTypeOK, NEW u \in Users, call[u] \in TextCalls
  PROVE  /\ Given(u) \in Seq(0..2) /\ Len(Given(u)) \in Nat
         /\ Len(Given(u)) <= Limit(Buffer(u))
         /\ \A i \in 1..Len(Given(u)) : Given(u)[i] = bytes[Buffer(u)][i - 1]
         /\ ~Cuts(u) => Given(u) = Text(Buffer(u)) /\ Len(Given(u)) = Limit(Buffer(u))
<1> DEFINE t == Text(Buffer(u))
<1>1. /\ t \in Seq(0..2) /\ Len(t) = Limit(Buffer(u)) /\ Limit(Buffer(u)) \in Nat
      /\ \A i \in 1..Len(t) : t[i] = bytes[Buffer(u)][i - 1]
  BY BufferIs, TextFits, TextAssumption
<1>2. CASE ~Cuts(u)  BY <1>1, <1>2 DEF Given
<1>3. CASE Cuts(u)
  <2> DEFINE n == call[u].count
             g == SubSeq(t, 1, n)
  <2>1. n \in Nat  BY DEF TextCalls
  <2>2. n <= Len(t)
    <3>1. driver = "buffer2k" /\ n < length  BY <1>3 DEF Cuts, AsksForLess
    <3>2. Limit(Buffer(u)) = length  BY <3>1, Rows DEF Limit, TextTypeOK
    <3>3. length \in Nat  BY TextAssumption DEF TextTypeOK
    <3> QED  BY <1>1, <2>1, <3>1, <3>2, <3>3
  <2>3. Given(u) = g  BY <1>3 DEF Given
  <2> HIDE DEF t, n
  <2>4. g \in Seq(0..2) /\ Len(g) = n /\ \A i \in 1..n : g[i] = t[i]
    <3>1. 0 + n <= Len(t) /\ 0 + 1 = 1 /\ 0 + n = n  BY <1>1, <2>1, <2>2
    <3> QED  BY <1>1, <2>1, <3>1
  <2> HIDE DEF g
  <2> QED  BY <1>1, <1>3, <2>1, <2>2, <2>3, <2>4
<1> QED  BY <1>2, <1>3

\* A read copies what is between its position and the end of the text.
LEMMA ReadFits ==
  ASSUME TextTypeOK, NEW u \in Users, call[u] \in TextCalls
  PROVE  /\ ToRead(u) \in Nat /\ Start(u) \in Nat
         /\ AtEnd(u) => ToRead(u) = 0
         /\ ~AtEnd(u) => Start(u) + ToRead(u) <= Len(Given(u))
         /\ ~AtEnd(u) /\ The.whole => Start(u) + ToRead(u) = Len(Given(u))
<1>1. /\ Limit(Buffer(u)) \in Nat /\ off[u] \in Nat /\ call[u].count \in Nat
  BY TextFits, BufferIs, TextAssumption DEF TextTypeOK, TextCalls
<1>2. The.whole \in BOOLEAN /\ (driver \in {"etx_proc", "buffer2k"} => The.whole)
  BY Rows DEF TextTypeOK, GoodRow
<1>3. ~The.whole => /\ AtEnd(u) <=> off[u] >= Limit(Buffer(u))
                    /\ Len(Given(u)) = Limit(Buffer(u))
  BY <1>2, GivenIs DEF AtEnd, Cuts
<1>7. Len(Given(u)) \in Nat  BY GivenIs
<1>4. CASE AtEnd(u)
  BY <1>1, <1>4 DEF ToRead, Start
<1>5. CASE ~AtEnd(u) /\ The.whole
  BY <1>5, <1>7 DEF ToRead, Start
<1>6. CASE ~AtEnd(u) /\ ~The.whole
  BY <1>1, <1>3, <1>6 DEF ToRead, Start, Smaller
<1> QED  BY <1>2, <1>4, <1>5, <1>6

\* A write copies what fits behind its position.
LEMMA WriteFits ==
  ASSUME TextTypeOK, NEW u \in Users, call[u] \in TextCalls,
         Unchecked => call[u].count <= TextSize
  PROVE  /\ ToWrite(u) \in Nat /\ Start(u) \in Nat /\ ToWrite(u) <= call[u].count
         /\ ToWrite(u) > 0 => Start(u) + ToWrite(u) <= TextSize /\ The.writes # "unread"
<1>1. /\ TextSize \in Nat /\ call[u].count \in Nat /\ off[u] \in Nat /\ Start(u) \in Nat
  BY TextAssumption DEF Start, TextTypeOK, TextCalls
<1>2. Unchecked => Start(u) = 0
  BY Rows DEF Unchecked, Start, TextTypeOK
<1> QED  BY <1>1, <1>2 DEF ToWrite, Smaller

\* A read begins.
LEMMA BeginReadSound ==
  ASSUME TextSound, NEW u \in Users, BeginRead(u)
  PROVE  TextSound'
<1> DEFINE c == [call[u] EXCEPT !.kind = IF AtEnd(u) THEN "end" ELSE "read", !.pos = Start(u),
                                !.left = ToRead(u), !.snap = Given(u),
                                !.torn = BeingWritten(u)]
<1>1. /\ at[u] = "waiting" /\ at' = [at EXCEPT ![u] = "copying"] /\ call[u].kind = "read"
      /\ holder' \in Users \cup {"nobody"}
      /\ UNCHANGED <<driver, already, bytes, off, taken, slipped>>
  BY DEF BeginRead, LetIn, Goes, Lock, TextSound, TextTypeOK
<1>2. call' = [call EXCEPT ![u] = c]
  BY DEF BeginRead
<1>3. toggle' \in BOOLEAN /\ disturbed' \in [Users -> BOOLEAN]
  BY Zenon DEF BeginRead, Spoils, TextSound, TextTypeOK
<1>4. call[u] \in TextCalls
  BY <1>1 DEF TextSound, TextTypeOK, InCall, CallIsWhole
<1>5. Given(u) \in Seq(0..2) /\ Len(Given(u)) \in Nat /\ Len(Given(u)) <= TextSize
  <2>1. Limit(Buffer(u)) \in 0..TextSize  BY BufferIs, TextFits DEF TextSound
  <2> QED  BY <1>4, <2>1, GivenIs, TextAssumption DEF TextSound
<1>6. /\ ToRead(u) \in Nat /\ Start(u) \in Nat
      /\ AtEnd(u) => ToRead(u) = 0
      /\ ~AtEnd(u) => Start(u) + ToRead(u) <= Len(Given(u))
      /\ ~AtEnd(u) /\ The.whole => Start(u) + ToRead(u) = Len(Given(u))
  BY <1>4, ReadFits DEF TextSound
<1>7. BeingWritten(u) \in BOOLEAN  BY DEF BeingWritten
<1>8. c \in TextCalls
  BY <1>4, <1>5, <1>6, <1>7 DEF TextCalls
<1>9. /\ c.kind = (IF AtEnd(u) THEN "end" ELSE "read") /\ c.count = call[u].count
      /\ c.pos = Start(u) /\ c.left = ToRead(u) /\ c.snap = Given(u)
  BY <1>4 DEF TextCalls
<1> HIDE DEF c
<1>10. TextTypeOK'
  <2>1. The' = The  BY <1>1 DEF The
  <2>2. call' \in [Users -> TextCalls \cup {NoCall}]  BY <1>2, <1>8 DEF TextSound, TextTypeOK
  <2>3. length' \in 0..TextSize
    <3>1. length \in 0..TextSize /\ call[u].count \in Nat
      BY <1>4 DEF TextSound, TextTypeOK, TextCalls
    <3>2. length' = length \/ (length' = call[u].count /\ call[u].count < length)
      BY DEF BeginRead, Cuts, AsksForLess
    <3> QED  BY <3>1, <3>2, TextAssumption
  <2> QED  BY <1>1, <1>3, <2>1, <2>2, <2>3 DEF TextSound, TextTypeOK
<1>11. ASSUME NEW v \in Users PROVE CallIsWhole(v)' /\ CopyFits(v)'
  <2>1. CASE v = u
    <3>1. call'[u] = c /\ at'[u] = "copying" /\ The' = The /\ taken' = taken
      BY <1>1, <1>2 DEF TextSound, TextTypeOK, The
    <3>2. Start(u)' = Start(u) /\ off' = off
      BY <1>1, <3>1 DEF Start
    <3>3. CallIsWhole(u)'
      <4>1. CallIsWhole(u)  BY DEF TextSound, InCall
      <4> QED  BY <1>1, <1>4, <1>8, <1>9, <3>1, <4>1, CallIsNoCall DEF CallIsWhole
    <3>4. taken[u] \in Seq(0..2)  BY DEF TextSound, TextTypeOK
    <3>5. CopyFits(u)'
      BY <1>5, <1>6, <1>9, <3>1, <3>2, <3>4 DEF CopyFits
    <3> QED  BY <2>1, <3>3, <3>5
  <2>2. CASE v # u
    <3>1. Spares(v)  BY <1>1, <1>2, <2>2 DEF TextSound, TextTypeOK, Spares
    <3> QED  BY <1>1, <3>1, SparedSound
  <2> QED  BY <2>1, <2>2
<1> QED  BY <1>10, <1>11 DEF TextSound, InCall, InBounds

\* A write begins, and marks the calls it overlaps.
LEMMA BeginWriteSound ==
  ASSUME TextSound, NEW u \in Users, BeginWrite(u)
  PROVE  TextSound'
<1> DEFINE c == [call[u] EXCEPT !.pos = Start(u), !.left = ToWrite(u)]
<1>1. /\ at[u] = "waiting" /\ at' = [at EXCEPT ![u] = "copying"] /\ call[u].kind = "write"
      /\ holder' \in Users \cup {"nobody"}
      /\ UNCHANGED <<driver, already, toggle, off, taken, slipped>>
      /\ length' = IF driver = "buffer2k" THEN ToWrite(u) ELSE length
  BY DEF BeginWrite, LetIn, Goes, Lock, TextSound, TextTypeOK
<1>2. /\ call[u] \in TextCalls /\ The.writes # "nothing"
      /\ call[u].count = Len(call[u].data) /\ (Unchecked => call[u].count <= TextSize)
  BY <1>1, CallIsNoCall DEF TextSound, TextTypeOK, InCall, CallIsWhole
<1>3. /\ ToWrite(u) \in Nat /\ Start(u) \in Nat /\ ToWrite(u) <= call[u].count
      /\ ToWrite(u) > 0 => Start(u) + ToWrite(u) <= TextSize /\ The.writes # "unread"
  BY <1>2, WriteFits DEF TextSound
<1>4. c \in TextCalls  BY <1>2, <1>3 DEF TextCalls
<1>5. /\ c.kind = "write" /\ c.count = call[u].count /\ c.data = call[u].data
      /\ c.pos = Start(u) /\ c.left = ToWrite(u)
  BY <1>1, <1>2 DEF TextCalls
<1>6. call'[u] = c /\ \A v \in Users : v # u => call'[v] = call[v] \/ Marks(v)
  <2> DEFINE readers == {v \in Touched(u) \ {u} : call[v] # NoCall}
             entered == [call EXCEPT ![u] = c]
  <2>1. call' = [v \in Users |-> IF v \in readers THEN [call[v] EXCEPT !.torn = TRUE]
                                                  ELSE entered[v]]
    <3>1. [call EXCEPT ![u].pos = Start(u), ![u].left = ToWrite(u)] = entered
      <4>1. call = [v \in Users |-> call[v]]  BY DEF TextSound, TextTypeOK
      <4> QED  BY <4>1
    <3> QED  BY <3>1 DEF BeginWrite
  <2>2. entered[u] = c /\ \A v \in Users : v # u => entered[v] = call[v]
    BY DEF TextSound, TextTypeOK
  <2>3. \A v \in Users : call[v] # NoCall => call[v] \in TextCalls
    BY DEF TextSound, TextTypeOK
  <2>4. u \notin readers /\ \A v \in readers : call[v] # NoCall  OBVIOUS
  <2> HIDE DEF readers, entered, c
  <2> QED  BY <2>1, <2>2, <2>3, <2>4 DEF Marks
<1> HIDE DEF c
<1>7. TextTypeOK'
  <2>1. The' = The /\ The.opens # "one"
    BY <1>1, <1>2, Rows DEF The, TextSound, TextTypeOK, GoodRow
  <2>2. call' \in [Users -> TextCalls \cup {NoCall}]
    <3>1. \A v \in Users : call'[v] \in TextCalls \cup {NoCall}
      BY <1>4, <1>6, MarkedCall DEF TextSound, TextTypeOK
    <3>2. call' = [v \in Users |-> call'[v]]
      BY DEF BeginWrite
    <3> QED  BY <3>1, <3>2
  <2>3. disturbed' \in [Users -> BOOLEAN]
    BY Zenon DEF BeginWrite, TextSound, TextTypeOK
  <2>4. bytes' \in [Buffers -> [Index -> 0..2]]
    <3>1. [i \in Index |-> 0] \in [Index -> 0..2]  OBVIOUS
    <3> QED  BY <3>1 DEF BeginWrite, TextSound, TextTypeOK
  <2>5. length' \in 0..TextSize
    <3>1. length \in 0..TextSize  BY DEF TextSound, TextTypeOK
    <3> QED  BY <1>1, <1>3, <3>1, TextAssumption
  <2> QED  BY <1>1, <2>1, <2>2, <2>3, <2>4, <2>5 DEF TextSound, TextTypeOK
<1>8. ASSUME NEW v \in Users PROVE CallIsWhole(v)' /\ CopyFits(v)'
  <2>1. CASE v = u
    <3>1. at'[u] = "copying" /\ The' = The /\ Unchecked' = Unchecked
      BY <1>1 DEF TextSound, TextTypeOK, The, Unchecked
    <3>2. Start(u)' = Start(u)
      BY <1>1, <3>1 DEF Start
    <3>3. CallIsWhole(u)'
      BY <1>2, <1>4, <1>5, <1>6, <3>1, CallIsNoCall DEF CallIsWhole
    <3>4. The.whole => Start(u) = 0  BY DEF Start
    <3>6. /\ call[u].count \in Nat /\ TextSize \in Nat /\ Len(call[u].data) \in Nat
          /\ call'[u] = c
      BY <1>2, <1>6, TextAssumption DEF TextCalls
    <3>5. CopyFits(u)'
      BY <1>2, <1>3, <1>5, <3>1, <3>2, <3>4, <3>6 DEF CopyFits
    <3> QED  BY <2>1, <3>3, <3>5
  <2>2. CASE v # u
    <3>1. Spares(v)  BY <1>1, <1>6, <2>2 DEF TextSound, TextTypeOK, Spares
    <3> QED  BY <1>1, <3>1, SparedSound
  <2> QED  BY <2>1, <2>2
<1> QED  BY <1>7, <1>8 DEF TextSound, InCall, InBounds

\* A byte copied: the call has come one further.
LEMMA AdvanceIs ==
  ASSUME TextSound, NEW u \in Users, Advances(u)
  PROVE  /\ at[u] = "copying" /\ call[u] \in TextCalls /\ call[u].left > 0
         /\ call'[u] \in TextCalls
         /\ call'[u].kind = call[u].kind /\ call'[u].count = call[u].count
         /\ call'[u].data = call[u].data /\ call'[u].snap = call[u].snap
         /\ call'[u].torn = call[u].torn
         /\ call'[u].pos = call[u].pos + 1 /\ call'[u].left = call[u].left - 1
         /\ \A v \in Users : v # u => call'[v] = call[v]
         /\ call' \in [Users -> TextCalls \cup {NoCall}]
<1> DEFINE c == [call[u] EXCEPT !.pos = @ + 1, !.left = @ - 1]
<1>1. at[u] = "copying" /\ call[u] \in TextCalls /\ call[u].left > 0
  BY CallIsNoCall DEF Advances, TextSound, TextTypeOK, InCall, CallIsWhole
<1>2. call' = [call EXCEPT ![u] = c]  BY DEF Advances
<1>3. c \in TextCalls
  <2>1. call[u].pos + 1 \in Nat /\ call[u].left - 1 \in Nat  BY <1>1 DEF TextCalls
  <2> QED  BY <1>1, <2>1 DEF TextCalls
<1>4. /\ c.kind = call[u].kind /\ c.count = call[u].count /\ c.data = call[u].data
      /\ c.snap = call[u].snap /\ c.torn = call[u].torn
      /\ c.pos = call[u].pos + 1 /\ c.left = call[u].left - 1
  BY <1>1 DEF TextCalls
<1> HIDE DEF c
<1>5. call'[u] = c /\ call' \in [Users -> TextCalls \cup {NoCall}]
      /\ \A v \in Users : v # u => call'[v] = call[v]
  BY <1>2, <1>3 DEF TextSound, TextTypeOK
<1> QED  BY <1>1, <1>3, <1>4, <1>5

\* A byte copied stays inside the text, and inside the buffer.
LEMMA CopySound ==
  ASSUME TextSound, NEW u \in Users, CopyToUser(u) \/ CopyFromUser(u)
  PROVE  TextSound'
<1>1. Advances(u) /\ UNCHANGED <<driver, already, holder, length, toggle, at, off, disturbed, slipped>>
  BY DEF CopyToUser, CopyFromUser
<1>2. /\ at[u] = "copying" /\ call[u] \in TextCalls /\ call[u].left > 0
      /\ call'[u] \in TextCalls
      /\ call'[u].kind = call[u].kind /\ call'[u].count = call[u].count
      /\ call'[u].data = call[u].data /\ call'[u].snap = call[u].snap
      /\ call'[u].pos = call[u].pos + 1 /\ call'[u].left = call[u].left - 1
      /\ \A v \in Users : v # u => call'[v] = call[v]
      /\ call' \in [Users -> TextCalls \cup {NoCall}]
  BY <1>1, AdvanceIs
<1>3. /\ call[u].left \in Nat /\ call[u].pos \in Nat /\ call[u].data \in Seq({1, 2})
      /\ call[u].snap \in Seq(0..2) /\ Start(u) \in Nat /\ taken[u] \in Seq(0..2)
      /\ Len(call[u].snap) \in Nat /\ Len(call[u].data) \in Nat /\ Len(taken[u]) \in Nat
  BY <1>2 DEF TextCalls, Start, TextSound, TextTypeOK
<1>4. CallIsWhole(u) /\ CopyFits(u)  BY DEF TextSound, InCall, InBounds
<1>5. The' = The /\ Start(u)' = Start(u) /\ Unchecked' = Unchecked
  BY <1>1 DEF The, Start, Unchecked
<1>6. CASE CopyToUser(u)
  <2>1. call[u].kind = "read" /\ UNCHANGED bytes  BY <1>6 DEF CopyToUser
  <2>2. call[u].pos \in Index /\ Buffer(u) \in Buffers
    BY <1>2, <1>3, <1>4, <2>1, BufferIs, TextAssumption DEF CopyFits, Index
  <2>3. bytes[Buffer(u)][call[u].pos] \in 0..2
    BY <2>2 DEF TextSound, TextTypeOK
  <2>4. Append(taken[u], bytes[Buffer(u)][call[u].pos]) \in Seq(0..2)
        /\ Len(Append(taken[u], bytes[Buffer(u)][call[u].pos])) = Len(taken[u]) + 1
    BY <1>3, <2>3
  <2>5. taken' = [taken EXCEPT ![u] = Append(taken[u], bytes[Buffer(u)][call[u].pos])]
    BY <1>6 DEF CopyToUser
  <2>6. taken' \in [Users -> Seq(0..2)] /\ Len(taken'[u]) = Len(taken[u]) + 1
    BY <2>4, <2>5 DEF TextSound, TextTypeOK
  <2>7. TextTypeOK'
    BY <1>1, <1>2, <1>5, <2>1, <2>6 DEF TextSound, TextTypeOK
  <2>8. CopyFits(u)'
    BY <1>1, <1>2, <1>3, <1>4, <1>5, <2>1, <2>6 DEF CopyFits
  <2>9. \A v \in Users : v # u => Spares(v)
    BY <1>1, <1>2, <2>5 DEF Spares, TextSound, TextTypeOK
  <2>10. CallIsWhole(u)'
    BY <1>1, <1>2, <1>4, <1>5, CallIsNoCall DEF CallIsWhole
  <2> QED  BY <1>1, <2>7, <2>8, <2>9, <2>10, SparedSound DEF TextSound, InCall, InBounds
<1>7. CASE CopyFromUser(u)
  <2> DEFINE i == call[u].pos
             b == call[u].data[i + 1 - Start(u)]
  <2>1. call[u].kind = "write" /\ UNCHANGED taken  BY <1>7 DEF CopyFromUser
  <2>11. /\ Start(u) <= call[u].pos /\ call[u].pos + call[u].left <= TextSize
         /\ call[u].pos + call[u].left - Start(u) <= Len(call[u].data)
         /\ The.writes # "unread" /\ TextSize \in Nat
    BY <1>2, <1>4, <2>1, TextAssumption DEF CopyFits
  <2>2. i \in Index /\ i + 1 - Start(u) \in 1..Len(call[u].data)
    <3>1. call[u].left >= 1  BY <1>2, <1>3
    <3>2. /\ Start(u) <= i /\ i + 1 <= TextSize /\ i + 1 - Start(u) <= Len(call[u].data)
      BY <1>3, <2>11, <3>1
    <3> QED  BY <1>3, <2>11, <3>2 DEF Index
  <2>3. b \in 0..2  BY <1>3, <2>2
  <2>4. bytes' = [bytes EXCEPT ![Buffer(u)][i] = b]  BY <1>7 DEF CopyFromUser
  <2> HIDE DEF i, b
  <2>5. bytes' \in [Buffers -> [Index -> 0..2]]
    BY <2>2, <2>3, <2>4, BufferIs DEF TextSound, TextTypeOK
  <2>6. The.opens # "one"
    BY <1>2, <1>4, <2>1, CallIsNoCall, Rows DEF CallIsWhole, TextSound, TextTypeOK, GoodRow
  <2>7. TextTypeOK'
    BY <1>1, <1>2, <1>5, <2>1, <2>5, <2>6 DEF TextSound, TextTypeOK
  <2>8. CopyFits(u)'
    BY <1>1, <1>2, <1>3, <1>5, <2>1, <2>11 DEF CopyFits
  <2>9. \A v \in Users : v # u => Spares(v)
    BY <1>1, <1>2, <2>1 DEF Spares, TextSound, TextTypeOK
  <2>10. CallIsWhole(u)'
    BY <1>1, <1>2, <1>4, <1>5, CallIsNoCall DEF CallIsWhole
  <2> QED  BY <1>1, <2>7, <2>8, <2>9, <2>10, SparedSound DEF TextSound, InCall, InBounds
<1> QED  BY <1>6, <1>7

\* A call returns; what the driver of 06 has written is then the length.
LEMMA ReturnsSound ==
  ASSUME TextSound, NEW u \in Users, Returns(u)
  PROVE  TextSound'
<1>1. /\ at[u] = "copying" /\ at' = [at EXCEPT ![u] = "open"] /\ call' = [call EXCEPT ![u] = NoCall]
      /\ holder' = "nobody"
      /\ length' = IF driver = "etx" /\ call[u].kind = "write" THEN call[u].pos ELSE length
      /\ UNCHANGED <<driver, already, bytes, toggle, disturbed, slipped>>
  BY DEF Returns, Goes, Unlock
<1>2. CallIsWhole(u) /\ CopyFits(u)  BY DEF TextSound, InCall, InBounds
<1>3. call[u] \in TextCalls
  BY <1>1, <1>2, CallIsNoCall DEF CallIsWhole, TextSound, TextTypeOK
<1>4. /\ call[u].pos \in Nat /\ call[u].count \in Nat /\ Start(u) \in Nat /\ off[u] \in Nat
      /\ Start(u) <= call[u].pos
  BY <1>1, <1>2, <1>3 DEF CopyFits, TextCalls, Start, TextSound, TextTypeOK
<1>5. Moved(u) \in Nat
  <2>1. TextSize \in Nat /\ TextSize - 1 \in Nat  BY TextAssumption
  <2>2. ASSUME NEW k \in Nat, NEW l \in Nat PROVE Smaller(k, l) \in Nat  BY DEF Smaller
  <2>3. Smaller(call[u].count, TextSize - 1) \in Nat  BY <1>4, <2>1, <2>2
  <2>4. off[u] + call[u].pos \in Nat  BY <1>4
  <2>5. Smaller(off[u] + call[u].pos, TextSize) \in Nat  BY <2>1, <2>2, <2>4
  <2>6. off[u] + Smaller(call[u].count, TextSize - 1) \in Nat  BY <1>4, <2>3
  <2>7. off[u] + call[u].count \in Nat  BY <1>4
  <2>8. call[u].pos - Start(u) \in Nat  BY <1>4
  <2>9. off[u] + (call[u].pos - Start(u)) \in Nat  BY <1>4, <2>8
  <2> QED  BY <1>4, <2>5, <2>6, <2>7, <2>9 DEF Moved
<1>6. PICK m \in Nat : off' = [off EXCEPT ![u] = m]
  <2>1. \E k \in {0, off[u], Moved(u)} : off' = [off EXCEPT ![u] = k]
    BY DEF Returns
  <2> QED  BY <1>4, <1>5, <2>1
<1>7. taken' = taken \/ taken' = [taken EXCEPT ![u] = <<>>]
  BY DEF Returns
<1>8. TextTypeOK'
  <2>1. The' = The  BY <1>1 DEF The
  <2>2. taken' \in [Users -> Seq(0..2)]
    <3>1. <<>> \in Seq(0..2)  OBVIOUS
    <3> QED  BY <1>7, <3>1 DEF TextSound, TextTypeOK
  <2>3. length' \in 0..TextSize
    <3>1. driver = "etx" => The.whole  BY DEF The, Drivers, EtxDevice, Row
    <3>2. length \in 0..TextSize  BY DEF TextSound, TextTypeOK
    <3> QED  BY <1>1, <1>2, <1>4, <3>1, <3>2, TextAssumption DEF CopyFits
  <2>4. off' \in [Users -> Nat]
    <3>1. off \in [Users -> Nat]  BY DEF TextSound, TextTypeOK
    <3> QED  BY <1>6, <3>1
  <2> QED  BY <1>1, <2>1, <2>2, <2>3, <2>4 DEF TextSound, TextTypeOK
<1>9. ASSUME NEW v \in Users PROVE CallIsWhole(v)' /\ CopyFits(v)'
  <2>1. CASE v = u
    <3>1. at'[u] = "open" /\ call'[u] = NoCall  BY <1>1 DEF TextSound, TextTypeOK
    <3> QED  BY <2>1, <3>1 DEF CallIsWhole, CopyFits
  <2>2. CASE v # u
    <3>1. Spares(v)  BY <1>1, <1>6, <1>7, <2>2 DEF TextSound, TextTypeOK, Spares
    <3> QED  BY <1>1, <3>1, SparedSound
  <2> QED  BY <2>1, <2>2
<1> QED  BY <1>8, <1>9 DEF TextSound, InCall, InBounds

\* A read that runs on behind the buffer.
LEMMA BeyondIs ==
  ASSUME TextSound, NEW u \in Users, ReadsBeyond(u)
  PROVE  /\ at[u] = "waiting" /\ at' = [at EXCEPT ![u] = "open"]
         /\ driver = "example2" /\ holder = "nobody"
         /\ call' = [call EXCEPT ![u] = NoCall] /\ disturbed'[u]
         /\ disturbed' = [disturbed EXCEPT ![u] = TRUE]
         /\ UNCHANGED <<driver, already, holder, bytes, length, toggle, slipped>>
         /\ off' \in [Users -> Nat] /\ taken' \in [Users -> Seq(0..2)]
         /\ \A v \in Users : v # u => off'[v] = off[v] /\ taken'[v] = taken[v]
<1>1. /\ at[u] = "waiting" /\ at' = [at EXCEPT ![u] = "open"]
      /\ driver = "example2" /\ holder = "nobody"
      /\ call' = [call EXCEPT ![u] = NoCall]
      /\ disturbed' = [disturbed EXCEPT ![u] = TRUE]
      /\ UNCHANGED <<driver, already, holder, bytes, length, toggle, slipped>>
  BY DEF ReadsBeyond, Goes
<1>2. call[u] \in TextCalls /\ call[u].count \in Nat /\ off[u] \in Nat
  <2>1. call[u] \in TextCalls
    BY <1>1 DEF TextSound, TextTypeOK, InCall, CallIsWhole
  <2> QED  BY <2>1 DEF TextCalls, TextSound, TextTypeOK
<1> DEFINE f(n, junk) == [i \in 1..n |-> IF off[u] + i <= TextSize
                                         THEN bytes[Module][off[u] + i - 1] ELSE junk]
<1>3. PICK n \in 1..call[u].count, junk \in 1..2 :
        /\ taken' = [taken EXCEPT ![u] = @ \o f(n, junk)]
        /\ off' = [off EXCEPT ![u] = @ + n]
  BY DEF ReadsBeyond
<1>4. n \in Nat  BY <1>2
<1>5. f(n, junk) \in Seq(0..2)
  <2>1. ASSUME NEW i \in 1..n, off[u] + i <= TextSize
        PROVE  bytes[Module][off[u] + i - 1] \in 0..2
    <3>1. off[u] + i - 1 \in Index  BY <1>2, <1>4, <2>1, TextAssumption DEF Index
    <3> QED  BY <3>1 DEF TextSound, TextTypeOK, Buffers
  <2>2. \A i \in 1..n : f(n, junk)[i] \in 0..2  BY <2>1
  <2>3. f(n, junk) \in [1..n -> 0..2]  BY <2>2
  <2> HIDE DEF f
  <2> QED  BY <1>4, <2>3
<1> HIDE DEF f
<1>6. taken[u] \o f(n, junk) \in Seq(0..2)
  BY <1>5 DEF TextSound, TextTypeOK
<1>7. off[u] + n \in Nat  BY <1>2, <1>4
<1> QED  BY <1>1, <1>3, <1>6, <1>7 DEF TextSound, TextTypeOK

LEMMA BeyondSound ==
  ASSUME TextSound, NEW u \in Users, ReadsBeyond(u)
  PROVE  TextSound'
<1>1. The' = The  BY BeyondIs DEF The
<1>2. TextTypeOK'
  BY <1>1, BeyondIs DEF TextSound, TextTypeOK
<1>3. ASSUME NEW v \in Users PROVE CallIsWhole(v)' /\ CopyFits(v)'
  <2>1. CASE v = u
    <3>1. at'[u] = "open" /\ call'[u] = NoCall  BY BeyondIs DEF TextSound, TextTypeOK
    <3> QED  BY <2>1, <3>1 DEF CallIsWhole, CopyFits
  <2>2. CASE v # u
    <3>1. Spares(v)  BY <2>2, BeyondIs DEF TextSound, TextTypeOK, Spares
    <3> QED  BY <3>1, BeyondIs, SparedSound
  <2> QED  BY <2>1, <2>2
<1> QED  BY <1>2, <1>3 DEF TextSound, InCall, InBounds

\* Every step keeps types, calls and bounds.
LEMMA TextStepSound == TextSound /\ [TextNext]_textVars => TextSound'
<1> SUFFICES ASSUME TextSound, [TextNext]_textVars PROVE TextSound'  OBVIOUS
<1>1. CASE UNCHANGED textVars
  BY <1>1 DEF textVars, TextSound, TextTypeOK, InCall, InBounds, CallIsWhole, CopyFits, The, Start,
              Unchecked
<1> QED
  BY <1>1, OutsideSound, CallsSound, BeginReadSound, BeginWriteSound, BeyondSound, CopySound,
     ReturnsSound DEF TextNext

-----------------------------------------------------------------------------
(* Who has the file open, and who holds the lock *)

Holders == {u \in Users : at[u] \notin {"out", "opening"}}

FlagIsFile ==
  /\ The.opens # "test" => ~slipped /\ \A u \in Users : at[u] # "opening"
  /\ The.opens \in {"one", "test"} /\ ~slipped =>
       (already <=> Holders # {}) /\ \A u, v \in Holders : u = v
  /\ Holders = {} => ~already

LockIsCall ==
  /\ holder # "nobody" => holder \in Users /\ at[holder] = "copying"
  /\ The.calls # "free" => \A u \in Users : at[u] = "copying" => holder = u

Exclusion == FlagIsFile /\ LockIsCall

\* At first the file is free, and the lock.
LEMMA InitExclusion == TextInit => Exclusion
BY DEF TextInit, Exclusion, FlagIsFile, LockIsCall, Holders

\* Calls move inside the open file.
LEMMA CallsKeepFlag ==
  ASSUME TextTypeOK, FlagIsFile, NEW u \in Users,
         UNCHANGED <<driver, already, slipped>>, at[u] \notin {"out", "opening"},
         at' = at \/ \E to \in {"open", "waiting", "copying"} : at' = [at EXCEPT ![u] = to]
  PROVE  FlagIsFile'
<1>1. \A v \in Users : /\ at'[v] \in {"out", "opening"} <=> at[v] \in {"out", "opening"}
                       /\ at'[v] = "opening" <=> at[v] = "opening"
  BY DEF TextTypeOK
<1>2. Holders' = Holders  BY <1>1 DEF Holders
<1>3. The' = The  BY DEF The
<1> QED  BY <1>1, <1>2, <1>3 DEF FlagIsFile

\* open and release set and clear the flag with the file.
LEMMA OpensKeepFlag ==
  ASSUME TextTypeOK, FlagIsFile, NEW u \in Users,
         OpenAny(u) \/ OpenOne(u) \/ OpenTests(u) \/ OpenSets(u) \/ Release(u)
  PROVE  FlagIsFile'
<1>1. The' = The
  BY DEF OpenAny, OpenOne, OpenTests, OpenSets, Release, The
<1>2. \A v \in Users : v # u => at'[v] = at[v]
  BY DEF OpenAny, OpenOne, OpenTests, OpenSets, Release, Goes, TextTypeOK
<1>3. CASE OpenAny(u) \/ OpenOne(u)
  <2>1. at[u] = "out" /\ at'[u] = "open" /\ UNCHANGED slipped
    BY <1>3 DEF OpenAny, OpenOne, Goes, TextTypeOK
  <2>2. Holders' = Holders \cup {u} /\ u \notin Holders  BY <1>2, <2>1 DEF Holders
  <2>3. \A v \in Users : at'[v] = "opening" => at[v] = "opening"  BY <1>2, <2>1
  <2>4. CASE OpenAny(u)
    BY <1>1, <2>1, <2>2, <2>3, <2>4 DEF OpenAny, FlagIsFile
  <2>5. CASE OpenOne(u)
    BY <1>1, <2>1, <2>2, <2>3, <2>5 DEF OpenOne, CmpxchgOpen, FlagIsFile
  <2> QED  BY <1>3, <2>4, <2>5
<1>4. CASE OpenTests(u)
  <2>1. /\ at[u] = "out" /\ at'[u] = "opening" /\ UNCHANGED <<slipped, already>>
        /\ The.opens = "test"
    BY <1>4 DEF OpenTests, Goes, TextTypeOK
  <2>2. Holders' = Holders  BY <1>2, <2>1 DEF Holders
  <2> QED  BY <1>1, <2>1, <2>2 DEF FlagIsFile
<1>5. CASE OpenSets(u)
  <2>1. /\ at[u] = "opening" /\ at'[u] = "open" /\ already' = TRUE
        /\ slipped' = (slipped \/ already)
    BY <1>5 DEF OpenSets, Goes, TextTypeOK
  <2>2. Holders' = Holders \cup {u} /\ u \notin Holders  BY <1>2, <2>1 DEF Holders
  <2>3. The.opens = "test"  BY <2>1 DEF FlagIsFile
  <2> QED  BY <1>1, <2>1, <2>2, <2>3 DEF FlagIsFile
<1>6. CASE Release(u)
  <2>1. /\ at[u] = "open" /\ at'[u] = "out" /\ already' = FALSE
        /\ slipped' = (slipped /\ \E v \in Users \ {u} : at[v] # "out")
    BY <1>6 DEF Release, Goes, TextTypeOK
  <2>2. Holders' = Holders \ {u} /\ u \in Holders  BY <1>2, <2>1 DEF Holders
  <2>3. ~slipped' /\ slipped => Holders' = {}
    BY <1>2, <2>1, <2>2 DEF Holders
  <2>4. The.opens \in {"one", "test"} /\ ~slipped' => Holders' = {}
    BY <2>2, <2>3 DEF FlagIsFile
  <2>5. \A v \in Users : at'[v] = "opening" => at[v] = "opening"  BY <1>2, <2>1
  <2> QED  BY <1>1, <2>1, <2>4, <2>5 DEF FlagIsFile
<1> QED  BY <1>3, <1>4, <1>5, <1>6

\* A call copies with the lock, and gives it back when it returns.
LEMMA StepsKeepLock ==
  ASSUME TextTypeOK, LockIsCall, NEW u \in Users,
         \/ OpenAny(u) \/ OpenOne(u) \/ OpenTests(u) \/ OpenSets(u)
         \/ Release(u) \/ Seek(u)
         \/ ReadText(u) \/ WriteText(u) \/ Interrupted(u)
         \/ BeginRead(u) \/ BeginWrite(u) \/ ReadsBeyond(u)
         \/ CopyToUser(u) \/ CopyFromUser(u) \/ Returns(u)
  PROVE  LockIsCall'
<1>1. CASE BeginRead(u) \/ BeginWrite(u)
  <2>1. /\ at[u] = "waiting" /\ at' = [at EXCEPT ![u] = "copying"] /\ Lock(u) /\ The' = The
    BY <1>1 DEF BeginRead, BeginWrite, LetIn, Goes, The
  <2>2. \A v \in Users : at'[v] = "copying" <=> at[v] = "copying" \/ v = u
    BY <2>1 DEF TextTypeOK
  <2>3. u # "nobody"  BY NamesAssumption
  <2> QED  BY <2>1, <2>2, <2>3, NamesAssumption DEF LockIsCall, Lock
<1>2. CASE Returns(u)
  <2>1. /\ at[u] = "copying" /\ at' = [at EXCEPT ![u] = "open"] /\ holder' = "nobody" /\ The' = The
    BY <1>2 DEF Returns, Goes, Unlock, The
  <2>2. \A v \in Users : at'[v] = "copying" => at[v] = "copying" /\ v # u
    BY <2>1 DEF TextTypeOK
  <2> QED  BY <2>1, <2>2 DEF LockIsCall
<1>3. CASE ~(BeginRead(u) \/ BeginWrite(u) \/ Returns(u))
  <2>1. /\ UNCHANGED holder /\ The' = The
        /\ \/ at' = at
           \/ at[u] # "copying" /\ \E to \in {"out", "opening", "open", "waiting"} :
                at' = [at EXCEPT ![u] = to]
    BY <1>3 DEF OpenAny, OpenOne, OpenTests, OpenSets, Release, Seek, ReadText, WriteText,
                Interrupted, ReadsBeyond, CopyToUser, CopyFromUser, Calls, Goes, The
  <2>2. \A v \in Users : at'[v] = "copying" <=> at[v] = "copying"
    BY <2>1 DEF TextTypeOK
  <2> QED  BY <2>1, <2>2 DEF LockIsCall
<1> QED  BY <1>1, <1>2, <1>3

\* Every step keeps the flag and the lock.
LEMMA StepExclusion == TextSound /\ Exclusion /\ [TextNext]_textVars => Exclusion'
<1> SUFFICES ASSUME TextTypeOK, Exclusion, [TextNext]_textVars PROVE Exclusion'
  BY DEF TextSound
<1>1. CASE UNCHANGED textVars
  BY <1>1 DEF textVars, Exclusion, FlagIsFile, LockIsCall, Holders, The
<1>2. ASSUME NEW u \in Users,
             \/ OpenAny(u) \/ OpenOne(u) \/ OpenTests(u) \/ OpenSets(u) \/ Release(u)
      PROVE  Exclusion'
  BY <1>2, OpensKeepFlag, StepsKeepLock DEF Exclusion
<1>3. ASSUME NEW u \in Users,
             \/ Seek(u)
             \/ ReadText(u) \/ WriteText(u) \/ Interrupted(u)
             \/ BeginRead(u) \/ BeginWrite(u) \/ ReadsBeyond(u)
             \/ CopyToUser(u) \/ CopyFromUser(u) \/ Returns(u)
      PROVE  Exclusion'
  <2>1. /\ UNCHANGED <<driver, already, slipped>> /\ at[u] \notin {"out", "opening"}
        /\ at' = at \/ \E to \in {"open", "waiting", "copying"} : at' = [at EXCEPT ![u] = to]
    BY <1>3 DEF Seek, ReadText, WriteText, Interrupted, BeginRead, BeginWrite, ReadsBeyond,
                CopyToUser, CopyFromUser, Returns, Calls, Goes, LetIn, Advances
  <2> QED  BY <1>3, <2>1, CallsKeepFlag, StepsKeepLock DEF Exclusion
<1> QED  BY <1>1, <1>2, <1>3 DEF TextNext

\* In every state the calls are inside the buffer and their text, the flag is set while
\* the file is open, and the lock is held by who copies: all but the calls that leave the
\* buffer, which ReadsBeyond is and the writes are that WriteText's bound leaves out.
THEOREM TextSafe == TextSpec => [](TextSound /\ Exclusion)
<1> QED  BY TextInitSound, InitExclusion, TextStepSound, StepExclusion, PTL DEF TextSpec

\* One process at a time has the file of chardev and, but for the race of its open, that
\* of the watchdog, and nobody is locked out for good: already_open and the mutex.
THEOREM OneAtATime == TextSpec => []ExclusionIsKept
<1>1. Exclusion => ExclusionIsKept
  BY DEF Exclusion, FlagIsFile, LockIsCall, Holders, ExclusionIsKept
<1> QED  BY <1>1, TextSafe, PTL

-----------------------------------------------------------------------------
(* A read beside writes *)

Reads(u)  == at[u] = "copying" /\ call[u].kind = "read"
Writes(u) == at[u] = "copying" /\ call[u].kind = "write"

TornIsSeen ==
  \A u, v \in Users :
    at[v] = "copying" /\ call[v].kind # "write" /\ WrittenBy(u, v) => call[v].torn

Untorn(u) == The.calls = "mutex" \/ The.opens = "one" \/ ~call[u].torn

\* The bytes u is reading are still those of its snapshot, and it has copied them.
HasSnap(u) ==
  LET n == call[u].pos - Start(u)
  IN  /\ \A i \in 0..Len(call[u].snap) - 1 : bytes[Buffer(u)][i] = call[u].snap[i + 1]
      /\ \A k \in 1..n : taken[u][Len(taken[u]) - n + k] = call[u].snap[Start(u) + k]

CopiesSnap == \A u \in Users : Reads(u) /\ Untorn(u) => HasSnap(u)

Begins(u) == BeginRead(u) \/ BeginWrite(u)
Opens(u)  == OpenAny(u) \/ OpenOne(u) \/ OpenTests(u) \/ OpenSets(u) \/ Release(u) \/ Seek(u)
Asks(u)   == ReadText(u) \/ WriteText(u) \/ Interrupted(u)
Copying(u) == CopyToUser(u) \/ CopyFromUser(u)
TextStep(u) == Opens(u) \/ Asks(u) \/ Begins(u) \/ ReadsBeyond(u) \/ Copying(u) \/ Returns(u)

\* What a read is when it begins.
LEMMA BeginReadIs ==
  ASSUME TextSound, NEW u \in Users, BeginRead(u)
  PROVE  /\ at[u] = "waiting" /\ at'[u] = "copying"
         /\ \A v \in Users : v # u => at'[v] = at[v] /\ call'[v] = call[v]
         /\ call'[u].kind = (IF AtEnd(u) THEN "end" ELSE "read") /\ call'[u].pos = Start(u)
         /\ call'[u].snap = Given(u) /\ call'[u].torn = BeingWritten(u)
         /\ call'[u].count = call[u].count /\ call[u] \in TextCalls
         /\ \A v \in Users : disturbed'[v] <=> disturbed[v] \/ Spoils(u, v)
         /\ ~Cuts(u) => length' = length
         /\ UNCHANGED <<driver, already, bytes, off, taken, slipped>>
<1>1. /\ at[u] = "waiting" /\ at' = [at EXCEPT ![u] = "copying"]
      /\ UNCHANGED <<driver, already, bytes, off, taken, slipped>>
      /\ call' = [call EXCEPT ![u] =
                    [call[u] EXCEPT !.kind = IF AtEnd(u) THEN "end" ELSE "read",
                                    !.pos = Start(u), !.left = ToRead(u),
                                    !.snap = Given(u), !.torn = BeingWritten(u)]]
  BY DEF BeginRead, LetIn, Goes
<1>2. call[u] \in TextCalls
  BY <1>1 DEF TextSound, TextTypeOK, InCall, CallIsWhole
<1>3. \A v \in Users : disturbed'[v] <=> disturbed[v] \/ Spoils(u, v)
  BY DEF BeginRead
<1>4. ~Cuts(u) => length' = length  BY DEF BeginRead
<1> QED  BY <1>1, <1>2, <1>3, <1>4 DEF TextSound, TextTypeOK, TextCalls

\* What a write is when it begins, and whom it marks and disturbs.
LEMMA BeginWriteIs ==
  ASSUME TextSound, NEW u \in Users, BeginWrite(u)
  PROVE  /\ at[u] = "waiting" /\ at'[u] = "copying"
         /\ call[u].kind = "write" /\ call'[u].kind = "write" /\ The.writes # "nothing"
         /\ \A v \in Users : v # u => /\ at'[v] = at[v]
                                      /\ call'[v] = call[v] \/ Marks(v)
                                      /\ v \notin Touched(u) => call'[v] = call[v]
         /\ \A v \in Touched(u) \ {u} : call[v] # NoCall => Marks(v)
         /\ \A v \in Users : disturbed'[v] <=>
              disturbed[v] \/ (v \in Touched(u) /\ at[v] # "out")
         /\ bytes' = IF The.writes = "anew" THEN [bytes EXCEPT ![Module] = [i \in Index |-> 0]]
                     ELSE bytes
         /\ length' = IF driver = "buffer2k" THEN ToWrite(u) ELSE length
         /\ UNCHANGED <<driver, already, toggle, off, taken, slipped>>
<1> DEFINE readers == {v \in Touched(u) \ {u} : call[v] # NoCall}
           entered == [call EXCEPT ![u].pos = Start(u), ![u].left = ToWrite(u)]
<1>1. /\ at[u] = "waiting" /\ at' = [at EXCEPT ![u] = "copying"] /\ call[u].kind = "write"
      /\ call' = [v \in Users |-> IF v \in readers THEN [call[v] EXCEPT !.torn = TRUE]
                                                    ELSE entered[v]]
      /\ disturbed' = [v \in Users |-> disturbed[v] \/ (v \in Touched(u) /\ at[v] # "out")]
      /\ UNCHANGED <<driver, already, toggle, off, taken, slipped>>
      /\ bytes' = IF The.writes = "anew" THEN [bytes EXCEPT ![Module] = [i \in Index |-> 0]]
                  ELSE bytes
      /\ length' = IF driver = "buffer2k" THEN ToWrite(u) ELSE length
  BY DEF BeginWrite, LetIn, Goes
<1>2. call[u] \in TextCalls /\ The.writes # "nothing"
  BY <1>1, CallIsNoCall DEF TextSound, TextTypeOK, InCall, CallIsWhole
<1>3. entered[u].kind = "write" /\ \A v \in Users : v # u => entered[v] = call[v]
  BY <1>1, <1>2 DEF TextSound, TextTypeOK, TextCalls
<1>4. Touched(u) \subseteq Users  BY DEF Touched
<1>5. \A v \in Users : call[v] # NoCall => call[v] \in TextCalls
  BY DEF TextSound, TextTypeOK
<1>6. \A v \in readers : v \in Users /\ v # u /\ v \in Touched(u) /\ call[v] # NoCall
  BY <1>4
<1>7. \A v \in Touched(u) \ {u} : call[v] # NoCall => v \in readers
  OBVIOUS
<1> HIDE DEF readers, entered
<1>8. at'[u] = "copying" /\ \A v \in Users : v # u => at'[v] = at[v]
  BY <1>1 DEF TextSound, TextTypeOK
<1>9. call'[u].kind = "write"
  BY <1>1, <1>3, <1>6
<1>10. \A v \in readers : Marks(v)
  BY <1>1, <1>5, <1>6 DEF Marks
<1>11. \A v \in Users : v # u /\ v \notin readers => call'[v] = call[v]
  BY <1>1, <1>3
<1>12. \A v \in Users : disturbed'[v] <=> disturbed[v] \/ (v \in Touched(u) /\ at[v] # "out")
  BY <1>1
<1> QED  BY <1>1, <1>2, <1>4, <1>6, <1>7, <1>8, <1>9, <1>10, <1>11, <1>12

\* The other steps neither begin a call nor mark one.
LEMMA OtherStepsAre ==
  ASSUME TextSound, NEW u \in Users,
         Opens(u) \/ Asks(u) \/ ReadsBeyond(u) \/ Copying(u) \/ Returns(u)
  PROVE  /\ driver' = driver
         /\ \A v \in Users : /\ v # u => at'[v] = at[v] /\ call'[v] = call[v]
                             /\ at'[v] = "copying" =>
                                  /\ at[v] = "copying" /\ call'[v].kind = call[v].kind
                                  /\ call'[v].torn = call[v].torn
<1>1. CASE Opens(u)
  BY <1>1 DEF Opens, OpenAny, OpenOne, OpenTests, OpenSets, Release, Seek, Goes, TextSound,
              TextTypeOK
<1>2. CASE Asks(u)
  BY <1>2 DEF Asks, ReadText, WriteText, Interrupted, Calls, Goes, TextSound, TextTypeOK
<1>3. CASE Returns(u)
  BY <1>3 DEF Returns, Goes, TextSound, TextTypeOK
<1>4. CASE Copying(u)
  <2>1. Advances(u) /\ UNCHANGED <<driver, at>>
    BY <1>4 DEF Copying, CopyToUser, CopyFromUser
  <2> QED  BY <2>1, AdvanceIs
<1>5. CASE ReadsBeyond(u)
  BY <1>5, BeyondIs DEF TextSound, TextTypeOK
<1> QED  BY <1>1, <1>2, <1>3, <1>4, <1>5

\* A read that a write overlaps, in whatever order they began, is marked.
LEMMA StepTorn ==
  ASSUME TextSound, TornIsSeen, NEW w \in Users, TextStep(w)
  PROVE  TornIsSeen'
<1> SUFFICES ASSUME NEW u \in Users, NEW v \in Users,
                    at'[v] = "copying", call'[v].kind # "write", WrittenBy(u, v)'
             PROVE  call'[v].torn
  BY DEF TornIsSeen
<1>1. CASE BeginRead(w)
  <2>1. driver' = driver /\ Touched(u)' = Touched(u)
    <3>1. driver' = driver  BY <1>1, BeginReadIs
    <3> QED  BY <3>1 DEF Touched, The, Buffer
  <2>2. u # w  BY <1>1, BeginReadIs DEF WrittenBy
  <2>3. WrittenBy(u, v)  BY <1>1, <2>1, <2>2, BeginReadIs DEF WrittenBy
  <2>4. CASE v = w  BY <1>1, <2>3, <2>4, BeginReadIs DEF BeingWritten
  <2>5. CASE v # w  BY <1>1, <2>3, <2>5, BeginReadIs DEF TornIsSeen
  <2> QED  BY <2>4, <2>5
<1>2. CASE BeginWrite(w)
  <2>1. driver' = driver /\ Touched(u)' = Touched(u)
    <3>1. driver' = driver  BY <1>2, BeginWriteIs
    <3> QED  BY <3>1 DEF Touched, The, Buffer
  <2>2. v # w  BY <1>2, BeginWriteIs
  <2>3. at[v] = "copying" /\ call[v] # NoCall
    BY <1>2, <2>2, BeginWriteIs DEF TextSound, InCall, CallIsWhole
  <2>4. call[v] \in TextCalls  BY <2>3 DEF TextSound, TextTypeOK
  <2>5. Marks(v) => call'[v].torn  BY DEF Marks, TextCalls
  <2>6. CASE u = w
    <3>1. v \in Touched(w)  BY <2>1, <2>6 DEF WrittenBy
    <3> QED  BY <1>2, <2>2, <2>3, <2>5, <3>1, BeginWriteIs
  <2>7. CASE u # w
    <3>1. call'[u].kind = "write" /\ at'[u] = "copying"  BY DEF WrittenBy
    <3>2. at[u] = "copying" /\ call[u].kind = "write"
      <4>1. at[u] = "copying"  BY <1>2, <2>7, <3>1, BeginWriteIs
      <4>2. call'[u] = call[u] \/ Marks(u)  BY <1>2, <2>7, BeginWriteIs
      <4> QED  BY <3>1, <4>1, <4>2 DEF Marks, TextCalls
    <3>3. WrittenBy(u, v)  BY <2>1, <3>2 DEF WrittenBy
    <3>4. call'[v] = call[v] \/ Marks(v)  BY <1>2, <2>2, BeginWriteIs
    <3>5. CASE Marks(v)  BY <2>5, <3>5
    <3>6. CASE call'[v] = call[v]  BY <2>3, <3>3, <3>6 DEF TornIsSeen
    <3> QED  BY <3>4, <3>5, <3>6
  <2> QED  BY <2>6, <2>7
<1>3. CASE Opens(w) \/ Asks(w) \/ ReadsBeyond(w) \/ Copying(w) \/ Returns(w)
  <2>1. driver' = driver /\ Touched(u)' = Touched(u)
    BY <1>3, OtherStepsAre DEF Touched, The, Buffer
  <2>2. /\ at[v] = "copying" /\ call'[v].kind = call[v].kind /\ call'[v].torn = call[v].torn
        /\ at[u] = "copying" /\ call'[u].kind = call[u].kind
    BY <1>3, OtherStepsAre DEF WrittenBy
  <2> QED  BY <2>1, <2>2 DEF TornIsSeen, WrittenBy
<1> QED  BY <1>1, <1>2, <1>3 DEF TextStep, Begins

\* No two processes copy at once when one of them writes and the drivers with the
\* mutex, or with the one open, are concerned.
LEMMA WriterIsFree ==
  ASSUME TextSound, Exclusion, NEW u \in Users, NEW w \in Users, u # w,
         at[u] = "copying", call[w] # NoCall, call[w].kind = "write",
         at[w] = "copying" \/ holder = "nobody"
  PROVE  The.calls # "mutex" /\ The.opens # "one"
<1>1. The.writes # "nothing"  BY DEF TextSound, InCall, CallIsWhole
<1>2. The.opens # "one"  BY <1>1, Rows DEF TextSound, TextTypeOK, GoodRow
<1>3. The.calls # "mutex"  BY NamesAssumption DEF Exclusion, LockIsCall
<1> QED  BY <1>2, <1>3

\* A write of w that reaches the bytes u reads reaches u.
LEMMA SharedIsTouched ==
  ASSUME NEW u \in Users, NEW w \in Users, Buffer(u) = Buffer(w), The.writes # "unread"
  PROVE  u \in Touched(w)
BY DEF Touched

\* Beside a read that is not torn the bytes it reads stay the same.
LEMMA SameBytes ==
  ASSUME TextSound, Exclusion, TornIsSeen, NEW u \in Users, NEW w \in Users, u # w,
         TextStep(w), at[u] = "copying", call[u].kind # "write", Untorn(u)'
  PROVE  bytes'[Buffer(u)] = bytes[Buffer(u)]
<1>1. call[u] # NoCall /\ call[u] \in TextCalls
  BY DEF TextSound, TextTypeOK, InCall, CallIsWhole
<1>2. Buffer(u) \in Buffers /\ Buffer(w) \in Buffers /\ w \in Buffers /\ Module \in Buffers
  BY BufferIs DEF Buffers
<1>3. w # Module /\ u # Module  BY NamesAssumption DEF Module
<1>4. bytes \in [Buffers -> [Index -> 0..2]]  BY DEF TextSound, TextTypeOK
<1>5. CASE UNCHANGED bytes  BY <1>5
<1>6. CASE Opens(w)
  <2>1. CASE OpenOne(w)
    <3>1. The.opens = "one" /\ ~already  BY <2>1 DEF OpenOne, CmpxchgOpen
    <3>2. u \in Holders  BY DEF Holders
    <3> QED  BY <3>1, <3>2 DEF Exclusion, FlagIsFile
  <2>2. CASE The.opens = "own" /\ \E f : bytes' = [bytes EXCEPT ![w] = f]
    <3>1. Buffer(u) = u  BY <2>2 DEF Buffer
    <3> QED  BY <1>2, <1>4, <2>2, <3>1
  <2>3. CASE OpenAny(w) \/ Release(w)
    BY <1>5, <2>2, <2>3 DEF OpenAny, Release
  <2> QED  BY <1>5, <1>6, <2>1, <2>3 DEF Opens, OpenTests, OpenSets, Seek
<1>7. CASE BeginWrite(w)
  <2>1. /\ call[w].kind = "write" /\ The.writes # "nothing" /\ at[w] = "waiting"
        /\ \A v \in Touched(w) \ {w} : call[v] # NoCall => Marks(v)
        /\ bytes' = IF The.writes = "anew" THEN [bytes EXCEPT ![Module] = [i \in Index |-> 0]]
                    ELSE bytes
        /\ driver' = driver
    BY <1>7, BeginWriteIs
  <2>2. CASE The.writes = "anew" /\ Buffer(u) = Module
    <3>1. Buffer(w) = Module  BY <1>3, <2>2 DEF Buffer
    <3>2. Marks(u)  BY <1>1, <2>1, <2>2, <3>1, SharedIsTouched
    <3>3. call'[u].torn  BY <3>2 DEF Marks, TextCalls
    <3>4. The.calls = "mutex" \/ The.opens = "one"  BY <2>1, <3>3 DEF Untorn, The
    <3>5. call[w] # NoCall  BY <2>1 DEF TextSound, InCall, CallIsWhole
    <3>6. The.calls = "mutex" => holder = "nobody"  BY <1>7 DEF BeginWrite, LetIn, Lock
    <3>7. The.opens # "one"  BY <2>1, Rows DEF TextSound, TextTypeOK, GoodRow
    <3> QED  BY <2>1, <3>4, <3>5, <3>6, <3>7, WriterIsFree
  <2> QED  BY <1>2, <1>4, <2>1, <2>2
<1>8. CASE CopyFromUser(w)
  <2>1. /\ at[w] = "copying" /\ call[w].kind = "write" /\ call[w].left > 0 /\ driver' = driver
        /\ call[w] # NoCall
    BY <1>8, AdvanceIs, CallIsNoCall DEF CopyFromUser
  <2>2. The.writes # "unread"  BY <2>1 DEF TextSound, InBounds, CopyFits
  <2>3. \E f : bytes' = [bytes EXCEPT ![Buffer(w)] = f]  BY <1>8 DEF CopyFromUser
  <2>4. CASE Buffer(u) = Buffer(w)
    <3>1. WrittenBy(w, u)  BY <2>1, <2>2, <2>4, SharedIsTouched DEF WrittenBy
    <3>2. call[u].torn  BY <3>1 DEF TornIsSeen
    <3>3. call'[u] = call[u]  BY <1>8, AdvanceIs DEF CopyFromUser
    <3>4. The.calls = "mutex" \/ The.opens = "one"  BY <2>1, <3>2, <3>3 DEF Untorn, The
    <3> QED  BY <2>1, <3>4, WriterIsFree
  <2> QED  BY <1>2, <1>4, <2>3, <2>4
<1>9. CASE Asks(w) \/ BeginRead(w) \/ ReadsBeyond(w) \/ CopyToUser(w) \/ Returns(w)
  BY <1>5, <1>9 DEF Asks, ReadText, WriteText, Interrupted, Calls, BeginRead, ReadsBeyond,
                    CopyToUser, Returns
<1> QED  BY <1>6, <1>7, <1>8, <1>9 DEF TextStep, Begins, Copying

\* What a read of u has and what it has still to copy, beside a step of w.
LEMMA OthersKeepSnap ==
  ASSUME TextSound, Exclusion, TornIsSeen, CopiesSnap, NEW u \in Users, NEW w \in Users, u # w,
         TextStep(w), Reads(u)', Untorn(u)'
  PROVE  HasSnap(u)'
<1>1. Spares(u) /\ driver' = driver
  <2>1. CASE Opens(w)
    BY <2>1 DEF Opens, OpenAny, OpenOne, OpenTests, OpenSets, Release, Seek, Goes,
                FromTheBeginning, Spares, TextSound, TextTypeOK
  <2>2. CASE Asks(w)
    BY <2>2 DEF Asks, ReadText, WriteText, Interrupted, Calls, Goes, Spares, TextSound, TextTypeOK
  <2>3. CASE BeginRead(w)
    BY <2>3, BeginReadIs DEF Spares
  <2>4. CASE BeginWrite(w)
    BY <2>4, BeginWriteIs DEF Spares
  <2>5. CASE Copying(w)
    BY <2>5, AdvanceIs DEF Copying, CopyToUser, CopyFromUser, Spares, TextSound, TextTypeOK
  <2>6. CASE Returns(w)
    BY <2>6 DEF Returns, Goes, Spares, TextSound, TextTypeOK
  <2>7. CASE ReadsBeyond(w)
    BY <2>7, BeyondIs DEF Spares, TextSound, TextTypeOK
  <2> QED  BY <2>1, <2>2, <2>3, <2>4, <2>5, <2>6, <2>7 DEF TextStep, Begins
<1>2. at[u] = "copying"  BY <1>1 DEF Reads, Spares
<1>3. call[u] \in TextCalls
  BY <1>2, CallIsNoCall DEF TextSound, TextTypeOK, InCall, CallIsWhole
<1>4. /\ call'[u].kind = call[u].kind /\ call'[u].pos = call[u].pos
      /\ call'[u].snap = call[u].snap /\ (call[u].torn => call'[u].torn)
  BY <1>1, <1>3 DEF Spares, Marks, TextCalls
<1>5. The' = The /\ Start(u)' = Start(u) /\ Buffer(u)' = Buffer(u)
  BY <1>1 DEF The, Start, Buffer, Spares
<1>6. Reads(u) /\ Untorn(u)
  BY <1>2, <1>4, <1>5 DEF Reads, Untorn
<1>7. HasSnap(u)  BY <1>6 DEF CopiesSnap
<1>8. bytes'[Buffer(u)] = bytes[Buffer(u)]
  BY <1>2, <1>6, SameBytes DEF Reads
<1> QED  BY <1>1, <1>4, <1>5, <1>7, <1>8 DEF HasSnap, Spares

\* A read begins with a snapshot, and copies from it byte by byte.
LEMMA OwnKeepsSnap ==
  ASSUME TextSound, CopiesSnap, NEW u \in Users, TextStep(u), Reads(u)', Untorn(u)'
  PROVE  HasSnap(u)'
<1>1. CASE BeginRead(u)
  <2>1. /\ call'[u].pos = Start(u) /\ call'[u].snap = Given(u) /\ call[u] \in TextCalls
        /\ UNCHANGED <<driver, bytes, off, taken>>
    BY <1>1, BeginReadIs
  <2>2. The' = The /\ Start(u)' = Start(u) /\ Buffer(u)' = Buffer(u)
    BY <2>1 DEF The, Start, Buffer
  <2>3. /\ Len(Given(u)) \in Nat
        /\ \A i \in 1..Len(Given(u)) : Given(u)[i] = bytes[Buffer(u)][i - 1]
    BY <2>1, GivenIs DEF TextSound
  <2>4. Start(u) \in Nat  BY DEF Start, TextSound, TextTypeOK
  <2> QED  BY <2>1, <2>2, <2>3, <2>4 DEF HasSnap
<1>2. CASE CopyToUser(u)
  <2> DEFINE n == call[u].pos - Start(u)
  <2>1. /\ call[u] \in TextCalls /\ call[u].left > 0 /\ call[u].kind = "read" /\ at[u] = "copying"
        /\ call'[u].snap = call[u].snap /\ call'[u].torn = call[u].torn
        /\ call'[u].pos = call[u].pos + 1
        /\ UNCHANGED <<driver, bytes, off>>
    BY <1>2, AdvanceIs DEF CopyToUser
  <2>2. The' = The /\ Start(u)' = Start(u) /\ Buffer(u)' = Buffer(u)
    BY <2>1 DEF The, Start, Buffer
  <2>3. HasSnap(u)  BY <2>1, <2>2 DEF CopiesSnap, Reads, Untorn
  <2>4. /\ call[u].pos \in Nat /\ call[u].left \in Nat /\ Start(u) \in Nat
        /\ call[u].snap \in Seq(0..2) /\ taken[u] \in Seq(0..2)
        /\ Len(call[u].snap) \in Nat /\ Len(taken[u]) \in Nat
    BY <2>1 DEF TextCalls, Start, TextSound, TextTypeOK
  <2>5. /\ Start(u) <= call[u].pos /\ call[u].pos + call[u].left <= Len(call[u].snap)
        /\ n <= Len(taken[u])
    BY <2>1 DEF TextSound, InBounds, CopyFits
  <2>6. /\ taken'[u] = Append(taken[u], bytes[Buffer(u)][call[u].pos])
        /\ Len(taken'[u]) = Len(taken[u]) + 1
        /\ taken'[u][Len(taken[u]) + 1] = bytes[Buffer(u)][call[u].pos]
        /\ \A k \in 1..Len(taken[u]) : taken'[u][k] = taken[u][k]
    BY <1>2, <2>4 DEF CopyToUser, TextSound, TextTypeOK
  <2>7. bytes[Buffer(u)][call[u].pos] = call[u].snap[call[u].pos + 1]
    <3>1. call[u].pos \in 0..Len(call[u].snap) - 1  BY <2>1, <2>4, <2>5
    <3> QED  BY <2>3, <3>1 DEF HasSnap
  <2>8. n \in Nat /\ call'[u].pos - Start(u) = n + 1  BY <2>1, <2>4, <2>5
  <2>9. ASSUME NEW k \in 1..(n + 1)
        PROVE  taken'[u][Len(taken'[u]) - (n + 1) + k] = call[u].snap[Start(u) + k]
    <3>1. CASE k = n + 1
      <4>1. Len(taken'[u]) - (n + 1) + k = Len(taken[u]) + 1  BY <2>4, <2>6, <2>8, <3>1
      <4>2. Start(u) + k = call[u].pos + 1  BY <2>4, <3>1
      <4> QED  BY <2>6, <2>7, <4>1, <4>2
    <3>2. CASE k # n + 1
      <4>1. k \in 1..n  BY <2>8, <3>2
      <4>2. Len(taken'[u]) - (n + 1) + k = Len(taken[u]) - n + k
            /\ Len(taken[u]) - n + k \in 1..Len(taken[u])
        <5> HIDE DEF n
        <5> QED  BY <2>4, <2>5, <2>6, <2>8, <4>1
      <4>3. taken[u][Len(taken[u]) - n + k] = call[u].snap[Start(u) + k]
        BY <2>3, <4>1 DEF HasSnap
      <4> QED  BY <2>6, <4>2, <4>3
    <3> QED  BY <3>1, <3>2
  <2> HIDE DEF n
  <2>10. \A i \in 0..Len(call[u].snap) - 1 : bytes[Buffer(u)][i] = call[u].snap[i + 1]
    BY <2>3 DEF HasSnap
  <2> QED  BY <2>1, <2>2, <2>8, <2>9, <2>10 DEF HasSnap
<1>3. CASE BeginWrite(u)
  BY <1>3, BeginWriteIs DEF Reads
<1>4. CASE CopyFromUser(u)
  BY <1>4, AdvanceIs DEF CopyFromUser, Reads
<1>5. CASE Opens(u) \/ Asks(u) \/ ReadsBeyond(u) \/ Returns(u)
  <2>1. at'[u] # "copying"
    BY <1>5, BeyondIs DEF Opens, OpenAny, OpenOne, OpenTests, OpenSets, Release, Seek, Asks, ReadText,
                WriteText, Interrupted, Calls, Returns, Goes, TextSound, TextTypeOK
  <2> QED  BY <2>1 DEF Reads
<1> QED  BY <1>1, <1>2, <1>3, <1>4, <1>5 DEF TextStep, Begins, Copying

ReadsSound == TornIsSeen /\ CopiesSnap

\* At first nothing is read.
LEMMA InitReads == TextInit => ReadsSound
BY DEF TextInit, ReadsSound, TornIsSeen, CopiesSnap, Reads

\* Every step keeps the reads whole.
LEMMA StepReads == TextSound /\ Exclusion /\ ReadsSound /\ [TextNext]_textVars => ReadsSound'
<1> SUFFICES ASSUME TextSound, Exclusion, TornIsSeen, CopiesSnap, [TextNext]_textVars
             PROVE  ReadsSound'
  BY DEF ReadsSound
<1>1. CASE UNCHANGED textVars
  BY <1>1 DEF textVars, ReadsSound, TornIsSeen, CopiesSnap, WrittenBy, Touched, Reads, Untorn,
              HasSnap, Buffer, Start, The
<1>2. ASSUME NEW w \in Users, TextStep(w) PROVE ReadsSound'
  <2>1. ASSUME NEW u \in Users, Reads(u)', Untorn(u)' PROVE HasSnap(u)'
    BY <1>2, <2>1, OthersKeepSnap, OwnKeepsSnap
  <2> QED  BY <1>2, <2>1, StepTorn DEF ReadsSound, CopiesSnap
<1> QED  BY <1>1, <1>2 DEF TextNext, TextStep, Opens, Asks, Begins, Copying

\* A part of a sequence.
LEMMA PartIs ==
  ASSUME NEW S, NEW s \in Seq(S), NEW a \in Nat, NEW n \in Nat, a + n <= Len(s)
  PROVE  /\ SubSeq(s, a + 1, a + n) \in Seq(S)
         /\ Len(SubSeq(s, a + 1, a + n)) = n
         /\ \A k \in 1..n : SubSeq(s, a + 1, a + n)[k] = s[a + k]
<1>1. a + n - (a + 1) + 1 = n  OBVIOUS
<1>2. \A k \in 1..n : a + 1 + k - 1 = a + k /\ a + k \in 1..Len(s)  OBVIOUS
<1> QED  BY <1>1, <1>2

\* What a read returned is what was there at one moment, under the conditions of
\* ReadsAreWhole: the text before procfs3 cut it, and of example2 the buffer alone.
THEOREM WholeReads == TextSpec => ReadsAreWhole
<1> DEFINE Whole == \A u \in Users :
              LET n == call[u].pos - Start(u)
              IN  Returns(u) /\ call[u].kind = "read"
                    /\ (The.calls = "mutex" \/ The.opens = "one" \/ ~call[u].torn)
                  => SubSeq(taken[u], Len(taken[u]) - n + 1, Len(taken[u]))
                       = SubSeq(call[u].snap, Start(u) + 1, Start(u) + n)
<1>1. TextSound /\ CopiesSnap => Whole
  <2> SUFFICES ASSUME TextSound, CopiesSnap, NEW u \in Users, Returns(u), call[u].kind = "read",
                      Untorn(u)
               PROVE  LET n == call[u].pos - Start(u)
                      IN  SubSeq(taken[u], Len(taken[u]) - n + 1, Len(taken[u]))
                            = SubSeq(call[u].snap, Start(u) + 1, Start(u) + n)
    BY DEF Untorn
  <2> DEFINE n == call[u].pos - Start(u)
             s == SubSeq(taken[u], Len(taken[u]) - n + 1, Len(taken[u]))
             t == SubSeq(call[u].snap, Start(u) + 1, Start(u) + n)
  <2>1. at[u] = "copying"  BY DEF Returns, Goes
  <2>2. HasSnap(u)  BY <2>1 DEF CopiesSnap, Reads
  <2>3. call[u] \in TextCalls
    BY <2>1, CallIsNoCall DEF TextSound, TextTypeOK, InCall, CallIsWhole
  <2>4. /\ call[u].pos \in Nat /\ call[u].left \in Nat /\ Start(u) \in Nat
        /\ call[u].snap \in Seq(0..2) /\ taken[u] \in Seq(0..2)
        /\ Len(call[u].snap) \in Nat /\ Len(taken[u]) \in Nat
    BY <2>3 DEF TextCalls, Start, TextSound, TextTypeOK
  <2>5. /\ Start(u) <= call[u].pos /\ call[u].pos + call[u].left <= Len(call[u].snap)
        /\ n <= Len(taken[u])
    BY <2>1 DEF TextSound, InBounds, CopyFits
  <2>6. n \in Nat /\ Start(u) + n <= Len(call[u].snap)  BY <2>4, <2>5
  <2>7. \A k \in 1..n : taken[u][Len(taken[u]) - n + k] = call[u].snap[Start(u) + k]
    BY <2>2 DEF HasSnap
  <2> HIDE DEF n
  <2>8. s \in Seq(0..2) /\ Len(s) = n /\ \A k \in 1..n : s[k] = taken[u][Len(taken[u]) - n + k]
    <3> DEFINE a == Len(taken[u]) - n
               q == taken[u]
    <3>1. a \in Nat /\ q \in Seq(0..2) /\ n \in Nat /\ a + n = Len(q)
      BY <2>4, <2>5, <2>6
    <3>2. s = SubSeq(q, a + 1, a + n)  BY <3>1
    <3> HIDE DEF a, q, s
    <3>3. s \in Seq(0..2) /\ Len(s) = n /\ \A k \in 1..n : s[k] = q[a + k]
      BY <3>1, <3>2, PartIs
    <3> QED  BY <3>3 DEF a, q
  <2>9. t \in Seq(0..2) /\ Len(t) = n /\ \A k \in 1..n : t[k] = call[u].snap[Start(u) + k]
    <3> DEFINE a == Start(u)
               q == call[u].snap
    <3>1. a \in Nat /\ q \in Seq(0..2) /\ n \in Nat /\ a + n <= Len(q)  BY <2>4, <2>6
    <3>2. t = SubSeq(q, a + 1, a + n)  OBVIOUS
    <3> HIDE DEF a, q, t
    <3>3. t \in Seq(0..2) /\ Len(t) = n /\ \A k \in 1..n : t[k] = q[a + k]
      BY <3>1, <3>2, PartIs
    <3> QED  BY <3>3 DEF a, q
  <2> HIDE DEF s, t
  <2>10. s = t  BY <2>7, <2>8, <2>9
  <2> QED  BY <2>10 DEF s, t, n
<1>2. ReadsSound => CopiesSnap  BY DEF ReadsSound
<1>3. TextSpec => []ReadsSound
  BY InitReads, StepReads, TextSafe, PTL DEF TextSpec
<1>4. ReadsAreWhole <=> [][Whole]_textVars  BY DEF ReadsAreWhole
<1> HIDE DEF Whole
<1> QED  BY <1>1, <1>2, <1>3, <1>4, TextSafe, PTL

\* Who is at a write has disturbed whom it changes the text of.
OverlapDisturbs ==
  \A u, v \in Users : Writes(v) /\ u \in Touched(v) /\ at[u] # "out" => disturbed[u]

Disturbs ==
  /\ OverlapDisturbs
  /\ The.opens = "one" => \A u \in Users : ~disturbed[u]
  /\ driver # "etx_proc" => toggle

Closed == \A u \in Users : at[u] \in {"out", "opening"} => off[u] = 0 /\ taken[u] = <<>>

\* At first nobody is disturbed.
LEMMA InitDisturbs == TextInit => Disturbs /\ Closed
BY DEF TextInit, Disturbs, OverlapDisturbs, Closed, Writes

\* A write of a process changes what it would read itself.
LEMMA TouchedIs == ASSUME NEW u \in Users PROVE u \in Touched(u)
BY DEF Touched

\* A process begins to read, or opens or closes the file, with a clean slate.
LEMMA OpensDisturb ==
  ASSUME TextSound, NEW u \in Users, Opens(u)
  PROVE  /\ UNCHANGED <<driver, length, toggle, call>>
         /\ at[u] \in {"out", "opening", "open"} /\ at'[u] \in {"out", "opening", "open"}
         /\ \A v \in Users : v # u => /\ at'[v] = at[v] /\ disturbed'[v] = disturbed[v]
                                      /\ off'[v] = off[v] /\ taken'[v] = taken[v]
         /\ \/ at'[u] = "out" /\ ~disturbed'[u] /\ off'[u] = 0 /\ taken'[u] = <<>>
            \/ /\ at'[u] = "open" /\ (disturbed'[u] <=> ~toggle \/ BeingWritten(u))
               /\ off'[u] = 0 /\ taken'[u] = <<>>
            \/ /\ The.opens = "test" \/ at[u] = "opening"
               /\ at[u] \in {"out", "opening"} /\ at'[u] \in {"opening", "open"}
               /\ disturbed'[u] = disturbed[u] /\ off'[u] = off[u] /\ taken'[u] = taken[u]
<1>1. CASE OpenAny(u) \/ OpenOne(u) \/ Seek(u)
  BY <1>1 DEF OpenAny, OpenOne, Seek, Goes, FromTheBeginning, TextSound, TextTypeOK
<1>2. CASE OpenTests(u) \/ OpenSets(u)
  BY <1>2 DEF OpenTests, OpenSets, Goes, TextSound, TextTypeOK
<1>3. CASE Release(u)
  BY <1>3 DEF Release, Goes, TextSound, TextTypeOK
<1> QED  BY <1>1, <1>2, <1>3 DEF Opens

\* Every step keeps account of who is disturbed.
LEMMA StepDisturbs ==
  ASSUME TextSound, Exclusion, Disturbs, NEW w \in Users, TextStep(w)
  PROVE  Disturbs'
<1>1. driver' = driver /\ The' = The /\ \A v \in Users : Touched(v)' = Touched(v)
  <2>1. driver' = driver  BY OtherStepsAre, BeginReadIs, BeginWriteIs DEF TextStep, Begins
  <2> QED  BY <2>1 DEF The, Touched, Buffer
<1>2. driver # "etx_proc" => toggle'
  <2>1. CASE Opens(w)  BY <2>1, OpensDisturb DEF Disturbs
  <2>2. CASE BeginRead(w)  BY <2>2 DEF BeginRead, Disturbs
  <2>3. CASE Asks(w) \/ BeginWrite(w) \/ ReadsBeyond(w) \/ Copying(w) \/ Returns(w)
    BY <2>3 DEF Asks, ReadText, WriteText, Interrupted, Calls, BeginWrite, ReadsBeyond, Copying,
                CopyToUser, CopyFromUser, Returns, Disturbs
  <2> QED  BY <2>1, <2>2, <2>3 DEF TextStep, Begins
<1>3. The.opens = "one" => The.writes = "nothing" /\ toggle
  <2>1. The.opens = "one" => driver = "chardev"  BY Rows DEF TextSound, TextTypeOK
  <2> QED  BY <2>1, Rows DEF TextSound, TextTypeOK, GoodRow, Disturbs
<1>4. \A v \in Users : Writes(v) => The.writes # "nothing"
  BY DEF Writes, TextSound, InCall, CallIsWhole
<1>5. CASE Opens(w)
  <2>1. \A v \in Users : Writes(v)' <=> Writes(v)
    BY <1>5, OpensDisturb DEF Writes
  <2>2. \A v \in Users : Writes(v)' => v # w
    BY <1>5, OpensDisturb DEF Writes
  <2>3. OverlapDisturbs'
    <3> SUFFICES ASSUME NEW u \in Users, NEW v \in Users, Writes(v)', u \in Touched(v),
                        at'[u] # "out"
                 PROVE  disturbed'[u]
      BY <1>1 DEF OverlapDisturbs
    <3>1. CASE u # w
      BY <1>5, <2>1, <3>1, OpensDisturb DEF Disturbs, OverlapDisturbs
    <3>2. CASE u = w
      <4>1. Writes(v) /\ v # u  BY <2>1, <2>2, <3>2
      <4>2. BeingWritten(u)  BY <4>1 DEF BeingWritten, WrittenBy, Writes
      <4>3. The.writes # "nothing"  BY <1>4, <4>1
      <4>4. The.opens # "test"  BY <4>3, Rows DEF TextSound, TextTypeOK, GoodRow
      <4>5. at[u] # "opening"  BY <4>4 DEF Exclusion, FlagIsFile
      <4> QED  BY <1>5, <3>2, <4>2, <4>4, <4>5, OpensDisturb
    <3> QED  BY <3>1, <3>2
  <2>4. ASSUME The.opens = "one", NEW u \in Users PROVE ~disturbed'[u]
    <3>1. ~BeingWritten(u)  BY <1>3, <1>4, <2>4 DEF BeingWritten, WrittenBy, Writes
    <3> QED  BY <1>3, <1>5, <2>4, <3>1, OpensDisturb DEF Disturbs
  <2> QED  BY <1>1, <1>2, <2>3, <2>4 DEF Disturbs
<1>6. CASE BeginWrite(w)
  <2>1. OverlapDisturbs'
    <3> SUFFICES ASSUME NEW u \in Users, NEW v \in Users, Writes(v)', u \in Touched(v),
                        at'[u] # "out"
                 PROVE  disturbed'[u]
      BY <1>1 DEF OverlapDisturbs
    <3>1. at[u] # "out"  BY <1>6, BeginWriteIs
    <3>2. CASE v = w  BY <1>6, <3>1, <3>2, BeginWriteIs
    <3>3. CASE v # w
      <4>1. at[v] = "copying"  BY <1>6, <3>3, BeginWriteIs DEF Writes
      <4>2. call[v].kind = "write"
        <5>1. call'[v] = call[v] \/ Marks(v)  BY <1>6, <3>3, BeginWriteIs
        <5> QED  BY <5>1 DEF Writes, Marks, TextCalls
      <4> QED  BY <1>6, <3>1, <4>1, <4>2, BeginWriteIs DEF Writes, Disturbs, OverlapDisturbs
    <3> QED  BY <3>2, <3>3
  <2>2. The.opens # "one"  BY <1>3, <1>6, BeginWriteIs
  <2> QED  BY <1>1, <1>2, <2>1, <2>2 DEF Disturbs
<1>7. CASE BeginRead(w)
  <2>1. \A v \in Users : (disturbed[v] => disturbed'[v]) /\ (The.opens = "one" => disturbed'[v] = disturbed[v])
    <3>1. The.opens = "one" => driver = "chardev"  BY Rows DEF TextSound, TextTypeOK
    <3>2. driver = "chardev" => \A v \in Users : ~Spoils(w, v)  BY DEF Spoils, Cuts, WillRepeat
    <3>3. \A v \in Users : disturbed[v] \in BOOLEAN /\ disturbed'[v] \in BOOLEAN
      BY <1>7, BeginReadSound DEF TextSound, TextTypeOK
    <3> QED  BY <1>7, <3>1, <3>2, <3>3, BeginReadIs
  <2>2. \A v \in Users : Writes(v)' => Writes(v)
    BY <1>7, BeginReadIs DEF Writes
  <2>3. \A v \in Users : at'[v] # "out" => at[v] # "out"
    BY <1>7, BeginReadIs
  <2> QED  BY <1>1, <1>2, <2>1, <2>2, <2>3 DEF Disturbs, OverlapDisturbs
<1>8. CASE Asks(w) \/ Copying(w) \/ Returns(w)
  <2>1. disturbed' = disturbed
    BY <1>8 DEF Asks, ReadText, WriteText, Interrupted, Calls, Copying, CopyToUser, CopyFromUser,
                Returns
  <2>2. \A v \in Users : Writes(v)' => Writes(v)
    BY <1>8, OtherStepsAre DEF Writes
  <2>3. \A v \in Users : at'[v] # "out" => at[v] # "out"
    BY <1>8 DEF Asks, ReadText, WriteText, Interrupted, Calls, Copying, CopyToUser, CopyFromUser,
                Returns, Goes, Advances, TextSound, TextTypeOK
  <2> QED  BY <1>1, <1>2, <2>1, <2>2, <2>3 DEF Disturbs, OverlapDisturbs
<1>9. CASE ReadsBeyond(w)
  <2>1. The.opens # "one"
    <3>1. driver = "example2"  BY <1>9, BeyondIs
    <3> QED  BY <3>1, Rows DEF TextSound, TextTypeOK
  <2>2. \A v \in Users : disturbed[v] => disturbed'[v]
    BY <1>9, BeyondIs DEF TextSound, TextTypeOK
  <2>3. \A v \in Users : Writes(v)' => Writes(v)
    BY <1>9, OtherStepsAre DEF Writes
  <2>4. \A v \in Users : at'[v] # "out" => at[v] # "out"
    BY <1>9, BeyondIs DEF TextSound, TextTypeOK
  <2> QED  BY <1>1, <1>2, <2>1, <2>2, <2>3, <2>4 DEF Disturbs, OverlapDisturbs
<1> QED  BY <1>5, <1>6, <1>7, <1>8, <1>9 DEF TextStep, Begins

\* Every step leaves a closed file at its beginning.
LEMMA StepClosed ==
  ASSUME TextSound, Closed, NEW w \in Users, TextStep(w)
  PROVE  Closed'
<1>1. CASE Opens(w)
  BY <1>1, OpensDisturb DEF Closed
<1>2. CASE BeginRead(w)  BY <1>2, BeginReadIs DEF Closed
<1>3. CASE BeginWrite(w)  BY <1>3, BeginWriteIs DEF Closed
<1>4. CASE Asks(w)
  BY <1>4 DEF Asks, ReadText, WriteText, Interrupted, Calls, Goes, Closed, TextSound, TextTypeOK
<1>5. CASE Copying(w) \/ Returns(w)
  <2>1. /\ at'[w] \in {"copying", "open"}
        /\ \A v \in Users : v # w => at'[v] = at[v] /\ off'[v] = off[v] /\ taken'[v] = taken[v]
    BY <1>5 DEF Copying, CopyToUser, CopyFromUser, Returns, Goes, Advances, TextSound, TextTypeOK
  <2> QED  BY <2>1 DEF Closed
<1>6. CASE ReadsBeyond(w)
  BY <1>6, BeyondIs DEF Closed, TextSound, TextTypeOK
<1> QED  BY <1>1, <1>2, <1>3, <1>4, <1>5, <1>6 DEF TextStep, Begins

LengthOf(f) == CHOOSE n \in 0..TextSize : /\ \A i \in 0..(n - 1) : f[i] # 0
                                          /\ n < TextSize => f[n] = 0

\* The text is that of the buffer, and of the length where it ends there.
LEMMA TextIsOf ==
  ASSUME NEW b \in Buffers, driver' = driver, bytes'[b] = bytes[b],
         The.ends = "length" => length' = length, driver \in DOMAIN Drivers
  PROVE  Limit(b)' = Limit(b) /\ Text(b)' = Text(b)
<1>1. Strlen(b) = LengthOf(bytes[b])  BY DEF Strlen, LengthOf
<1>2. Strlen(b)' = LengthOf(bytes'[b])  BY DEF Strlen, LengthOf
<1>3. Strlen(b)' = Strlen(b)  BY <1>1, <1>2
<1>4. The' = The  BY DEF The
<1>5. Limit(b)' = Limit(b)
  <2>1. The.ends \in {"empty", "size", "length", "nul"}  BY Rows DEF GoodRow
  <2>2. CASE The.ends = "empty"  BY <1>4, <2>2 DEF Limit
  <2>3. CASE The.ends = "size"  BY <1>4, <2>3 DEF Limit
  <2>4. CASE The.ends = "length"  BY <1>4, <2>4 DEF Limit
  <2>5. CASE The.ends = "nul"  BY <1>3, <1>4, <2>5 DEF Limit
  <2> QED  BY <2>1, <2>2, <2>3, <2>4, <2>5
<1> QED  BY <1>5 DEF Text

\* Between two calls, u has what is before its position, or the whole text.
Ready(u) ==
  LET T == Text(Buffer(u))
  IN  IF AtEnd(u) THEN taken[u] = T
      ELSE IF The.whole THEN taken[u] = <<>>
      ELSE off[u] < Limit(Buffer(u)) /\ taken[u] = SubSeq(T, 1, off[u])

Progresses(u) ==
  /\ at[u] \in {"open", "waiting"} => Ready(u)
  /\ at[u] = "copying" /\ call[u].kind = "end" =>
       /\ taken[u] = Text(Buffer(u))
       /\ IF driver = "etx_proc" THEN toggle ELSE AtEnd(u)
  /\ at[u] = "copying" /\ call[u].kind = "read" =>
       /\ call[u].snap = Text(Buffer(u))
       /\ taken[u] = SubSeq(Text(Buffer(u)), 1, call[u].pos)
       /\ driver = "etx_proc" => ~toggle
       /\ driver = "buffer2k" => length # 0
       /\ driver = "etx" => call[u].count >= length

Progress == \A u \in Users : ~disturbed[u] => Progresses(u)

\* At first no file is open.
LEMMA InitProgress == TextInit => Progress
BY DEF TextInit, Progress, Progresses

ReadyWhenFresh ==
  \A u \in Users :
    TextTypeOK /\ off[u] = 0 /\ taken[u] = <<>> /\ (driver = "etx_proc" => toggle) => Ready(u)

\* A process that has read nothing, and is not owed the end of the text.
LEMMA FreshIsReady == ReadyWhenFresh
<1> SUFFICES ASSUME NEW u \in Users, TextTypeOK, off[u] = 0, taken[u] = <<>>,
                    driver = "etx_proc" => toggle
             PROVE  Ready(u)
  BY DEF ReadyWhenFresh
<1>1. /\ Limit(Buffer(u)) \in Nat /\ Len(Text(Buffer(u))) = Limit(Buffer(u))
      /\ Text(Buffer(u)) \in Seq(0..2)
  BY BufferIs, TextFits, TextAssumption
<1>2. /\ driver \in {"etx_proc", "buffer2k", "etx"} => The.whole
      /\ driver = "buffer2k" => The.ends = "length"
      /\ The.whole \in BOOLEAN
  BY Rows DEF TextTypeOK, GoodRow
<1>3. Limit(Buffer(u)) = 0 => Text(Buffer(u)) = <<>>
  BY <1>1
<1>4. SubSeq(Text(Buffer(u)), 1, 0) = <<>>
  BY <1>1
<1>5. CASE driver = "etx_proc"  BY <1>2, <1>5 DEF Ready, AtEnd
<1>6. CASE driver = "buffer2k"
  <2>1. Limit(Buffer(u)) = length  BY <1>2, <1>6 DEF Limit
  <2> QED  BY <1>2, <1>3, <1>6, <2>1 DEF Ready, AtEnd
<1>7. CASE driver \notin {"etx_proc", "buffer2k"}
  <2>1. AtEnd(u) <=> Limit(Buffer(u)) = 0  BY <1>1, <1>7 DEF AtEnd
  <2> QED  BY <1>1, <1>2, <1>3, <1>4, <2>1 DEF Ready
<1> QED  BY <1>5, <1>6, <1>7

\* A step of another that does not disturb u leaves it the text.
LEMMA UndisturbedText ==
  ASSUME TextSound, Exclusion, Disturbs, NEW u \in Users, NEW w \in Users, u # w, TextStep(w),
         at[u] \notin {"out", "opening"}, ~disturbed'[u]
  PROVE  /\ Limit(Buffer(u))' = Limit(Buffer(u)) /\ Text(Buffer(u))' = Text(Buffer(u))
         /\ driver = "etx_proc" => toggle' = toggle
         /\ The.ends = "length" => length' = length
         /\ ~disturbed[u] /\ driver' = driver /\ Spares(u)
         /\ call'[u] # NoCall => /\ call'[u].snap = call[u].snap /\ call'[u].pos = call[u].pos
                                 /\ call'[u].kind = call[u].kind
                                 /\ call'[u].count = call[u].count
<1>1. Spares(u)
  <2>1. CASE Opens(w)  BY <2>1, OpensDisturb DEF Spares
  <2>2. CASE Asks(w)
    BY <2>2 DEF Asks, ReadText, WriteText, Interrupted, Calls, Goes, Spares, TextSound, TextTypeOK
  <2>3. CASE BeginRead(w)  BY <2>3, BeginReadIs DEF Spares
  <2>4. CASE BeginWrite(w)  BY <2>4, BeginWriteIs DEF Spares
  <2>5. CASE Copying(w)
    BY <2>5, AdvanceIs DEF Copying, CopyToUser, CopyFromUser, Spares, TextSound, TextTypeOK
  <2>6. CASE Returns(w)
    BY <2>6 DEF Returns, Goes, Spares, TextSound, TextTypeOK
  <2>7. CASE ReadsBeyond(w)
    BY <2>7, BeyondIs DEF Spares, TextSound, TextTypeOK
  <2> QED  BY <2>1, <2>2, <2>3, <2>4, <2>5, <2>6, <2>7 DEF TextStep, Begins
<1>2. ~disturbed[u] /\ driver' = driver /\ (driver = "etx_proc" => toggle' = toggle)
  <2>1. CASE Opens(w)  BY <2>1, OpensDisturb
  <2>2. CASE BeginRead(w)
    <3>1. ~disturbed[u] /\ ~Spoils(w, u)  BY <2>2, BeginReadIs
    <3>2. driver # "etx_proc"  BY <3>1 DEF Spoils
    <3> QED  BY <2>2, <3>1, <3>2, BeginReadIs
  <2>3. CASE BeginWrite(w)  BY <2>3, BeginWriteIs
  <2>5. CASE ReadsBeyond(w)
    BY <2>5, BeyondIs DEF TextSound, TextTypeOK
  <2>4. CASE Asks(w) \/ Copying(w) \/ Returns(w)
    BY <2>4 DEF Asks, ReadText, WriteText, Interrupted, Calls, Copying, CopyToUser, CopyFromUser,
                Returns
  <2> QED  BY <2>1, <2>2, <2>3, <2>4, <2>5 DEF TextStep, Begins
<1>3. The.ends = "length" => \A v \in Users : u \in Touched(v)
  <2>1. The.ends = "length" => The.opens = "any" /\ The.writes # "unread"
    BY Rows DEF TextSound, TextTypeOK, GoodRow
  <2> QED  BY <2>1 DEF Touched, Buffer
<1>4. The.ends = "length" => length' = length
  <2>1. CASE Opens(w)  BY <2>1, OpensDisturb
  <2>2. CASE BeginWrite(w)  BY <1>3, <2>2, BeginWriteIs
  <2>3. CASE Returns(w)
    <3>1. Writes(w) /\ The.ends = "length" => disturbed[u]
      BY <1>3 DEF Disturbs, OverlapDisturbs
    <3>2. at[w] = "copying"  BY <2>3 DEF Returns, Goes
    <3> QED  BY <1>2, <2>3, <3>1, <3>2 DEF Returns, Writes
  <2>4. CASE Asks(w) \/ Copying(w) \/ ReadsBeyond(w)
    BY <2>4 DEF Asks, ReadText, WriteText, Interrupted, Calls, Copying, CopyToUser, CopyFromUser,
                ReadsBeyond
  <2>5. CASE BeginRead(w)
    <3>1. ~Spoils(w, u) /\ at[u] # "out"  BY <2>5, BeginReadIs
    <3>2. ~Cuts(w)  BY <3>1 DEF Spoils
    <3> QED  BY <2>5, <3>2, BeginReadIs
  <2> QED  BY <2>1, <2>2, <2>3, <2>4, <2>5 DEF TextStep, Begins
<1>5. bytes'[Buffer(u)] = bytes[Buffer(u)]
  <2>1. Buffer(u) \in Buffers /\ Buffer(w) \in Buffers /\ w \in Buffers /\ Module \in Buffers
    BY BufferIs DEF Buffers
  <2>2. w # Module /\ u # Module  BY NamesAssumption DEF Module
  <2>3. bytes \in [Buffers -> [Index -> 0..2]]  BY DEF TextSound, TextTypeOK
  <2>4. CASE Opens(w)
    <3>1. CASE OpenOne(w)
      <4>1. The.opens = "one" /\ ~already  BY <3>1 DEF OpenOne, CmpxchgOpen
      <4>2. u \in Holders  BY DEF Holders
      <4> QED  BY <4>1, <4>2 DEF Exclusion, FlagIsFile
    <3>2. CASE The.opens = "own" /\ \E f : bytes' = [bytes EXCEPT ![w] = f]
      <4>1. Buffer(u) = u  BY <3>2 DEF Buffer
      <4> QED  BY <2>1, <2>3, <3>2, <4>1
    <3>3. CASE OpenAny(w) \/ Release(w)
      BY <3>2, <3>3 DEF OpenAny, Release
    <3> QED  BY <2>4, <3>1, <3>3 DEF Opens, OpenTests, OpenSets, Seek
  <2>5. CASE BeginWrite(w)
    <3>1. u \notin Touched(w)  BY <2>5, BeginWriteIs
    <3>2. bytes' = IF The.writes = "anew" THEN [bytes EXCEPT ![Module] = [i \in Index |-> 0]]
                   ELSE bytes
      BY <2>5, BeginWriteIs
    <3>3. The.writes = "anew" => Buffer(u) # Module
      BY <2>2, <3>1 DEF Touched, Buffer
    <3> QED  BY <2>1, <2>3, <3>2, <3>3
  <2>6. CASE CopyFromUser(w)
    <3>1. Writes(w) /\ call[w].left > 0  BY <2>6, AdvanceIs DEF CopyFromUser, Writes
    <3>2. The.writes # "unread"  BY <3>1 DEF TextSound, InBounds, CopyFits, Writes
    <3>3. Buffer(u) # Buffer(w)
      BY <1>2, <3>1, <3>2, SharedIsTouched DEF Disturbs, OverlapDisturbs
    <3>4. \E f : bytes' = [bytes EXCEPT ![Buffer(w)] = f]  BY <2>6 DEF CopyFromUser
    <3> QED  BY <2>1, <2>3, <3>3, <3>4
  <2>7. CASE Asks(w) \/ BeginRead(w) \/ ReadsBeyond(w) \/ CopyToUser(w) \/ Returns(w)
    BY <2>7 DEF Asks, ReadText, WriteText, Interrupted, Calls, BeginRead, ReadsBeyond, CopyToUser,
                Returns
  <2> QED  BY <2>4, <2>5, <2>6, <2>7 DEF TextStep, Begins, Copying
<1>6. Limit(Buffer(u))' = Limit(Buffer(u)) /\ Text(Buffer(u))' = Text(Buffer(u))
  <2> DEFINE b == Buffer(u)
  <2>1. Buffer(u)' = b  BY <1>2 DEF Buffer, The
  <2>2. b \in Buffers  BY BufferIs
  <2>3. driver \in DOMAIN Drivers  BY DEF TextSound, TextTypeOK
  <2>4. bytes'[b] = bytes[b]  BY <1>5
  <2>5. Limit(Buffer(u))' = Limit(b)' /\ Text(Buffer(u))' = Text(b)'  OBVIOUS
  <2> QED  BY <1>2, <1>4, <2>1, <2>2, <2>3, <2>4, TextIsOf
<1>7. call'[u] # NoCall => /\ call'[u].snap = call[u].snap /\ call'[u].pos = call[u].pos
                           /\ call'[u].kind = call[u].kind
                           /\ call'[u].count = call[u].count
  BY <1>1 DEF Spares, Marks, TextCalls
<1> QED  BY <1>1, <1>2, <1>4, <1>6, <1>7

\* A step of another that does not disturb u leaves u where it is in the text.
LEMMA OthersProgress ==
  ASSUME TextSound, Exclusion, Disturbs, NEW u \in Users, NEW w \in Users, u # w, TextStep(w),
         Progress, ~disturbed'[u]
  PROVE  Progresses(u)'
<1>1. CASE at'[u] \in {"out", "opening"}
  BY <1>1 DEF Progresses
<1>2. CASE at'[u] \notin {"out", "opening"}
  <2>1. at'[u] = at[u]
    <3>1. CASE Opens(w)  BY <3>1, OpensDisturb
    <3>2. CASE Begins(w)  BY <3>2, BeginReadIs, BeginWriteIs DEF Begins
    <3>3. CASE Asks(w) \/ ReadsBeyond(w) \/ Copying(w) \/ Returns(w)  BY <3>3, OtherStepsAre
    <3> QED  BY <3>1, <3>2, <3>3 DEF TextStep
  <2>2. /\ Limit(Buffer(u))' = Limit(Buffer(u)) /\ Text(Buffer(u))' = Text(Buffer(u))
        /\ driver = "etx_proc" => toggle' = toggle
        /\ The.ends = "length" => length' = length
        /\ ~disturbed[u] /\ driver' = driver /\ Spares(u)
        /\ call'[u] # NoCall => /\ call'[u].snap = call[u].snap /\ call'[u].pos = call[u].pos
                                /\ call'[u].kind = call[u].kind
                                /\ call'[u].count = call[u].count
    BY <1>2, <2>1, UndisturbedText
  <2>3. Progresses(u)  BY <2>2 DEF Progress
  <2>4. /\ off'[u] = off[u] /\ taken'[u] = taken[u] /\ The' = The
    BY <2>2 DEF Spares, The
  <2>5. driver \in {"buffer2k", "etx"} => The.ends = "length"  BY Rows DEF TextSound, TextTypeOK
  <2>6. AtEnd(u)' <=> AtEnd(u)
    BY <2>2, <2>4, <2>5 DEF AtEnd
  <2>7. at'[u] = "copying" => call'[u] # NoCall
    <3>1. at[u] = "copying" => call[u] # NoCall  BY DEF TextSound, InCall, CallIsWhole
    <3>2. Marks(u) => call'[u] # NoCall  BY CallIsNoCall, MarkedCall
    <3> QED  BY <2>1, <2>2, <3>1, <3>2 DEF Spares
  <2>8. at'[u] \in {"open", "waiting"} => Ready(u)'
    BY <2>1, <2>2, <2>3, <2>4, <2>6 DEF Progresses, Ready
  <2> QED  BY <2>1, <2>2, <2>3, <2>4, <2>5, <2>6, <2>7, <2>8 DEF Progresses
<1> QED  BY <1>1, <1>2

\* One more of a sequence's first elements.
LEMMA PartGrows ==
  ASSUME NEW S, NEW s \in Seq(S), NEW n \in Nat, n < Len(s)
  PROVE  Append(SubSeq(s, 1, n), s[n + 1]) = SubSeq(s, 1, n + 1)
<1> DEFINE a == SubSeq(s, 1, n)
           b == SubSeq(s, 1, n + 1)
<1>1. a \in Seq(S) /\ Len(a) = n /\ \A k \in 1..n : a[k] = s[k]
  <2>1. 0 + n <= Len(s) /\ 0 + 1 = 1 /\ 0 + n = n  OBVIOUS
  <2> QED  BY <2>1
<1>2. b \in Seq(S) /\ Len(b) = n + 1 /\ \A k \in 1..n + 1 : b[k] = s[k]
  OBVIOUS
<1>3. s[n + 1] \in S  OBVIOUS
<1> HIDE DEF a, b
<1> DEFINE c == Append(a, s[n + 1])
<1>4. c \in Seq(S) /\ Len(c) = n + 1 /\ c[n + 1] = s[n + 1] /\ \A k \in 1..n : c[k] = a[k]
  BY <1>1, <1>3
<1> HIDE DEF c
<1>5. \A k \in 1..n + 1 : c[k] = b[k]
  BY <1>1, <1>2, <1>4
<1>6. c = b  BY <1>2, <1>4, <1>5
<1> QED  BY <1>6 DEF a, b, c

\* The empty part and the whole of a sequence.
LEMMA NothingYet ==
  ASSUME NEW S, NEW s \in Seq(S)
  PROVE  SubSeq(s, 1, 0) = <<>> /\ SubSeq(s, 1, Len(s)) = s
OBVIOUS

\* u opens the file or moves it back to its beginning.
LEMMA OpensProgress ==
  ASSUME TextSound, Exclusion, Disturbs, Closed, Progress, NEW u \in Users, Opens(u),
         ~disturbed'[u]
  PROVE  Progresses(u)'
<1>1. CASE at'[u] \in {"out", "opening"}
  BY <1>1 DEF Progresses
<1>2. CASE at'[u] = "open"
  <2>1. driver' = driver /\ toggle' = toggle  BY OpensDisturb
  <2>2. off'[u] = 0 /\ taken'[u] = <<>> /\ (driver = "etx_proc" => toggle)
    <3>1. The.opens = "test" => driver # "etx_proc"
      BY Rows DEF TextSound, TextTypeOK, GoodRow
    <3>2. at[u] = "opening" => The.opens = "test"  BY DEF Exclusion, FlagIsFile
    <3> QED  BY <1>2, <3>1, <3>2, OpensDisturb DEF Closed
  <2>3. TextTypeOK'  BY OutsideSound DEF Opens, TextSound
  <2>4. ReadyWhenFresh'  BY FreshIsReady, PTL
  <2>5. Ready(u)'  BY <2>1, <2>2, <2>3, <2>4 DEF ReadyWhenFresh
  <2> QED  BY <1>2, <2>5 DEF Progresses
<1> QED  BY <1>1, <1>2, OpensDisturb

\* u is given the text, or told of its end.
LEMMA BeginReadProgress ==
  ASSUME TextSound, Progress, NEW u \in Users, BeginRead(u), ~disturbed'[u]
  PROVE  Progresses(u)'
<1> DEFINE b == Buffer(u)
<1>1. /\ at[u] = "waiting" /\ at'[u] = "copying"
      /\ call'[u].kind = (IF AtEnd(u) THEN "end" ELSE "read") /\ call'[u].pos = Start(u)
      /\ call'[u].snap = Text(Buffer(u)) /\ call'[u].count = call[u].count
      /\ driver = "etx" => ~AsksForLess(u)
      /\ UNCHANGED <<driver, bytes, length, off, taken>>
  <2>1. ~Spoils(u, u) /\ at[u] = "waiting" /\ call[u] \in TextCalls  BY BeginReadIs
  <2>2. ~Cuts(u) /\ ~WillRepeat(u)  BY <2>1 DEF Spoils
  <2>3. Given(u) = Text(Buffer(u))  BY <2>1, <2>2, GivenIs DEF TextSound
  <2> QED  BY <2>2, <2>3, BeginReadIs DEF WillRepeat
<1>2. ~disturbed[u] /\ (driver = "etx_proc" => toggle' = ~toggle)
  <2>1. ~disturbed[u]  BY BeginReadIs
  <2> QED  BY <2>1 DEF BeginRead
<1>3. Ready(u)  BY <1>1, <1>2 DEF Progress, Progresses
<1>4. Buffer(u)' = b /\ The' = The /\ b \in Buffers
  BY <1>1, BufferIs DEF Buffer, The
<1>5. Text(b)' = Text(b)  BY <1>1, <1>4, TextIsOf DEF TextSound, TextTypeOK
<1>6. Text(Buffer(u))' = Text(b)
  BY <1>4, <1>5
<1>7. Text(b) \in Seq(0..2)  BY <1>4, TextFits DEF TextSound
<1>8. toggle \in BOOLEAN  BY DEF TextSound, TextTypeOK
<1>9. CASE AtEnd(u)
  <2>1. call'[u].kind = "end" /\ taken'[u] = Text(b)  BY <1>1, <1>3, <1>9 DEF Ready
  <2>2. driver = "etx_proc" => toggle'  BY <1>2, <1>8, <1>9 DEF AtEnd
  <2>3. driver # "etx_proc" => AtEnd(u)'
    <3>1. Limit(b)' = Limit(b)  BY <1>1, <1>4, TextIsOf DEF TextSound, TextTypeOK
    <3>2. Limit(Buffer(u))' = Limit(b)  BY <1>4, <3>1
    <3> QED  BY <1>1, <1>9, <3>2 DEF AtEnd
  <2> QED  BY <1>1, <1>6, <2>1, <2>2, <2>3 DEF Progresses
<1>10. CASE ~AtEnd(u)
  <2>1. call'[u].kind = "read" /\ taken'[u] = SubSeq(Text(b), 1, Start(u))
    <3>1. CASE The.whole
      <4>1. Start(u) = 0 /\ taken[u] = <<>>  BY <1>3, <1>10, <3>1 DEF Start, Ready
      <4> QED  BY <1>1, <1>7, <1>10, <4>1, NothingYet
    <3>2. CASE ~The.whole
      BY <1>1, <1>3, <1>10, <3>2 DEF Start, Ready
    <3> QED  BY <3>1, <3>2
  <2>2. driver = "etx_proc" => ~toggle'  BY <1>2, <1>8, <1>10 DEF AtEnd
  <2>3. driver = "buffer2k" => length' # 0  BY <1>1, <1>10 DEF AtEnd
  <2>4. driver = "etx" => call'[u].count >= length'
    <3>1. length \in Nat /\ call[u].count \in Nat
      BY BeginReadIs, TextAssumption DEF TextCalls, TextSound, TextTypeOK
    <3> QED  BY <1>1, <1>10, <3>1 DEF AsksForLess
  <2> QED  BY <1>1, <1>6, <2>1, <2>2, <2>3, <2>4 DEF Progresses
<1> QED  BY <1>9, <1>10

\* One more byte of the text is copied.
LEMMA CopyProgress ==
  ASSUME TextSound, Progress, NEW u \in Users, CopyToUser(u), ~disturbed'[u]
  PROVE  Progresses(u)'
<1> DEFINE b == Buffer(u)
<1>1. /\ at[u] = "copying" /\ call[u] \in TextCalls /\ call[u].left > 0 /\ call[u].kind = "read"
      /\ call'[u].kind = "read" /\ call'[u].snap = call[u].snap
      /\ call'[u].pos = call[u].pos + 1 /\ call'[u].count = call[u].count
      /\ UNCHANGED <<driver, bytes, length, off, toggle, disturbed, at>>
  BY AdvanceIs DEF CopyToUser
<1>2. Progresses(u)  BY <1>1 DEF Progress
<1>3. Buffer(u)' = b /\ The' = The /\ b \in Buffers
  BY <1>1, BufferIs DEF Buffer, The
<1>4. Text(b)' = Text(b)  BY <1>1, <1>3, TextIsOf DEF TextSound, TextTypeOK
<1>5. Text(Buffer(u))' = Text(b)
  BY <1>3, <1>4
<1>6. /\ Text(b) \in Seq(0..2) /\ Len(Text(b)) \in Nat /\ Len(Text(b)) = Limit(b)
      /\ \A i \in 1..Len(Text(b)) : Text(b)[i] = bytes[b][i - 1]
  BY <1>3, TextFits, TextAssumption DEF TextSound
<1>7. call[u].snap = Text(b) /\ taken[u] = SubSeq(Text(b), 1, call[u].pos)
  BY <1>1, <1>2 DEF Progresses
<1>8. call[u].pos \in Nat /\ call[u].left \in Nat  BY <1>1 DEF TextCalls
<1>9. call[u].pos < Len(Text(b))
  <2>1. call[u].pos + call[u].left <= Len(Text(b))
    BY <1>1, <1>7 DEF TextSound, InBounds, CopyFits
  <2> QED  BY <1>1, <1>6, <1>8, <2>1
<1>10. Text(b)[call[u].pos + 1] = bytes[b][call[u].pos]
  BY <1>6, <1>8, <1>9
<1>11. taken'[u] = Append(taken[u], bytes[b][call[u].pos])
  BY DEF CopyToUser, TextSound, TextTypeOK
<1>12. taken'[u] = SubSeq(Text(b), 1, call[u].pos + 1)
  BY <1>6, <1>7, <1>8, <1>9, <1>10, <1>11, PartGrows
<1> QED  BY <1>1, <1>2, <1>5, <1>7, <1>12 DEF Progresses

\* A read returns; at the end it may move the file back to its beginning.
LEMMA ReturnProgress ==
  ASSUME TextSound, Disturbs, Progress, NEW u \in Users, Returns(u), ~disturbed'[u]
  PROVE  Progresses(u)'
<1> DEFINE b == Buffer(u)
<1>1. /\ at[u] = "copying" /\ at'[u] = "open" /\ call[u].left = 0
      /\ UNCHANGED <<driver, bytes, toggle, disturbed>>
  BY DEF Returns, Goes, TextSound, TextTypeOK
<1>2. call[u] \in TextCalls
  BY <1>1, CallIsNoCall DEF TextSound, TextTypeOK, InCall, CallIsWhole
<1>3. call[u].kind \in {"read", "end"}
  <2>1. ~Writes(u)  BY <1>1, TouchedIs DEF Disturbs, OverlapDisturbs
  <2> QED  BY <1>1, <1>2, <2>1 DEF Writes, TextCalls
<1>4. length' = length  BY <1>3 DEF Returns
<1>5. Progresses(u)  BY <1>1 DEF Progress
<1>6. Buffer(u)' = b /\ The' = The /\ b \in Buffers
  BY <1>1, BufferIs DEF Buffer, The
<1>7. Text(b)' = Text(b) /\ Limit(b)' = Limit(b)
  BY <1>1, <1>4, <1>6, TextIsOf DEF TextSound, TextTypeOK
<1>8. Text(Buffer(u))' = Text(b) /\ Limit(Buffer(u))' = Limit(b)
  BY <1>6, <1>7
<1>9. /\ Text(b) \in Seq(0..2) /\ Len(Text(b)) = Limit(b) /\ Limit(b) \in Nat /\ Limit(b) <= TextSize
  BY <1>6, TextFits, TextAssumption DEF TextSound
<1>10. /\ call[u].pos \in Nat /\ Start(u) \in Nat /\ off[u] \in Nat /\ call[u].count \in Nat
       /\ TextSize \in Nat
  BY <1>2, TextAssumption DEF TextCalls, Start, TextSound, TextTypeOK
<1>11. /\ driver \in {"etx_proc", "buffer2k", "etx"} => The.whole
       /\ driver \in {"etx_proc", "buffer2k"} => The.again
       /\ The.whole \in BOOLEAN
  BY Rows DEF TextSound, TextTypeOK, GoodRow
<1>12. CASE call[u].kind = "end" /\ The.again
  <2>1. off'[u] = 0 /\ taken'[u] = <<>>
    BY <1>12 DEF Returns, TextSound, TextTypeOK
  <2>2. driver' = "etx_proc" => toggle'
    BY <1>1, <1>5, <1>12 DEF Progresses
  <2>3. TextTypeOK'  BY ReturnsSound DEF TextSound
  <2>4. ReadyWhenFresh'  BY FreshIsReady, PTL
  <2>5. Ready(u)'  BY <2>1, <2>2, <2>3, <2>4 DEF ReadyWhenFresh
  <2> QED  BY <1>1, <2>5 DEF Progresses
<1>13. CASE call[u].kind = "end" /\ ~The.again
  <2>1. off'[u] = off[u] /\ taken'[u] = taken[u]
    BY <1>13 DEF Returns, TextSound, TextTypeOK
  <2>2. driver # "etx_proc"  BY <1>11, <1>13
  <2>3. taken[u] = Text(b) /\ AtEnd(u)  BY <1>1, <1>5, <1>13, <2>2 DEF Progresses
  <2>4. AtEnd(u)'  BY <1>1, <1>4, <1>8, <2>1, <2>2, <2>3 DEF AtEnd
  <2> QED  BY <1>1, <1>8, <2>1, <2>3, <2>4 DEF Progresses, Ready
<1>14. CASE call[u].kind = "read"
  <2>1. off'[u] = Moved(u) /\ taken'[u] = taken[u]
    BY <1>14 DEF Returns, TextSound, TextTypeOK
  <2>2. /\ call[u].snap = Text(b) /\ taken[u] = SubSeq(Text(b), 1, call[u].pos)
        /\ driver = "etx_proc" => ~toggle
        /\ driver = "buffer2k" => length # 0
        /\ driver = "etx" => call[u].count >= length
    BY <1>1, <1>5, <1>14 DEF Progresses
  <2>3. /\ Start(u) <= call[u].pos /\ call[u].pos <= Limit(b)
        /\ The.whole => call[u].pos = Limit(b)
    <3>1. /\ Start(u) <= call[u].pos /\ call[u].pos + 0 <= Len(Text(b))
          /\ The.whole => call[u].pos + 0 = Len(Text(b))
      BY <1>1, <1>14, <2>2 DEF TextSound, InBounds, CopyFits
    <3> QED  BY <1>9, <1>10, <3>1
  <2>4. CASE The.whole
    <3>1. taken[u] = Text(b)  BY <1>9, <2>2, <2>3, <2>4, NothingYet
    <3>2. Start(u) = 0  BY <2>4 DEF Start
    <3>3. AtEnd(u)'
      <4>1. CASE driver = "etx_proc"  BY <1>1, <2>2, <4>1 DEF AtEnd
      <4>2. CASE driver = "buffer2k"
        <5>1. Moved(u) = off[u] + Limit(b)  BY <1>9, <1>14, <2>3, <2>4, <3>2, <4>2 DEF Moved
        <5>2. Limit(b) = length  BY <4>2, Rows DEF Limit, TextSound, TextTypeOK
        <5>3. off'[u] # 0  BY <1>9, <1>10, <2>1, <2>2, <4>2, <5>1, <5>2
        <5> QED  BY <1>1, <4>2, <5>3 DEF AtEnd
      <4>3. CASE driver = "etx"
        <5>1. Moved(u) = off[u] + call[u].count  BY <1>14, <4>3 DEF Moved
        <5>2. Limit(b) = length  BY <4>3, Rows DEF Limit, TextSound, TextTypeOK
        <5>3. off'[u] >= Limit(b)  BY <1>9, <1>10, <2>1, <2>2, <4>3, <5>1, <5>2
        <5> QED  BY <1>1, <1>8, <4>3, <5>3 DEF AtEnd
      <4>4. CASE driver \notin {"etx_proc", "buffer2k", "etx"}
        <5>1. Moved(u) = off[u] + Limit(b)
          BY <1>9, <1>14, <2>3, <2>4, <3>2, <4>4 DEF Moved
        <5>2. off'[u] >= Limit(b)  BY <1>9, <1>10, <2>1, <5>1
        <5> QED  BY <1>1, <1>8, <4>4, <5>2 DEF AtEnd
      <4> QED  BY <4>1, <4>2, <4>3, <4>4
    <3> QED  BY <1>1, <1>8, <2>1, <3>1, <3>3 DEF Progresses, Ready
  <2>5. CASE ~The.whole
    <3>1. driver \notin {"etx_proc", "buffer2k", "etx"}  BY <1>11, <2>5
    <3>2. Start(u) = off[u]  BY <2>5 DEF Start
    <3>3. Moved(u) = off[u] + (call[u].pos - Start(u))  BY <1>14, <3>1 DEF Moved
    <3>4. off'[u] = call[u].pos  BY <1>10, <2>1, <2>3, <3>2, <3>3
    <3>5. AtEnd(u)' <=> call[u].pos >= Limit(b)  BY <1>1, <1>8, <3>1, <3>4 DEF AtEnd
    <3>6. CASE call[u].pos >= Limit(b)
      <4>1. call[u].pos = Limit(b)  BY <1>9, <1>10, <2>3, <3>6
      <4>2. taken[u] = Text(b)  BY <1>9, <2>2, <4>1, NothingYet
      <4> QED  BY <1>1, <1>8, <2>1, <3>5, <3>6, <4>2 DEF Progresses, Ready
    <3>7. CASE ~(call[u].pos >= Limit(b))
      <4>1. call[u].pos < Limit(b)  BY <1>9, <1>10, <3>7
      <4>2. Ready(u)'
        BY <1>6, <1>8, <2>1, <2>2, <2>5, <3>4, <3>5, <3>7, <4>1 DEF Ready
      <4> QED  BY <1>1, <4>2 DEF Progresses
    <3> QED  BY <3>6, <3>7
  <2> QED  BY <1>11, <2>4, <2>5
<1> QED  BY <1>3, <1>12, <1>13, <1>14

\* A call that is asked for, or given up, has read nothing.
LEMMA AsksProgress ==
  ASSUME TextSound, Progress, NEW u \in Users, Asks(u), ~disturbed'[u]
  PROVE  Progresses(u)'
<1>1. /\ UNCHANGED <<driver, bytes, length, toggle, off, taken, disturbed>>
      /\ at[u] \in {"open", "waiting"} /\ at'[u] \in {"open", "waiting"}
  BY DEF Asks, ReadText, WriteText, Interrupted, Calls, Goes, TextSound, TextTypeOK
<1>2. Ready(u)  BY <1>1 DEF Progress, Progresses
<1>3. Buffer(u)' = Buffer(u) /\ The' = The  BY <1>1 DEF Buffer, The
<1>4. /\ Limit(Buffer(u))' = Limit(Buffer(u)) /\ Text(Buffer(u))' = Text(Buffer(u))
  <2> DEFINE b == Buffer(u)
  <2>1. Limit(b)' = Limit(b) /\ Text(b)' = Text(b)
    BY <1>1, <1>3, BufferIs, TextIsOf DEF TextSound, TextTypeOK
  <2> QED  BY <1>3, <2>1
<1>5. AtEnd(u)' <=> AtEnd(u)  BY <1>1, <1>4 DEF AtEnd
<1>6. Ready(u)'  BY <1>1, <1>2, <1>3, <1>4, <1>5 DEF Ready
<1> QED  BY <1>1, <1>6 DEF Progresses

\* Every step of a process keeps who is undisturbed on its way through the text.
LEMMA StepProgress ==
  ASSUME TextSound, Exclusion, Disturbs, Closed, Progress, NEW w \in Users, TextStep(w)
  PROVE  Progress'
<1> SUFFICES ASSUME NEW u \in Users, ~disturbed'[u] PROVE Progresses(u)'
  BY DEF Progress
<1>1. CASE u # w  BY <1>1, OthersProgress
<1>2. CASE u = w
  <2>1. ~BeginWrite(u)
    BY <1>2, BeginWriteIs, TouchedIs
  <2>2. ~CopyFromUser(u)
    <3>1. CopyFromUser(u) => Writes(u) /\ disturbed' = disturbed /\ at[u] # "out"
      BY DEF CopyFromUser, Advances, Writes
    <3> QED  BY <3>1, TouchedIs DEF Disturbs, OverlapDisturbs
  <2>4. ~ReadsBeyond(u)  BY BeyondIs
  <2>3. Opens(u) \/ Asks(u) \/ BeginRead(u) \/ CopyToUser(u) \/ Returns(u)
    BY <1>2, <2>1, <2>2, <2>4 DEF TextStep, Begins, Copying
  <2> QED  BY <2>3, OpensProgress, AsksProgress, BeginReadProgress, CopyProgress, ReturnProgress
<1> QED  BY <1>1, <1>2

TextGiven == Disturbs /\ Closed /\ Progress

\* Every step keeps the account of the texts.
LEMMA StepGiven == TextSound /\ Exclusion /\ TextGiven /\ [TextNext]_textVars => TextGiven'
<1> SUFFICES ASSUME TextSound, Exclusion, Disturbs, Closed, Progress, [TextNext]_textVars
             PROVE  TextGiven'
  BY DEF TextGiven
<1>1. CASE UNCHANGED textVars
  <2>1. The' = The /\ (\A u \in Users : Buffer(u)' = Buffer(u) /\ Touched(u)' = Touched(u))
    BY <1>1 DEF textVars, The, Buffer, Touched
  <2>2. Disturbs' /\ Closed'
    BY <1>1, <2>1 DEF textVars, Disturbs, OverlapDisturbs, Closed, Writes
  <2>3. ASSUME NEW u \in Users, ~disturbed'[u] PROVE Progresses(u)'
    <3> DEFINE b == Buffer(u)
    <3>1. Progresses(u)  BY <1>1, <2>3 DEF textVars, Progress
    <3>2. Limit(b)' = Limit(b) /\ Text(b)' = Text(b)
      <4>1. driver' = driver /\ bytes'[b] = bytes[b] /\ length' = length
        BY <1>1 DEF textVars
      <4>2. b \in Buffers /\ driver \in DOMAIN Drivers  BY BufferIs DEF TextSound, TextTypeOK
      <4> QED  BY <2>1, <4>1, <4>2, TextIsOf
    <3>3. Limit(Buffer(u))' = Limit(b) /\ Text(Buffer(u))' = Text(b)  BY <2>1, <3>2
    <3>4. AtEnd(u)' <=> AtEnd(u)  BY <1>1, <3>3 DEF textVars, AtEnd
    <3> QED  BY <1>1, <2>1, <3>1, <3>3, <3>4 DEF textVars, Progresses, Ready
  <2> QED  BY <2>2, <2>3 DEF TextGiven, Progress
<1>2. ASSUME NEW w \in Users, TextStep(w) PROVE TextGiven'
  BY <1>2, StepDisturbs, StepClosed, StepProgress DEF TextGiven
<1> QED  BY <1>1, <1>2 DEF TextNext, TextStep, Opens, Asks, Begins, Copying

\* When a read returns 0, its process has the text, whatever sizes it read with, unless
\* something in the meantime spoilt that for it: a write, a read of another process or a
\* read of its own, as `disturbed` says.
THEOREM WholeText == TextSpec => CatGetsText
<1> DEFINE Got == \A u \in Users :
              Returns(u) /\ call[u].kind = "end" /\ (~disturbed[u] \/ The.opens = "one")
                => taken[u] = Text(Buffer(u))
<1>1. TextGiven => Got
  BY DEF TextGiven, Disturbs, Progress, Progresses, Returns, Goes
<1>2. TextInit => TextGiven  BY InitDisturbs, InitProgress DEF TextGiven
<1>3. TextSpec => []TextGiven
  BY <1>2, StepGiven, TextSafe, PTL DEF TextSpec
<1>4. CatGetsText <=> [][Got]_textVars  BY DEF CatGetsText
<1> HIDE DEF Got
<1> QED  BY <1>1, <1>3, <1>4, PTL
=============================================================================
