----------------------------- MODULE TextDevice -----------------------------
(***************************************************************************)
(* Drivers that keep a text behind a file, and what processes do with the  *)
(* file: open it, read it call by call until a call returns 0, write it,   *)
(* seek, close it.  The drivers differ in who is let in (one open at a     *)
(* time, one call at a time, anybody), in where the text ends, and in what *)
(* a write does.  The text is copied byte by byte.                         *)
(***************************************************************************)
EXTENDS Naturals, Sequences

CONSTANTS Users,     \* processes
          Echoes,    \* those of them that write
          TextSize,  \* the size of the buffer
          Written,   \* what the processes write: sequences of the bytes 1 and 2
          Counts     \* the sizes they read with
ASSUME TextAssumption ==
  /\ TextSize \in Nat \ {0} /\ Echoes \subseteq Users
  /\ Written \subseteq Seq({1, 2}) \ {<<>>}
  /\ Counts \subseteq Nat \ {0}
ASSUME NamesAssumption == Users \cap {"nobody", "module"} = {}

VARIABLES
  driver,    \* whose module is loaded
  already,   \* already_open, watchdog_enabled: the file is taken
  holder,    \* who holds the mutex or the semaphore of the calls, or "nobody"
  bytes,     \* the buffers: the module's, and those of open files
  length,    \* kernel_buffer_len, procfs_buffer_size
  toggle,    \* len of 08_procfs: the next read gets the text, not its end
  at,        \* where each process is: "out", "opening", "open", "waiting", "copying"
  off,       \* the position of its file
  call,      \* the call it is in
  taken,     \* what its reads gave it since the beginning of the file (not what that of
             \* 06 copies although it returns 0)
  disturbed, \* history: since then the text was written or cut, another read it,
             \* or a read of its own did not end where the text does
  slipped    \* history: an open came between the test and the set of another

textVars == <<driver, already, holder, bytes, length, toggle, at, off, call, taken, disturbed,
              slipped>>

(* opens: who may have the file open ("own": each with a buffer of its own).  *)
(* calls: the lock of read and write.  ends: where the text ends.  writes:    *)
(* what write does.  whole: a call starts at the beginning of the buffer and  *)
(* not at the file's position, and a read gives all of the text, whatever was *)
(* asked for.  again: a read at the end moves the file back to the beginning. *)
Row(opens, calls, ends, writes, whole, again) ==
  [opens |-> opens, calls |-> calls, ends |-> ends, writes |-> writes,
   whole |-> whole, again |-> again]

\* 06_real_device_driver/example2
Example2 == Row("any", "mutex", "nul", "at offset", FALSE, FALSE)
\* 16_semaphore: read only sleeps with the semaphore
Semaphore == Row("any", "semaphore", "empty", "nothing", FALSE, FALSE)
\* lkmpg chardev
Chardev == Row("one", "free", "nul", "nothing", FALSE, TRUE)
\* 25_misc_device/misc_watchdog: writes and ioctls only kick it
Watchdog == Row("test", "free", "empty", "nothing", FALSE, FALSE)
\* Johannes 08_read_write_cdev, and 21_miscdev like it
HelloCdev == Row("any", "free", "size", "at offset", FALSE, FALSE)
\* Johannes 11_kmalloc
Kmalloc == Row("own", "free", "size", "at offset", FALSE, FALSE)
\* 06_real_device_driver
EtxDevice == Row("any", "free", "length", "anew", TRUE, FALSE)
\* 08_procfs_simple
SampleDriver == Row("any", "free", "nul", "nothing", FALSE, FALSE)
\* lkmpg procfs1
HelloWorld == Row("any", "free", "nul", "nothing", TRUE, FALSE)
\* lkmpg procfs2: the same text, whatever is written
Buffer1k == Row("any", "free", "nul", "unread", TRUE, FALSE)
\* lkmpg procfs3, where a read that asks for less than the text cuts it first
Buffer2k == Row("any", "free", "length", "over", TRUE, TRUE)
\* 08_procfs: a read gives all 20 bytes of etx_array
EtxProc == Row("any", "free", "size", "over", TRUE, TRUE)

Drivers ==
  [example2 |-> Example2,
   semaphore |-> Semaphore,
   chardev |-> Chardev,
   watchdog |-> Watchdog,
   cdev |-> HelloCdev,
   kmalloc |-> Kmalloc,
   etx |-> EtxDevice,
   ack |-> SampleDriver,
   helloworld |-> HelloWorld,
   buffer1k |-> Buffer1k,
   buffer2k |-> Buffer2k,
   etx_proc |-> EtxProc]

The == Drivers[driver]

Module    == "module"                     \* the buffer all files share
Buffer(u) == IF The.opens = "own" THEN u ELSE Module
Index     == 0..(TextSize - 1)
NoCall    == [kind |-> "none"]

\* The drivers whose buffer is empty at first, but for the terminating NULs.
EmptyAtFirst == {"example2", "cdev", "buffer2k"}

TextInit ==
  /\ driver \in DOMAIN Drivers
  /\ already = FALSE /\ holder = "nobody"
  /\ bytes = [b \in Users \cup {Module} |->
                [i \in Index |-> IF i = 0 /\ driver \notin EmptyAtFirst THEN 1 ELSE 0]]
  /\ length = IF driver \in EmptyAtFirst THEN 0 ELSE 1
  /\ toggle = TRUE
  /\ at = [u \in Users |-> "out"]
  /\ off = [u \in Users |-> 0]
  /\ call = [u \in Users |-> NoCall]
  /\ taken = [u \in Users |-> <<>>]
  /\ disturbed = [u \in Users |-> FALSE]
  /\ slipped = FALSE

-----------------------------------------------------------------------------
(* The text *)

Smaller(m, n) == IF m < n THEN m ELSE n

\* strlen. What is modelled of chardev's message has its NUL behind it; behind the
\* full buffer of example2 there may be none: see ReadsBeyond.
Strlen(b) == CHOOSE n \in 0..TextSize : /\ \A i \in 0..(n - 1) : bytes[b][i] # 0
                                        /\ n < TextSize => bytes[b][n] = 0

Limit(b) == CASE The.ends = "empty"  -> 0
              [] The.ends = "size"   -> TextSize
              [] The.ends = "length" -> length
              [] The.ends = "nul"    -> Strlen(b)

Text(b) == [i \in 1..Limit(b) |-> bytes[b][i - 1]]

\* Whether a read of u is at the end: it then returns 0.
AtEnd(u) == CASE driver = "etx_proc" -> ~toggle
              [] driver = "buffer2k" -> off[u] # 0 \/ length = 0
              [] OTHER               -> off[u] >= Limit(Buffer(u))

\* Whose reads a write of u changes: what procfs2 takes nobody reads, but its
\* writer's file has moved.
Touched(u) == IF The.writes = "unread" THEN {u} ELSE {v \in Users : Buffer(v) = Buffer(u)}

\* Another process is writing what u reads.
WrittenBy(v, u) == v # u /\ u \in Touched(v) /\ at[v] = "copying" /\ call[v].kind = "write"
BeingWritten(u) == \E v \in Users : WrittenBy(v, u)

-----------------------------------------------------------------------------
(* open, release, llseek *)

Goes(u, from, to) == at[u] = from /\ at' = [at EXCEPT ![u] = to]

\* u will read from the beginning; 08_procfs may owe the end to another reader.
FromTheBeginning(u) ==
  /\ off' = [off EXCEPT ![u] = 0]
  /\ taken' = [taken EXCEPT ![u] = <<>>]
  /\ disturbed' = [disturbed EXCEPT ![u] = ~toggle \/ BeingWritten(u)]

\* A file that anybody may open; 11_kmalloc gives it memory of any content.
OpenAny(u) ==
  /\ The.opens \in {"any", "own"}
  /\ Goes(u, "out", "open")
  /\ IF The.opens = "own"
     THEN \E junk \in 0..2 : bytes' = [bytes EXCEPT ![u] = [i \in Index |-> junk]]
     ELSE UNCHANGED bytes
  /\ FromTheBeginning(u)
  /\ UNCHANGED <<driver, already, holder, length, toggle, call, slipped>>

\* Seeded fault: the flag is set and not looked at.
LetsAnybodyIn == already' = TRUE

\* atomic_cmpxchg; another caller gets -EBUSY and nothing changes.
CmpxchgOpen == ~already /\ already' = TRUE

\* chardev: the message of each open counts the opens, here modulo 2.
OpenOne(u) ==
  /\ The.opens = "one"
  /\ Goes(u, "out", "open")
  /\ CmpxchgOpen
  /\ bytes' = [bytes EXCEPT ![Module] =
                 [i \in Index |-> 3 - bytes[Module][0]]]
  /\ FromTheBeginning(u)
  /\ UNCHANGED <<driver, holder, length, toggle, call, slipped>>

\* my_watchdog_open tests the flag ...
OpenTests(u) ==
  /\ The.opens = "test"
  /\ Goes(u, "out", "opening") /\ ~already
  /\ UNCHANGED <<driver, already, holder, bytes, length, toggle, off, call, taken, disturbed,
                 slipped>>

\* ... and then sets it.
OpenSets(u) ==
  /\ Goes(u, "opening", "open")
  /\ already' = TRUE
  /\ slipped' = (slipped \/ already)
  /\ UNCHANGED <<driver, holder, bytes, length, toggle, off, call, taken, disturbed>>

\* The file is gone, and with it its position and the memory of its own.
Release(u) ==
  /\ Goes(u, "open", "out")
  /\ already' = FALSE
  /\ slipped' = (slipped /\ \E v \in Users \ {u} : at[v] # "out")
  /\ bytes' = IF The.opens = "own" THEN [bytes EXCEPT ![u] = [i \in Index |-> 0]] ELSE bytes
  /\ off' = [off EXCEPT ![u] = 0] /\ taken' = [taken EXCEPT ![u] = <<>>]
  /\ disturbed' = [disturbed EXCEPT ![u] = FALSE]
  /\ UNCHANGED <<driver, holder, length, toggle, call>>

\* default_llseek to the beginning, which only 11_kmalloc has.
Seek(u) ==
  /\ driver = "kmalloc" /\ at[u] = "open" /\ off[u] # 0
  /\ FromTheBeginning(u)
  /\ UNCHANGED <<driver, already, holder, bytes, length, toggle, at, call, slipped>>

-----------------------------------------------------------------------------
(* read and write *)

Calls(u, kind, count, data) ==
  /\ Goes(u, "open", "waiting")
  /\ call' = [call EXCEPT ![u] = [kind |-> kind, count |-> count, data |-> data,
                                  pos |-> 0, left |-> 0, snap |-> <<>>, torn |-> FALSE]]
  /\ UNCHANGED <<driver, already, holder, bytes, length, toggle, off, taken, disturbed, slipped>>

\* Bound: a process that was given the text twice (which 08_procfs may do again
\* and again) reads once more at most.
ReadText(u) ==
  /\ driver # "watchdog" /\ Len(taken[u]) <= 2 * TextSize
  /\ \E n \in Counts : Calls(u, "read", n, <<>>)

\* They copy as much as is written, whatever the size of their buffer.
Unchecked == driver \in {"etx", "etx_proc"}

\* Without writes = "nothing": those calls fail or take the bytes and drop them.
\* Bounds: only procfs2 moves the file on and on; behind the text it is at its end.
\* Nobody writes more than their buffer holds to the drivers that do not check it,
\* whose write then goes on over the memory behind it.
WriteText(u) ==
  /\ The.writes # "nothing" /\ u \in Echoes
  /\ The.writes = "unread" => off[u] <= TextSize
  /\ \E w \in Written : (Unchecked => Len(w) <= TextSize) /\ Calls(u, "write", Len(w), w)

\* Seeded fault: the lock is not asked for.
GoesIn(u) == UNCHANGED holder

\* mutex_lock_interruptible, down_interruptible
Lock(u) == IF The.calls = "free" THEN UNCHANGED holder
           ELSE holder = "nobody" /\ holder' = u

\* A signal ends the wait: -ERESTARTSYS.
Interrupted(u) ==
  /\ The.calls # "free"
  /\ Goes(u, "waiting", "open")
  /\ call' = [call EXCEPT ![u] = NoCall]
  /\ UNCHANGED <<driver, already, holder, bytes, length, toggle, off, taken, disturbed, slipped>>

\* A read that asks for less than the text is long: procfs3 then cuts the text, for
\* everybody; that of 06 moves the file by what was asked for only, and the next
\* read gives the text again.
AsksForLess(u) == ~AtEnd(u) /\ call[u].count < length
Cuts(u)        == driver = "buffer2k" /\ AsksForLess(u)
WillRepeat(u)  == driver = "etx" /\ AsksForLess(u)

\* The text u reads.
Given(u) == IF Cuts(u) THEN SubSeq(Text(Buffer(u)), 1, call[u].count) ELSE Text(Buffer(u))

\* Where a read or a write of u starts, and how much it copies.
Start(u)   == IF The.whole THEN 0 ELSE off[u]
ToRead(u)  == IF AtEnd(u) THEN 0
              ELSE IF The.whole THEN Len(Given(u))
              ELSE Smaller(call[u].count, Limit(Buffer(u)) - off[u])
ToWrite(u) == IF Start(u) >= TextSize \/ The.writes = "unread" THEN 0
              ELSE IF Unchecked THEN call[u].count
              ELSE Smaller(call[u].count, TextSize - Start(u))

LetIn(u, kind) == call[u].kind = kind /\ Goes(u, "waiting", "copying") /\ Lock(u)

\* A read of u leaves v without its end of 08_procfs or without the rest of the text
\* of procfs3, or u itself with more than the text.
Spoils(u, v) == \/ driver = "etx_proc" /\ v # u /\ at[v] # "out"
                \/ Cuts(u) /\ at[v] # "out"
                \/ WillRepeat(u) /\ v = u

BeginRead(u) ==
  /\ LetIn(u, "read")
  /\ call' = [call EXCEPT ![u].kind = IF AtEnd(u) THEN "end" ELSE "read",
                          ![u].pos = Start(u), ![u].left = ToRead(u),
                          ![u].snap = Given(u), ![u].torn = BeingWritten(u)]
  /\ length' = IF Cuts(u) THEN call[u].count ELSE length
  /\ toggle' = IF driver = "etx_proc" THEN ~toggle ELSE toggle
  /\ disturbed' = [v \in Users |-> disturbed[v] \/ Spoils(u, v)]
  /\ UNCHANGED <<driver, already, bytes, off, taken, slipped>>

\* strlen runs on behind the full buffer of example2, and the read gives what is
\* there: a call with the mutex, so all of it in one step. If a NUL happens to lie
\* right behind the buffer, or before the position, it is a read like the others.
ReadsBeyond(u) ==
  /\ driver = "example2" /\ Strlen(Module) = TextSize
  /\ call[u].kind = "read" /\ Goes(u, "waiting", "open") /\ holder = "nobody"
  /\ \E n \in 1..call[u].count, junk \in 1..2 :
       /\ off[u] + n > TextSize
       /\ taken' = [taken EXCEPT ![u] = @ \o [i \in 1..n |->
                      IF off[u] + i <= TextSize THEN bytes[Module][off[u] + i - 1] ELSE junk]]
       /\ off' = [off EXCEPT ![u] = @ + n]
  /\ disturbed' = [disturbed EXCEPT ![u] = TRUE]
  /\ call' = [call EXCEPT ![u] = NoCall]
  /\ UNCHANGED <<driver, already, holder, bytes, length, toggle, slipped>>

\* The length is set before the bytes by procfs3 and after them by the driver of
\* 06, which clears the buffer first.
BeginWrite(u) ==
  /\ LetIn(u, "write")
  /\ LET readers == {v \in Touched(u) \ {u} : call[v] # NoCall}
         entered == [call EXCEPT ![u].pos = Start(u), ![u].left = ToWrite(u)]
     IN  call' = [v \in Users |-> IF v \in readers THEN [call[v] EXCEPT !.torn = TRUE]
                                                   ELSE entered[v]]
  /\ disturbed' = [v \in Users |-> disturbed[v] \/ (v \in Touched(u) /\ at[v] # "out")]
  /\ length' = IF driver = "buffer2k" THEN ToWrite(u) ELSE length
  /\ bytes' = IF The.writes = "anew" THEN [bytes EXCEPT ![Module] = [i \in Index |-> 0]]
              ELSE bytes
  /\ UNCHANGED <<driver, already, toggle, off, taken, slipped>>

Advances(u) ==
  /\ at[u] = "copying" /\ call[u].left > 0
  /\ call' = [call EXCEPT ![u].pos = @ + 1, ![u].left = @ - 1]

CopyToUser(u) ==
  /\ Advances(u) /\ call[u].kind = "read"
  /\ taken' = [taken EXCEPT ![u] = Append(@, bytes[Buffer(u)][call[u].pos])]
  /\ UNCHANGED <<driver, already, holder, bytes, length, toggle, at, off, disturbed, slipped>>

CopyFromUser(u) ==
  /\ Advances(u) /\ call[u].kind = "write"
  /\ LET i == call[u].pos
     IN  bytes' = [bytes EXCEPT ![Buffer(u)][i] = call[u].data[i + 1 - Start(u)]]
  /\ UNCHANGED <<driver, already, holder, length, toggle, at, off, taken, disturbed, slipped>>

\* Seeded fault: the call that has nothing to copy returns without unlocking.
UnlockIfCopied(u) == holder' = IF call[u].pos = off[u] THEN holder ELSE "nobody"

Unlock(u) == holder' = "nobody"

\* Where the file is after the call.
Moved(u) ==
  CASE driver = "etx_proc" -> off[u]
    [] driver = "etx" -> IF call[u].kind = "read" THEN off[u] + call[u].count ELSE off[u]
    [] driver = "buffer1k" /\ call[u].kind = "write" ->
         off[u] + Smaller(call[u].count, TextSize - 1)
    [] driver = "buffer2k" /\ call[u].kind = "write" -> Smaller(off[u] + call[u].pos, TextSize)
    [] OTHER -> off[u] + (call[u].pos - Start(u))

Returns(u) ==
  /\ Goes(u, "copying", "open") /\ call[u].left = 0
  /\ Unlock(u)
  /\ LET restarts == call[u].kind = "end" /\ The.again
     IN  /\ off' = [off EXCEPT ![u] = IF restarts THEN 0 ELSE
                                      IF call[u].kind = "end" THEN off[u] ELSE Moved(u)]
         /\ taken' = IF restarts THEN [taken EXCEPT ![u] = <<>>] ELSE taken
  /\ length' = IF driver = "etx" /\ call[u].kind = "write" THEN call[u].pos ELSE length
  /\ call' = [call EXCEPT ![u] = NoCall]
  /\ UNCHANGED <<driver, already, bytes, toggle, disturbed, slipped>>

TextNext ==
  \E u \in Users : \/ OpenAny(u) \/ OpenOne(u) \/ OpenTests(u) \/ OpenSets(u)
                   \/ Release(u) \/ Seek(u)
                   \/ ReadText(u) \/ WriteText(u) \/ Interrupted(u)
                   \/ BeginRead(u) \/ BeginWrite(u) \/ ReadsBeyond(u)
                   \/ CopyToUser(u) \/ CopyFromUser(u) \/ Returns(u)

TextSpec == TextInit /\ [][TextNext]_textVars

-----------------------------------------------------------------------------
(* Properties *)

\* A call that returned bytes returned what was there at one moment, also while
\* others write: always with the mutex, and with the one open of chardev; without
\* either, unless a write overlapped. Of a text that fills the buffer of example2 only
\* the reads that end there are promised anything: ReadsBeyond gives more.
ReadsAreWhole ==
  [][\A u \in Users :
       LET n == call[u].pos - Start(u)
       IN  Returns(u) /\ call[u].kind = "read"
             /\ (The.calls = "mutex" \/ The.opens = "one" \/ ~call[u].torn)
           => SubSeq(taken[u], Len(taken[u]) - n + 1, Len(taken[u]))
                = SubSeq(call[u].snap, Start(u) + 1, Start(u) + n)]_textVars

\* The bytes copied to a process until a read returns 0 are the whole text once, if
\* nothing was written meanwhile; chardev makes sure of that. So it is whatever sizes
\* the process reads with, except that a read which asks for less than the text
\* destroys it in procfs3, for every reader, and gets it again in the driver of 06, and
\* that one which runs on behind the full buffer of example2 gets more.
CatGetsText ==
  [][\A u \in Users :
       Returns(u) /\ call[u].kind = "end" /\ (~disturbed[u] \/ The.opens = "one")
         => taken[u] = Text(Buffer(u))]_textVars

\* One process at a time has the file of chardev open, and that of the watchdog
\* unless one came between another's test and set of the flag, whose effect lasts
\* until nobody has it open. And nobody is locked out for good: with no file open
\* the flag is clear, and with no call being served the lock is free.
ExclusionIsKept ==
  LET In == {u \in Users : at[u] \notin {"out", "opening"}}
  IN  /\ The.opens \in {"one", "test"} /\ ~slipped =>
           (already <=> In # {}) /\ \A u, v \in In : u = v
      /\ In = {} => ~already
      /\ (\A u \in In : at[u] # "copying") => holder = "nobody"
=============================================================================
