--------------------------- MODULE Ssd1306_proofs ---------------------------
(***************************************************************************)
(* The displays, for any texts and any number of writes: the controller    *)
(* follows the driver's cursor, every letter is whole, a message that has  *)
(* not come around is all there, and the logo is what the SPI driver       *)
(* leaves.                                                                 *)
(*                                                                         *)
(* The calls of a handler are counted from the last one (Due), so that a   *)
(* call leaves the others their numbers.  For the I2C drivers the text     *)
(* comes last and what is before it tells how far the handler is           *)
(* (WriteDue, ProbeDue); all columns are multiples of six (Sixes), and     *)
(* what is drawn lies behind the place where the controller is (OnScreen). *)
(* The SPI driver has one fixed list of 70 calls (Greeting), for which     *)
(* Timetable says where its cursor is when so many of them are left.       *)
(***************************************************************************)
EXTENDS Ssd1306, SequenceTheorems, FiniteSetTheorems, TLAPS

-----------------------------------------------------------------------------
(* The invariant: types *)

\* The calls without an argument, what is printed, all calls, and what a cell shows.
Plain == {"fill", "light", "home", "scroll", "stop", "logo", "reset"}
Chars == {"E", "m", "b", "e", "T", "r", "o", "n", "i", "c", "X", "a", NL}
           \cup UNION {Letters(text) : text \in Texts}
CallSet == [op : Plain] \cup [op : {"cursor"}, line : 0..MAX_LINE, col : 0..MAX_SEG - 1]
             \cup [op : {"char"}, c : Chars]
Shown == [c : Chars \cup NoLetters, k : Nat]

\* A character to print, and a position to send.
Letter(c) == [op |-> "char", c |-> c]
CursorTo(line, col) == [op |-> "cursor", line |-> line, col |-> col]

\* The counters stay on the display, and the screen shows nothing next to it.
DisplayTypeOK ==
  /\ driver \in {"i2c", "spi", "client"}
  /\ LineNum \in 0..MAX_LINE /\ CursorPos \in 0..MAX_SEG - 1
  /\ loaded \in BOOLEAN /\ calls \in Seq(CallSet)
  /\ window \in [page : 0..MAX_LINE, col : 0..MAX_SEG - 1] /\ ramPointer \in Nat
  /\ DOMAIN screen \subseteq Cells /\ screen \in [DOMAIN screen -> Shown]
  /\ scroll \in BOOLEAN /\ scrolled \in Nat /\ turns \in Nat
  /\ message \in Seq(Chars) /\ drawn \in Seq(Cells)

\* The calls that are left, and the r-th of them counted from the last.
Left   == Len(calls)
Due(r) == calls[Left + 1 - r]

\* Where the controller writes next, as a number and as the driver sees it.
Column == window.col + ramPointer
Here   == Place(<<LineNum, Column>>)
Synced == window.page = LineNum /\ Column <= CursorPos

-----------------------------------------------------------------------------
(* The two I2C drivers *)

\* The text comes last, behind what etx_write or the probe function does first.
TextDue == \A r \in 1..Left : r <= Len(message) => Due(r) = Letter(message[Len(message) + 1 - r])

\* What is left besides the text, or how much of the text was printed.
Before == Left - Len(message)

\* etx_write clears the display and the counters, ...
WriteDue ==
  /\ Before <= 3
  /\ Before >= 1 => Due(Len(message) + 1) = [op |-> "home"]
  /\ Before >= 2 => Due(Len(message) + 2) = CursorTo(0, 0)
  /\ Before >= 3 => Due(Len(message) + 3) = [op |-> "fill"]

\* ... the probe function stops the scroll and clears it twice.
ProbeDue ==
  /\ Before <= 4
  /\ Before >= 1 => Due(Len(message) + 1) = CursorTo(0, 0)
  /\ Before >= 2 => Due(Len(message) + 2) = [op |-> "fill"]
  /\ Before >= 3 => Due(Len(message) + 3) = [op |-> "fill"]
  /\ Before >= 4 => Due(Len(message) + 4) = [op |-> "stop"]

\* The I2C driver that prints is loaded, and has come to the text.
Ready == driver = "i2c" /\ loaded
Printing == Before <= 0

\* The other handlers only fill the display.
I2cCalls ==
  /\ Ready => TextDue /\ (WriteDue \/ ProbeDue)
  /\ driver # "spi" /\ ~Ready => \A r \in 1..Left : Due(r).op \in {"stop", "light", "fill"}

\* All letters take six columns, and so the I2C drivers never have the last ones fill a
\* line to its edge, where the controller would go on to the next page by itself.
Sixes ==
  driver # "spi" =>
    /\ CursorPos % 6 = 0 /\ window.col = 0 /\ ~scroll /\ scrolled = 0
    /\ Ready /\ Before >= 1 =>
         /\ Before = 1 /\ Due(Len(message) + 1).op = "home" => window.page = 0 /\ ramPointer = 0
         /\ Due(Len(message) + 1).op = "cursor" =>
              drawn = <<>> /\ turns = 0 /\ LineNum = 0 /\ CursorPos = 0
    /\ Ready /\ Printing => Len(drawn) + Before = 0 /\ Synced /\ ramPointer % 6 = 0

\* A message that has not come around ...
Ascending == driver # "spi" /\ turns <= MAX_LINE =>
   \A i \in 1..Len(drawn) : i > 1 => Place(drawn[i - 1]) < Place(drawn[i])

\* ... is on the display, and ends where the controller is.
OnScreen == Ready /\ Printing /\ turns <= MAX_LINE =>
  /\ LineNum = turns
  /\ \A i \in 1..Len(drawn) :
      /\ Place(drawn[i]) < Here
      /\ message[i] # NL =>
          /\ Place(drawn[i]) + 6 <= Here
          /\ drawn[i] \in DOMAIN screen /\ screen[drawn[i]] = [c |-> message[i], k |-> 0]

-----------------------------------------------------------------------------
(* The SPI driver *)

\* The SPI module is loaded and greets, or is done.
Playing == driver = "spi" /\ loaded

\* It goes through its greeting call by call; its exit clears the display.
SpiCalls ==
  /\ Playing => Left <= 70 /\ \A r \in 1..Left : Due(r) = Greeting[71 - r]
  /\ driver = "spi" /\ ~loaded =>
       /\ Left <= 2
       /\ Left >= 1 => Due(1) = [op |-> "fill"]
       /\ Left >= 2 => Due(2) = CursorTo(0, 0)

\* Where the driver's cursor is
Stands(line, col) == LineNum = line /\ CursorPos = col

\* Where the cursor is when so many calls of the greeting are left
Timetable ==
  Playing =>
    /\ Left \in 57..64 => Stands(0, 6 * (64 - Left))
    /\ Left \in 54..56 => Stands(1, 6 * (56 - Left))
    /\ Left \in 42..53 => Stands(2, 6 * (53 - Left))
    /\ Left = 41       => Stands(3, 0)
    /\ Left \in 31..40 => Stands(4, 35 + 6 * (40 - Left))
    /\ Left = 30       => Stands(5, 0)
    /\ Left \in 16..29 => Stands(5, 23 + 6 * (29 - Left))
    /\ Left = 15       => Stands(6, 0)
    /\ Left \in 6..14  => Stands(6, 37 + 6 * (14 - Left))

\* The controller is there, or at the first cell when the display is to be filled.
SpiCursor == driver = "spi" =>
    /\ loaded /\ Left \in 6..64 => Synced /\ Column = CursorPos
    /\ (loaded /\ Left \in {1, 4, 67}) \/ (~loaded /\ Left = 1) => window = [page |-> 0, col |-> 0]
    /\ loaded /\ Left <= 2 => ~scroll
    /\ loaded /\ Left = 0 => screen = [x \in Cells |-> [c |-> "logo", k |-> x[2]]]

-----------------------------------------------------------------------------
(* Letters *)

\* The first column of the letter in a cell; all of it is there; no scroll moved it.
First(x) == x[2] - screen[x].k

Whole(x) ==
  /\ screen[x].k < FontSize /\ 0 <= First(x) /\ First(x) + FontSize < MAX_SEG
  /\ \A k \in 0..FontSize - 1 : LET y == <<x[1], First(x) + k>>
                                IN  y \in DOMAIN screen /\ screen[y] = [c |-> screen[x].c, k |-> k]

Still(x) == scrolled = 0 \/ x[1] > 2

\* Letters are whole, and those of the greeting behind its cursor.
Lettering ==
  \A x \in Glyphs :
    /\ Still(x) => Whole(x)
    /\ driver # "spi" => First(x) % 6 = 0
    /\ driver = "spi" => loaded /\ Left \in 4..64
    /\ driver = "spi" /\ Left >= 6 /\ Still(x) => Place(<<x[1], First(x)>>) + 6 <= Here

\* The inductive invariant.
DisplaySound == /\ DisplayTypeOK /\ I2cCalls /\ Sixes /\ Ascending /\ OnScreen
                /\ SpiCalls /\ Timetable /\ SpiCursor /\ Lettering

-----------------------------------------------------------------------------
(* The controller *)

\* A small number divided by a larger one.
LEMMA SmallMod ==
  ASSUME NEW a \in Nat, NEW b \in Nat, a < b
  PROVE  a % b = a /\ a \div b = 0
OBVIOUS

\* The cells are the pairs of a line and a column, and finitely many.
LEMMA CellsAre ==
  /\ \A l \in 0..MAX_LINE, c \in 0..MAX_SEG - 1 : <<l, c>> \in Cells
  /\ \A x \in Cells : x = <<x[1], x[2]>> /\ x[1] \in 0..MAX_LINE /\ x[2] \in 0..MAX_SEG - 1
  /\ IsFiniteSet(Cells) /\ Cardinality(Cells) \in Nat
<1>1. IsFiniteSet(0..MAX_LINE) /\ IsFiniteSet(0..MAX_SEG - 1)
  <2>1. 0 \in Int /\ MAX_LINE \in Int /\ MAX_SEG - 1 \in Int  BY DEF MAX_LINE, MAX_SEG
  <2> QED  BY <2>1, FS_Interval, Zenon
<1>2. IsFiniteSet(Cells)  BY <1>1, FS_Product DEF Cells
<1>3. Cardinality(Cells) \in Nat  BY <1>2, FS_CardinalityType
<1>4. \A l \in 0..MAX_LINE, c \in 0..MAX_SEG - 1 : <<l, c>> \in Cells  BY DEF Cells
<1>5. \A x \in Cells : x = <<x[1], x[2]>> /\ x[1] \in 0..MAX_LINE /\ x[2] \in 0..MAX_SEG - 1
  BY DEF Cells
<1> QED  BY <1>2, <1>3, <1>4, <1>5

\* Cells have different places.
LEMMA PlacesDiffer ==
  ASSUME NEW x \in Cells, NEW y \in Cells
  PROVE  /\ Place(x) \in 0..1023
         /\ Place(x) = Place(y) => x = y
<1>1. Cells = (0..7) \X (0..127)  BY DEF Cells, MAX_LINE, MAX_SEG
<1>2. PICK a \in 0..7, b \in 0..127 : x = <<a, b>>  BY <1>1
<1>3. PICK c \in 0..7, d \in 0..127 : y = <<c, d>>  BY <1>1
<1>4. Place(x) = 128 * a + b /\ Place(y) = 128 * c + d  BY <1>2, <1>3 DEF Place, MAX_SEG
<1>5. 128 * a + b \in 0..1023 /\ (128 * a + b = 128 * c + d => a = c /\ b = d)
  OBVIOUS
<1> QED  BY <1>2, <1>3, <1>4, <1>5, Zenon

\* The window is never empty.
LEMMA WindowSizes ==
  ASSUME DisplayTypeOK
  PROVE  Width \in 1..MAX_SEG /\ Width = MAX_SEG - window.col /\ Size \in Nat /\ Size >= Width
<1>1. window.page \in 0..7 /\ window.col \in 0..127  BY DEF DisplayTypeOK, MAX_LINE, MAX_SEG
<1>2. Width \in 1..128  BY <1>1 DEF Width, MAX_SEG
<1>3. Size = Width * (8 - window.page)  BY <1>1 DEF Size, MAX_LINE
<1>4. \A h \in 1..8 : Width * h \in Nat /\ Width * h >= Width
  <2>1. \A w \in 1..128, h \in 1..8 : w * h \in Nat /\ w * h >= w
    BY SMT
  <2> QED  BY <1>2, <2>1
<1>5. 8 - window.page \in 1..8  BY <1>1
<1> QED  BY <1>2, <1>3, <1>4, <1>5 DEF Width, MAX_SEG

\* Up to the edge the controller stays on its line.
LEMMA AtIs ==
  ASSUME DisplayTypeOK, NEW i \in Nat, Column + i < MAX_SEG
  PROVE  At(i) = <<window.page, Column + i>> /\ (ramPointer + i) % Size = ramPointer + i
<1>1. /\ window.page \in 0..7 /\ window.col \in 0..127 /\ ramPointer \in Nat
      /\ Width \in 1..128 /\ Width = 128 - window.col /\ Size \in Nat /\ Size >= Width
  BY WindowSizes DEF DisplayTypeOK, MAX_LINE, MAX_SEG
<1>2. ramPointer + i \in Nat /\ ramPointer + i < Width /\ Width \in Nat /\ ramPointer + i < Size
  BY <1>1 DEF Column, MAX_SEG
<1>3. (ramPointer + i) % Size = ramPointer + i  BY <1>1, <1>2, SmallMod
<1>4. (ramPointer + i) \div Width = 0 /\ (ramPointer + i) % Width = ramPointer + i
  BY <1>2, SmallMod
<1>5. At(i) = <<window.page + 0, window.col + (ramPointer + i)>>
  BY <1>3, <1>4, Zenon DEF At
<1>6. window.page + 0 = window.page /\ window.col + (ramPointer + i) = Column + i
  BY <1>1 DEF Column
<1> QED  BY <1>3, <1>5, <1>6, Zenon

\* Wherever it stops, it stops in the window.
LEMMA PointerTyped ==
  ASSUME DisplayTypeOK, NEW n \in Nat
  PROVE  (ramPointer + n) % Size \in Nat
<1>1. ramPointer \in Nat /\ Size \in Nat /\ Size > 0
  <2>1. ramPointer \in Nat  BY DEF DisplayTypeOK
  <2>2. Width \in 1..128 /\ Size \in Nat /\ Size >= Width  BY WindowSizes DEF MAX_SEG
  <2> QED  BY <2>1, <2>2
<1>2. \A a \in Nat, b \in Nat : b > 0 => a % b \in Nat  OBVIOUS
<1> QED  BY <1>1, <1>2

-----------------------------------------------------------------------------
(* The calls *)

\* The shapes of a call.
LEMMA CallShapes ==
  ASSUME NEW x \in CallSet
  PROVE  /\ x.op = "cursor" => x.line \in 0..MAX_LINE /\ x.col \in 0..MAX_SEG - 1
         /\ x.op = "char" => x = Letter(x.c) /\ x.c \in Chars
BY DEF CallSet, Plain, Letter

\* The next call is the one that is due.
LEMMA HeadIs ==
  ASSUME DisplayTypeOK, calls # <<>>
  PROVE  Left \in Nat /\ Left >= 1 /\ Head(calls) = Due(Left) /\ Due(Left) \in CallSet
<1>1. calls \in Seq(CallSet)  BY DEF DisplayTypeOK
<1>2. Left \in Nat /\ Left >= 1 /\ Head(calls) = calls[1] /\ calls[1] \in CallSet
  BY <1>1 DEF Left
<1>3. Due(Left) = calls[1]  BY <1>2 DEF Due
<1> QED  BY <1>2, <1>3

\* A call takes the next one off, and leaves those behind it.
LEMMA CallTakes ==
  ASSUME DisplayTypeOK, NEW op, Call(op)
  PROVE  /\ calls' \in Seq(CallSet) /\ Left \in Nat /\ Left >= 1 /\ Left' = Left - 1
         /\ Head(calls) = Due(Left) /\ Due(Left).op = op /\ Due(Left) \in CallSet
         /\ \A r \in 1..Left' : Due(r)' = Due(r) /\ r \in 1..Left
<1>1. calls \in Seq(CallSet) /\ calls # <<>> /\ calls' = Tail(calls) /\ Head(calls).op = op
  BY DEF DisplayTypeOK, Call
<1>2. /\ Left \in Nat /\ Left >= 1 /\ Tail(calls) \in Seq(CallSet)
      /\ Len(Tail(calls)) = Left - 1 /\ Head(calls) = calls[1] /\ calls[1] \in CallSet
      /\ \A i \in 1..Left - 1 : Tail(calls)[i] = calls[i + 1]
  BY <1>1 DEF Left
<1>3. Due(Left) = calls[1]  BY <1>2 DEF Due
<1>4. ASSUME NEW r \in 1..Left - 1 PROVE Due(r)' = Due(r)
  <2>1. Due(r)' = Tail(calls)[Left - 1 + 1 - r]  BY <1>1, <1>2 DEF Due, Left
  <2>2. Left - 1 + 1 - r \in 1..Left - 1 /\ Left - 1 + 1 - r + 1 = Left + 1 - r  BY <1>2
  <2>3. Tail(calls)[Left - 1 + 1 - r] = calls[Left + 1 - r]  BY <1>2, <2>2
  <2> QED  BY <2>1, <2>3 DEF Due
<1>5. Left' = Left - 1  BY <1>1, <1>2 DEF Left
<1> QED  BY <1>1, <1>2, <1>3, <1>4, <1>5

\* What is due is a call of the drivers'.
LEMMA DueTyped ==
  ASSUME DisplayTypeOK, NEW r \in 1..Left
  PROVE  Due(r) \in CallSet /\ Left \in Nat /\ calls # <<>>
<1>1. calls \in Seq(CallSet) /\ Left \in Nat  BY DEF DisplayTypeOK, Left
<1>2. Left + 1 - r \in 1..Len(calls)  BY <1>1 DEF Left
<1> QED  BY <1>1, <1>2 DEF Due, Left
\* Two sequences one behind the other, by the element.
LEMMA Joined ==
  ASSUME NEW T, NEW a \in Seq(T), NEW b \in Seq(T), NEW ab, ab = a \o b
  PROVE  /\ ab \in Seq(T) /\ Len(ab) = Len(a) + Len(b)
         /\ Len(a) \in Nat /\ Len(b) \in Nat
         /\ \A i \in 1..Len(a) : ab[i] = a[i]
         /\ \A i \in 1..Len(b) : ab[Len(a) + i] = b[i]
OBVIOUS

\* What etx_write, the probe function and the greeting send of a text.
LEMMA TextIs ==
  ASSUME NEW text \in Seq(Chars)
  PROVE  /\ String(text) \in Seq(CallSet) /\ Len(String(text)) = Len(text) /\ Len(text) \in Nat
         /\ \A i \in 1..Len(text) : String(text)[i] = Letter(text[i])
<1>1. Len(text) \in Nat /\ \A i \in 1..Len(text) : text[i] \in Chars  OBVIOUS
<1>2. String(text) = [i \in 1..Len(text) |-> Letter(text[i])]  BY DEF String, Letter
<1>3. \A i \in 1..Len(text) : Letter(text[i]) \in CallSet  BY <1>1 DEF Letter, CallSet
<1>4. String(text) \in Seq(CallSet)  BY <1>1, <1>2, <1>3
<1> QED  BY <1>1, <1>2, <1>4

\* The calls without a letter.
LEMMA PlainCalls ==
  /\ \A op \in Plain : [op |-> op] \in CallSet
  /\ \A line \in 0..MAX_LINE, col \in 0..MAX_SEG - 1 : CursorTo(line, col) \in CallSet
  /\ fill \in Seq(CallSet) /\ stop \in Seq(CallSet) /\ <<[op |-> "home"]>> \in Seq(CallSet)
  /\ \A line \in 0..MAX_LINE, col \in 0..MAX_SEG - 1 :
       cursor(line, col) = <<CursorTo(line, col)>> /\ cursor(line, col) \in Seq(CallSet)
<1>1. \A op \in Plain : [op |-> op] \in CallSet  BY DEF CallSet
<1>2. \A line \in 0..MAX_LINE, col \in 0..MAX_SEG - 1 : CursorTo(line, col) \in CallSet
  BY DEF CallSet, CursorTo
<1>3. fill \in Seq(CallSet) /\ stop \in Seq(CallSet) /\ <<[op |-> "home"]>> \in Seq(CallSet)
  <2>1. {"fill", "stop", "home"} \subseteq Plain  BY DEF Plain
  <2> QED  BY <1>1, <2>1 DEF fill, stop
<1>4. \A line \in 0..MAX_LINE, col \in 0..MAX_SEG - 1 : cursor(line, col) = <<CursorTo(line, col)>>
  BY DEF cursor, CursorTo
<1> QED  BY <1>1, <1>2, <1>3, <1>4

\* A handler that ends with a text: its calls counted from the last.
LEMMA BodyIs ==
  ASSUME NEW pre \in Seq(CallSet), NEW text \in Seq(Chars), NEW body, body = pre \o String(text)
  PROVE  /\ body \in Seq(CallSet) /\ Len(body) = Len(pre) + Len(text)
         /\ Len(pre) \in Nat /\ Len(text) \in Nat
         /\ \A r \in 1..Len(text) : body[Len(body) + 1 - r] = Letter(text[Len(text) + 1 - r])
         /\ \A r \in 1..Len(pre) : body[Len(body) + 1 - (Len(text) + r)] = pre[Len(pre) + 1 - r]
<1> DEFINE m == Len(pre)
           n == Len(text)
<1>1. /\ String(text) \in Seq(CallSet) /\ Len(String(text)) = n /\ n \in Nat
      /\ \A i \in 1..n : String(text)[i] = Letter(text[i])
  BY TextIs
<1>2. /\ body \in Seq(CallSet) /\ Len(body) = m + n /\ m \in Nat
      /\ \A i \in 1..m : body[i] = pre[i]
      /\ \A i \in 1..n : body[m + i] = String(text)[i]
  <2>1. ASSUME NEW b \in Seq(CallSet), body = pre \o b
        PROVE  /\ body \in Seq(CallSet) /\ Len(body) = Len(pre) + Len(b) /\ Len(pre) \in Nat
               /\ \A i \in 1..Len(pre) : body[i] = pre[i]
               /\ \A i \in 1..Len(b) : body[Len(pre) + i] = b[i]
    BY <2>1, Joined
  <2> QED  BY <1>1, <2>1, Zenon
<1> HIDE DEF m, n
<1>3. ASSUME NEW r \in 1..n PROVE body[Len(body) + 1 - r] = Letter(text[n + 1 - r])
  <2>1. n + 1 - r \in 1..n /\ m + (n + 1 - r) = Len(body) + 1 - r  BY <1>1, <1>2
  <2> QED  BY <1>1, <1>2, <2>1
<1>4. ASSUME NEW r \in 1..m PROVE body[Len(body) + 1 - (n + r)] = pre[m + 1 - r]
  <2>1. m + 1 - r \in 1..m /\ m + 1 - r = Len(body) + 1 - (n + r)  BY <1>1, <1>2
  <2> QED  BY <1>2, <2>1
<1> QED  BY <1>1, <1>2, <1>3, <1>4 DEF m, n

-----------------------------------------------------------------------------
(* The greeting of the SPI driver, call by call *)

\* A sequence of n calls, and one that goes on behind it with those of another.
Sized(a, n) == a \in Seq(CallSet) /\ Len(a) = n

\* ab is a and then b, element by element; ...
Adds(ab, a, n, b, m) ==
  /\ Sized(ab, n + m)
  /\ \A i \in 1..n : ab[i] = a[i]
  /\ \A i \in 1..m : ab[n + i] = b[i]

\* ... as the operator says it.
Joins(ab, a, b) == ab = a \o b

\* The one follows from the other.
LEMMA Added ==
  ASSUME NEW a, NEW b, NEW n, NEW m, NEW ab, Joins(ab, a, b), Sized(a, n), Sized(b, m)
  PROVE  Adds(ab, a, n, b, m) /\ Sized(ab, n + m)
<1>1. ab = a \o b  BY DEF Joins
<1>2. a \in Seq(CallSet) /\ b \in Seq(CallSet)  BY DEF Sized
<1>3. /\ ab \in Seq(CallSet) /\ Len(ab) = Len(a) + Len(b)
      /\ \A i \in 1..Len(a) : ab[i] = a[i]
      /\ \A i \in 1..Len(b) : ab[Len(a) + i] = b[i]
  BY <1>1, <1>2, Joined
<1>4. Adds(ab, a, n, b, m)  BY <1>3 DEF Sized, Adds
<1> QED  BY <1>4 DEF Adds

\* What a line of the greeting is.
LEMMA LineIs ==
  ASSUME NEW n \in Nat
  PROVE  /\ Sized(Line(n), n + 1)
         /\ \A i \in 1..n : Line(n)[i] = Letter("a")
         /\ Line(n)[n + 1] = Letter(NL)
<1>1. "a" \in Chars /\ NL \in Chars  BY DEF Chars
<1>2. Letter("a") \in CallSet /\ Letter(NL) \in CallSet  BY <1>1 DEF Letter, CallSet
<1>3. Line(n) = [i \in 1..n + 1 |-> IF i <= n THEN Letter("a") ELSE Letter(NL)]
  BY DEF Line, Letter
<1>4. ASSUME NEW i \in 1..n + 1 PROVE Line(n)[i] \in CallSet  BY <1>2, <1>3
<1>5. Len(Line(n)) = n + 1  BY <1>3
<1> QED  BY <1>2, <1>3, <1>4, <1>5 DEF Sized

\* The calls that stand alone, and the two pairs.
LEMMA SinglesAre ==
  /\ \A op \in Plain : Sized(<<[op |-> op]>>, 1)
  /\ \A line \in 0..MAX_LINE, col \in 0..MAX_SEG - 1 :
       Sized(cursor(line, col), 1) /\ cursor(line, col)[1] = CursorTo(line, col)
BY PlainCalls DEF Sized, cursor, CursorTo

\* ClearDisplay and PrintLogo.
LEMMA PairsAre ==
  /\ Sized(ClearDisplay, 2) /\ ClearDisplay[1] = CursorTo(0, 0)
  /\ ClearDisplay[2] = [op |-> "fill"]
  /\ Sized(PrintLogo, 2) /\ PrintLogo[1] = CursorTo(0, 0) /\ PrintLogo[2] = [op |-> "logo"]
<1> DEFINE home == cursor(0, 0)
           logo == <<[op |-> "logo"]>>
<1>1. Sized(home, 1) /\ home[1] = CursorTo(0, 0)
  <2>1. 0 \in 0..MAX_LINE /\ 0 \in 0..MAX_SEG - 1  BY DEF MAX_LINE, MAX_SEG
  <2> QED  BY <2>1, SinglesAre
<1>2. Sized(fill, 1) /\ fill[1] = [op |-> "fill"]  BY SinglesAre DEF Plain, fill
<1>3. Sized(logo, 1) /\ logo[1] = [op |-> "logo"]  BY SinglesAre DEF Plain
<1>4. Joins(ClearDisplay, home, fill) /\ Joins(PrintLogo, home, logo)
  BY Zenon DEF ClearDisplay, PrintLogo, home, logo, Joins
<1>5. ASSUME NEW a, NEW b, NEW ab, Adds(ab, a, 1, b, 1)
      PROVE  Sized(ab, 2) /\ ab[1] = a[1] /\ ab[2] = b[1]
  <2>1. 1 \in 1..1 /\ 1 + 1 = 2  OBVIOUS
  <2> QED  BY <1>5, <2>1 DEF Adds
<1> HIDE DEF home, logo
<1>6. Adds(ClearDisplay, home, 1, fill, 1) /\ Adds(PrintLogo, home, 1, logo, 1)
  BY <1>1, <1>2, <1>3, <1>4, Added
<1> QED  BY <1>1, <1>2, <1>3, <1>5, <1>6

\* The calls of the greeting, counted from the last.
LEMMA GreetingIs ==
  /\ Sized(Greeting, 70)
  /\ Greeting[71 - 1] = [op |-> "logo"]
  /\ \A r \in {2, 5, 65, 68} : Greeting[71 - r] = CursorTo(0, 0)
  /\ \A r \in {3, 69} : Greeting[71 - r] = [op |-> "stop"]
  /\ \A r \in {4, 67} : Greeting[71 - r] = [op |-> "fill"]
  /\ Greeting[71 - 66] = [op |-> "scroll"] /\ Greeting[71 - 70] = [op |-> "reset"]
  /\ Greeting[71 - 15] = CursorTo(6, 37) /\ Greeting[71 - 30] = CursorTo(5, 23)
  /\ Greeting[71 - 41] = CursorTo(4, 35)
  /\ \A r \in {6, 16, 31, 42, 54, 57} : Greeting[71 - r] = Letter(NL)
  /\ \A r \in (7..14) \cup (17..29) \cup (32..40) \cup (43..53) \cup (55..56) \cup (58..64) :
       Greeting[71 - r] = Letter("a")
<1> DEFINE reset == <<[op |-> "reset"]>>
           scrolling == <<[op |-> "scroll"]>>
<1>1. PICK g2 : Joins(g2, reset, stop)  BY DEF Joins
<1>2. PICK g3 : Joins(g3, g2, ClearDisplay)  BY DEF Joins
<1>3. PICK g4 : Joins(g4, g3, scrolling)  BY DEF Joins
<1>4. PICK g5 : Joins(g5, g4, cursor(0, 0))  BY DEF Joins
<1>5. PICK g6 : Joins(g6, g5, Line(7))  BY DEF Joins
<1>6. PICK g7 : Joins(g7, g6, Line(2))  BY DEF Joins
<1>7. PICK g8 : Joins(g8, g7, Line(11))  BY DEF Joins
<1>8. PICK g9 : Joins(g9, g8, cursor(4, 35))  BY DEF Joins
<1>9. PICK g10 : Joins(g10, g9, Line(9))  BY DEF Joins
<1>10. PICK g11 : Joins(g11, g10, cursor(5, 23))  BY DEF Joins
<1>11. PICK g12 : Joins(g12, g11, Line(13))  BY DEF Joins
<1>12. PICK g13 : Joins(g13, g12, cursor(6, 37))  BY DEF Joins
<1>13. PICK g14 : Joins(g14, g13, Line(8))  BY DEF Joins
<1>14. PICK g15 : Joins(g15, g14, ClearDisplay)  BY DEF Joins
<1>15. PICK g16 : Joins(g16, g15, stop)  BY DEF Joins
<1>16. PICK g17 : Joins(g17, g16, PrintLogo)  BY DEF Joins
<1>17. Greeting = g17
  BY <1>1, <1>2, <1>3, <1>4, <1>5, <1>6, <1>7, <1>8,
     <1>9, <1>10, <1>11, <1>12, <1>13, <1>14, <1>15, <1>16, Zenon
  DEF Joins, Greeting, GreetingText
<1>18. /\ Sized(reset, 1) /\ reset[1] = [op |-> "reset"]
       /\ Sized(stop, 1) /\ stop[1] = [op |-> "stop"]
       /\ Sized(scrolling, 1) /\ scrolling[1] = [op |-> "scroll"]
  BY SinglesAre DEF Plain, stop
<1>19. /\ Sized(cursor(0, 0), 1) /\ cursor(0, 0)[1] = CursorTo(0, 0)
       /\ Sized(cursor(4, 35), 1) /\ cursor(4, 35)[1] = CursorTo(4, 35)
       /\ Sized(cursor(5, 23), 1) /\ cursor(5, 23)[1] = CursorTo(5, 23)
       /\ Sized(cursor(6, 37), 1) /\ cursor(6, 37)[1] = CursorTo(6, 37)
  <2>1. /\ {0, 4, 5, 6} \subseteq 0..MAX_LINE
        /\ {0, 35, 23, 37} \subseteq 0..MAX_SEG - 1
    BY DEF MAX_LINE, MAX_SEG
  <2>2. ASSUME NEW line \in {0, 4, 5, 6}, NEW col \in {0, 35, 23, 37}
        PROVE  Sized(cursor(line, col), 1) /\ cursor(line, col)[1] = CursorTo(line, col)
    BY <2>1, SinglesAre
  <2> QED  BY <2>2
<1>20. /\ Sized(Line(7), 8) /\ Sized(Line(2), 3) /\ Sized(Line(11), 12)
       /\ Sized(Line(9), 10) /\ Sized(Line(13), 14) /\ Sized(Line(8), 9)
  <2>1. ASSUME NEW n \in Nat PROVE Sized(Line(n), n + 1)  BY LineIs
  <2>2. /\ Sized(Line(7), 7 + 1) /\ Sized(Line(2), 2 + 1) /\ Sized(Line(11), 11 + 1)
        /\ Sized(Line(9), 9 + 1) /\ Sized(Line(13), 13 + 1) /\ Sized(Line(8), 8 + 1)
    BY <2>1
  <2> QED  BY <2>2
<1>21. /\ Sized(reset, 1) /\ Sized(stop, 1) /\ Sized(scrolling, 1)
       /\ Sized(cursor(0, 0), 1) /\ Sized(cursor(4, 35), 1)
       /\ Sized(cursor(5, 23), 1) /\ Sized(cursor(6, 37), 1)
       /\ Sized(ClearDisplay, 2) /\ Sized(PrintLogo, 2)
  BY <1>18, <1>19, PairsAre
<1> HIDE DEF reset, scrolling
<1>22. Adds(g2, reset, 1, stop, 1) /\ Sized(g2, 2)
  <2>1. Sized(stop, 1)  BY <1>21
  <2>2. Adds(g2, reset, 1, stop, 1) /\ Sized(g2, 1 + 1)  BY <1>1, <1>21, <2>1, Added
  <2> QED  BY <2>2
<1>23. Adds(g3, g2, 2, ClearDisplay, 2) /\ Sized(g3, 4)
  <2>1. Sized(ClearDisplay, 2)  BY <1>21
  <2>2. Adds(g3, g2, 2, ClearDisplay, 2) /\ Sized(g3, 2 + 2)  BY <1>2, <1>22, <2>1, Added
  <2> QED  BY <2>2
<1>24. Adds(g4, g3, 4, scrolling, 1) /\ Sized(g4, 5)
  <2>1. Sized(scrolling, 1)  BY <1>21
  <2>2. Adds(g4, g3, 4, scrolling, 1) /\ Sized(g4, 4 + 1)  BY <1>3, <1>23, <2>1, Added
  <2> QED  BY <2>2
<1>25. Adds(g5, g4, 5, cursor(0, 0), 1) /\ Sized(g5, 6)
  <2>1. Sized(cursor(0, 0), 1)  BY <1>21
  <2>2. Adds(g5, g4, 5, cursor(0, 0), 1) /\ Sized(g5, 5 + 1)  BY <1>4, <1>24, <2>1, Added
  <2> QED  BY <2>2
<1>26. Adds(g6, g5, 6, Line(7), 8) /\ Sized(g6, 14)
  <2>1. Sized(Line(7), 8)  BY <1>20
  <2>2. Adds(g6, g5, 6, Line(7), 8) /\ Sized(g6, 6 + 8)  BY <1>5, <1>25, <2>1, Added
  <2> QED  BY <2>2
<1>27. Adds(g7, g6, 14, Line(2), 3) /\ Sized(g7, 17)
  <2>1. Sized(Line(2), 3)  BY <1>20
  <2>2. Adds(g7, g6, 14, Line(2), 3) /\ Sized(g7, 14 + 3)  BY <1>6, <1>26, <2>1, Added
  <2> QED  BY <2>2
<1>28. Adds(g8, g7, 17, Line(11), 12) /\ Sized(g8, 29)
  <2>1. Sized(Line(11), 12)  BY <1>20
  <2>2. Adds(g8, g7, 17, Line(11), 12) /\ Sized(g8, 17 + 12)  BY <1>7, <1>27, <2>1, Added
  <2> QED  BY <2>2
<1>29. Adds(g9, g8, 29, cursor(4, 35), 1) /\ Sized(g9, 30)
  <2>1. Sized(cursor(4, 35), 1)  BY <1>21
  <2>2. Adds(g9, g8, 29, cursor(4, 35), 1) /\ Sized(g9, 29 + 1)  BY <1>8, <1>28, <2>1, Added
  <2> QED  BY <2>2
<1>30. Adds(g10, g9, 30, Line(9), 10) /\ Sized(g10, 40)
  <2>1. Sized(Line(9), 10)  BY <1>20
  <2>2. Adds(g10, g9, 30, Line(9), 10) /\ Sized(g10, 30 + 10)  BY <1>9, <1>29, <2>1, Added
  <2> QED  BY <2>2
<1>31. Adds(g11, g10, 40, cursor(5, 23), 1) /\ Sized(g11, 41)
  <2>1. Sized(cursor(5, 23), 1)  BY <1>21
  <2>2. Adds(g11, g10, 40, cursor(5, 23), 1) /\ Sized(g11, 40 + 1)  BY <1>10, <1>30, <2>1, Added
  <2> QED  BY <2>2
<1>32. Adds(g12, g11, 41, Line(13), 14) /\ Sized(g12, 55)
  <2>1. Sized(Line(13), 14)  BY <1>20
  <2>2. Adds(g12, g11, 41, Line(13), 14) /\ Sized(g12, 41 + 14)  BY <1>11, <1>31, <2>1, Added
  <2> QED  BY <2>2
<1>33. Adds(g13, g12, 55, cursor(6, 37), 1) /\ Sized(g13, 56)
  <2>1. Sized(cursor(6, 37), 1)  BY <1>21
  <2>2. Adds(g13, g12, 55, cursor(6, 37), 1) /\ Sized(g13, 55 + 1)  BY <1>12, <1>32, <2>1, Added
  <2> QED  BY <2>2
<1>34. Adds(g14, g13, 56, Line(8), 9) /\ Sized(g14, 65)
  <2>1. Sized(Line(8), 9)  BY <1>20
  <2>2. Adds(g14, g13, 56, Line(8), 9) /\ Sized(g14, 56 + 9)  BY <1>13, <1>33, <2>1, Added
  <2> QED  BY <2>2
<1>35. Adds(g15, g14, 65, ClearDisplay, 2) /\ Sized(g15, 67)
  <2>1. Sized(ClearDisplay, 2)  BY <1>21
  <2>2. Adds(g15, g14, 65, ClearDisplay, 2) /\ Sized(g15, 65 + 2)  BY <1>14, <1>34, <2>1, Added
  <2> QED  BY <2>2
<1>36. Adds(g16, g15, 67, stop, 1) /\ Sized(g16, 68)
  <2>1. Sized(stop, 1)  BY <1>21
  <2>2. Adds(g16, g15, 67, stop, 1) /\ Sized(g16, 67 + 1)  BY <1>15, <1>35, <2>1, Added
  <2> QED  BY <2>2
<1>37. Adds(g17, g16, 68, PrintLogo, 2) /\ Sized(g17, 70)
  <2>1. Sized(PrintLogo, 2)  BY <1>21
  <2>2. Adds(g17, g16, 68, PrintLogo, 2) /\ Sized(g17, 68 + 2)  BY <1>16, <1>36, <2>1, Added
  <2> QED  BY <2>2
<1>38. \A i \in 1..70 : Greeting[i] = g17[i]  BY <1>17, Zenon
<1>39. /\ \A i \in 1..68 : Greeting[i] = g16[i]
       /\ \A i \in 1..2 : Greeting[68 + i] = PrintLogo[i]
  BY <1>38, <1>37 DEF Adds
<1>40. /\ \A i \in 1..67 : Greeting[i] = g15[i]
       /\ \A i \in 1..1 : Greeting[67 + i] = stop[i]
  BY <1>39, <1>36 DEF Adds
<1>41. /\ \A i \in 1..65 : Greeting[i] = g14[i]
       /\ \A i \in 1..2 : Greeting[65 + i] = ClearDisplay[i]
  BY <1>40, <1>35 DEF Adds
<1>42. /\ \A i \in 1..56 : Greeting[i] = g13[i]
       /\ \A i \in 1..9 : Greeting[56 + i] = Line(8)[i]
  BY <1>41, <1>34 DEF Adds
<1>43. /\ \A i \in 1..55 : Greeting[i] = g12[i]
       /\ \A i \in 1..1 : Greeting[55 + i] = cursor(6, 37)[i]
  BY <1>42, <1>33 DEF Adds
<1>44. /\ \A i \in 1..41 : Greeting[i] = g11[i]
       /\ \A i \in 1..14 : Greeting[41 + i] = Line(13)[i]
  BY <1>43, <1>32 DEF Adds
<1>45. /\ \A i \in 1..40 : Greeting[i] = g10[i]
       /\ \A i \in 1..1 : Greeting[40 + i] = cursor(5, 23)[i]
  BY <1>44, <1>31 DEF Adds
<1>46. /\ \A i \in 1..30 : Greeting[i] = g9[i]
       /\ \A i \in 1..10 : Greeting[30 + i] = Line(9)[i]
  BY <1>45, <1>30 DEF Adds
<1>47. /\ \A i \in 1..29 : Greeting[i] = g8[i]
       /\ \A i \in 1..1 : Greeting[29 + i] = cursor(4, 35)[i]
  BY <1>46, <1>29 DEF Adds
<1>48. /\ \A i \in 1..17 : Greeting[i] = g7[i]
       /\ \A i \in 1..12 : Greeting[17 + i] = Line(11)[i]
  BY <1>47, <1>28 DEF Adds
<1>49. /\ \A i \in 1..14 : Greeting[i] = g6[i]
       /\ \A i \in 1..3 : Greeting[14 + i] = Line(2)[i]
  BY <1>48, <1>27 DEF Adds
<1>50. /\ \A i \in 1..6 : Greeting[i] = g5[i]
       /\ \A i \in 1..8 : Greeting[6 + i] = Line(7)[i]
  BY <1>49, <1>26 DEF Adds
<1>51. /\ \A i \in 1..5 : Greeting[i] = g4[i]
       /\ \A i \in 1..1 : Greeting[5 + i] = cursor(0, 0)[i]
  BY <1>50, <1>25 DEF Adds
<1>52. /\ \A i \in 1..4 : Greeting[i] = g3[i]
       /\ \A i \in 1..1 : Greeting[4 + i] = scrolling[i]
  BY <1>51, <1>24 DEF Adds
<1>53. /\ \A i \in 1..2 : Greeting[i] = g2[i]
       /\ \A i \in 1..2 : Greeting[2 + i] = ClearDisplay[i]
  BY <1>52, <1>23 DEF Adds
<1>54. /\ \A i \in 1..1 : Greeting[i] = reset[i]
       /\ \A i \in 1..1 : Greeting[1 + i] = stop[i]
  BY <1>53, <1>22 DEF Adds
<1>55. /\ Greeting[1] = [op |-> "reset"] /\ Greeting[2] = [op |-> "stop"]
       /\ Greeting[3] = CursorTo(0, 0) /\ Greeting[4] = [op |-> "fill"]
       /\ Greeting[5] = [op |-> "scroll"] /\ Greeting[6] = CursorTo(0, 0)
  <2>1. 1 \in 1..1 /\ 1 \in 1..2 /\ 2 \in 1..2  OBVIOUS
  <2>2. /\ Greeting[1] = reset[1] /\ Greeting[1 + 1] = stop[1]
        /\ Greeting[2 + 1] = ClearDisplay[1] /\ Greeting[2 + 2] = ClearDisplay[2]
        /\ Greeting[4 + 1] = scrolling[1] /\ Greeting[5 + 1] = cursor(0, 0)[1]
    BY <1>54, <1>53, <1>52, <1>51, <2>1
  <2>3. /\ Greeting[1 + 1] = Greeting[2]
        /\ Greeting[2 + 1] = Greeting[3] /\ Greeting[2 + 2] = Greeting[4]
        /\ Greeting[4 + 1] = Greeting[5] /\ Greeting[5 + 1] = Greeting[6]
    OBVIOUS
  <2> QED  BY <1>18, <1>19, PairsAre, <2>2, <2>3
<1>56. /\ Greeting[30] = CursorTo(4, 35) /\ Greeting[41] = CursorTo(5, 23)
       /\ Greeting[56] = CursorTo(6, 37)
  <2>1. 1 \in 1..1  OBVIOUS
  <2>2. /\ Greeting[29 + 1] = cursor(4, 35)[1] /\ Greeting[40 + 1] = cursor(5, 23)[1]
        /\ Greeting[55 + 1] = cursor(6, 37)[1]
    BY <1>47, <1>45, <1>43, <2>1
  <2>3. /\ Greeting[29 + 1] = Greeting[30] /\ Greeting[40 + 1] = Greeting[41]
        /\ Greeting[55 + 1] = Greeting[56]
    OBVIOUS
  <2> QED  BY <1>19, <2>2, <2>3
<1>57. /\ Greeting[66] = CursorTo(0, 0) /\ Greeting[67] = [op |-> "fill"]
       /\ Greeting[68] = [op |-> "stop"] /\ Greeting[69] = CursorTo(0, 0)
       /\ Greeting[70] = [op |-> "logo"]
  <2>1. 1 \in 1..1 /\ 1 \in 1..2 /\ 2 \in 1..2  OBVIOUS
  <2>2. /\ Greeting[65 + 1] = ClearDisplay[1] /\ Greeting[65 + 2] = ClearDisplay[2]
        /\ Greeting[67 + 1] = stop[1]
        /\ Greeting[68 + 1] = PrintLogo[1] /\ Greeting[68 + 2] = PrintLogo[2]
    BY <1>41, <1>40, <1>39, <2>1
  <2>3. /\ Greeting[65 + 1] = Greeting[66] /\ Greeting[65 + 2] = Greeting[67]
        /\ Greeting[67 + 1] = Greeting[68]
        /\ Greeting[68 + 1] = Greeting[69] /\ Greeting[68 + 2] = Greeting[70]
    OBVIOUS
  <2> QED  BY <1>18, PairsAre, <2>2, <2>3
<1>58. ASSUME NEW n \in {6, 14, 17, 30, 41, 56}, NEW m \in {2, 7, 8, 9, 11, 13},
             \A i \in 1..m + 1 : Greeting[n + i] = Line(m)[i]
      PROVE  (\A i \in n + 1..n + m : Greeting[i] = Letter("a")) /\ Greeting[n + m + 1] = Letter(NL)
  <2>1. m \in Nat /\ n \in Nat /\ m + 1 \in 1..m + 1 /\ n + (m + 1) = n + m + 1  OBVIOUS
  <2>2. (\A i \in 1..m : Line(m)[i] = Letter("a")) /\ Line(m)[m + 1] = Letter(NL)
    BY <2>1, LineIs
  <2>3. Greeting[n + m + 1] = Letter(NL)  BY <1>58, <2>1, <2>2
  <2>4. ASSUME NEW i \in n + 1..n + m PROVE Greeting[i] = Letter("a")
    <3>1. i - n \in 1..m /\ i - n \in 1..m + 1 /\ n + (i - n) = i  BY <2>1
    <3>2. Line(m)[i - n] = Letter("a")  BY <2>2, <3>1
    <3>3. Greeting[n + (i - n)] = Line(m)[i - n]  BY <1>58, <3>1
    <3> QED  BY <3>1, <3>2, <3>3
  <2> QED  BY <2>3, <2>4
<1>59. (\A i \in 7..13 : Greeting[i] = Letter("a")) /\ Greeting[14] = Letter(NL)
  <2>1. \A i \in 1..7 + 1 : Greeting[6 + i] = Line(7)[i]  BY <1>50
  <2>2. /\ \A i \in 6 + 1..6 + 7 : Greeting[i] = Letter("a")
        /\ Greeting[6 + 7 + 1] = Letter(NL)
    BY <2>1, <1>58
  <2> QED  BY <2>2
<1>60. (\A i \in 15..16 : Greeting[i] = Letter("a")) /\ Greeting[17] = Letter(NL)
  <2>1. \A i \in 1..2 + 1 : Greeting[14 + i] = Line(2)[i]  BY <1>49
  <2>2. /\ \A i \in 14 + 1..14 + 2 : Greeting[i] = Letter("a")
        /\ Greeting[14 + 2 + 1] = Letter(NL)
    BY <2>1, <1>58
  <2> QED  BY <2>2
<1>61. (\A i \in 18..28 : Greeting[i] = Letter("a")) /\ Greeting[29] = Letter(NL)
  <2>1. \A i \in 1..11 + 1 : Greeting[17 + i] = Line(11)[i]  BY <1>48
  <2>2. /\ \A i \in 17 + 1..17 + 11 : Greeting[i] = Letter("a")
        /\ Greeting[17 + 11 + 1] = Letter(NL)
    BY <2>1, <1>58
  <2> QED  BY <2>2
<1>62. (\A i \in 31..39 : Greeting[i] = Letter("a")) /\ Greeting[40] = Letter(NL)
  <2>1. \A i \in 1..9 + 1 : Greeting[30 + i] = Line(9)[i]  BY <1>46
  <2>2. /\ \A i \in 30 + 1..30 + 9 : Greeting[i] = Letter("a")
        /\ Greeting[30 + 9 + 1] = Letter(NL)
    BY <2>1, <1>58
  <2> QED  BY <2>2
<1>63. (\A i \in 42..54 : Greeting[i] = Letter("a")) /\ Greeting[55] = Letter(NL)
  <2>1. \A i \in 1..13 + 1 : Greeting[41 + i] = Line(13)[i]  BY <1>44
  <2>2. /\ \A i \in 41 + 1..41 + 13 : Greeting[i] = Letter("a")
        /\ Greeting[41 + 13 + 1] = Letter(NL)
    BY <2>1, <1>58
  <2> QED  BY <2>2
<1>64. (\A i \in 57..64 : Greeting[i] = Letter("a")) /\ Greeting[65] = Letter(NL)
  <2>1. \A i \in 1..8 + 1 : Greeting[56 + i] = Line(8)[i]  BY <1>42
  <2>2. /\ \A i \in 56 + 1..56 + 8 : Greeting[i] = Letter("a")
        /\ Greeting[56 + 8 + 1] = Letter(NL)
    BY <2>1, <1>58
  <2> QED  BY <2>2
<1> QED
  <2>1. ASSUME NEW r \in {2, 5, 65, 68} PROVE Greeting[71 - r] = CursorTo(0, 0)  BY <1>55, <1>57
  <2>2. ASSUME NEW r \in {3, 69} PROVE Greeting[71 - r] = [op |-> "stop"]  BY <1>55, <1>57
  <2>3. ASSUME NEW r \in {4, 67} PROVE Greeting[71 - r] = [op |-> "fill"]  BY <1>55, <1>57
  <2>4. ASSUME NEW r \in {6, 16, 31, 42, 54, 57} PROVE Greeting[71 - r] = Letter(NL)
    BY <1>59, <1>60, <1>61, <1>62, <1>63, <1>64
  <2>5. ASSUME NEW r \in (7..14) \cup (17..29) \cup (32..40) \cup (43..53) \cup (55..56)
                           \cup (58..64)
        PROVE  Greeting[71 - r] = Letter("a")
    BY <1>59, <1>60, <1>61, <1>62, <1>63, <1>64
  <2>6. /\ Greeting[71 - 1] = [op |-> "logo"] /\ Greeting[71 - 66] = [op |-> "scroll"]
        /\ Greeting[71 - 70] = [op |-> "reset"] /\ Greeting[71 - 15] = CursorTo(6, 37)
        /\ Greeting[71 - 30] = CursorTo(5, 23) /\ Greeting[71 - 41] = CursorTo(4, 35)
    BY <1>55, <1>56, <1>57
  <2>7. Sized(Greeting, 70)  BY <1>17, <1>37
  <2> QED  BY <2>1, <2>2, <2>3, <2>4, <2>5, <2>6, <2>7

-----------------------------------------------------------------------------
(* What is due *)

\* A step that takes a call keeps what the handlers are to do after it.
LEMMA ShapeKept ==
  ASSUME DisplaySound, NEW op, Call(op), UNCHANGED <<driver, loaded, message>>
  PROVE  I2cCalls' /\ SpiCalls'
<1> DEFINE m == Len(message)
<1>1. /\ Left \in Nat /\ Left >= 1 /\ Left' = Left - 1 /\ m \in Nat /\ m' = m
      /\ \A r \in 1..Left' : Due(r)' = Due(r) /\ r \in 1..Left
  BY CallTakes DEF DisplaySound, DisplayTypeOK
<1>2. Before = Left - m /\ Before' = Left' - m  BY <1>1 DEF Before
<1> HIDE DEF m
<1>3. I2cCalls'
  <2>1. ASSUME Ready' PROVE TextDue'
    <3>1. TextDue  BY <2>1 DEF DisplaySound, I2cCalls, Ready
    <3>2. ASSUME NEW r \in 1..Left', r <= m PROVE Due(r)' = Letter(message[m + 1 - r])'
      BY <1>1, <3>1, <3>2 DEF TextDue, m
    <3> QED  BY <1>1, <3>2 DEF TextDue, m
  <2>2. ASSUME Ready' PROVE (WriteDue \/ ProbeDue)'
    <3>1. WriteDue \/ ProbeDue  BY <2>2 DEF DisplaySound, I2cCalls, Ready
    <3>2. \A k \in 1..4 : Before' >= k => Due(m + k)' = Due(m + k) /\ Before >= k
      BY <1>1, <1>2
    <3>3. Before' <= Before - 1 /\ Before \in Int /\ Before' \in Int  BY <1>1, <1>2
    <3>4. CASE WriteDue
      <4>1. WriteDue'  BY <1>1, <3>2, <3>3, <3>4 DEF WriteDue, m, CursorTo
      <4> QED  BY <4>1
    <3>5. CASE ProbeDue
      <4>1. ProbeDue'  BY <1>1, <3>2, <3>3, <3>5 DEF ProbeDue, m, CursorTo
      <4> QED  BY <4>1
    <3> QED  BY <3>1, <3>4, <3>5
  <2>3. ASSUME driver' # "spi", ~Ready', NEW r \in 1..Left'
        PROVE  Due(r)'.op \in {"stop", "light", "fill"}
    BY <1>1, <2>3 DEF DisplaySound, I2cCalls, Ready
  <2> QED  BY <2>1, <2>2, <2>3 DEF I2cCalls
<1>4. SpiCalls'
  <2>1. ASSUME Playing' PROVE Left' <= 70 /\ \A r \in 1..Left' : Due(r)' = Greeting[71 - r]
    BY <1>1, <2>1 DEF DisplaySound, SpiCalls, Playing
  <2>2. ASSUME driver' = "spi", ~loaded'
        PROVE  /\ Left' <= 2
               /\ Left' >= 1 => Due(1)' = [op |-> "fill"]
               /\ Left' >= 2 => Due(2)' = CursorTo(0, 0)
    BY <1>1, <2>2 DEF DisplaySound, SpiCalls
  <2> QED  BY <2>1, <2>2 DEF SpiCalls, CursorTo
<1> QED  BY <1>3, <1>4

\* The next call of an I2C driver.
LEMMA I2cHead ==
  ASSUME DisplaySound, calls # <<>>, NEW op, Head(calls).op = op
  PROVE  /\ Before \in Int /\ Len(message) \in Nat /\ Before = Left - Len(message)
         /\ Ready /\ Before <= 0 =>
              /\ op = "char" /\ Head(calls).c = message[1 - Before]
              /\ 1 - Before \in 1..Len(message)
         /\ Ready /\ Before >= 1 =>
              Before \in 1..4 /\ Head(calls) = Due(Len(message) + Before) /\ op # "char"
         /\ driver # "spi" /\ ~Ready => op \in {"stop", "light", "fill"}
<1> DEFINE m == Len(message)
<1>1. /\ Left \in Nat /\ Left >= 1 /\ m \in Nat /\ Head(calls) = Due(Left) /\ Due(Left).op = op
  BY HeadIs DEF DisplaySound, DisplayTypeOK
<1>2. Before = Left - m /\ Before \in Int  BY <1>1 DEF Before
<1>3. ASSUME Ready, Before <= 0
      PROVE  op = "char" /\ Head(calls).c = message[1 - Before] /\ 1 - Before \in 1..m
  <2>1. Left \in 1..Left /\ Left <= m  BY <1>1, <1>2, <1>3
  <2>2. Due(Left) = Letter(message[m + 1 - Left])
    BY <1>3, <2>1 DEF DisplaySound, I2cCalls, TextDue
  <2>3. m + 1 - Left = 1 - Before /\ 1 - Before \in 1..m  BY <1>1, <1>2, <2>1
  <2> QED  BY <1>1, <2>2, <2>3 DEF Letter
<1>4. ASSUME Ready, Before >= 1
      PROVE  Before \in 1..4 /\ Head(calls) = Due(m + Before) /\ op # "char"
  <2>1. m + Before = Left  BY <1>1, <1>2
  <2>2. WriteDue \/ ProbeDue  BY <1>4 DEF DisplaySound, I2cCalls
  <2>3. Before \in 1..4  BY <1>2, <1>4, <2>2 DEF WriteDue, ProbeDue
  <2>4. Due(m + Before).op # "char"
    BY <1>4, <2>2, <2>3 DEF WriteDue, ProbeDue, CursorTo
  <2> QED  BY <1>1, <2>1, <2>3, <2>4
<1>5. ASSUME driver # "spi", ~Ready PROVE op \in {"stop", "light", "fill"}
  <2>1. Left \in 1..Left  BY <1>1
  <2> QED  BY <1>1, <1>5, <2>1 DEF DisplaySound, I2cCalls
<1> QED  BY <1>1, <1>2, <1>3, <1>4, <1>5 DEF m

\* The next call of the SPI driver.
Words == (7..14) \cup (17..29) \cup (32..40) \cup (43..53) \cup (55..56) \cup (58..64)

\* Which calls of the greeting, or of the exit, the next one may be.
LEMMA SpiHead ==
  ASSUME DisplaySound, driver = "spi", calls # <<>>, NEW op, Head(calls).op = op
  PROVE  /\ Left \in Nat /\ Left >= 1
         /\ loaded =>
              /\ Left <= 70
              /\ op = "cursor" => Left \in {2, 5, 15, 30, 41, 65, 68}
              /\ op = "char" => Left \in Words \cup {6, 16, 31, 42, 54, 57}
              /\ op = "fill" => Left \in {4, 67}
              /\ op = "stop" => Left \in {3, 69}
              /\ op = "logo" => Left = 1
              /\ op = "scroll" => Left = 66
              /\ op = "reset" => Left = 70
              /\ op \notin {"light", "home"}
              /\ Left \in {2, 5, 65, 68} => Head(calls) = CursorTo(0, 0)
              /\ Left = 15 => Head(calls) = CursorTo(6, 37)
              /\ Left = 30 => Head(calls) = CursorTo(5, 23)
              /\ Left = 41 => Head(calls) = CursorTo(4, 35)
              /\ Left \in {6, 16, 31, 42, 54, 57} => Head(calls) = Letter(NL)
              /\ Left \in Words => Head(calls) = Letter("a")
         /\ ~loaded => \/ Left = 1 /\ op = "fill"
                       \/ Left = 2 /\ op = "cursor" /\ Head(calls) = CursorTo(0, 0)
<1>1. /\ Left \in Nat /\ Left >= 1 /\ Head(calls) = Due(Left) /\ Due(Left).op = op
  BY HeadIs DEF DisplaySound
<1>2. ASSUME loaded
      PROVE  Left <= 70 /\ Head(calls) = Greeting[71 - Left]
  <2>1. Left \in 1..Left  BY <1>1
  <2> QED  BY <1>1, <1>2, <2>1 DEF DisplaySound, SpiCalls, Playing
<1>3. ASSUME ~loaded
      PROVE  \/ Left = 1 /\ op = "fill"
             \/ Left = 2 /\ op = "cursor" /\ Head(calls) = CursorTo(0, 0)
  BY <1>1, <1>3 DEF DisplaySound, SpiCalls, CursorTo
<1>4. ASSUME loaded
      PROVE  /\ Left \in {2, 5, 65, 68} => Head(calls) = CursorTo(0, 0)
             /\ Left = 15 => Head(calls) = CursorTo(6, 37)
             /\ Left = 30 => Head(calls) = CursorTo(5, 23)
             /\ Left = 41 => Head(calls) = CursorTo(4, 35)
             /\ Left \in {6, 16, 31, 42, 54, 57} => Head(calls) = Letter(NL)
             /\ Left \in Words => Head(calls) = Letter("a")
             /\ Left \in {3, 69} => Head(calls) = [op |-> "stop"]
             /\ Left \in {4, 67} => Head(calls) = [op |-> "fill"]
             /\ Left = 1 => Head(calls) = [op |-> "logo"]
             /\ Left = 66 => Head(calls) = [op |-> "scroll"]
             /\ Left = 70 => Head(calls) = [op |-> "reset"]
  <2>1. Head(calls) = Greeting[71 - Left]  BY <1>2, <1>4
  <2> QED  BY <2>1, GreetingIs DEF Words
<1>5. ASSUME loaded
      PROVE  /\ Left \in {2, 5, 65, 68, 15, 30, 41} => op = "cursor"
             /\ Left \in Words \cup {6, 16, 31, 42, 54, 57} => op = "char"
             /\ Left \in {3, 69} => op = "stop"
             /\ Left \in {4, 67} => op = "fill"
             /\ Left = 1 => op = "logo"
             /\ Left = 66 => op = "scroll"
             /\ Left = 70 => op = "reset"
  <2>1. Head(calls).op = op  BY <1>1
  <2> QED  BY <1>5, <1>4, <2>1 DEF CursorTo, Letter
<1>6. ASSUME loaded
      PROVE  \/ Left \in Words
             \/ Left \in {1, 2, 3, 4, 5, 15, 30, 41, 65, 66, 67, 68, 69, 70, 6, 16, 31, 42, 54, 57}
  BY <1>1, <1>2, <1>6 DEF Words
<1>7. ASSUME loaded
      PROVE  /\ op = "cursor" => Left \in {2, 5, 15, 30, 41, 65, 68}
             /\ op = "char" => Left \in Words \cup {6, 16, 31, 42, 54, 57}
             /\ op = "fill" => Left \in {4, 67}
             /\ op = "stop" => Left \in {3, 69}
             /\ op = "logo" => Left = 1
             /\ op = "scroll" => Left = 66
             /\ op = "reset" => Left = 70
             /\ op \notin {"light", "home"}
  BY <1>5, <1>6, <1>7
<1> QED  BY <1>1, <1>2, <1>3, <1>4, <1>7

-----------------------------------------------------------------------------
(* What a step leaves alone *)

\* The parts about the other kind of driver.
LEMMA I2cSide ==
  ASSUME driver' # "spi"
  PROVE  SpiCalls' /\ Timetable' /\ SpiCursor'
BY DEF SpiCalls, Timetable, SpiCursor, Playing

\* ... and about the I2C drivers.
LEMMA SpiSide ==
  ASSUME driver' = "spi"
  PROVE  I2cCalls' /\ Sixes' /\ Ascending' /\ OnScreen'
BY DEF I2cCalls, Sixes, Ascending, OnScreen, Ready

\* Where it is, as a number.
LEMMA HereTyped ==
  ASSUME DisplayTypeOK
  PROVE  Here = MAX_SEG * LineNum + Column /\ Here \in Nat /\ Column \in Nat
         /\ LineNum \in 0..7 /\ CursorPos \in 0..127 /\ window.page \in 0..7
         /\ window.col \in 0..127 /\ ramPointer \in Nat
<1>1. /\ LineNum \in 0..7 /\ CursorPos \in 0..127 /\ window.page \in 0..7
      /\ window.col \in 0..127 /\ ramPointer \in Nat
  BY DEF DisplayTypeOK, MAX_LINE, MAX_SEG
<1>2. Column \in Nat  BY <1>1 DEF Column
<1>3. Here = 128 * LineNum + Column  BY <1>1, <1>2 DEF Here, Place, MAX_SEG
<1> QED  BY <1>1, <1>2, <1>3 DEF MAX_SEG

\* After a step it is where its window, its pointer and the cursor say.
LEMMA HereNext ==
  ASSUME LineNum' \in 0..7, window.col' \in 0..127, ramPointer' \in Nat
  PROVE  /\ Here' = 128 * LineNum' + Column' /\ Here' \in Nat /\ Column' \in Nat
         /\ Column' = window.col' + ramPointer'
<1>1. Column' = window.col' + ramPointer' /\ Column' \in Nat  BY DEF Column
<1>2. Here' = 128 * LineNum' + Column'  BY <1>1 DEF Here, Place, MAX_SEG
<1> QED  BY <1>1, <1>2

\* The letters of an I2C driver stay what they are when the screen does.
LEMMA LettersStay ==
  ASSUME DisplaySound, driver # "spi", driver' # "spi", screen' = screen, scrolled' = scrolled
  PROVE  Lettering'
<1>1. Glyphs' = Glyphs  BY DEF Glyphs
<1>2. ASSUME NEW x
      PROVE  First(x)' = First(x) /\ (Whole(x)' <=> Whole(x)) /\ (Still(x)' <=> Still(x))
  BY DEF First, Whole, Still
<1> QED  BY <1>1, <1>2 DEF DisplaySound, Lettering

\* Those of the SPI driver have to stay behind its cursor, too.
LEMMA SpiLettersStay ==
  ASSUME DisplaySound, driver = "spi", driver' = "spi", screen' = screen, scrolled' = scrolled,
         loaded' = loaded, Here \in Nat, Here' \in Nat, Left \in Nat, Left' \in Nat,
         loaded /\ Left \in 4..64 => Left' \in 4..64 /\ (Left' >= 6 => Left >= 6 /\ Here <= Here')
  PROVE  Lettering'
<1>1. Glyphs' = Glyphs  BY DEF Glyphs
<1>2. ASSUME NEW x
      PROVE  First(x)' = First(x) /\ (Whole(x)' <=> Whole(x)) /\ (Still(x)' <=> Still(x))
  BY DEF First, Whole, Still
<1>3. ASSUME NEW x \in Glyphs
      PROVE  /\ Still(x) => Whole(x)
             /\ loaded /\ Left' \in 4..64
             /\ Left' >= 6 /\ Still(x) => Place(<<x[1], First(x)>>) + 6 <= Here'
  <2>1. /\ Still(x) => Whole(x)
        /\ loaded /\ Left \in 4..64
        /\ Left >= 6 /\ Still(x) => Place(<<x[1], First(x)>>) + 6 <= Here
    BY <1>3 DEF DisplaySound, Lettering
  <2>2. ASSUME Left' >= 6, Still(x) PROVE Place(<<x[1], First(x)>>) + 6 <= Here'
    <3>1. Place(<<x[1], First(x)>>) + 6 <= Here /\ Here <= Here'  BY <2>1, <2>2
    <3>2. Place(<<x[1], First(x)>>) \in Int
      <4>1. x \in Cells /\ screen[x].k \in Nat
        <5>1. x \in DOMAIN screen  BY <1>3 DEF Glyphs
        <5> QED  BY <5>1 DEF DisplaySound, DisplayTypeOK, Shown
      <4>2. x[1] \in 0..7 /\ x[2] \in 0..127  BY <4>1 DEF Cells, MAX_LINE, MAX_SEG
      <4> QED  BY <4>1, <4>2 DEF Place, First, MAX_SEG
    <3> QED  BY <3>1, <3>2
  <2> QED  BY <2>1, <2>2
<1>4. ASSUME NEW x \in Glyphs PROVE Place(<<x[1], First(x)>>)' = Place(<<x[1], First(x)>>)
  BY <1>2 DEF Place
<1> QED  BY <1>1, <1>2, <1>3, <1>4 DEF Lettering

\* The SPI driver has letters on the display only while it prints its greeting.
LEMMA NoLetterYet ==
  ASSUME DisplaySound, driver = "spi", ~loaded \/ Left \notin 4..64
  PROVE  Glyphs = {}
BY DEF DisplaySound, Lettering

\* The types a step keeps that leaves the screen alone.
LEMMA NoLetterNow ==
  ASSUME Glyphs' = {}
  PROVE  Lettering'
BY DEF Lettering

\* Between the lines of the greeting nothing is said of its cursor.
LEMMA OutsideTimetable ==
  ASSUME Left' \in Nat, loaded' => Left' <= 5 \/ Left' >= 65
  PROVE  Timetable'
<1>1. PICK r \in Nat : r = Left'  OBVIOUS
<1>3. ASSUME loaded' PROVE r \notin 6..64  BY <1>1, <1>3
<1> QED  BY <1>1, <1>3 DEF Timetable, Playing

\* ... nor where the controller is, but for those calls that fill the display.
LEMMA OutsideCursor ==
  ASSUME Left' \in Nat, loaded' => Left' \in {3, 5, 65, 66, 68, 69, 70}, ~loaded' => Left' # 1
  PROVE  SpiCursor'
<1>1. PICK r \in Nat : r = Left'  OBVIOUS
<1>2. ASSUME loaded' PROVE r \notin 6..64 /\ r \notin {1, 4, 67} /\ r > 2 /\ r # 0  BY <1>1, <1>2
<1>3. ASSUME ~loaded' PROVE r # 1  BY <1>1, <1>3
<1> QED  BY <1>1, <1>2, <1>3 DEF SpiCursor

-----------------------------------------------------------------------------
(* The steps *)

\* A position sent is where the text begins, or where the timetable has the cursor.
LEMMA SetCursorIsSound ==
  ASSUME DisplaySound, SetCursor
  PROVE  DisplaySound'
<1>1. /\ Call("cursor") /\ calls # <<>> /\ Head(calls).op = "cursor"
      /\ window' = [page |-> Head(calls).line, col |-> Head(calls).col] /\ ramPointer' = 0
      /\ driver = "spi" => LineNum' = Head(calls).line /\ CursorPos' = Head(calls).col
      /\ driver # "spi" => UNCHANGED <<LineNum, CursorPos>>
      /\ UNCHANGED <<driver, loaded, screen, scroll, writes, scrolled, message, drawn, turns>>
  BY DEF SetCursor, SetWindow, history, Call
<1>2. /\ calls' \in Seq(CallSet) /\ Left \in Nat /\ Left >= 1 /\ Left' = Left - 1
      /\ Head(calls) = Due(Left) /\ Due(Left).op = "cursor" /\ Due(Left) \in CallSet
      /\ \A r \in 1..Left' : Due(r)' = Due(r) /\ r \in 1..Left
  BY <1>1, CallTakes DEF DisplaySound
<1>3. Head(calls).line \in 0..MAX_LINE /\ Head(calls).col \in 0..MAX_SEG - 1
  BY <1>2, CallShapes
<1>4. DisplayTypeOK'
  <2>1. driver' \in {"i2c", "spi", "client"} /\ loaded' \in BOOLEAN /\ calls' \in Seq(CallSet)
    BY <1>1, <1>2 DEF DisplaySound, DisplayTypeOK
  <2>2. LineNum' \in 0..MAX_LINE /\ CursorPos' \in 0..MAX_SEG - 1
    BY <1>1, <1>3 DEF DisplaySound, DisplayTypeOK
  <2>3. window' \in [page : 0..MAX_LINE, col : 0..MAX_SEG - 1] /\ ramPointer' \in Nat
    BY <1>1, <1>3
  <2>4. DOMAIN screen' \subseteq Cells /\ screen' \in [DOMAIN screen' -> Shown]
    BY <1>1 DEF DisplaySound, DisplayTypeOK
  <2>5. /\ scroll' \in BOOLEAN /\ scrolled' \in Nat /\ turns' \in Nat
        /\ message' \in Seq(Chars) /\ drawn' \in Seq(Cells)
    BY <1>1 DEF DisplaySound, DisplayTypeOK
  <2> QED  BY <2>1, <2>2, <2>3, <2>4, <2>5 DEF DisplayTypeOK, Shown, Chars, CallSet
<1>5. I2cCalls' /\ SpiCalls'  BY <1>1, ShapeKept
<1>6. /\ Here = 128 * LineNum + Column /\ Here' = 128 * LineNum' + Column'
      /\ Here \in Nat /\ Here' \in Nat
  <2>1. LineNum' \in 0..7 /\ window.col' \in 0..127 /\ ramPointer' \in Nat
    BY <1>4 DEF DisplayTypeOK, MAX_LINE, MAX_SEG
  <2> QED  BY <2>1, HereTyped, HereNext DEF DisplaySound, MAX_SEG
<1>7. CASE driver # "spi"
  <2>1. Timetable' /\ SpiCursor' /\ Lettering'  BY <1>1, <1>7, I2cSide, LettersStay
  <2>2. /\ Ready /\ Before \in 1..4 /\ Head(calls) = Due(Len(message) + Before)
        /\ Len(message) \in Nat /\ Before = Left - Len(message)
    BY <1>1, <1>7, I2cHead
  <2>3. Before' = Before - 1 /\ Ready'  BY <1>1, <1>2, <2>2 DEF Before, Ready
  <2>4. WriteDue \/ ProbeDue  BY <2>2 DEF DisplaySound, I2cCalls
  <2>5. /\ Head(calls) = CursorTo(0, 0)
        /\ \/ Before = 2 /\ Due(Len(message) + 1) = [op |-> "home"]
           \/ Before = 1
    <3>1. CASE WriteDue
      <4>1. Due(Len(message) + Before).op = "cursor"  BY <1>2, <2>2
      <4> QED  BY <2>2, <3>1, <4>1 DEF WriteDue
    <3>2. CASE ProbeDue
      <4>1. Due(Len(message) + Before).op = "cursor"  BY <1>2, <2>2
      <4> QED  BY <2>2, <3>2, <4>1 DEF ProbeDue
    <3> QED  BY <2>4, <3>1, <3>2
  <2>6. window' = [page |-> 0, col |-> 0]  BY <1>1, <2>5 DEF CursorTo
  <2>7. Sixes' /\ OnScreen'
    <3>1. CASE Before = 2 /\ Due(Len(message) + 1) = [op |-> "home"]
      <4>1. Before' = 1 /\ Due(Len(message) + 1)' = [op |-> "home"]
        <5>1. Len(message) + 1 \in 1..Left'  BY <1>2, <2>2, <3>1
        <5> QED  BY <1>1, <1>2, <2>3, <3>1, <5>1
      <4>2. CursorPos' % 6 = 0 /\ ~scroll' /\ scrolled' = 0
        BY <1>1, <1>7 DEF DisplaySound, Sixes
      <4> QED  BY <1>1, <2>6, <4>1, <4>2 DEF Sixes, OnScreen, Printing
    <3>2. CASE Before = 1
      <4>1. drawn = <<>> /\ turns = 0 /\ LineNum = 0 /\ CursorPos = 0
        <5>1. Due(Len(message) + 1).op = "cursor"  BY <1>2, <2>2, <3>2
        <5> QED  BY <1>7, <2>2, <5>1 DEF DisplaySound, Sixes
      <4>2. Before' = 0  BY <2>3, <3>2
      <4>3. ~scroll' /\ scrolled' = 0  BY <1>1, <1>7 DEF DisplaySound, Sixes
      <4>4. Synced' /\ ramPointer' % 6 = 0 /\ CursorPos' % 6 = 0
        BY <1>1, <1>7, <2>6, <4>1 DEF Synced, Column
      <4>5. Len(drawn') = 0 /\ drawn' = <<>> /\ LineNum' = turns'  BY <1>1, <1>7, <4>1
      <4>6. Sixes'
        <5>1. ~(Before' >= 1)  BY <4>2
        <5>2. window'.col = 0  BY <2>6
        <5>3. Len(drawn') + Before' = 0  BY <4>2, <4>5
        <5> QED  BY <4>3, <4>4, <5>1, <5>2, <5>3 DEF Sixes
      <4>7. OnScreen'  BY <4>5 DEF OnScreen
      <4> QED  BY <4>6, <4>7
    <3> QED  BY <2>5, <3>1, <3>2
  <2>8. Ascending'  BY <1>1 DEF DisplaySound, Ascending, Place
  <2> QED  BY <1>4, <1>5, <2>1, <2>7, <2>8 DEF DisplaySound
<1>8. CASE driver = "spi"
  <2>1. Sixes' /\ Ascending' /\ OnScreen'  BY <1>1, <1>8, SpiSide
  <2>2. /\ loaded => \/ Left \in {2, 5, 65, 68} /\ Head(calls) = CursorTo(0, 0)
                     \/ Left = 15 /\ Head(calls) = CursorTo(6, 37)
                     \/ Left = 30 /\ Head(calls) = CursorTo(5, 23)
                     \/ Left = 41 /\ Head(calls) = CursorTo(4, 35)
        /\ ~loaded => Left = 2 /\ Head(calls) = CursorTo(0, 0)
    <3>1. CASE loaded  BY <1>1, <1>8, <3>1, SpiHead
    <3>2. CASE ~loaded
      <4>1. \/ Left = 1 /\ "cursor" = "fill"
            \/ Left = 2 /\ "cursor" = "cursor" /\ Head(calls) = CursorTo(0, 0)
        BY <1>1, <1>8, <3>2, SpiHead
      <4> QED  BY <3>2, <4>1
    <3> QED  BY <3>1, <3>2
  <2>3. /\ loaded => \/ /\ Left' \in {1, 4, 64, 67} /\ Stands(0, 0)'
                        /\ window' = [page |-> 0, col |-> 0]
                     \/ Left' = 14 /\ Stands(6, 37)'
                     \/ Left' = 29 /\ Stands(5, 23)'
                     \/ Left' = 40 /\ Stands(4, 35)'
        /\ ~loaded => Left' = 1 /\ window' = [page |-> 0, col |-> 0]
    BY <1>1, <1>2, <1>8, <2>2 DEF CursorTo, Stands
  <2>4. Timetable'
    <3>1. loaded' = loaded  BY <1>1
    <3> QED  BY <2>3, <3>1 DEF Timetable, Playing, Stands
  <2>5. Synced' /\ Column' = CursorPos'
    <3>1. Head(calls).col \in Int  BY <1>3 DEF MAX_SEG
    <3>2. LineNum' = Head(calls).line /\ CursorPos' = Head(calls).col /\ ramPointer' = 0
      BY <1>1, <1>8, Zenon
    <3>3. window' = [page |-> Head(calls).line, col |-> Head(calls).col]  BY <1>1, Zenon
    <3>4. PICK l, c : l = Head(calls).line /\ c = Head(calls).col  OBVIOUS
    <3>5. window' = [page |-> l, col |-> c] /\ LineNum' = l /\ CursorPos' = c /\ c \in Int
      BY <3>1, <3>2, <3>3, <3>4, Zenon
    <3>6. window'.page = l /\ window'.col = c  BY <3>5
    <3> QED  BY <3>2, <3>5, <3>6 DEF Synced, Column
  <2>6. SpiCursor'
    <3>1. ASSUME loaded, Left' <= 2 PROVE ~scroll'
      <4>1. Left = 2  BY <1>2, <2>3, <3>1
      <4> QED  BY <1>1, <1>8, <3>1, <4>1 DEF DisplaySound, SpiCursor
    <3>2. ~(loaded /\ Left' = 0)  BY <2>3
    <3> QED  BY <1>1, <2>3, <2>5, <3>1, <3>2 DEF SpiCursor
  <2>7. Lettering'
    <3>1. ASSUME loaded, Left \in 4..64
          PROVE  Left' \in 4..64 /\ (Left' >= 6 => Left >= 6 /\ Here <= Here')
      <4>1. Left \in {5, 15, 30, 41}  BY <2>2, <3>1
      <4>2. Left = 5 => Left' = 4  BY <1>2
      <4>3. Left = 15 => Left' = 14 /\ Here = 128 * 6 /\ Here' = 128 * 6 + 37
        BY <1>1, <1>2, <1>6, <1>8, <2>3, <2>5, <3>1
        DEF DisplaySound, Timetable, Stands, Playing, SpiCursor, Synced
      <4>4. Left = 30 => Left' = 29 /\ Here = 128 * 5 /\ Here' = 128 * 5 + 23
        BY <1>1, <1>2, <1>6, <1>8, <2>3, <2>5, <3>1
        DEF DisplaySound, Timetable, Stands, Playing, SpiCursor, Synced
      <4>5. Left = 41 => Left' = 40 /\ Here = 128 * 3 /\ Here' = 128 * 4 + 35
        BY <1>1, <1>2, <1>6, <1>8, <2>3, <2>5, <3>1
        DEF DisplaySound, Timetable, Stands, Playing, SpiCursor, Synced
      <4> QED  BY <4>1, <4>2, <4>3, <4>4, <4>5
    <3>2. Left' \in Nat  BY <1>2
    <3> QED  BY <1>1, <1>2, <1>6, <1>8, <3>1, <3>2, SpiLettersStay
  <2> QED  BY <1>4, <1>5, <2>1, <2>4, <2>6, <2>7 DEF DisplaySound
<1> QED  BY <1>7, <1>8

\* What the screen shows after a step that writes to it.
LEMMA Shows ==
  ASSUME DisplayTypeOK, NEW lit, NEW dark, Show(lit, dark), DOMAIN lit \subseteq Cells,
         \A x \in DOMAIN lit : lit[x] \in Shown
  PROVE  /\ DOMAIN screen' = (DOMAIN screen \ dark) \cup DOMAIN lit
         /\ \A x \in DOMAIN lit : screen'[x] = lit[x]
         /\ \A x \in DOMAIN screen \ dark : x \notin DOMAIN lit => screen'[x] = screen[x]
         /\ DOMAIN screen' \subseteq Cells /\ screen' \in [DOMAIN screen' -> Shown]
<1> DEFINE D == (DOMAIN screen \ dark) \cup DOMAIN lit
<1>1. screen' = [x \in D |-> IF x \in DOMAIN lit THEN lit[x] ELSE screen[x]]  BY DEF Show
<1>2. DOMAIN screen \subseteq Cells /\ \A x \in DOMAIN screen : screen[x] \in Shown
  BY DEF DisplayTypeOK
<1> HIDE DEF D
<1>3. DOMAIN screen' = D  BY <1>1
<1>4. \A x \in DOMAIN lit : screen'[x] = lit[x]  BY <1>1 DEF D
<1>5. \A x \in DOMAIN screen \ dark : x \notin DOMAIN lit => screen'[x] = screen[x]
  BY <1>1 DEF D
<1>6. D \subseteq Cells  BY <1>2 DEF D
<1>7. ASSUME NEW x \in D PROVE (IF x \in DOMAIN lit THEN lit[x] ELSE screen[x]) \in Shown
  BY <1>2 DEF D
<1>8. screen' \in [D -> Shown]  BY <1>1, <1>7
<1> QED  BY <1>3, <1>4, <1>5, <1>6, <1>8 DEF D

\* The I2C drivers write whole pages over, and leave those above the window as they are.
LEMMA PagesStay ==
  ASSUME DisplaySound, driver # "spi", driver' # "spi", scrolled' = scrolled,
         DOMAIN screen' \subseteq Cells,
         \A x \in Glyphs' : x \in DOMAIN screen /\ x \notin InWindow,
         \A x \in DOMAIN screen \ InWindow : x \in DOMAIN screen' /\ screen'[x] = screen[x]
  PROVE  Lettering'
<1>1. window.col = 0 /\ scrolled = 0  BY DEF DisplaySound, Sixes
<1>2. ASSUME NEW x \in Cells, x \notin InWindow, NEW y \in Cells, y[1] = x[1]
      PROVE  y \notin InWindow
  <2>1. x[2] >= 0  BY <1>2 DEF Cells, MAX_LINE, MAX_SEG
  <2>2. ~(x[1] >= window.page)  BY <1>1, <1>2, <2>1 DEF InWindow
  <2> QED  BY <1>2, <2>2 DEF InWindow
<1>3. ASSUME NEW x \in Glyphs'
      PROVE  Whole(x)' /\ First(x)' % 6 = 0
  <2>1. x \in DOMAIN screen /\ x \notin InWindow /\ screen'[x] = screen[x] /\ x \in Cells
    BY <1>3 DEF DisplaySound, DisplayTypeOK
  <2>2. x \in Glyphs  BY <1>3, <2>1 DEF Glyphs
  <2>3. Whole(x) /\ First(x) % 6 = 0
    BY <1>1, <2>2 DEF DisplaySound, Lettering, Still
  <2>4. First(x)' = First(x)  BY <2>1 DEF First
  <2>5. ASSUME NEW k \in 0..FontSize - 1
        PROVE  /\ <<x[1], First(x) + k>> \in DOMAIN screen'
               /\ screen'[<<x[1], First(x) + k>>] = [c |-> screen'[x].c, k |-> k]
    <3> DEFINE y == <<x[1], First(x) + k>>
    <3>1. y \in DOMAIN screen /\ screen[y] = [c |-> screen[x].c, k |-> k]  BY <2>3 DEF Whole
    <3>2. y[1] = x[1]  OBVIOUS
    <3> HIDE DEF y
    <3>3. y \in Cells  BY <3>1 DEF DisplaySound, DisplayTypeOK
    <3>4. y \notin InWindow  BY <1>2, <2>1, <3>2, <3>3
    <3>5. y \in DOMAIN screen' /\ screen'[y] = [c |-> screen'[x].c, k |-> k]
      BY <2>1, <3>1, <3>4
    <3> QED  BY <3>5 DEF y
  <2>6. Whole(x)'
    <3>1. screen'[x].k < FontSize /\ 0 <= First(x)' /\ First(x)' + FontSize < MAX_SEG
      BY <2>1, <2>3, <2>4 DEF Whole
    <3> QED  BY <2>4, <2>5, <3>1 DEF Whole
  <2> QED  BY <2>3, <2>4, <2>6
<1> QED  BY <1>3 DEF Lettering

\* In a window that starts at the first cell is everything.
LEMMA WholeWindow ==
  ASSUME window = [page |-> 0, col |-> 0]
  PROVE  InWindow = Cells
BY DEF InWindow, Cells, MAX_LINE, MAX_SEG

\* A call that fills, lights or stops is not the last one before the text.
LEMMA NotDue ==
  ASSUME DisplaySound, NEW op, Call(op), driver # "spi", op \notin {"char", "home", "cursor"},
         UNCHANGED <<driver, loaded, message>>
  PROVE  /\ Ready => /\ Before \in Int /\ Before' \in Int
                     /\ Before >= 2 /\ Before' >= 1 /\ Ready'
                     /\ Due(Len(message) + 1)' = Due(Len(message) + 1)
                     /\ Before' = 1 => Due(Len(message) + 1).op # "home"
         /\ ~Ready => ~Ready'
<1>1. /\ Left \in Nat /\ Left >= 1 /\ Left' = Left - 1
      /\ Head(calls) = Due(Left) /\ Due(Left).op = op
      /\ \A r \in 1..Left' : Due(r)' = Due(r)
      /\ calls # <<>> /\ Head(calls).op = op
  BY CallTakes DEF DisplaySound, Call
<1>2. ASSUME Ready
      PROVE  /\ Before >= 2 /\ Before' >= 1 /\ Before' = Before - 1 /\ Len(message) \in Nat
             /\ Before = Left - Len(message) /\ Before \in 1..4
             /\ Due(Len(message) + Before).op = op
             /\ WriteDue \/ ProbeDue
  <2>1. /\ Before \in Int /\ Len(message) \in Nat /\ Before = Left - Len(message)
        /\ Before <= 0 => op = "char"
        /\ Before >= 1 => Before \in 1..4 /\ Head(calls) = Due(Len(message) + Before)
    BY <1>1, <1>2, I2cHead
  <2>2. Before \in 1..4 /\ Due(Len(message) + Before).op = op  BY <1>1, <2>1
  <2>3. WriteDue \/ ProbeDue  BY <1>2 DEF DisplaySound, I2cCalls
  <2>4. Before # 1  BY <2>2, <2>3 DEF WriteDue, ProbeDue, CursorTo
  <2>5. Before' = Before - 1  BY <1>1, <2>1 DEF Before
  <2> QED  BY <2>1, <2>2, <2>3, <2>4, <2>5
<1>3. ASSUME Ready
      PROVE  /\ Due(Len(message) + 1)' = Due(Len(message) + 1)
             /\ Before' = 1 => Due(Len(message) + 1).op # "home"
  <2>1. Due(Len(message) + 1)' = Due(Len(message) + 1)
    <3>1. Len(message) + 1 \in 1..Left'  BY <1>1, <1>2, <1>3
    <3> QED  BY <1>1, <3>1
  <2>2. CASE WriteDue
    <3>1. Before # 2  BY <1>2, <1>3, <2>2 DEF WriteDue, CursorTo
    <3> QED  BY <1>2, <1>3, <2>1, <3>1
  <2>3. CASE ProbeDue  BY <1>2, <1>3, <2>1, <2>3 DEF ProbeDue, CursorTo
  <2> QED  BY <1>2, <1>3, <2>2, <2>3
<1>4. Ready' = Ready  BY DEF Ready
<1> QED  BY <1>2, <1>3, <1>4

\* Such a call of theirs changes neither the cursor nor the window.
LEMMA CursorStays ==
  ASSUME DisplaySound, NEW op, Call(op), driver # "spi", op \notin {"char", "home", "cursor"},
         UNCHANGED <<driver, loaded, message, LineNum, CursorPos, window, scrolled, drawn, turns>>,
         ~scroll'
  PROVE  Sixes' /\ Ascending' /\ OnScreen'
<1>1. Len(message)' = Len(message)  OBVIOUS
<1>2. CASE Ready
  <2>1. /\ Before \in Int /\ Before' \in Int /\ Before >= 2 /\ Before' >= 1
        /\ Due(Len(message) + 1)' = Due(Len(message) + 1)
        /\ Before' = 1 => Due(Len(message) + 1).op # "home"
    BY <1>2, NotDue
  <2>2. ~Printing'  BY <2>1 DEF Printing
  <2>3. Due(Len(message) + 1).op = "cursor" =>
          drawn = <<>> /\ turns = 0 /\ LineNum = 0 /\ CursorPos = 0
    <3>1. Before >= 1  BY <2>1
    <3> QED  BY <1>2, <3>1 DEF DisplaySound, Sixes
  <2>4. Sixes'  BY <1>1, <2>1, <2>2, <2>3 DEF DisplaySound, Sixes
  <2> QED  BY <2>2, <2>4 DEF DisplaySound, OnScreen, Ascending, Place
<1>3. CASE ~Ready
  <2>1. ~Ready'  BY <1>3 DEF Ready
  <2> QED  BY <2>1 DEF DisplaySound, Sixes, OnScreen, Ascending, Place
<1> QED  BY <1>2, <1>3

\* A window of the display is cleared, or all of it.
LEMMA FillIsSound ==
  ASSUME DisplaySound, Fill
  PROVE  DisplaySound'
<1>1. /\ Call("fill") /\ calls # <<>> /\ Head(calls).op = "fill" /\ Show(<<>>, InWindow)
      /\ ramPointer' = (ramPointer + Cardinality(Cells)) % Size
      /\ UNCHANGED <<driver, LineNum, CursorPos, loaded, window, scroll, writes, scrolled, message,
                     drawn, turns>>
  BY DEF Fill, history, Call
<1>2. /\ calls' \in Seq(CallSet) /\ Left \in Nat /\ Left >= 1 /\ Left' = Left - 1
  BY <1>1, CallTakes DEF DisplaySound
<1>3. /\ DOMAIN screen' = DOMAIN screen \ InWindow
      /\ \A x \in DOMAIN screen \ InWindow : screen'[x] = screen[x]
      /\ DOMAIN screen' \subseteq Cells /\ screen' \in [DOMAIN screen' -> Shown]
  <2>1. PICK none : none = <<>>  OBVIOUS
  <2>2. DOMAIN none = {} /\ Show(none, InWindow)  BY <1>1, <2>1
  <2> QED  BY <2>2, Shows DEF DisplaySound
<1>4. DisplayTypeOK'
  <2>1. ramPointer' \in Nat  BY <1>1, CellsAre, PointerTyped DEF DisplaySound
  <2> QED  BY <1>1, <1>2, <1>3, <2>1
           DEF DisplaySound, DisplayTypeOK, Shown, Chars, CallSet
<1>5. I2cCalls' /\ SpiCalls'  BY <1>1, ShapeKept
<1>6. CASE driver # "spi"
  <2>1. Timetable' /\ SpiCursor'  BY <1>1, <1>6, I2cSide
  <2>2. ~scroll'  BY <1>1, <1>6 DEF DisplaySound, Sixes
  <2>3. Sixes' /\ Ascending' /\ OnScreen'
    <3>1. "fill" \notin {"char", "home", "cursor"}  OBVIOUS
    <3> QED  BY <1>1, <1>6, <2>2, <3>1, CursorStays
  <2>4. Lettering'
    <3>1. Glyphs' \subseteq DOMAIN screen'  BY DEF Glyphs
    <3> QED  BY <1>1, <1>3, <1>6, <3>1, PagesStay
  <2> QED  BY <1>4, <1>5, <2>1, <2>3, <2>4 DEF DisplaySound
<1>7. CASE driver = "spi"
  <2>1. Sixes' /\ Ascending' /\ OnScreen'  BY <1>1, <1>7, SpiSide
  <2>2. /\ loaded => Left \in {4, 67}
        /\ ~loaded => Left = 1
    <3>1. "fill" # "cursor"  OBVIOUS
    <3> QED  BY <1>1, <1>7, <3>1, SpiHead
  <2>3. window = [page |-> 0, col |-> 0]  BY <1>7, <2>2 DEF DisplaySound, SpiCursor
  <2>4. DOMAIN screen' = {}  BY <1>3, <2>3, WholeWindow DEF DisplaySound, DisplayTypeOK
  <2>5. Lettering'  BY <2>4, NoLetterNow DEF Glyphs
  <2>6. (loaded => Left' \in {3, 66}) /\ (~loaded => Left' = 0)  BY <1>2, <2>2
  <2>7. Timetable'  BY <1>1, <2>6, OutsideTimetable
  <2>8. SpiCursor'  BY <1>1, <2>6, OutsideCursor
  <2> QED  BY <1>4, <1>5, <2>1, <2>5, <2>7, <2>8 DEF DisplaySound
<1> QED  BY <1>6, <1>7

\* 29_i2c_client lights it.
LEMMA LightIsSound ==
  ASSUME DisplaySound, Light
  PROVE  DisplaySound'
<1> DEFINE lit == [x \in InWindow |-> [c |-> "lit", k |-> 0]]
<1>1. /\ Call("light") /\ calls # <<>> /\ Head(calls).op = "light" /\ Show(lit, {})
      /\ ramPointer' = (ramPointer + Cardinality(Cells)) % Size
      /\ UNCHANGED <<driver, LineNum, CursorPos, loaded, window, scroll, writes, scrolled, message,
                     drawn, turns>>
  BY DEF Light, history, Call
<1>2. /\ calls' \in Seq(CallSet) /\ Left \in Nat /\ Left >= 1 /\ Left' = Left - 1
  BY <1>1, CallTakes DEF DisplaySound
<1>3. DOMAIN lit = InWindow /\ \A x \in InWindow : lit[x] = [c |-> "lit", k |-> 0]  OBVIOUS
<1> HIDE DEF lit
<1>4. /\ DOMAIN screen' = DOMAIN screen \cup InWindow
      /\ \A x \in InWindow : screen'[x] = [c |-> "lit", k |-> 0]
      /\ \A x \in DOMAIN screen \ InWindow : screen'[x] = screen[x]
      /\ DOMAIN screen' \subseteq Cells /\ screen' \in [DOMAIN screen' -> Shown]
  <2>1. InWindow \subseteq Cells  BY DEF InWindow
  <2>2. [c |-> "lit", k |-> 0] \in Shown  BY DEF Shown, NoLetters
  <2>3. DOMAIN lit \subseteq Cells /\ \A x \in DOMAIN lit : lit[x] \in Shown
    BY <1>3, <2>1, <2>2
  <2>4. DisplayTypeOK  BY DEF DisplaySound
  <2>5. /\ DOMAIN screen' = (DOMAIN screen \ {}) \cup DOMAIN lit
        /\ \A x \in DOMAIN lit : screen'[x] = lit[x]
        /\ \A x \in DOMAIN screen \ {} : x \notin DOMAIN lit => screen'[x] = screen[x]
        /\ DOMAIN screen' \subseteq Cells /\ screen' \in [DOMAIN screen' -> Shown]
    BY <1>1, <2>3, <2>4, Shows
  <2> QED  BY <1>3, <2>5
<1>5. DisplayTypeOK'
  <2>1. ramPointer' \in Nat  BY <1>1, CellsAre, PointerTyped DEF DisplaySound
  <2> QED  BY <1>1, <1>2, <1>4, <2>1
           DEF DisplaySound, DisplayTypeOK, Shown, Chars, CallSet
<1>6. I2cCalls' /\ SpiCalls'  BY <1>1, ShapeKept
<1>7. driver # "spi"
  <2>1. "light" \in {"light", "home"} /\ "light" # "fill" /\ "light" # "cursor"  OBVIOUS
  <2> QED  BY <1>1, <2>1, SpiHead
<1>8. Timetable' /\ SpiCursor'  BY <1>1, <1>7, I2cSide
<1>9. Sixes' /\ Ascending' /\ OnScreen'
  <2>1. ~scroll'  BY <1>1, <1>7 DEF DisplaySound, Sixes
  <2>2. "light" \notin {"char", "home", "cursor"}  OBVIOUS
  <2> QED  BY <1>1, <1>7, <2>1, <2>2, CursorStays
<1>10. Lettering'
  <2>1. ASSUME NEW x \in Glyphs' PROVE x \in DOMAIN screen /\ x \notin InWindow
    <3>1. x \in DOMAIN screen' /\ screen'[x].c \notin NoLetters  BY <2>1 DEF Glyphs
    <3>2. x \notin InWindow  BY <1>4, <3>1 DEF NoLetters
    <3> QED  BY <1>4, <3>1, <3>2
  <2> QED  BY <1>1, <1>4, <1>7, <2>1, PagesStay
<1> QED  BY <1>5, <1>6, <1>8, <1>9, <1>10 DEF DisplaySound

\* With the counters set to 0 the text begins at the first cell.
LEMMA ResetCountersIsSound ==
  ASSUME DisplaySound, ResetCounters
  PROVE  DisplaySound'
<1>1. /\ Call("home") /\ calls # <<>> /\ Head(calls).op = "home"
      /\ LineNum' = 0 /\ CursorPos' = 0 /\ drawn' = <<>> /\ turns' = 0
      /\ UNCHANGED <<driver, loaded, window, ramPointer, screen, scroll, writes, scrolled, message>>
  BY DEF ResetCounters, Call
<1>2. /\ calls' \in Seq(CallSet) /\ Left \in Nat /\ Left >= 1 /\ Left' = Left - 1
      /\ Head(calls) = Due(Left) /\ Due(Left).op = "home"
  BY <1>1, CallTakes DEF DisplaySound
<1>3. DisplayTypeOK'
  <2>1. LineNum' \in 0..MAX_LINE /\ CursorPos' \in 0..MAX_SEG - 1  BY <1>1 DEF MAX_LINE, MAX_SEG
  <2>2. drawn' \in Seq(Cells) /\ turns' \in Nat  BY <1>1
  <2> QED  BY <1>1, <1>2, <2>1, <2>2
           DEF DisplaySound, DisplayTypeOK, Shown, Chars, CallSet
<1>4. I2cCalls' /\ SpiCalls'  BY <1>1, ShapeKept
<1>5. driver # "spi"
  <2>1. "home" \in {"light", "home"} /\ "home" # "fill" /\ "home" # "cursor"  OBVIOUS
  <2> QED  BY <1>1, <2>1, SpiHead
<1>6. Timetable' /\ SpiCursor' /\ Lettering'  BY <1>1, <1>5, I2cSide, LettersStay
<1>7. /\ Ready /\ Before \in 1..4 /\ Head(calls) = Due(Len(message) + Before)
      /\ Len(message) \in Nat /\ Before = Left - Len(message)
  <2>1. "home" \notin {"stop", "light", "fill"} /\ "home" # "char"  OBVIOUS
  <2>2. Ready  BY <1>1, <1>5, <2>1, I2cHead
  <2>3. /\ Before \in Int /\ Len(message) \in Nat /\ Before = Left - Len(message)
        /\ ~(Before <= 0)
    BY <1>1, <2>1, <2>2, I2cHead
  <2>4. Before >= 1  BY <2>3
  <2> QED  BY <1>1, <2>2, <2>3, <2>4, I2cHead
<1>8. Before = 1
  <2>1. WriteDue \/ ProbeDue  BY <1>7 DEF DisplaySound, I2cCalls
  <2>2. Due(Len(message) + Before).op = "home"  BY <1>2, <1>7
  <2> QED  BY <1>7, <2>1, <2>2 DEF WriteDue, ProbeDue, CursorTo
<1>9. Before' = 0 /\ Ready'  BY <1>1, <1>2, <1>7, <1>8 DEF Before, Ready
<1>10. window.page = 0 /\ ramPointer = 0
  <2>1. Due(Len(message) + 1).op = "home"  BY <1>2, <1>7, <1>8
  <2> QED  BY <1>5, <1>7, <1>8, <2>1 DEF DisplaySound, Sixes
<1>11. Len(drawn') = 0  BY <1>1
<1>12. Sixes'
  <2>1. window.col = 0 /\ ~scroll' /\ scrolled' = 0  BY <1>1, <1>5 DEF DisplaySound, Sixes
  <2>2. Synced' /\ ramPointer' % 6 = 0 /\ CursorPos' % 6 = 0
    BY <1>1, <1>10, <2>1 DEF Synced, Column
  <2>3. ~(Before' >= 1) /\ Len(drawn') + Before' = 0  BY <1>9, <1>11
  <2> QED  BY <1>1, <2>1, <2>2, <2>3 DEF Sixes
<1>13. Ascending' /\ OnScreen'
  <2>1. \A i \in 1..Len(drawn') : FALSE  BY <1>11
  <2> QED  BY <1>1, <2>1 DEF Ascending, OnScreen
<1> QED  BY <1>3, <1>4, <1>6, <1>12, <1>13 DEF DisplaySound

-----------------------------------------------------------------------------
(* Characters *)

\* What a sequence is with one more element.
LEMMA Appended ==
  ASSUME NEW T, NEW s \in Seq(T), NEW x \in T, NEW t, t = Append(s, x)
  PROVE  /\ t \in Seq(T) /\ Len(s) \in Nat /\ Len(t) = Len(s) + 1
         /\ t[Len(s) + 1] = x /\ \A i \in 1..Len(s) : t[i] = s[i]
OBVIOUS

\* Where an I2C driver is when it is about to draw.
LEMMA I2cPrints ==
  ASSUME DisplaySound, driver # "spi", calls # <<>>, Head(calls).op = "char"
  PROVE  /\ Ready /\ Printing /\ Synced /\ Len(drawn) \in Nat /\ Before = Left - Len(message)
         /\ Before \in Int /\ Len(message) \in Nat
         /\ Len(drawn) + Before = 0 /\ Len(drawn) + 1 \in 1..Len(message)
         /\ Head(calls).c = message[Len(drawn) + 1]
         /\ window.col = 0 /\ ramPointer % 6 = 0 /\ CursorPos % 6 = 0 /\ ~scroll /\ scrolled = 0
<1>1. "char" \notin {"stop", "light", "fill"}  OBVIOUS
<1>2. Ready  BY <1>1, I2cHead
<1>3. Before \in Int /\ Before <= 0 /\ Len(message) \in Nat /\ Before = Left - Len(message)
  <2>1. Before \in Int /\ ~(Before >= 1) /\ Len(message) \in Nat /\ Before = Left - Len(message)
    BY <1>2, I2cHead
  <2> QED  BY <2>1
<1>4. Printing  BY <1>3 DEF Printing
<1>5. Len(drawn) + Before = 0 /\ Synced /\ ramPointer % 6 = 0 /\ window.col = 0
      /\ CursorPos % 6 = 0 /\ ~scroll /\ scrolled = 0
  BY <1>2, <1>4 DEF DisplaySound, Sixes
<1>6. Head(calls).c = message[1 - Before] /\ 1 - Before \in 1..Len(message)
  BY <1>2, <1>3, I2cHead
<1>7. drawn \in Seq(Cells) /\ Len(drawn) \in Nat  BY DEF DisplaySound, DisplayTypeOK
<1>8. 1 - Before = Len(drawn) + 1  BY <1>3, <1>5, <1>7
<1> QED  BY <1>2, <1>3, <1>4, <1>5, <1>6, <1>7, <1>8

\* ... and the SPI driver, which never gets near the end of a line.
LEMMA SpiPrints ==
  ASSUME DisplaySound, driver = "spi", calls # <<>>, Head(calls).op = "char"
  PROVE  /\ loaded /\ Left \in Words \cup {6, 16, 31, 42, 54, 57}
         /\ Synced /\ Column = CursorPos /\ CursorPos <= 101
         /\ Left \in Words => Head(calls) = Letter("a")
         /\ Left \notin Words => Head(calls) = Letter(NL)
<1>1. loaded
  <2>1. "char" # "fill" /\ "char" # "cursor"  OBVIOUS
  <2> QED  BY <2>1, SpiHead
<1>2. Left \in Words \cup {6, 16, 31, 42, 54, 57}  BY <1>1, SpiHead
<1>3. /\ Left \in Words => Head(calls) = Letter("a")
      /\ Left \in {6, 16, 31, 42, 54, 57} => Head(calls) = Letter(NL)
  BY <1>1, SpiHead
<1>4. PICK r : r = Left  OBVIOUS
<1>5. r \in 6..64 /\ r # 15 /\ r # 30 /\ r # 41  BY <1>2, <1>4 DEF Words
<1>6. Synced /\ Column = CursorPos  BY <1>1, <1>4, <1>5 DEF DisplaySound, SpiCursor
<1>7. CursorPos <= 101
  <2>1. /\ r \in 57..64 => CursorPos = 6 * (64 - r)
        /\ r \in 54..56 => CursorPos = 6 * (56 - r)
        /\ r \in 42..53 => CursorPos = 6 * (53 - r)
        /\ r \in 31..40 => CursorPos = 35 + 6 * (40 - r)
        /\ r \in 16..29 => CursorPos = 23 + 6 * (29 - r)
        /\ r \in 6..14  => CursorPos = 37 + 6 * (14 - r)
    BY <1>1, <1>4 DEF DisplaySound, Timetable, Playing, Stands
  <2> QED  BY <1>5, <2>1
<1> QED  BY <1>1, <1>2, <1>3, <1>6, <1>7

\* The controller is where the driver believes it to be.
LEMMA PrintsHere ==
  ASSUME DisplaySound, calls # <<>>, Head(calls).op = "char"
  PROVE  /\ Synced /\ LineNum \in 0..7 /\ CursorPos \in 0..127
         /\ window.page = LineNum /\ window.page \in 0..7 /\ window.col \in 0..127
         /\ ramPointer \in Nat
         /\ Column \in Nat /\ Column <= CursorPos /\ Here = 128 * LineNum + Column
         /\ \A k \in Nat : Column + k < 128 =>
              /\ At(k) = <<LineNum, Column + k>> /\ At(k) \in Cells /\ Place(At(k)) = Here + k
              /\ (ramPointer + k) % Size = ramPointer + k
<1>1. Synced  BY I2cPrints, SpiPrints
<1>2. DisplayTypeOK  BY DEF DisplaySound
<1>3. /\ Here = 128 * LineNum + Column /\ Column \in Nat /\ LineNum \in 0..7
      /\ CursorPos \in 0..127 /\ window.page \in 0..7 /\ window.col \in 0..127 /\ ramPointer \in Nat
  BY <1>2, HereTyped DEF MAX_SEG
<1>4. window.page = LineNum /\ Column <= CursorPos  BY <1>1 DEF Synced
<1>5. ASSUME NEW k \in Nat, Column + k < 128
      PROVE  /\ At(k) = <<LineNum, Column + k>> /\ At(k) \in Cells /\ Place(At(k)) = Here + k
             /\ (ramPointer + k) % Size = ramPointer + k
  <2>1. At(k) = <<window.page, Column + k>> /\ (ramPointer + k) % Size = ramPointer + k
    BY <1>2, <1>5, AtIs DEF MAX_SEG
  <2>2. At(k) = <<LineNum, Column + k>>  BY <1>4, <2>1
  <2>3. Column + k \in 0..127  BY <1>3, <1>5
  <2>4. <<LineNum, Column + k>> \in Cells
    <3>1. LineNum \in 0..MAX_LINE /\ Column + k \in 0..MAX_SEG - 1
      BY <1>3, <2>3 DEF MAX_LINE, MAX_SEG
    <3> QED  BY <3>1, CellsAre, Zenon
  <2>5. Place(<<LineNum, Column + k>>) = Here + k  BY <1>3, <2>3 DEF Place, MAX_SEG
  <2> QED  BY <2>1, <2>2, <2>4, <2>5
<1> QED  BY <1>1, <1>3, <1>4, <1>5

\* What an I2C driver has drawn.
LEMMA DrawnIs ==
  ASSUME DisplaySound, driver # "spi", calls # <<>>, Head(calls).op = "char", turns <= MAX_LINE
  PROVE  /\ LineNum = turns
         /\ \A i \in 1..Len(drawn) :
              /\ drawn[i] \in Cells /\ Place(drawn[i]) \in Int /\ Place(drawn[i]) < Here
              /\ i > 1 => Place(drawn[i - 1]) < Place(drawn[i])
              /\ message[i] # NL =>
                   /\ Place(drawn[i]) + 6 <= Here
                   /\ drawn[i] \in DOMAIN screen /\ screen[drawn[i]] = [c |-> message[i], k |-> 0]
<1>1. Ready /\ Printing  BY I2cPrints
<1>2. \A i \in 1..Len(drawn) : drawn[i] \in Cells  BY DEF DisplaySound, DisplayTypeOK
<1>3. ASSUME NEW i \in 1..Len(drawn) PROVE Place(drawn[i]) \in Int
  <2>1. drawn[i] \in Cells  BY <1>2
  <2>2. PICK p \in 0..1023 : p = Place(drawn[i])  BY <2>1, PlacesDiffer
  <2>3. p \in Int  OBVIOUS
  <2> QED  BY <2>2, <2>3, Zenon
<1>4. \A i \in 1..Len(drawn) : i > 1 => Place(drawn[i - 1]) < Place(drawn[i])
  BY DEF DisplaySound, Ascending
<1> QED  BY <1>1, <1>2, <1>3, <1>4 DEF DisplaySound, OnScreen

\* One more is drawn where the controller is, and the controller goes on.
LEMMA OneMoreDrawn ==
  ASSUME DisplaySound, driver # "spi", calls # <<>>, Head(calls).op = "char",
         UNCHANGED <<driver, loaded, message>>, drawn' = Append(drawn, At(0)), turns \in Nat,
         turns' <= MAX_LINE =>
           turns <= MAX_LINE /\ LineNum' = turns' /\ Here' \in Nat /\ Here < Here',
         \A x \in DOMAIN screen :
           Place(x) + 6 <= Here => x \in DOMAIN screen' /\ screen'[x] = screen[x],
         Head(calls).c # NL =>
           /\ Here + 6 <= Here' /\ At(0) \in DOMAIN screen'
           /\ screen'[At(0)] = [c |-> Head(calls).c, k |-> 0]
  PROVE  Ascending' /\ OnScreen'
<1> DEFINE n == Len(drawn)
<1>1. /\ At(0) \in Cells /\ Place(At(0)) = Here /\ Here \in Nat
  <2>1. /\ LineNum \in 0..7 /\ CursorPos \in 0..127 /\ Column \in Nat /\ Column <= CursorPos
        /\ Here = 128 * LineNum + Column
        /\ \A k \in Nat : Column + k < 128 => At(k) \in Cells /\ Place(At(k)) = Here + k
    BY PrintsHere
  <2>2. Column + 0 < 128 /\ Here \in Nat /\ Here + 0 = Here  BY <2>1
  <2> QED  BY <2>1, <2>2
<1>2. drawn \in Seq(Cells)  BY DEF DisplaySound, DisplayTypeOK
<1>3. /\ n \in Nat /\ Len(drawn') = n + 1 /\ drawn'[n + 1] = At(0)
      /\ \A i \in 1..n : drawn'[i] = drawn[i]
  BY <1>1, <1>2, Appended
<1>4. Head(calls).c = message[n + 1]  BY I2cPrints
<1> HIDE DEF n
<1>5. ASSUME turns' <= MAX_LINE
      PROVE  /\ LineNum' = turns' /\ Here' \in Nat /\ Here < Here'
             /\ \A i \in 1..n :
                  /\ drawn[i] \in Cells /\ Place(drawn[i]) \in Int /\ Place(drawn[i]) < Here
                  /\ i > 1 => Place(drawn[i - 1]) < Place(drawn[i])
                  /\ message[i] # NL =>
                       /\ Place(drawn[i]) + 6 <= Here
                       /\ drawn[i] \in DOMAIN screen
                       /\ screen[drawn[i]] = [c |-> message[i], k |-> 0]
  BY <1>5, DrawnIs DEF n
<1>6. ASSUME turns' <= MAX_LINE, NEW i \in 1..n + 1, i > 1
      PROVE  Place(drawn'[i - 1]) < Place(drawn'[i])
  <2>1. CASE i \in 1..n
    <3>1. i - 1 \in 1..n  BY <1>3, <1>6
    <3>2. drawn'[i] = drawn[i] /\ drawn'[i - 1] = drawn[i - 1]  BY <1>3, <2>1, <3>1
    <3>3. Place(drawn[i - 1]) < Place(drawn[i])  BY <1>5, <1>6, <2>1
    <3> QED  BY <3>2, <3>3, Zenon
  <2>2. CASE i = n + 1
    <3>1. n \in 1..n /\ i - 1 = n  BY <1>3, <1>6, <2>2
    <3>2. Place(drawn[n]) < Here  BY <1>5, <1>6, <3>1
    <3>3. drawn'[i] = At(0) /\ drawn'[i - 1] = drawn[n]  BY <1>3, <2>2, <3>1
    <3> QED  BY <1>1, <3>2, <3>3, Zenon
  <2>3. i \in 1..n \/ i = n + 1  BY <1>3, <1>6
  <2> QED  BY <2>1, <2>2, <2>3, Zenon
<1>7. Ascending'
  <2>1. \A x : Place(x)' = Place(x)  BY DEF Place
  <2> QED  BY <1>3, <1>6 DEF Ascending, Place
<1>8. ASSUME turns' <= MAX_LINE, NEW i \in 1..n + 1
      PROVE  /\ Place(drawn'[i]) < Here'
             /\ message[i] # NL =>
                  /\ Place(drawn'[i]) + 6 <= Here'
                  /\ drawn'[i] \in DOMAIN screen'
                  /\ screen'[drawn'[i]] = [c |-> message[i], k |-> 0]
  <2>1. CASE i \in 1..n
    <3>1. drawn'[i] = drawn[i]  BY <1>3, <2>1
    <3>2. Place(drawn[i]) \in Int /\ Place(drawn[i]) < Here /\ Here < Here' /\ Here' \in Nat
      BY <1>5, <1>8, <2>1
    <3>3. ASSUME message[i] # NL
          PROVE  /\ Place(drawn[i]) + 6 <= Here
                 /\ drawn[i] \in DOMAIN screen' /\ screen'[drawn[i]] = [c |-> message[i], k |-> 0]
      <4>1. /\ Place(drawn[i]) + 6 <= Here /\ drawn[i] \in DOMAIN screen
            /\ screen[drawn[i]] = [c |-> message[i], k |-> 0]
        BY <1>5, <1>8, <2>1, <3>3
      <4>2. drawn[i] \in DOMAIN screen' /\ screen'[drawn[i]] = screen[drawn[i]]  BY <4>1
      <4> QED  BY <4>1, <4>2
    <3>4. PICK p, h, g : p = Place(drawn[i]) /\ h = Here /\ g = Here'  OBVIOUS
    <3>5. p \in Int /\ h \in Nat /\ g \in Nat /\ p < h /\ h < g /\ (message[i] # NL => p + 6 <= h)
      BY <1>1, <3>2, <3>3, <3>4, Zenon
    <3>6. p < g /\ (message[i] # NL => p + 6 <= g)  BY <3>5
    <3>7. Place(drawn[i]) < Here' /\ (message[i] # NL => Place(drawn[i]) + 6 <= Here')
      BY <3>4, <3>6, Zenon
    <3> QED  BY <3>1, <3>3, <3>7, Zenon
  <2>2. CASE i = n + 1
    <3>1. drawn'[i] = At(0) /\ message[i] = Head(calls).c  BY <1>3, <1>4, <2>2
    <3>2. Place(At(0)) < Here'  BY <1>1, <1>5, <1>8
    <3>3. message[i] # NL =>
            /\ Place(At(0)) + 6 <= Here' /\ At(0) \in DOMAIN screen'
            /\ screen'[At(0)] = [c |-> message[i], k |-> 0]
      BY <1>1, <3>1, Zenon
    <3> QED  BY <3>1, <3>2, <3>3, Zenon
  <2>3. i \in 1..n \/ i = n + 1  BY <1>3, <1>8
  <2> QED  BY <2>1, <2>2, <2>3, Zenon
<1>9. OnScreen'
  <2>1. message' = message /\ Len(drawn') = n + 1  BY <1>3
  <2>2. turns' <= MAX_LINE => LineNum' = turns'  BY <1>5
  <2> QED  BY <1>8, <2>1, <2>2 DEF OnScreen, Place
<1> QED  BY <1>7, <1>9

\* The next line: further down, until the display is full.
LEMMA NextLine ==
  ASSUME DisplaySound, calls # <<>>, Head(calls).op = "char", GoToNextLine
  PROVE  /\ LineNum' \in 0..MAX_LINE /\ LineNum' \in 0..7 /\ turns' = turns + 1 /\ turns \in Nat
         /\ window' = [page |-> LineNum', col |-> 0] /\ ramPointer' = 0
         /\ Column' = 0 /\ Here' = 128 * LineNum' /\ Here' \in Nat /\ Here \in Nat
         /\ LineNum < 7 => LineNum' = LineNum + 1 /\ Here < Here'
         /\ UNCHANGED <<driver, loaded, screen, scroll, writes, scrolled, message>>
<1>1. /\ LineNum' = (LineNum + 1) % 8 /\ ramPointer' = 0 /\ turns' = turns + 1
      /\ window' = [page |-> (LineNum + 1) % 8, col |-> 0]
      /\ UNCHANGED <<driver, loaded, screen, scroll, writes, scrolled, message>>
  BY DEF GoToNextLine, SetWindow, MAX_LINE
<1>2. /\ LineNum \in 0..7 /\ CursorPos \in 0..127 /\ Column \in Nat /\ Column <= CursorPos
      /\ Here = 128 * LineNum + Column
  BY PrintsHere
<1>3. turns \in Nat  BY DEF DisplaySound, DisplayTypeOK
<1>4. LineNum' \in 0..7 /\ (LineNum < 7 => LineNum' = LineNum + 1)  BY <1>1, <1>2
<1>5. window' = [page |-> LineNum', col |-> 0] /\ window'.col = 0  BY <1>1
<1>6. Here' = 128 * LineNum' + Column' /\ Here' \in Nat /\ Column' = window'.col + ramPointer'
  <2>1. window.col' \in 0..127 /\ ramPointer' \in Nat  BY <1>1, <1>5
  <2> QED  BY <1>4, <2>1, HereNext
<1>7. Column' = 0  BY <1>1, <1>5, <1>6
<1>8. Here' = 128 * LineNum'  BY <1>4, <1>6, <1>7
<1>9. Here \in Nat /\ (LineNum < 7 => Here < Here')
  <2>1. Here \in Nat  BY <1>2
  <2>2. ASSUME LineNum < 7 PROVE Here < Here'
    <3>1. LineNum' = LineNum + 1  BY <1>4, <2>2
    <3>2. Here < 128 * LineNum + 128  BY <1>2
    <3>3. Here' = 128 * LineNum + 128  BY <1>2, <1>8, <3>1
    <3> QED  BY <3>2, <3>3, Zenon
  <2> QED  BY <2>1, <2>2
<1>10. LineNum' \in 0..MAX_LINE  BY <1>4 DEF MAX_LINE
<1> QED  BY <1>1, <1>3, <1>4, <1>5, <1>6, <1>7, <1>8, <1>9, <1>10

\* A new line leaves what is drawn behind the controller.
LEMMA NewLineIsSound ==
  ASSUME DisplaySound, NewLine
  PROVE  DisplaySound'
<1>1. /\ Call("char") /\ calls # <<>> /\ Head(calls).op = "char" /\ Head(calls).c = NL
      /\ GoToNextLine /\ CursorPos' = (IF driver = "spi" THEN 0 ELSE CursorPos)
      /\ drawn' = Append(drawn, At(0))
  BY DEF NewLine, Call
<1>2. /\ LineNum' \in 0..MAX_LINE /\ LineNum' \in 0..7 /\ turns' = turns + 1 /\ turns \in Nat
      /\ window' = [page |-> LineNum', col |-> 0] /\ ramPointer' = 0
      /\ Column' = 0 /\ Here' = 128 * LineNum' /\ Here' \in Nat /\ Here \in Nat
      /\ LineNum < 7 => LineNum' = LineNum + 1 /\ Here < Here'
      /\ UNCHANGED <<driver, loaded, screen, scroll, writes, scrolled, message>>
  BY <1>1, NextLine
<1>3. /\ calls' \in Seq(CallSet) /\ Left \in Nat /\ Left >= 1 /\ Left' = Left - 1
  BY <1>1, CallTakes DEF DisplaySound
<1>4. /\ LineNum \in 0..7 /\ CursorPos \in 0..127 /\ At(0) \in Cells
  <2>1. /\ LineNum \in 0..7 /\ CursorPos \in 0..127 /\ Column \in Nat /\ Column <= CursorPos
        /\ \A k \in Nat : Column + k < 128 => At(k) \in Cells
    BY <1>1, PrintsHere
  <2>2. Column + 0 < 128  BY <2>1
  <2> QED  BY <2>1, <2>2
<1>5. DisplayTypeOK'
  <2>1. CursorPos' \in 0..MAX_SEG - 1  BY <1>1, <1>4 DEF MAX_SEG
  <2>2. drawn' \in Seq(Cells) /\ turns' \in Nat
    <3>1. drawn \in Seq(Cells)  BY DEF DisplaySound, DisplayTypeOK
    <3>2. drawn' \in Seq(Cells)  BY <1>1, <1>4, <3>1, Appended
    <3> QED  BY <1>2, <3>2
  <2>3. window' \in [page : 0..MAX_LINE, col : 0..MAX_SEG - 1] /\ ramPointer' \in Nat
    BY <1>2 DEF MAX_SEG
  <2> QED  BY <1>2, <1>3, <2>1, <2>2, <2>3
           DEF DisplaySound, DisplayTypeOK, Shown, Chars, CallSet
<1>6. I2cCalls' /\ SpiCalls'  BY <1>1, <1>2, ShapeKept
<1>7. CASE driver # "spi"
  <2>1. Timetable' /\ SpiCursor' /\ Lettering'  BY <1>2, <1>7, I2cSide, LettersStay
  <2>2. /\ Ready /\ Printing /\ Len(drawn) \in Nat /\ Before = Left - Len(message)
        /\ Before \in Int /\ Len(message) \in Nat /\ Len(drawn) + Before = 0
        /\ CursorPos % 6 = 0 /\ ~scroll /\ scrolled = 0
    BY <1>1, <1>7, I2cPrints
  <2>3. Len(drawn') = Len(drawn) + 1
    <3>1. drawn \in Seq(Cells)  BY DEF DisplaySound, DisplayTypeOK
    <3> QED  BY <1>1, <1>4, <3>1, Appended
  <2>4. Before' = Before - 1  BY <1>2, <1>3, <2>2 DEF Before
  <2>5. ~(Before' >= 1) /\ Len(drawn') + Before' = 0  BY <2>2, <2>3, <2>4
  <2>6. Sixes'
    <3>1. CursorPos' = CursorPos /\ window'.col = 0 /\ window'.page = LineNum'
      BY <1>1, <1>2, <1>7
    <3>2. Synced' /\ ramPointer' % 6 = 0  BY <1>2, <1>4, <3>1 DEF Synced
    <3> QED  BY <1>2, <2>2, <2>5, <3>1, <3>2 DEF Sixes
  <2>7. turns' <= MAX_LINE =>
           turns <= MAX_LINE /\ LineNum' = turns' /\ Here' \in Nat /\ Here < Here'
    <3>1. SUFFICES ASSUME turns' <= MAX_LINE
                   PROVE  turns <= MAX_LINE /\ LineNum' = turns' /\ Here' \in Nat /\ Here < Here'
      OBVIOUS
    <3>2. turns <= MAX_LINE /\ turns < 7  BY <1>2, <3>1 DEF MAX_LINE
    <3>3. LineNum = turns  BY <1>1, <1>7, <3>2, DrawnIs
    <3> QED  BY <1>2, <3>2, <3>3
  <2>8. Ascending' /\ OnScreen'  BY <1>1, <1>2, <1>7, <2>7, OneMoreDrawn
  <2> QED  BY <1>5, <1>6, <2>1, <2>6, <2>8 DEF DisplaySound
<1>8. CASE driver = "spi"
  <2>1. Sixes' /\ Ascending' /\ OnScreen'  BY <1>2, <1>8, SpiSide
  <2>2. loaded /\ Left \in {6, 16, 31, 42, 54, 57}
    <3>1. /\ loaded /\ Left \in Words \cup {6, 16, 31, 42, 54, 57}
          /\ Left \in Words => Head(calls) = Letter("a")
      BY <1>1, <1>8, SpiPrints
    <3>2. Head(calls) # Letter("a")  BY <1>1 DEF Letter, NL
    <3> QED  BY <3>1, <3>2
  <2>3. /\ Left = 57 => LineNum = 0
        /\ Left = 54 => LineNum = 1
        /\ Left = 42 => LineNum = 2
        /\ Left = 31 => LineNum = 4
        /\ Left = 16 => LineNum = 5
        /\ Left = 6  => LineNum = 6
    BY <1>8, <2>2 DEF DisplaySound, Timetable, Playing, Stands
  <2>4. CursorPos' = 0 /\ LineNum' = LineNum + 1 /\ Here < Here'
    <3>1. LineNum < 7  BY <2>2, <2>3
    <3>2. CursorPos' = 0  BY <1>1, <1>8
    <3> QED  BY <1>2, <3>1, <3>2
  <2>5. /\ loaded' /\ Left' \in {5, 15, 30, 41, 53, 56}
        /\ Left' = 56 => Stands(1, 0)'
        /\ Left' = 53 => Stands(2, 0)'
        /\ Left' = 41 => Stands(3, 0)'
        /\ Left' = 30 => Stands(5, 0)'
        /\ Left' = 15 => Stands(6, 0)'
    BY <1>2, <1>3, <2>2, <2>3, <2>4 DEF Stands
  <2>6. Timetable'  BY <2>5 DEF Timetable, Stands
  <2>7. SpiCursor'
    <3>1. Synced' /\ Column' = CursorPos'  BY <1>2, <2>4 DEF Synced
    <3> QED  BY <2>5, <3>1 DEF SpiCursor
  <2>8. Lettering'
    <3>1. loaded /\ Left \in 4..64 => Left' \in 4..64 /\ (Left' >= 6 => Left >= 6 /\ Here <= Here')
      BY <1>2, <1>3, <2>2, <2>4
    <3>2. driver' = driver /\ screen' = screen /\ scrolled' = scrolled /\ loaded' = loaded
      BY <1>2
    <3>3. Left \in Nat /\ Left' \in Nat  BY <1>3
    <3>4. Here \in Nat /\ Here' \in Nat  BY <1>2, Zenon
    <3> QED  BY <1>8, <3>1, <3>2, <3>3, <3>4, SpiLettersStay
  <2> QED  BY <1>5, <1>6, <2>1, <2>6, <2>7, <2>8 DEF DisplaySound
<1> QED  BY <1>7, <1>8

\* Only the I2C driver ever makes room.
LEMMA MakeRoomIsSound ==
  ASSUME DisplaySound, MakeRoom
  PROVE  DisplaySound'
<1>1. /\ calls # <<>> /\ Head(calls).op = "char" /\ LineIsFull /\ GoToNextLine
      /\ CursorPos' = 0 /\ UNCHANGED <<calls, drawn>>
  BY DEF MakeRoom
<1>2. /\ LineNum' \in 0..MAX_LINE /\ LineNum' \in 0..7 /\ turns' = turns + 1 /\ turns \in Nat
      /\ window' = [page |-> LineNum', col |-> 0] /\ ramPointer' = 0
      /\ Column' = 0 /\ Here' = 128 * LineNum' /\ Here' \in Nat /\ Here \in Nat
      /\ LineNum < 7 => LineNum' = LineNum + 1 /\ Here < Here'
      /\ UNCHANGED <<driver, loaded, screen, scroll, writes, scrolled, message>>
  BY <1>1, NextLine
<1>3. driver # "spi"
  <2>1. CursorPos \in 0..127 /\ CursorPos + 5 >= 128
    <3>1. CursorPos \in 0..127  BY <1>1, PrintsHere
    <3> QED  BY <1>1, <3>1 DEF LineIsFull, FontSize, MAX_SEG
  <2>2. driver = "spi" => CursorPos <= 101  BY <1>1, SpiPrints
  <2> QED  BY <2>1, <2>2
<1>4. DisplayTypeOK'
  <2>1. CursorPos' \in 0..MAX_SEG - 1  BY <1>1 DEF MAX_SEG
  <2>2. turns' \in Nat  BY <1>2
  <2>3. window' \in [page : 0..MAX_LINE, col : 0..MAX_SEG - 1] /\ ramPointer' \in Nat
    BY <1>2 DEF MAX_SEG
  <2> QED  BY <1>1, <1>2, <2>1, <2>2, <2>3
           DEF DisplaySound, DisplayTypeOK, Shown, Chars, CallSet
<1>5. /\ Left' = Left /\ Before' = Before /\ Ready' = Ready /\ Playing' = Playing
      /\ \A r : Due(r)' = Due(r)
  BY <1>1, <1>2 DEF Left, Before, Due, Ready, Playing
<1>6. I2cCalls' /\ SpiCalls'
  <2>1. TextDue' = TextDue /\ WriteDue' = WriteDue /\ ProbeDue' = ProbeDue
    BY <1>1, <1>2, <1>5 DEF TextDue, WriteDue, ProbeDue, Left, Before, Due
  <2> QED  BY <1>2, <1>3, <1>5, <2>1, I2cSide DEF DisplaySound, I2cCalls
<1>7. Timetable' /\ SpiCursor' /\ Lettering'  BY <1>2, <1>3, I2cSide, LettersStay
<1>8. /\ Ready /\ Printing /\ Len(drawn) + Before = 0 /\ ~scroll /\ scrolled = 0
      /\ Before \in Int
  BY <1>1, <1>3, I2cPrints
<1>9. Sixes'
  <2>1. window'.col = 0 /\ window'.page = LineNum'  BY <1>2
  <2>2. Synced' /\ ramPointer' % 6 = 0 /\ CursorPos' % 6 = 0  BY <1>1, <1>2, <2>1 DEF Synced
  <2>3. ~(Before' >= 1) /\ Len(drawn') + Before' = 0  BY <1>1, <1>5, <1>8 DEF Printing
  <2> QED  BY <1>2, <1>8, <2>1, <2>2, <2>3 DEF Sixes
<1>10. ASSUME turns' <= MAX_LINE
       PROVE  /\ turns <= MAX_LINE /\ LineNum' = turns' /\ Here < Here'
  <2>1. turns <= MAX_LINE /\ turns < 7  BY <1>2, <1>10 DEF MAX_LINE
  <2>2. LineNum = turns  BY <1>1, <1>3, <2>1, DrawnIs
  <2> QED  BY <1>2, <2>1, <2>2
<1>11. Ascending'
  <2>1. turns' <= MAX_LINE => turns <= MAX_LINE  BY <1>10
  <2> QED  BY <1>1, <1>3, <2>1 DEF DisplaySound, Ascending, Place
<1>12. OnScreen'
  <2>1. SUFFICES ASSUME turns' <= MAX_LINE, NEW i \in 1..Len(drawn)
                 PROVE  /\ Place(drawn[i]) < Here'
                        /\ message[i] # NL =>
                             /\ Place(drawn[i]) + 6 <= Here'
                             /\ drawn[i] \in DOMAIN screen
                             /\ screen[drawn[i]] = [c |-> message[i], k |-> 0]
    BY <1>1, <1>2, <1>10 DEF OnScreen, Place
  <2>2. /\ Place(drawn[i]) \in Int /\ Place(drawn[i]) < Here
        /\ message[i] # NL =>
             /\ Place(drawn[i]) + 6 <= Here
             /\ drawn[i] \in DOMAIN screen /\ screen[drawn[i]] = [c |-> message[i], k |-> 0]
    BY <1>1, <1>3, <1>10, <2>1, DrawnIs
  <2>3. PICK p, h, g : p = Place(drawn[i]) /\ h = Here /\ g = Here'  OBVIOUS
  <2>4. p \in Int /\ h \in Nat /\ g \in Nat /\ p < h /\ h < g /\ (message[i] # NL => p + 6 <= h)
    BY <1>2, <1>10, <2>1, <2>2, <2>3, Zenon
  <2>5. p < g /\ (message[i] # NL => p + 6 <= g)  BY <2>4
  <2> QED  BY <2>2, <2>3, <2>5, Zenon
<1> QED  BY <1>4, <1>6, <1>7, <1>9, <1>11, <1>12 DEF DisplaySound

\* What the controller shows is shown in a cell.
LEMMA ScreenTyped ==
  ASSUME DisplayTypeOK, NEW x \in DOMAIN screen
  PROVE  /\ x \in Cells /\ screen[x] \in Shown /\ x[1] \in 0..7 /\ x[2] \in 0..127
         /\ screen[x].k \in Nat /\ Place(<<x[1], First(x)>>) \in Int
<1>1. x \in Cells /\ screen[x] \in Shown  BY DEF DisplayTypeOK
<1>2. x[1] \in 0..7 /\ x[2] \in 0..127
  <2>1. Cells = (0..7) \X (0..127)  BY DEF Cells, MAX_LINE, MAX_SEG
  <2> QED  BY <1>1, <2>1
<1>3. screen[x].k \in Nat  BY <1>1 DEF Shown
<1>4. Place(<<x[1], First(x)>>) \in Int  BY <1>2, <1>3 DEF Place, First, MAX_SEG
<1> QED  BY <1>1, <1>2, <1>3, <1>4

\* A letter of a text is nothing that is left of a cell without one.
LEMMA LettersShow ==
  ASSUME NEW c \in Chars
  PROVE  c \notin NoLetters
<1>1. CASE c \in UNION {Letters(text) : text \in Texts}
  <2>1. PICK text \in Texts : c \in Letters(text)  BY <1>1
  <2> QED  BY <2>1, TextsAssumption
<1>2. CASE c \in {"E", "m", "b", "e", "T", "r", "o", "n", "i", "c", "X", "a", NL}
  BY <1>2 DEF NoLetters, NL
<1> QED  BY <1>1, <1>2 DEF Chars

\* There is room for six columns where a character is printed.
LEMMA Room ==
  ASSUME DisplaySound, calls # <<>>, Head(calls).op = "char", ~LineIsFull
  PROVE  CursorPos + 6 \in 0..127 /\ Column + 6 < 128 /\ Column \in Nat
<1>1. CursorPos \in 0..127 /\ Column \in Nat /\ Column <= CursorPos  BY PrintsHere
<1>2. CursorPos + 5 < 128  BY <1>1 DEF LineIsFull, FontSize, MAX_SEG
<1>3. CursorPos <= 121
  <2>1. CASE driver = "spi"
    <3>1. CursorPos <= 101  BY <2>1, SpiPrints
    <3> QED  BY <1>1, <3>1
  <2>2. CASE driver # "spi"
    <3>1. CursorPos % 6 = 0  BY <2>2, I2cPrints
    <3> QED  BY <1>1, <1>2, <3>1
  <2> QED  BY <2>1, <2>2
<1> QED  BY <1>1, <1>3

\* The cells the character takes.
Fresh(x) == x[1] = LineNum /\ x[2] \in Column..Column + 5

\* What the screen shows once the character is printed.
LEMMA Printed ==
  ASSUME DisplaySound, PrintChar, NEW c, c = Head(calls).c
  PROVE  /\ DOMAIN screen' \subseteq Cells /\ screen' \in [DOMAIN screen' -> Shown] /\ c \in Chars
         /\ \A x \in DOMAIN screen : ~Fresh(x) => x \in DOMAIN screen' /\ screen'[x] = screen[x]
         /\ \A x \in DOMAIN screen' : Fresh(x) => \E k \in 0..4 : x = <<LineNum, Column + k>>
         /\ \A x \in DOMAIN screen' : ~Fresh(x) => x \in DOMAIN screen
         /\ \A k \in 0..4 : /\ <<LineNum, Column + k>> \in DOMAIN screen'
                            /\ screen'[<<LineNum, Column + k>>] = [c |-> c, k |-> k]
<1> DEFINE place(k) == <<LineNum, Column + k>>
           lit == [x \in {At(k) : k \in 0..FontSize - 1} |->
                     [c |-> c, k |-> CHOOSE k \in 0..FontSize - 1 : At(k) = x]]
<1>1. /\ calls # <<>> /\ Head(calls).op = "char" /\ ~LineIsFull
      /\ Show(lit, {At(5)})
  BY DEF PrintChar, Call, FontSize
<1>2. Column + 6 < 128 /\ Column \in Nat  BY <1>1, Room
<1>3. LineNum \in 0..7 /\ \A k \in Nat : Column + k < 128 => At(k) = place(k) /\ At(k) \in Cells
  BY <1>1, PrintsHere
<1>4. \A k \in 0..5 : At(k) = place(k) /\ place(k) \in Cells
  <2>1. \A k \in 0..5 : k \in Nat /\ Column + k < 128  BY <1>2
  <2> QED  BY <1>3, <2>1
<1>5. \A j, k \in 0..5 : place(j) = place(k) => j = k
  <2>1. \A j, k \in 0..5 : place(j)[2] = place(k)[2] => j = k  BY <1>2
  <2> QED  BY <2>1
<1>6. \A x \in Cells : Fresh(x) <=> \E k \in 0..5 : x = place(k)
  <2>1. ASSUME NEW x \in Cells, Fresh(x) PROVE \E k \in 0..5 : x = place(k)
    <3>1. x[1] = LineNum /\ x[2] \in Column..Column + 5 /\ x = <<x[1], x[2]>>
      BY <2>1, CellsAre DEF Fresh
    <3>2. x[2] - Column \in 0..5 /\ Column + (x[2] - Column) = x[2]  BY <1>2, <3>1
    <3>3. x = place(x[2] - Column)  BY <3>1, <3>2
    <3> QED  BY <3>2, <3>3
  <2>2. ASSUME NEW k \in 0..5 PROVE Fresh(place(k))
    <3>1. Column + k \in Column..Column + 5  BY <1>2
    <3> QED  BY <3>1 DEF Fresh
  <2> QED  BY <2>1, <2>2
<1>7. DOMAIN lit = {place(k) : k \in 0..4}
  <2>1. DOMAIN lit = {At(k) : k \in 0..4}  BY DEF FontSize
  <2>2. \A k \in 0..4 : At(k) = place(k)  BY <1>4
  <2> HIDE DEF lit, place
  <2>3. {At(k) : k \in 0..4} = {place(k) : k \in 0..4}  BY <2>2
  <2> QED  BY <2>1, <2>3
<1>8. ASSUME NEW k \in 0..4 PROVE lit[place(k)] = [c |-> c, k |-> k]
  <2> DEFINE which == CHOOSE j \in 0..4 : At(j) = place(k)
  <2>1. At(k) = place(k) /\ k \in 0..4  BY <1>4
  <2>2. \A j \in 0..4 : At(j) = place(j) /\ j \in 0..5  BY <1>4
  <2>3. which \in 0..4 /\ At(which) = place(k)  BY <2>1
  <2> HIDE DEF which
  <2>4. which = k  BY <1>5, <2>2, <2>3
  <2>5. place(k) \in {At(j) : j \in 0..4}  BY <2>1
  <2>6. lit[place(k)] = [c |-> c, k |-> which]  BY <2>5 DEF which, FontSize
  <2> QED  BY <2>4, <2>6
<1> HIDE DEF lit, place
<1>9. c \in Chars
  <2>1. Head(calls) \in CallSet  BY <1>1, HeadIs DEF DisplaySound
  <2> QED  BY <1>1, <2>1, CallShapes
<1>10. DOMAIN lit \subseteq Cells  BY <1>4, <1>7
<1>11. ASSUME NEW x \in DOMAIN lit PROVE lit[x] \in Shown
  <2>1. PICK k \in 0..4 : x = place(k)  BY <1>7
  <2>2. [c |-> c, k |-> k] \in Shown  BY <1>9 DEF Shown
  <2> QED  BY <1>8, <2>1, <2>2
<1>12. /\ DOMAIN screen' = (DOMAIN screen \ {At(5)}) \cup DOMAIN lit
       /\ \A x \in DOMAIN lit : screen'[x] = lit[x]
       /\ \A x \in DOMAIN screen \ {At(5)} : x \notin DOMAIN lit => screen'[x] = screen[x]
       /\ DOMAIN screen' \subseteq Cells /\ screen' \in [DOMAIN screen' -> Shown]
  BY <1>1, <1>10, <1>11, Shows DEF DisplaySound
<1>13. At(5) = place(5)  BY <1>4
<1>14. ASSUME NEW x \in DOMAIN screen, ~Fresh(x)
       PROVE  x \in DOMAIN screen' /\ screen'[x] = screen[x]
  <2>1. x \in Cells  BY DEF DisplaySound, DisplayTypeOK
  <2>2. \A k \in 0..5 : x # place(k)  BY <1>6, <1>14, <2>1
  <2>3. x # At(5) /\ x \notin DOMAIN lit  BY <1>7, <1>13, <2>2
  <2> QED  BY <1>12, <2>3
<1>15. ASSUME NEW x \in DOMAIN screen', Fresh(x) PROVE \E k \in 0..4 : x = place(k)
  <2>1. PICK k \in 0..5 : x = place(k)  BY <1>6, <1>12, <1>15
  <2>2. CASE x \in DOMAIN lit  BY <1>7, <2>2
  <2>3. CASE x # At(5)
    <3>1. k # 5  BY <1>13, <2>1, <2>3
    <3> QED  BY <2>1, <3>1
  <2> QED  BY <1>12, <2>2, <2>3
<1>16. ASSUME NEW x \in DOMAIN screen', ~Fresh(x) PROVE x \in DOMAIN screen
  <2>1. \A k \in 0..5 : x # place(k)  BY <1>6, <1>12, <1>16
  <2>2. x \notin DOMAIN lit  BY <1>7, <2>1
  <2> QED  BY <1>12, <2>2
<1>17. \A k \in 0..4 : place(k) \in DOMAIN screen' /\ screen'[place(k)] = [c |-> c, k |-> k]
  BY <1>7, <1>8, <1>12
<1> QED  BY <1>9, <1>12, <1>14, <1>15, <1>16, <1>17 DEF place

\* A letter that was whole, and that the new one is not written over, stays whole.
LEMMA OldLetters ==
  ASSUME DisplaySound, PrintChar, NEW x \in Glyphs', ~Fresh(x)
  PROVE  /\ x \in Glyphs /\ screen'[x] = screen[x] /\ First(x)' = First(x)
         /\ Still(x) => Whole(x)'
<1> DEFINE c == Head(calls).c
<1>1. calls # <<>> /\ Head(calls).op = "char" /\ ~LineIsFull  BY DEF PrintChar, Call
<1>2. /\ \A y \in DOMAIN screen : ~Fresh(y) => y \in DOMAIN screen' /\ screen'[y] = screen[y]
      /\ \A y \in DOMAIN screen' : ~Fresh(y) => y \in DOMAIN screen
  BY Printed
<1>3. /\ Here = 128 * LineNum + Column /\ LineNum \in 0..7
  BY <1>1, PrintsHere
<1>4. Column \in Nat  BY <1>1, Room
<1>5. x \in DOMAIN screen' /\ screen'[x].c \notin NoLetters  BY DEF Glyphs
<1>6. x \in DOMAIN screen /\ screen'[x] = screen[x]  BY <1>2, <1>5
<1>7. x \in Glyphs  BY <1>5, <1>6 DEF Glyphs
<1>8. First(x)' = First(x)  BY <1>6 DEF First
<1>9. x[1] \in 0..7 /\ x[2] \in 0..127 /\ screen[x].k \in Nat
  BY <1>6, ScreenTyped DEF DisplaySound
<1>10. ASSUME Still(x)
       PROVE  Whole(x)'
  <2>1. Whole(x)  BY <1>7, <1>10 DEF DisplaySound, Lettering
  <2>2. screen[x].k < 5 /\ First(x) = x[2] - screen[x].k /\ First(x) \in Int
    BY <1>9, <2>1 DEF Whole, First, FontSize
  <2>3. ASSUME NEW j \in 0..4 PROVE ~Fresh(<<x[1], First(x) + j>>)
    <3>1. CASE driver = "spi"
      <4>1. Left >= 6
        <5>1. Left \in Words \cup {6, 16, 31, 42, 54, 57}  BY <1>1, <3>1, SpiPrints
        <5> QED  BY <5>1 DEF Words
      <4>2. Place(<<x[1], First(x)>>) + 6 <= Here
        BY <1>7, <1>10, <3>1, <4>1 DEF DisplaySound, Lettering
      <4>3. Place(<<x[1], First(x)>>) = 128 * x[1] + First(x)  BY DEF Place, MAX_SEG
      <4>4. 128 * x[1] + First(x) + 6 <= 128 * LineNum + Column  BY <1>3, <4>2, <4>3
      <4>5. PICK f, l : f = First(x) /\ l = x[1]  OBVIOUS
      <4>6. f \in Int /\ l \in 0..7 /\ 128 * l + f + 6 <= 128 * LineNum + Column
        BY <1>9, <2>2, <4>4, <4>5, Zenon
      <4>7. ~(l = LineNum /\ f + j \in Column..Column + 5)  BY <1>3, <1>4, <4>6
      <4> QED  BY <4>5, <4>7 DEF Fresh
    <3>2. CASE driver # "spi"
      <4>1. First(x) % 6 = 0  BY <1>7, <3>2 DEF DisplaySound, Lettering
      <4>2. Column % 6 = 0
        <5>1. window.col = 0 /\ ramPointer % 6 = 0  BY <1>1, <3>2, I2cPrints
        <5>2. ramPointer \in Nat  BY DEF DisplaySound, DisplayTypeOK
        <5> QED  BY <5>1, <5>2 DEF Column
      <4>3. PICK f, l, k : f = First(x) /\ l = x[1] /\ k = screen[x].k  OBVIOUS
      <4>4. f \in Int /\ k \in Nat /\ k < 5 /\ f % 6 = 0 /\ x[2] = f + k
        BY <1>9, <2>2, <4>1, <4>3
      <4>5. ASSUME l = LineNum, f + j \in Column..Column + 5 PROVE FALSE
        <5>1. f = Column  BY <1>4, <4>2, <4>4, <4>5
        <5>2. x[2] \in Column..Column + 5  BY <1>4, <4>4, <5>1
        <5> QED  BY <4>3, <4>5, <5>2 DEF Fresh
      <4> QED  BY <4>3, <4>5 DEF Fresh
    <3> QED  BY <3>1, <3>2
  <2>4. ASSUME NEW j \in 0..FontSize - 1
        PROVE  /\ <<x[1], First(x) + j>> \in DOMAIN screen'
               /\ screen'[<<x[1], First(x) + j>>] = [c |-> screen'[x].c, k |-> j]
    <3> DEFINE y == <<x[1], First(x) + j>>
    <3>1. y \in DOMAIN screen /\ screen[y] = [c |-> screen[x].c, k |-> j]
      BY <2>1 DEF Whole
    <3>2. ~Fresh(y)  BY <2>3 DEF FontSize
    <3> HIDE DEF y
    <3>3. y \in DOMAIN screen' /\ screen'[y] = screen[y]  BY <1>2, <3>1, <3>2
    <3> QED  BY <1>6, <3>1, <3>3 DEF y
  <2>5. screen'[x].k < FontSize /\ 0 <= First(x)' /\ First(x)' + FontSize < MAX_SEG
    BY <1>6, <1>8, <2>1 DEF Whole
  <2> QED  BY <1>8, <2>4, <2>5 DEF Whole
<1> QED  BY <1>6, <1>7, <1>8, <1>10

\* The new one is whole.
LEMMA NewLetter ==
  ASSUME DisplaySound, PrintChar, NEW x \in Glyphs', Fresh(x)
  PROVE  x[1] = LineNum /\ First(x)' = Column /\ Whole(x)'
<1> DEFINE c == Head(calls).c
<1>1. calls # <<>> /\ Head(calls).op = "char" /\ ~LineIsFull  BY DEF PrintChar, Call
<1>2. /\ \A y \in DOMAIN screen' : Fresh(y) => \E k \in 0..4 : y = <<LineNum, Column + k>>
      /\ \A k \in 0..4 : /\ <<LineNum, Column + k>> \in DOMAIN screen'
                         /\ screen'[<<LineNum, Column + k>>] = [c |-> c, k |-> k]
  BY Printed
<1> HIDE DEF c
<1>3. x \in DOMAIN screen'  BY DEF Glyphs
<1>4. PICK k \in 0..4 : x = <<LineNum, Column + k>>  BY <1>2, <1>3
<1>5. screen'[x] = [c |-> c, k |-> k]  BY <1>2, <1>4
<1>6. Column + 6 < 128 /\ Column \in Nat  BY <1>1, Room
<1>7. x[1] = LineNum /\ x[2] = Column + k  BY <1>4
<1>8. First(x)' = x[2] - k  BY <1>5 DEF First
<1>9. First(x)' = Column  BY <1>6, <1>7, <1>8
<1>10. screen'[x].k < FontSize /\ 0 <= First(x)' /\ First(x)' + FontSize < MAX_SEG
  <2>1. screen'[x].k = k  BY <1>5
  <2> QED  BY <1>6, <1>9, <2>1 DEF FontSize, MAX_SEG
<1>11. ASSUME NEW j \in 0..FontSize - 1
       PROVE  /\ <<x[1], First(x)' + j>> \in DOMAIN screen'
              /\ screen'[<<x[1], First(x)' + j>>] = [c |-> screen'[x].c, k |-> j]
  <2>1. j \in 0..4 /\ <<x[1], First(x)' + j>> = <<LineNum, Column + j>>
    BY <1>7, <1>9 DEF FontSize
  <2>2. screen'[x].c = c  BY <1>5
  <2> QED  BY <1>2, <2>1, <2>2
<1>12. Whole(x)'  BY <1>10, <1>11 DEF Whole
<1> QED  BY <1>7, <1>9, <1>12

\* A character is printed behind all others, and over none in part.
LEMMA PrintCharIsSound ==
  ASSUME DisplaySound, PrintChar
  PROVE  DisplaySound'
<1> DEFINE c == Head(calls).c
<1>1. /\ Call("char") /\ calls # <<>> /\ Head(calls).op = "char" /\ Head(calls).c # NL
      /\ ~LineIsFull
      /\ ramPointer' = (ramPointer + 6) % Size /\ CursorPos' = CursorPos + 6
      /\ drawn' = Append(drawn, At(0))
      /\ UNCHANGED <<driver, LineNum, loaded, window, scroll, writes, scrolled, message, turns>>
  <2>1. /\ ramPointer' = (ramPointer + FontSize + 1) % Size
        /\ CursorPos' = CursorPos + FontSize + 1
    BY DEF PrintChar
  <2>2. ramPointer \in Nat /\ CursorPos \in Nat
    <3>1. CursorPos \in 0..127 /\ ramPointer \in Nat  BY HereTyped DEF DisplaySound
    <3> QED  BY <3>1
  <2>3. ramPointer + FontSize + 1 = ramPointer + 6 /\ CursorPos + FontSize + 1 = CursorPos + 6
    BY <2>2 DEF FontSize
  <2> QED  BY <2>1, <2>3 DEF PrintChar, Call
<1>2. CursorPos + 6 \in 0..127 /\ Column + 6 < 128 /\ Column \in Nat  BY <1>1, Room
<1>3. /\ DOMAIN screen' \subseteq Cells /\ screen' \in [DOMAIN screen' -> Shown] /\ c \in Chars
      /\ \A x \in DOMAIN screen : ~Fresh(x) => x \in DOMAIN screen' /\ screen'[x] = screen[x]
      /\ \A x \in DOMAIN screen' : Fresh(x) => \E k \in 0..4 : x = <<LineNum, Column + k>>
      /\ \A x \in DOMAIN screen' : ~Fresh(x) => x \in DOMAIN screen
      /\ \A k \in 0..4 : /\ <<LineNum, Column + k>> \in DOMAIN screen'
                         /\ screen'[<<LineNum, Column + k>>] = [c |-> c, k |-> k]
  BY Printed
<1>4. /\ Synced /\ LineNum \in 0..7 /\ CursorPos \in 0..127 /\ Column <= CursorPos
      /\ window.page = LineNum /\ window.page \in 0..7 /\ window.col \in 0..127
      /\ ramPointer \in Nat /\ Here = 128 * LineNum + Column
      /\ \A k \in Nat : Column + k < 128 =>
           /\ At(k) = <<LineNum, Column + k>> /\ At(k) \in Cells /\ Place(At(k)) = Here + k
           /\ (ramPointer + k) % Size = ramPointer + k
  BY <1>1, PrintsHere
<1> HIDE DEF c
<1>5. /\ At(0) \in Cells /\ At(0) = <<LineNum, Column>> /\ Place(At(0)) = Here
      /\ ramPointer' = ramPointer + 6
  <2>1. 0 \in Nat /\ Column + 0 < 128 /\ Column + 0 = Column  BY <1>2
  <2>2. At(0) = <<LineNum, Column + 0>> /\ At(0) \in Cells  BY <1>4, <2>1
  <2>3. 6 \in Nat  OBVIOUS
  <2>4. (ramPointer + 6) % Size = ramPointer + 6  BY <1>2, <1>4, <2>3
  <2>5. Place(At(0)) = Here + 0 /\ Here \in Int  BY <1>2, <1>4, <2>1
  <2> QED  BY <1>1, <2>1, <2>2, <2>4, <2>5
<1>6. Column' = Column + 6 /\ Here' = Here + 6 /\ Here \in Nat /\ Here' \in Nat
  <2>1. Column = window.col + ramPointer /\ Column' = window'.col + ramPointer'  BY DEF Column
  <2>2. Column' = Column + 6
    <3>1. PICK w, p : w = window.col /\ p = ramPointer  OBVIOUS
    <3>2. w \in Int /\ p \in Int  BY <1>4, <3>1
    <3>3. Column = w + p /\ Column' = w + (p + 6)  BY <1>1, <1>5, <2>1, <3>1, Zenon
    <3> QED  BY <3>2, <3>3
  <2>3. LineNum' \in 0..7 /\ window.col' \in 0..127 /\ ramPointer' \in Nat  BY <1>1, <1>4, <1>5
  <2>4. Here' = 128 * LineNum' + Column'  BY <2>3, HereNext
  <2> QED  BY <1>1, <1>2, <1>4, <2>2, <2>4
<1>7. Synced'  BY <1>1, <1>2, <1>4, <1>6 DEF Synced
<1>8. /\ calls' \in Seq(CallSet) /\ Left \in Nat /\ Left >= 1 /\ Left' = Left - 1
  BY <1>1, CallTakes DEF DisplaySound
<1>9. DisplayTypeOK'
  <2>1. CursorPos' \in 0..MAX_SEG - 1  BY <1>1, <1>2 DEF MAX_SEG
  <2>2. drawn' \in Seq(Cells)
    <3>1. drawn \in Seq(Cells)  BY DEF DisplaySound, DisplayTypeOK
    <3> QED  BY <1>1, <1>5, <3>1, Appended
  <2>3. ramPointer' \in Nat  BY <1>4, <1>5
  <2> QED  BY <1>1, <1>3, <1>8, <2>1, <2>2, <2>3
           DEF DisplaySound, DisplayTypeOK, Shown, Chars, CallSet
<1>10. I2cCalls' /\ SpiCalls'  BY <1>1, ShapeKept
<1>11. ASSUME NEW x \in Glyphs', Fresh(x)
       PROVE  Whole(x)' /\ First(x)' = Column /\ Place(<<x[1], First(x)>>)' + 6 <= Here'
  <2>1. x[1] = LineNum /\ First(x)' = Column /\ Whole(x)'  BY <1>11, NewLetter
  <2>2. Place(<<x[1], First(x)>>)' = 128 * LineNum + Column  BY <2>1 DEF Place, MAX_SEG
  <2> QED  BY <1>4, <1>6, <2>1, <2>2
<1>12. CASE driver # "spi"
  <2>1. Timetable' /\ SpiCursor'  BY <1>1, <1>12, I2cSide
  <2>2. /\ Ready /\ Printing /\ Len(drawn) \in Nat /\ Before = Left - Len(message)
        /\ Before \in Int /\ Len(message) \in Nat /\ Len(drawn) + Before = 0
        /\ CursorPos % 6 = 0 /\ window.col = 0 /\ ramPointer % 6 = 0 /\ ~scroll /\ scrolled = 0
    BY <1>1, <1>12, I2cPrints
  <2>3. Len(drawn') = Len(drawn) + 1
    <3>1. drawn \in Seq(Cells)  BY DEF DisplaySound, DisplayTypeOK
    <3> QED  BY <1>1, <1>5, <3>1, Appended
  <2>4. Before' = Before - 1  BY <1>1, <1>8, <2>2 DEF Before
  <2>5. ~(Before' >= 1) /\ Len(drawn') + Before' = 0  BY <2>2, <2>3, <2>4
  <2>6. Sixes'
    <3>1. CursorPos' % 6 = 0  BY <1>1, <1>4, <2>2
    <3>2. ramPointer' % 6 = 0  BY <1>4, <1>5, <2>2
    <3> QED  BY <1>1, <1>7, <2>2, <2>5, <3>1, <3>2 DEF Sixes
  <2>7. turns' <= MAX_LINE =>
          turns <= MAX_LINE /\ LineNum' = turns' /\ Here' \in Nat /\ Here < Here'
    <3>1. SUFFICES ASSUME turns' <= MAX_LINE
                   PROVE  turns <= MAX_LINE /\ LineNum' = turns' /\ Here' \in Nat /\ Here < Here'
      OBVIOUS
    <3>2. turns <= MAX_LINE  BY <1>1, <3>1
    <3>3. LineNum = turns  BY <1>1, <1>12, <3>2, DrawnIs
    <3> QED  BY <1>1, <1>6, <3>2, <3>3
  <2>8. ASSUME NEW x \in DOMAIN screen, Place(x) + 6 <= Here
        PROVE  x \in DOMAIN screen' /\ screen'[x] = screen[x]
    <3>1. ~Fresh(x)
      <4>1. x[1] \in 0..7 /\ x[2] \in 0..127  BY ScreenTyped DEF DisplaySound
      <4>2. 128 * x[1] + x[2] + 6 <= 128 * LineNum + Column  BY <1>4, <2>8 DEF Place, MAX_SEG
      <4> QED  BY <1>2, <1>4, <4>1, <4>2 DEF Fresh
    <3> QED  BY <1>3, <3>1
  <2>9. Here + 6 <= Here' /\ At(0) \in DOMAIN screen' /\ screen'[At(0)] = [c |-> c, k |-> 0]
    <3>1. <<LineNum, Column + 0>> \in DOMAIN screen' /\
          screen'[<<LineNum, Column + 0>>] = [c |-> c, k |-> 0]
      BY <1>3
    <3>2. At(0) = <<LineNum, Column + 0>>  BY <1>2, <1>5
    <3> QED  BY <1>6, <3>1, <3>2
  <2>10. turns \in Nat  BY DEF DisplaySound, DisplayTypeOK
  <2>11. Ascending' /\ OnScreen'
    BY <1>1, <1>12, <2>7, <2>8, <2>9, <2>10, OneMoreDrawn DEF c
  <2>12. Lettering'
    <3>1. ASSUME NEW x \in Glyphs' PROVE Whole(x)' /\ First(x)' % 6 = 0
      <4>1. CASE Fresh(x)
        <5>1. Column % 6 = 0  BY <1>4, <2>2 DEF Column
        <5> QED  BY <1>11, <4>1, <5>1
      <4>2. CASE ~Fresh(x)
        <5>1. x \in Glyphs /\ First(x)' = First(x) /\ (Still(x) => Whole(x)')
          BY <4>2, OldLetters
        <5>2. Still(x)  BY <2>2 DEF Still
        <5>3. First(x) % 6 = 0  BY <1>12, <5>1 DEF DisplaySound, Lettering
        <5> QED  BY <5>1, <5>2, <5>3
      <4> QED  BY <4>1, <4>2
    <3> QED  BY <1>1, <1>12, <3>1 DEF Lettering
  <2> QED  BY <1>9, <1>10, <2>1, <2>6, <2>11, <2>12 DEF DisplaySound
<1>13. CASE driver = "spi"
  <2>1. Sixes' /\ Ascending' /\ OnScreen'  BY <1>1, <1>13, SpiSide
  <2>2. loaded /\ Left \in Words /\ Column = CursorPos
    <3>1. /\ loaded /\ Left \in Words \cup {6, 16, 31, 42, 54, 57} /\ Column = CursorPos
          /\ Left \notin Words => Head(calls) = Letter(NL)
      BY <1>1, <1>13, SpiPrints
    <3>2. Head(calls) # Letter(NL)  BY <1>1 DEF Letter
    <3> QED  BY <3>1, <3>2
  <2>3. PICK r : r = Left  OBVIOUS
  <2>4. r \in Words /\ Left' = r - 1  BY <1>8, <2>2, <2>3
  <2>5. /\ r \in 57..64 => Stands(0, 6 * (64 - r))
        /\ r \in 54..56 => Stands(1, 6 * (56 - r))
        /\ r \in 42..53 => Stands(2, 6 * (53 - r))
        /\ r \in 31..40 => Stands(4, 35 + 6 * (40 - r))
        /\ r \in 16..29 => Stands(5, 23 + 6 * (29 - r))
        /\ r \in 6..14  => Stands(6, 37 + 6 * (14 - r))
    BY <1>13, <2>2, <2>3 DEF DisplaySound, Timetable, Playing
  <2>6. Timetable'
    <3>1. PICK p : p = CursorPos  OBVIOUS
    <3>2. PICK s : s = Left'  OBVIOUS
    <3>3. s = r - 1 /\ r \in Words /\ LineNum' = LineNum /\ CursorPos' = p + 6
      BY <1>1, <2>4, <3>1, <3>2
    <3>4. /\ s \in 57..64 => LineNum' = 0 /\ CursorPos' = 6 * (64 - s)
          /\ s \in 54..56 => LineNum' = 1 /\ CursorPos' = 6 * (56 - s)
          /\ s \in 42..53 => LineNum' = 2 /\ CursorPos' = 6 * (53 - s)
          /\ s # 41
          /\ s \in 31..40 => LineNum' = 4 /\ CursorPos' = 35 + 6 * (40 - s)
          /\ s # 30
          /\ s \in 16..29 => LineNum' = 5 /\ CursorPos' = 23 + 6 * (29 - s)
          /\ s # 15
          /\ s \in 6..14  => LineNum' = 6 /\ CursorPos' = 37 + 6 * (14 - s)
      BY <2>5, <3>1, <3>3 DEF Words, Stands
    <3> QED  BY <3>2, <3>4 DEF Timetable, Stands
  <2>7. SpiCursor'
    <3>1. Left' \in 6..63  BY <2>4 DEF Words
    <3>2. Column' = CursorPos'  BY <1>1, <1>6, <2>2
    <3>3. loaded'  BY <1>1, <2>2
    <3> QED  BY <1>7, <3>1, <3>2, <3>3 DEF SpiCursor
  <2>8. Lettering'
    <3>1. Left \in 7..64 /\ Left' \in 6..63  BY <2>3, <2>4 DEF Words
    <3>2. ASSUME NEW x \in Glyphs'
          PROVE  /\ Still(x)' => Whole(x)'
                 /\ Left' >= 6 /\ Still(x)' => Place(<<x[1], First(x)>>)' + 6 <= Here'
      <4>1. CASE Fresh(x)  BY <1>11, <4>1
      <4>2. CASE ~Fresh(x)
        <5>1. /\ x \in Glyphs /\ First(x)' = First(x) /\ (Still(x) => Whole(x)')
              /\ screen'[x] = screen[x]
          BY <4>2, OldLetters
        <5>2. Still(x)' = Still(x)  BY <1>1 DEF Still
        <5>3. ASSUME Still(x) PROVE Place(<<x[1], First(x)>>)' + 6 <= Here'
          <6>1. Place(<<x[1], First(x)>>) + 6 <= Here
            BY <1>13, <3>1, <5>1, <5>3 DEF DisplaySound, Lettering
          <6>2. Place(<<x[1], First(x)>>) \in Int
            <7>1. x \in DOMAIN screen  BY <5>1 DEF Glyphs
            <7> QED  BY <7>1, ScreenTyped DEF DisplaySound
          <6>3. Place(<<x[1], First(x)>>)' = Place(<<x[1], First(x)>>)  BY <5>1 DEF Place
          <6> QED  BY <1>6, <6>1, <6>2, <6>3
        <5> QED  BY <5>1, <5>2, <5>3
      <4> QED  BY <4>1, <4>2
    <3>3. loaded' /\ Left' \in 4..64  BY <1>1, <2>2, <3>1
    <3>4. driver' = "spi"  BY <1>1, <1>13
    <3> QED  BY <3>2, <3>3, <3>4 DEF Lettering
  <2> QED  BY <1>9, <1>10, <2>1, <2>6, <2>7, <2>8 DEF DisplaySound
<1> QED  BY <1>12, <1>13

-----------------------------------------------------------------------------
(* The other calls, and the scroll of the controller *)

\* What the I2C drivers never call.
LEMMA I2cOps ==
  ASSUME DisplaySound, driver # "spi", calls # <<>>, NEW op, Head(calls).op = op
  PROVE  op \in {"stop", "light", "fill", "home", "cursor", "char"}
<1>1. CASE ~Ready  BY <1>1, I2cHead
<1>2. CASE Ready
  <2>1. /\ Before \in Int /\ (Before <= 0 => op = "char")
        /\ Before >= 1 => Before \in 1..4 /\ Head(calls) = Due(Len(message) + Before)
    BY <1>2, I2cHead
  <2>2. WriteDue \/ ProbeDue  BY <1>2 DEF DisplaySound, I2cCalls
  <2>3. ASSUME Before >= 1
        PROVE  Due(Len(message) + Before).op \in {"stop", "fill", "home", "cursor"}
    <3>1. Before \in 1..4  BY <2>1, <2>3
    <3> QED  BY <2>2, <3>1 DEF WriteDue, ProbeDue, CursorTo
  <2> QED  BY <2>1, <2>3
<1> QED  BY <1>1, <1>2

\* The SPI driver has no letters on the display before and after its greeting.
LEMMA NothingLeft ==
  ASSUME DisplaySound, driver = "spi", screen' = screen, ~loaded \/ Left \notin 4..64
  PROVE  Lettering'
<1>1. Glyphs = {}  BY NoLetterYet
<1>2. Glyphs' = Glyphs  BY DEF Glyphs
<1> QED  BY <1>1, <1>2, NoLetterNow

\* The scroll starts on an empty display, ...
LEMMA ScrollingIsSound ==
  ASSUME DisplaySound, StartScrollHorizontal
  PROVE  DisplaySound'
<1>1. /\ Call("scroll") /\ calls # <<>> /\ Head(calls).op = "scroll" /\ scroll' = TRUE
      /\ UNCHANGED <<driver, LineNum, CursorPos, loaded, window, ramPointer, screen,
                     writes, scrolled, message, drawn, turns>>
  BY DEF StartScrollHorizontal, Call, history
<1>2. driver = "spi"
  <2>1. "scroll" \notin {"stop", "light", "fill", "home", "cursor", "char"}  OBVIOUS
  <2> QED  BY <1>1, <2>1, I2cOps
<1>3. loaded /\ Left = 66
  <2>1. "scroll" # "fill" /\ "scroll" # "cursor"  OBVIOUS
  <2> QED  BY <1>1, <1>2, <2>1, SpiHead
<1>4. calls' \in Seq(CallSet) /\ Left' = 65
  <2>1. calls' \in Seq(CallSet) /\ Left' = Left - 1  BY <1>1, CallTakes DEF DisplaySound
  <2> QED  BY <1>3, <2>1
<1>5. DisplayTypeOK'  BY <1>1, <1>4 DEF DisplaySound, DisplayTypeOK, Shown, Chars, CallSet
<1>6. I2cCalls' /\ SpiCalls'  BY <1>1, ShapeKept
<1>7. Sixes' /\ Ascending' /\ OnScreen'  BY <1>1, <1>2, SpiSide
<1>8. Timetable' /\ SpiCursor'  BY <1>1, <1>3, <1>4, OutsideTimetable, OutsideCursor
<1>9. Lettering'  BY <1>1, <1>2, <1>3, NothingLeft
<1> QED  BY <1>5, <1>6, <1>7, <1>8, <1>9 DEF DisplaySound

\* ... and is stopped before the logo.
LEMMA StoppingIsSound ==
  ASSUME DisplaySound, DeactivateScroll
  PROVE  DisplaySound'
<1>1. /\ Call("stop") /\ calls # <<>> /\ Head(calls).op = "stop" /\ scroll' = FALSE
      /\ UNCHANGED <<driver, LineNum, CursorPos, loaded, window, ramPointer, screen,
                     writes, scrolled, message, drawn, turns>>
  BY DEF DeactivateScroll, Call, history
<1>2. calls' \in Seq(CallSet) /\ Left \in Nat /\ Left >= 1 /\ Left' = Left - 1
  BY <1>1, CallTakes DEF DisplaySound
<1>3. DisplayTypeOK'  BY <1>1, <1>2 DEF DisplaySound, DisplayTypeOK, Shown, Chars, CallSet
<1>4. I2cCalls' /\ SpiCalls'  BY <1>1, ShapeKept
<1>5. CASE driver # "spi"
  <2>1. "stop" \notin {"char", "home", "cursor"}  OBVIOUS
  <2>2. Sixes' /\ Ascending' /\ OnScreen'  BY <1>1, <1>5, <2>1, CursorStays
  <2>3. Timetable' /\ SpiCursor' /\ Lettering'  BY <1>1, <1>5, I2cSide, LettersStay
  <2> QED  BY <1>3, <1>4, <2>2, <2>3 DEF DisplaySound
<1>6. CASE driver = "spi"
  <2>1. loaded /\ Left \in {3, 69}
    <3>1. "stop" # "fill" /\ "stop" # "cursor"  OBVIOUS
    <3> QED  BY <1>1, <1>6, <3>1, SpiHead
  <2>2. Left' \in {2, 68} /\ Left' \in Nat  BY <1>2, <2>1
  <2>3. Sixes' /\ Ascending' /\ OnScreen'  BY <1>1, <1>6, SpiSide
  <2>4. Timetable'  BY <2>2, OutsideTimetable
  <2>5. SpiCursor'  BY <1>1, <2>1, <2>2 DEF SpiCursor
  <2>6. Lettering'  BY <1>1, <1>6, <2>1, NothingLeft
  <2> QED  BY <1>3, <1>4, <2>3, <2>4, <2>5, <2>6 DEF DisplaySound
<1> QED  BY <1>5, <1>6

\* The logo fills the display.
LEMMA LogoIsSound ==
  ASSUME DisplaySound, SendLogo
  PROVE  DisplaySound'
<1> DEFINE lit == [x \in InWindow |-> [c |-> "logo", k |-> x[2]]]
<1>1. /\ Call("logo") /\ calls # <<>> /\ Head(calls).op = "logo" /\ Show(lit, {})
      /\ ramPointer' = (ramPointer + Cardinality(Cells)) % Size
      /\ UNCHANGED <<driver, LineNum, CursorPos, loaded, window, scroll, writes, scrolled, message,
                     drawn, turns>>
  BY DEF SendLogo, history, Call
<1>2. driver = "spi"
  <2>1. "logo" \notin {"stop", "light", "fill", "home", "cursor", "char"}  OBVIOUS
  <2> QED  BY <1>1, <2>1, I2cOps
<1>3. loaded /\ Left = 1
  <2>1. "logo" # "fill" /\ "logo" # "cursor"  OBVIOUS
  <2> QED  BY <1>1, <1>2, <2>1, SpiHead
<1>4. calls' \in Seq(CallSet) /\ Left' = 0
  <2>1. calls' \in Seq(CallSet) /\ Left' = Left - 1  BY <1>1, CallTakes DEF DisplaySound
  <2> QED  BY <1>3, <2>1
<1>5. window = [page |-> 0, col |-> 0] /\ ~scroll
  BY <1>2, <1>3 DEF DisplaySound, SpiCursor
<1>6. lit = [x \in Cells |-> [c |-> "logo", k |-> x[2]]]  BY <1>5, WholeWindow, Zenon
<1>7. DOMAIN lit = Cells /\ \A x \in Cells : lit[x] = [c |-> "logo", k |-> x[2]]  BY <1>6
<1> HIDE DEF lit
<1>8. DOMAIN lit \subseteq Cells /\ \A x \in DOMAIN lit : lit[x] \in Shown
  <2>1. \A x \in Cells : x[2] \in Nat  BY CellsAre DEF MAX_SEG
  <2>2. ASSUME NEW x \in Cells PROVE [c |-> "logo", k |-> x[2]] \in Shown
    BY <2>1 DEF Shown, NoLetters
  <2> QED  BY <1>7, <2>2
<1>9. /\ DOMAIN screen' = Cells /\ \A x \in Cells : screen'[x] = lit[x]
      /\ screen' \in [DOMAIN screen' -> Shown]
  <2>1. /\ DOMAIN screen' = (DOMAIN screen \ {}) \cup DOMAIN lit
        /\ \A x \in DOMAIN lit : screen'[x] = lit[x]
        /\ screen' \in [DOMAIN screen' -> Shown]
    BY <1>1, <1>8, Shows DEF DisplaySound
  <2>2. DOMAIN screen \subseteq Cells  BY DEF DisplaySound, DisplayTypeOK
  <2> QED  BY <1>7, <2>1, <2>2
<1>10. screen' = [x \in Cells |-> [c |-> "logo", k |-> x[2]]]  BY <1>7, <1>9
<1>11. DisplayTypeOK'
  <2>1. ramPointer' \in Nat  BY <1>1, CellsAre, PointerTyped DEF DisplaySound
  <2> QED  BY <1>1, <1>4, <1>9, <2>1 DEF DisplaySound, DisplayTypeOK, Shown, Chars, CallSet
<1>12. I2cCalls' /\ SpiCalls'  BY <1>1, ShapeKept
<1>13. Sixes' /\ Ascending' /\ OnScreen'  BY <1>1, <1>2, SpiSide
<1>14. Timetable'
  <2>1. Left' \in Nat /\ Left' <= 5  BY <1>4
  <2> QED  BY <2>1, OutsideTimetable
<1>15. SpiCursor'  BY <1>1, <1>3, <1>4, <1>5, <1>10 DEF SpiCursor, Cells
<1>16. Lettering'
  <2>1. ASSUME NEW x \in DOMAIN screen' PROVE screen'[x].c \in NoLetters
    BY <1>7, <1>9, <2>1 DEF NoLetters
  <2>2. Glyphs' = {}  BY <2>1 DEF Glyphs
  <2> QED  BY <2>2, NoLetterNow
<1> QED  BY <1>11, <1>12, <1>13, <1>14, <1>15, <1>16 DEF DisplaySound

\* The reset of the controller is the first call of the greeting.
LEMMA ResetIsSound ==
  ASSUME DisplaySound, Reset
  PROVE  DisplaySound'
<1>1. /\ Call("reset") /\ calls # <<>> /\ Head(calls).op = "reset" /\ scroll' = FALSE
      /\ window' = [page |-> 0, col |-> 0] /\ ramPointer' = 0
      /\ UNCHANGED <<driver, LineNum, CursorPos, loaded, screen,
                     writes, scrolled, message, drawn, turns>>
  BY DEF Reset, SetWindow, Call, history
<1>2. driver = "spi"
  <2>1. "reset" \notin {"stop", "light", "fill", "home", "cursor", "char"}  OBVIOUS
  <2> QED  BY <1>1, <2>1, I2cOps
<1>3. loaded /\ Left = 70
  <2>1. "reset" # "fill" /\ "reset" # "cursor"  OBVIOUS
  <2> QED  BY <1>1, <1>2, <2>1, SpiHead
<1>4. calls' \in Seq(CallSet) /\ Left' = 69
  <2>1. calls' \in Seq(CallSet) /\ Left' = Left - 1  BY <1>1, CallTakes DEF DisplaySound
  <2> QED  BY <1>3, <2>1
<1>5. DisplayTypeOK'
  <2>1. window' \in [page : 0..MAX_LINE, col : 0..MAX_SEG - 1]  BY <1>1 DEF MAX_LINE, MAX_SEG
  <2> QED  BY <1>1, <1>4, <2>1 DEF DisplaySound, DisplayTypeOK, Shown, Chars, CallSet
<1>6. I2cCalls' /\ SpiCalls'  BY <1>1, ShapeKept
<1>7. Sixes' /\ Ascending' /\ OnScreen'  BY <1>1, <1>2, SpiSide
<1>8. Timetable' /\ SpiCursor'  BY <1>1, <1>3, <1>4, OutsideTimetable, OutsideCursor
<1>9. Lettering'  BY <1>1, <1>2, <1>3, NothingLeft
<1> QED  BY <1>5, <1>6, <1>7, <1>8, <1>9 DEF DisplaySound

\* The scroll moves no letter below page 2.
LEMMA ScrollStepIsSound ==
  ASSUME DisplaySound, ScrollStep
  PROVE  DisplaySound'
<1> DEFINE From(x) == IF x[1] \in 0..2 THEN <<x[1], (x[2] + 1) % MAX_SEG>> ELSE x
<1>1. /\ scroll /\ scrolled' = scrolled + 1
      /\ screen' = [x \in {y \in Cells : From(y) \in DOMAIN screen} |-> screen[From(x)]]
      /\ UNCHANGED <<driver, LineNum, CursorPos, loaded, calls, window, ramPointer, scroll,
                     writes, message, drawn, turns>>
  BY DEF ScrollStep
<1>2. \A x : x[1] > 2 => x[1] \notin 0..2  OBVIOUS
<1>3. \A x : x[1] > 2 => From(x) = x  BY <1>2
<1> HIDE DEF From
<1>4. /\ DOMAIN screen' \subseteq Cells
      /\ \A x \in DOMAIN screen' : From(x) \in DOMAIN screen /\ screen'[x] = screen[From(x)]
      /\ \A x \in Cells : From(x) \in DOMAIN screen => x \in DOMAIN screen'
      /\ screen' = [x \in DOMAIN screen' |-> screen'[x]]
  BY <1>1
<1>5. driver = "spi"  BY <1>1 DEF DisplaySound, Sixes
<1>6. \A x \in DOMAIN screen : x \in Cells /\ screen[x] \in Shown
  BY DEF DisplaySound, DisplayTypeOK
<1>7. DisplayTypeOK'
  <2>1. screen' \in [DOMAIN screen' -> Shown]  BY <1>4, <1>6
  <2>2. scrolled' \in Nat  BY <1>1 DEF DisplaySound, DisplayTypeOK
  <2> QED  BY <1>1, <1>4, <2>1, <2>2 DEF DisplaySound, DisplayTypeOK, Shown, Chars, CallSet
<1>8. Left' = Left /\ \A r : Due(r)' = Due(r)  BY <1>1 DEF Left, Due
<1>9. Sixes' /\ Ascending' /\ OnScreen' /\ I2cCalls'  BY <1>1, <1>5, SpiSide
<1>10. SpiCalls' /\ Timetable'
  BY <1>1, <1>8 DEF DisplaySound, SpiCalls, Timetable, Playing, Stands
<1>11. SpiCursor'
  <2>1. loaded => ~(Left <= 2)  BY <1>1, <1>5 DEF DisplaySound, SpiCursor
  <2>2. ~(loaded /\ Left = 0)  BY <2>1
  <2>3. Synced' = Synced /\ Column' = Column  BY <1>1 DEF Synced, Column
  <2> QED  BY <1>1, <1>5, <1>8, <2>1, <2>2, <2>3 DEF DisplaySound, SpiCursor
<1>12. Lettering'
  <2>1. Here' = Here  BY <1>1 DEF Here, Column, Place
  <2>2. ASSUME NEW x \in Glyphs'
        PROVE  /\ loaded /\ Left \in 4..64
               /\ Still(x)' => Whole(x)'
               /\ Left >= 6 /\ Still(x)' => Place(<<x[1], First(x)>>)' + 6 <= Here
    <3>1. x \in DOMAIN screen' /\ screen'[x].c \notin NoLetters  BY <2>2 DEF Glyphs
    <3>2. From(x) \in Glyphs  BY <1>4, <3>1 DEF Glyphs
    <3>3. loaded /\ Left \in 4..64  BY <1>5, <3>2 DEF DisplaySound, Lettering
    <3>4. ASSUME Still(x)'
          PROVE  /\ Whole(x)'
                 /\ Left >= 6 => Place(<<x[1], First(x)>>)' + 6 <= Here
      <4>1. x[1] > 2
        <5>1. scrolled' # 0  BY <1>1 DEF DisplaySound, DisplayTypeOK
        <5> QED  BY <3>4, <5>1 DEF Still
      <4>2. From(x) = x /\ screen'[x] = screen[x] /\ x \in Glyphs /\ x \in DOMAIN screen
        BY <1>3, <1>4, <3>1, <3>2, <4>1
      <4>3. Still(x)  BY <4>1 DEF Still
      <4>4. Whole(x) /\ (Left >= 6 => Place(<<x[1], First(x)>>) + 6 <= Here)
        BY <1>5, <4>2, <4>3 DEF DisplaySound, Lettering
      <4>5. First(x)' = First(x)  BY <4>2 DEF First
      <4>6. ASSUME NEW j \in 0..FontSize - 1
            PROVE  /\ <<x[1], First(x) + j>> \in DOMAIN screen'
                   /\ screen'[<<x[1], First(x) + j>>] = [c |-> screen'[x].c, k |-> j]
        <5> DEFINE y == <<x[1], First(x) + j>>
        <5>1. y \in DOMAIN screen /\ screen[y] = [c |-> screen[x].c, k |-> j]
          BY <4>4 DEF Whole
        <5>2. y[1] = x[1]  OBVIOUS
        <5> HIDE DEF y
        <5>3. From(y) = y  BY <1>3, <4>1, <5>2
        <5>4. y \in Cells  BY <1>6, <5>1
        <5>5. y \in DOMAIN screen' /\ screen'[y] = screen[y]  BY <1>4, <5>1, <5>3, <5>4
        <5> QED  BY <4>2, <5>1, <5>5 DEF y
      <4>7. screen'[x].k < FontSize /\ 0 <= First(x)' /\ First(x)' + FontSize < MAX_SEG
        BY <4>2, <4>4, <4>5 DEF Whole
      <4>8. Whole(x)'  BY <4>5, <4>6, <4>7 DEF Whole
      <4>9. Place(<<x[1], First(x)>>)' = Place(<<x[1], First(x)>>)  BY <4>5 DEF Place
      <4> QED  BY <4>4, <4>8, <4>9
    <3> QED  BY <3>3, <3>4
  <2>3. driver' = "spi" /\ loaded' = loaded  BY <1>1, <1>5
  <2> QED  BY <1>8, <2>1, <2>2, <2>3 DEF Lettering
<1> QED  BY <1>7, <1>9, <1>10, <1>11, <1>12 DEF DisplaySound

-----------------------------------------------------------------------------
(* The handlers *)

\* What the two handlers that print do before the text.
LEMMA ProbeBefore ==
  ASSUME NEW pre, pre = stop \o fill \o fill \o cursor(0, 0)
  PROVE  /\ pre \in Seq(CallSet) /\ Len(pre) = 4 /\ pre[1] = [op |-> "stop"]
         /\ pre[2] = [op |-> "fill"] /\ pre[3] = [op |-> "fill"] /\ pre[4] = CursorTo(0, 0)
<1>1. PICK p2 : Joins(p2, stop, fill)  BY DEF Joins
<1>2. PICK p3 : Joins(p3, p2, fill)  BY DEF Joins
<1>3. Joins(pre, p3, cursor(0, 0))  BY <1>1, <1>2, Zenon DEF Joins
<1>4. /\ Sized(stop, 1) /\ stop[1] = [op |-> "stop"]
      /\ Sized(fill, 1) /\ fill[1] = [op |-> "fill"]
  BY SinglesAre DEF Plain, stop, fill
<1>5. Sized(cursor(0, 0), 1) /\ cursor(0, 0)[1] = CursorTo(0, 0)
  <2>1. 0 \in 0..MAX_LINE /\ 0 \in 0..MAX_SEG - 1  BY DEF MAX_LINE, MAX_SEG
  <2> QED  BY <2>1, SinglesAre
<1>6. Adds(p2, stop, 1, fill, 1) /\ Sized(p2, 2)
  <2>1. Adds(p2, stop, 1, fill, 1) /\ Sized(p2, 1 + 1)  BY <1>1, <1>4, Added
  <2> QED  BY <2>1
<1>7. Adds(p3, p2, 2, fill, 1) /\ Sized(p3, 3)
  <2>1. Adds(p3, p2, 2, fill, 1) /\ Sized(p3, 2 + 1)  BY <1>2, <1>4, <1>6, Added
  <2> QED  BY <2>1
<1>8. Adds(pre, p3, 3, cursor(0, 0), 1) /\ Sized(pre, 4)
  <2>1. Adds(pre, p3, 3, cursor(0, 0), 1) /\ Sized(pre, 3 + 1)  BY <1>3, <1>5, <1>7, Added
  <2> QED  BY <2>1
<1>9. p2[1] = [op |-> "stop"] /\ p2[2] = [op |-> "fill"]  BY <1>4, <1>6 DEF Adds
<1>10. p3[1] = [op |-> "stop"] /\ p3[2] = [op |-> "fill"] /\ p3[3] = [op |-> "fill"]
  BY <1>4, <1>7, <1>9 DEF Adds
<1>11. PICK q : q = pre  OBVIOUS
<1>12. /\ q[1] = [op |-> "stop"] /\ q[2] = [op |-> "fill"] /\ q[3] = [op |-> "fill"]
       /\ q[4] = CursorTo(0, 0)
  <2>1. (\A i \in 1..3 : q[i] = p3[i]) /\ \A i \in 1..1 : q[3 + i] = cursor(0, 0)[i]
    BY <1>8, <1>11, Zenon DEF Adds
  <2> QED  BY <1>5, <1>10, <2>1
<1> QED  BY <1>8, <1>11, <1>12, Zenon DEF Sized

\* ... and of etx_write.
LEMMA WriteBefore ==
  ASSUME NEW pre, pre = fill \o cursor(0, 0) \o <<[op |-> "home"]>>
  PROVE  /\ pre \in Seq(CallSet) /\ Len(pre) = 3 /\ pre[1] = [op |-> "fill"]
         /\ pre[2] = CursorTo(0, 0) /\ pre[3] = [op |-> "home"]
<1> DEFINE home == <<[op |-> "home"]>>
<1>1. PICK p2 : Joins(p2, fill, cursor(0, 0))  BY DEF Joins
<1>2. Joins(pre, p2, home)  BY <1>1, Zenon DEF Joins
<1>3. /\ Sized(home, 1) /\ home[1] = [op |-> "home"]
      /\ Sized(fill, 1) /\ fill[1] = [op |-> "fill"]
  BY SinglesAre DEF Plain, fill
<1> HIDE DEF home
<1>4. Sized(cursor(0, 0), 1) /\ cursor(0, 0)[1] = CursorTo(0, 0)
  <2>1. 0 \in 0..MAX_LINE /\ 0 \in 0..MAX_SEG - 1  BY DEF MAX_LINE, MAX_SEG
  <2> QED  BY <2>1, SinglesAre
<1>5. Adds(p2, fill, 1, cursor(0, 0), 1) /\ Sized(p2, 2)
  <2>1. Adds(p2, fill, 1, cursor(0, 0), 1) /\ Sized(p2, 1 + 1)  BY <1>1, <1>3, <1>4, Added
  <2> QED  BY <2>1
<1>6. Adds(pre, p2, 2, home, 1) /\ Sized(pre, 3)
  <2>1. Adds(pre, p2, 2, home, 1) /\ Sized(pre, 2 + 1)  BY <1>2, <1>3, <1>5, Added
  <2> QED  BY <2>1
<1>7. p2[1] = [op |-> "fill"] /\ p2[2] = CursorTo(0, 0)  BY <1>3, <1>4, <1>5 DEF Adds
<1>8. PICK q : q = pre  OBVIOUS
<1>9. q[1] = [op |-> "fill"] /\ q[2] = CursorTo(0, 0) /\ q[3] = [op |-> "home"]
  <2>1. (\A i \in 1..2 : q[i] = p2[i]) /\ \A i \in 1..1 : q[2 + i] = home[i]
    BY <1>6, <1>8, Zenon DEF Adds
  <2> QED  BY <1>3, <1>7, <2>1
<1> QED  BY <1>6, <1>8, <1>9, Zenon DEF Sized

\* A handler that has nothing to print, and leaves the I2C driver not ready.
LEMMA NothingToPrint ==
  ASSUME DisplaySound, driver # "spi", driver' # "spi", ~Ready', calls' \in Seq(CallSet),
         \A i \in 1..Len(calls') : calls'[i].op \in {"stop", "light", "fill"},
         driver' \in {"i2c", "client"}, loaded' \in BOOLEAN,
         UNCHANGED <<LineNum, CursorPos, window, ramPointer, screen, scroll, writes, scrolled,
                     message, drawn, turns>>
  PROVE  DisplaySound'
<1>1. DisplayTypeOK'  BY DEF DisplaySound, DisplayTypeOK, Shown, Chars, CallSet
<1>2. SpiCalls' /\ Timetable' /\ SpiCursor' /\ Lettering'  BY I2cSide, LettersStay
<1>3. I2cCalls'
  <2>1. ASSUME NEW r \in 1..Left' PROVE Due(r)'.op \in {"stop", "light", "fill"}
    <3>1. Left' = Len(calls') /\ Left' \in Nat  BY DEF Left
    <3>2. Left' + 1 - r \in 1..Len(calls')  BY <3>1
    <3>3. Due(r)' = calls'[Left' + 1 - r]  BY DEF Due
    <3> QED  BY <3>2, <3>3
  <2> QED  BY <2>1 DEF I2cCalls
<1>4. Sixes' /\ OnScreen'  BY DEF DisplaySound, Sixes, OnScreen
<1>5. Ascending'  BY DEF DisplaySound, Ascending, Place
<1> QED  BY <1>1, <1>2, <1>3, <1>4, <1>5 DEF DisplaySound

\* The probe function has its name printed.
LEMMA OledProbeIsSound ==
  ASSUME DisplaySound, OledProbe
  PROVE  DisplaySound'
<1> DEFINE text == <<"E", "m", "b", "e", "T", "r", "o", "n", "i", "c", "X">>
           pre == stop \o fill \o fill \o cursor(0, 0)
<1>1. /\ driver = "i2c" /\ calls' = pre \o String(text) /\ loaded' = TRUE
      /\ LineNum' = 0 /\ CursorPos' = 0 /\ message' = text /\ drawn' = <<>> /\ turns' = 0
      /\ UNCHANGED <<driver, window, ramPointer, screen, scroll, writes, scrolled>>
  BY DEF OledProbe, Handler
<1>2. text \in Seq(Chars)
  <2>1. {"E", "m", "b", "e", "T", "r", "o", "n", "i", "c", "X"} \subseteq Chars  BY DEF Chars
  <2>2. \A S : {"E", "m", "b", "e", "T", "r", "o", "n", "i", "c", "X"} \subseteq S =>
                 text \in Seq(S)
    OBVIOUS
  <2> QED  BY <2>1, <2>2
<1>3. /\ pre \in Seq(CallSet) /\ Len(pre) = 4 /\ pre[1] = [op |-> "stop"]
      /\ pre[2] = [op |-> "fill"] /\ pre[3] = [op |-> "fill"] /\ pre[4] = CursorTo(0, 0)
  BY ProbeBefore
<1> HIDE DEF text, pre
<1> DEFINE n == Len(text)
<1>4. /\ calls' \in Seq(CallSet) /\ Len(calls') = 4 + n /\ n \in Nat
      /\ \A r \in 1..n : calls'[Len(calls') + 1 - r] = Letter(text[n + 1 - r])
      /\ \A r \in 1..4 : calls'[Len(calls') + 1 - (n + r)] = pre[4 + 1 - r]
  <2>1. PICK body : body = pre \o String(text)  OBVIOUS
  <2>2. /\ body \in Seq(CallSet) /\ Len(body) = Len(pre) + n /\ n \in Nat
        /\ \A r \in 1..n : body[Len(body) + 1 - r] = Letter(text[n + 1 - r])
        /\ \A r \in 1..Len(pre) : body[Len(body) + 1 - (n + r)] = pre[Len(pre) + 1 - r]
    BY <1>2, <1>3, <2>1, BodyIs
  <2>3. calls' = body /\ Len(pre) = 4  BY <1>1, <1>3, <2>1, Zenon
  <2> HIDE DEF n
  <2> QED  BY <2>2, <2>3
<1> HIDE DEF n
<1>5. /\ Left' = 4 + n /\ Len(message') = n /\ Before' = 4
      /\ \A r : Due(r)' = calls'[Len(calls') + 1 - r]
  BY <1>1, <1>4 DEF Left, Before, Due, n
<1>6. DisplayTypeOK'
  <2>1. LineNum' \in 0..MAX_LINE /\ CursorPos' \in 0..MAX_SEG - 1  BY <1>1 DEF MAX_LINE, MAX_SEG
  <2>2. drawn' \in Seq(Cells) /\ turns' \in Nat /\ message' \in Seq(Chars)  BY <1>1, <1>2
  <2> QED  BY <1>1, <1>4, <2>1, <2>2 DEF DisplaySound, DisplayTypeOK, Shown, Chars, CallSet
<1>7. driver' # "spi" /\ Ready'  BY <1>1 DEF Ready
<1>8. SpiCalls' /\ Timetable' /\ SpiCursor' /\ Lettering'
  BY <1>1, <1>7, I2cSide, LettersStay
<1>9. /\ Due(n + 1)' = CursorTo(0, 0) /\ Due(n + 2)' = [op |-> "fill"]
      /\ Due(n + 3)' = [op |-> "fill"] /\ Due(n + 4)' = [op |-> "stop"]
  <2>1. \A r \in 1..4 : Due(n + r)' = pre[4 + 1 - r]  BY <1>4, <1>5
  <2> QED  BY <1>3, <2>1
<1>10. TextDue'
  <2>1. \A r \in 1..n : Due(r)' = Letter(text[n + 1 - r])  BY <1>4, <1>5
  <2>2. \A r \in 1..Left' : r <= n => r \in 1..n  BY <1>4, <1>5
  <2> QED  BY <1>1, <1>5, <2>1, <2>2 DEF TextDue, Letter
<1>11. ProbeDue'  BY <1>5, <1>9 DEF ProbeDue, CursorTo
<1>12. I2cCalls'  BY <1>7, <1>10, <1>11 DEF I2cCalls
<1>13. Sixes'
  <2>1. ~(Before' = 1) /\ ~Printing'  BY <1>5 DEF Printing
  <2>2. CursorPos' % 6 = 0  BY <1>1
  <2>3. window.col = 0 /\ ~scroll /\ scrolled = 0  BY <1>1 DEF DisplaySound, Sixes
  <2> QED  BY <1>1, <2>1, <2>2, <2>3 DEF Sixes
<1>14. OnScreen' /\ Ascending'
  <2>1. ~Printing'  BY <1>5 DEF Printing
  <2>2. Len(drawn') = 0  BY <1>1
  <2> QED  BY <2>1, <2>2 DEF OnScreen, Ascending
<1> QED  BY <1>6, <1>8, <1>12, <1>13, <1>14 DEF DisplaySound

\* A write has its text printed.
LEMMA EtxWriteIsSound ==
  ASSUME DisplaySound, NEW text \in Texts, EtxWrite(text)
  PROVE  DisplaySound'
<1> DEFINE pre == fill \o cursor(0, 0) \o <<[op |-> "home"]>>
<1>1. /\ driver = "i2c" /\ calls' = pre \o String(text) /\ loaded /\ writes' = writes + 1
      /\ message' = text
      /\ UNCHANGED <<driver, LineNum, CursorPos, loaded, window, ramPointer, screen, scroll,
                     scrolled, drawn, turns>>
  BY DEF EtxWrite, Handler
<1>2. text \in Seq(Chars)
  <2>1. text \in Seq(Letters(text)) /\ Letters(text) \subseteq Chars
    BY TextsAssumption DEF Chars
  <2>2. \A S, T : text \in Seq(S) /\ S \subseteq T => text \in Seq(T)  OBVIOUS
  <2> QED  BY <2>1, <2>2
<1>3. /\ pre \in Seq(CallSet) /\ Len(pre) = 3 /\ pre[1] = [op |-> "fill"]
      /\ pre[2] = CursorTo(0, 0) /\ pre[3] = [op |-> "home"]
  BY WriteBefore
<1> HIDE DEF pre
<1> DEFINE n == Len(text)
<1>4. /\ calls' \in Seq(CallSet) /\ Len(calls') = 3 + n /\ n \in Nat
      /\ \A r \in 1..n : calls'[Len(calls') + 1 - r] = Letter(text[n + 1 - r])
      /\ \A r \in 1..3 : calls'[Len(calls') + 1 - (n + r)] = pre[3 + 1 - r]
  <2>1. PICK body : body = pre \o String(text)  OBVIOUS
  <2>2. /\ body \in Seq(CallSet) /\ Len(body) = Len(pre) + n /\ n \in Nat
        /\ \A r \in 1..n : body[Len(body) + 1 - r] = Letter(text[n + 1 - r])
        /\ \A r \in 1..Len(pre) : body[Len(body) + 1 - (n + r)] = pre[Len(pre) + 1 - r]
    BY <1>2, <1>3, <2>1, BodyIs
  <2>3. calls' = body /\ Len(pre) = 3  BY <1>1, <1>3, <2>1, Zenon
  <2> HIDE DEF n
  <2> QED  BY <2>2, <2>3
<1> HIDE DEF n
<1>5. /\ Left' = 3 + n /\ Len(message') = n /\ Before' = 3
      /\ \A r : Due(r)' = calls'[Len(calls') + 1 - r]
  BY <1>1, <1>4 DEF Left, Before, Due, n
<1>6. DisplayTypeOK'
  <2>1. message' \in Seq(Chars)  BY <1>1, <1>2
  <2> QED  BY <1>1, <1>4, <2>1 DEF DisplaySound, DisplayTypeOK, Shown, Chars, CallSet
<1>7. driver' # "spi" /\ Ready'  BY <1>1 DEF Ready
<1>8. SpiCalls' /\ Timetable' /\ SpiCursor' /\ Lettering'
  BY <1>1, <1>7, I2cSide, LettersStay
<1>9. /\ Due(n + 1)' = [op |-> "home"] /\ Due(n + 2)' = CursorTo(0, 0)
      /\ Due(n + 3)' = [op |-> "fill"]
  <2>1. \A r \in 1..3 : Due(n + r)' = pre[3 + 1 - r]  BY <1>4, <1>5
  <2> QED  BY <1>3, <2>1
<1>10. TextDue'
  <2>1. \A r \in 1..n : Due(r)' = Letter(text[n + 1 - r])  BY <1>4, <1>5
  <2>2. \A r \in 1..Left' : r <= n => r \in 1..n  BY <1>4, <1>5
  <2> QED  BY <1>1, <1>5, <2>1, <2>2 DEF TextDue, Letter
<1>11. WriteDue'  BY <1>5, <1>9 DEF WriteDue, CursorTo
<1>12. I2cCalls'  BY <1>7, <1>10, <1>11 DEF I2cCalls
<1>13. Sixes'
  <2>1. ~(Before' = 1) /\ ~Printing'  BY <1>5 DEF Printing
  <2>2. CursorPos % 6 = 0 /\ window.col = 0 /\ ~scroll /\ scrolled = 0
    BY <1>1 DEF DisplaySound, Sixes
  <2>3. Due(Len(message) + 1)'.op # "cursor"  BY <1>5, <1>9
  <2> QED  BY <1>1, <2>1, <2>2, <2>3 DEF Sixes
<1>14. OnScreen' /\ Ascending'
  <2>1. ~Printing'  BY <1>5 DEF Printing
  <2> QED  BY <1>1, <2>1 DEF DisplaySound, OnScreen, Ascending, Place
<1> QED  BY <1>6, <1>8, <1>12, <1>13, <1>14 DEF DisplaySound

\* The handlers of one call, or two.
LEMMA ShortBodies ==
  ASSUME NEW body, \/ body = fill
                   \/ body = clientInit \o <<[op |-> "light"]>>
  PROVE  /\ body \in Seq(CallSet)
         /\ \A i \in 1..Len(body) : body[i].op \in {"stop", "light", "fill"}
<1> DEFINE light == <<[op |-> "light"]>>
<1>1. /\ Sized(stop, 1) /\ stop[1] = [op |-> "stop"]
      /\ Sized(fill, 1) /\ fill[1] = [op |-> "fill"]
      /\ Sized(light, 1) /\ light[1] = [op |-> "light"]
  BY SinglesAre DEF Plain, stop, fill
<1>2. CASE body = fill
  <2>1. body \in Seq(CallSet) /\ Len(body) = 1 /\ body[1].op = "fill"
    BY <1>1, <1>2 DEF Sized
  <2> QED  BY <2>1
<1>3. CASE body = clientInit \o light
  <2> HIDE DEF light
  <2>1. Joins(body, stop, light)  BY <1>3 DEF Joins, clientInit
  <2>2. Adds(body, stop, 1, light, 1) /\ Sized(body, 1 + 1)  BY <1>1, <2>1, Added
  <2>3. body[1] = stop[1] /\ body[2] = light[1]  BY <2>2 DEF Adds
  <2>4. body \in Seq(CallSet) /\ Len(body) = 2  BY <2>2 DEF Sized
  <2>5. \A i \in 1..2 : body[i].op \in {"stop", "light", "fill"}  BY <1>1, <2>3
  <2> QED  BY <2>4, <2>5
<1> QED  BY <1>2, <1>3

\* The handlers that print nothing.
LEMMA ShortHandlersAreSound ==
  ASSUME DisplaySound, OledRemove \/ ClientProbe \/ ClientRemove
  PROVE  DisplaySound'
<1>1. /\ driver \in {"i2c", "client"} /\ ~Ready' /\ loaded' \in BOOLEAN
      /\ calls' = fill \/ calls' = clientInit \o <<[op |-> "light"]>>
      /\ UNCHANGED <<driver, LineNum, CursorPos, window, ramPointer, screen, scroll, writes,
                     scrolled, message, drawn, turns>>
  BY DEF OledRemove, ClientProbe, ClientRemove, Handler, Ready, history
<1>2. /\ calls' \in Seq(CallSet)
      /\ \A i \in 1..Len(calls') : calls'[i].op \in {"stop", "light", "fill"}
  BY <1>1, ShortBodies
<1> QED  BY <1>1, <1>2, NothingToPrint

\* Another driver takes the display as it is.
LEMMA ChangeDriverIsSound ==
  ASSUME DisplaySound, ChangeDriver
  PROVE  DisplaySound'
<1>1. /\ calls = <<>> /\ ~loaded /\ driver # "spi" /\ driver' \in Drivers \ {"spi"}
      /\ UNCHANGED <<LineNum, CursorPos, loaded, calls, window, ramPointer, screen, scroll,
                     writes, scrolled, message, drawn, turns>>
  BY DEF ChangeDriver, history
<1>2. driver' \in {"i2c", "client"}  BY <1>1, DriversAssumption
<1>3. ~Ready' /\ loaded' \in BOOLEAN  BY <1>1 DEF Ready, DisplaySound, DisplayTypeOK
<1>4. /\ calls' \in Seq(CallSet)
      /\ \A i \in 1..Len(calls') : calls'[i].op \in {"stop", "light", "fill"}
  BY <1>1
<1> QED  BY <1>1, <1>2, <1>3, <1>4, NothingToPrint

\* The greeting begins on a display without letters, ...
LEMMA SpiInitIsSound ==
  ASSUME DisplaySound, EtxSpiInit
  PROVE  DisplaySound'
<1>1. /\ driver = "spi" /\ calls' = Greeting /\ ~loaded /\ loaded' = TRUE
      /\ LineNum' = 0 /\ CursorPos' = 0 /\ drawn' = <<>> /\ turns' = 0
      /\ UNCHANGED <<driver, window, ramPointer, screen, scroll, writes, scrolled, message>>
  BY DEF EtxSpiInit, Handler
<1>2. calls' \in Seq(CallSet) /\ Left' = 70  BY <1>1, GreetingIs DEF Sized, Left
<1>3. DisplayTypeOK'
  <2>1. LineNum' \in 0..MAX_LINE /\ CursorPos' \in 0..MAX_SEG - 1  BY <1>1 DEF MAX_LINE, MAX_SEG
  <2>2. drawn' \in Seq(Cells) /\ turns' \in Nat  BY <1>1
  <2> QED  BY <1>1, <1>2, <2>1, <2>2 DEF DisplaySound, DisplayTypeOK, Shown, Chars, CallSet
<1>4. Sixes' /\ Ascending' /\ OnScreen' /\ I2cCalls'  BY <1>1, SpiSide
<1>5. SpiCalls'
  <2>1. ASSUME NEW r \in 1..Left' PROVE Due(r)' = Greeting[71 - r]
    <3>1. Due(r)' = Greeting[Left' + 1 - r]  BY <1>1 DEF Due
    <3>2. Left' + 1 - r = 71 - r  BY <1>2
    <3> QED  BY <3>1, <3>2
  <2> QED  BY <1>1, <1>2, <2>1 DEF SpiCalls
<1>6. Timetable' /\ SpiCursor'  BY <1>1, <1>2, OutsideTimetable, OutsideCursor
<1>7. Lettering'  BY <1>1, NothingLeft
<1> QED  BY <1>3, <1>4, <1>5, <1>6, <1>7 DEF DisplaySound

\* ... and the exit clears the logo.
LEMMA SpiExitIsSound ==
  ASSUME DisplaySound, EtxSpiExit
  PROVE  DisplaySound'
<1>1. /\ driver = "spi" /\ calls = <<>> /\ calls' = ClearDisplay /\ loaded /\ loaded' = FALSE
      /\ UNCHANGED <<driver, LineNum, CursorPos, window, ramPointer, screen, scroll, writes,
                     scrolled, message, drawn, turns>>
  BY DEF EtxSpiExit, Handler, history
<1>2. /\ calls' \in Seq(CallSet) /\ Left' = 2
      /\ calls'[1] = CursorTo(0, 0) /\ calls'[2] = [op |-> "fill"]
  BY <1>1, PairsAre DEF Sized, Left
<1>3. DisplayTypeOK'  BY <1>1, <1>2 DEF DisplaySound, DisplayTypeOK, Shown, Chars, CallSet
<1>4. Sixes' /\ Ascending' /\ OnScreen' /\ I2cCalls'  BY <1>1, SpiSide
<1>5. SpiCalls'
  <2>1. Due(1)' = calls'[2] /\ Due(2)' = calls'[1]  BY <1>2 DEF Due
  <2> QED  BY <1>1, <1>2, <2>1 DEF SpiCalls, Playing, CursorTo
<1>6. Timetable' /\ SpiCursor'  BY <1>1, <1>2, OutsideTimetable, OutsideCursor
<1>7. Lettering'
  <2>1. Left = 0  BY <1>1 DEF Left
  <2> QED  BY <1>1, <2>1, NothingLeft
<1> QED  BY <1>3, <1>4, <1>5, <1>6, <1>7 DEF DisplaySound

-----------------------------------------------------------------------------
(* The invariant *)

\* The display shows noise at first.
LEMMA DisplayStarts ==
  ASSUME DisplayInit
  PROVE  DisplaySound
<1>1. /\ driver \in {"i2c", "spi", "client"} /\ LineNum = 0 /\ CursorPos = 0 /\ loaded = FALSE
      /\ calls = <<>> /\ window = [page |-> 0, col |-> 0] /\ ramPointer = 0
      /\ screen = [x \in Cells |-> [c |-> "noise", k |-> 0]] /\ scroll = FALSE
      /\ scrolled = 0 /\ message = <<>> /\ drawn = <<>> /\ turns = 0
  BY DriversAssumption DEF DisplayInit
<1>2. Left = 0  BY <1>1 DEF Left
<1>3. DisplayTypeOK
  <2>1. [c |-> "noise", k |-> 0] \in Shown  BY DEF Shown, NoLetters
  <2>2. DOMAIN screen \subseteq Cells /\ screen \in [DOMAIN screen -> Shown]  BY <1>1, <2>1
  <2>3. LineNum \in 0..MAX_LINE /\ CursorPos \in 0..MAX_SEG - 1
        /\ window \in [page : 0..MAX_LINE, col : 0..MAX_SEG - 1]
    BY <1>1 DEF MAX_LINE, MAX_SEG
  <2>4. calls \in Seq(CallSet) /\ message \in Seq(Chars) /\ drawn \in Seq(Cells)  BY <1>1
  <2>5. loaded \in BOOLEAN /\ ramPointer \in Nat /\ scroll \in BOOLEAN /\ scrolled \in Nat
        /\ turns \in Nat
    BY <1>1
  <2> QED  BY <1>1, <2>2, <2>3, <2>4, <2>5, Zenon DEF DisplayTypeOK
<1>4. Glyphs = {}
  <2>1. \A x \in DOMAIN screen : screen[x].c \in NoLetters  BY <1>1 DEF NoLetters
  <2> QED  BY <2>1 DEF Glyphs
<1>5. Lettering  BY <1>4 DEF Lettering
<1>6. I2cCalls /\ SpiCalls  BY <1>1, <1>2 DEF I2cCalls, SpiCalls, Ready, Playing
<1>7. Sixes /\ OnScreen  BY <1>1 DEF Sixes, OnScreen, Ready
<1>8. Ascending
  <2>1. \A i \in 1..Len(drawn) : FALSE  BY <1>1
  <2> QED  BY <2>1 DEF Ascending
<1>9. Timetable /\ SpiCursor  BY <1>1, <1>2 DEF Timetable, SpiCursor, Playing
<1> QED  BY <1>3, <1>5, <1>6, <1>7, <1>8, <1>9 DEF DisplaySound

\* Nothing changes when nothing does.
LEMMA DisplayStays ==
  ASSUME DisplaySound, UNCHANGED displayVars
  PROVE  DisplaySound'
<1>1. UNCHANGED <<driver, LineNum, CursorPos, loaded, calls, window, ramPointer, screen, scroll,
                  writes, scrolled, message, drawn, turns>>
  BY DEF displayVars, history
<1>2. DisplayTypeOK'  BY <1>1 DEF DisplaySound, DisplayTypeOK, Shown, Chars, CallSet
<1>3. /\ Left' = Left /\ Before' = Before /\ Ready' = Ready /\ Playing' = Playing
      /\ Printing' = Printing /\ Synced' = Synced /\ Column' = Column /\ Here' = Here
      /\ \A r : Due(r)' = Due(r)
  BY <1>1 DEF Left, Before, Due, Ready, Playing, Printing, Synced, Column, Here, Place
<1>4. TextDue' = TextDue /\ WriteDue' = WriteDue /\ ProbeDue' = ProbeDue
  BY <1>1, <1>3 DEF TextDue, WriteDue, ProbeDue
<1>5. I2cCalls' /\ SpiCalls'  BY <1>1, <1>3, <1>4 DEF DisplaySound, I2cCalls, SpiCalls
<1>6. Sixes'  BY <1>1, <1>3 DEF DisplaySound, Sixes
<1>7. Ascending' /\ OnScreen'
  BY <1>1, <1>3 DEF DisplaySound, Ascending, OnScreen, Place
<1>8. Timetable' /\ SpiCursor'
  BY <1>1, <1>3 DEF DisplaySound, Timetable, SpiCursor, Stands
<1>9. Lettering'
  <2>1. Glyphs' = Glyphs  BY <1>1 DEF Glyphs
  <2>2. ASSUME NEW x
        PROVE  First(x)' = First(x) /\ (Whole(x)' <=> Whole(x)) /\ (Still(x)' <=> Still(x))
    BY <1>1 DEF First, Whole, Still
  <2>3. \A x : Place(<<x[1], First(x)>>)' = Place(<<x[1], First(x)>>)  BY <2>2 DEF Place
  <2> QED  BY <1>1, <1>3, <2>1, <2>2, <2>3 DEF DisplaySound, Lettering
<1> QED  BY <1>2, <1>5, <1>6, <1>7, <1>8, <1>9 DEF DisplaySound

\* In every reachable state of the three drivers and the controller they share the
\* invariant holds, whatever is written to 33_i2c_ssd1306_complete.
THEOREM DisplayIsSound == DisplaySpec => []DisplaySound
<1>1. DisplayInit => DisplaySound  BY DisplayStarts
<1>2. DisplaySound /\ [DisplayNext]_displayVars => DisplaySound'
  <2> SUFFICES ASSUME DisplaySound, [DisplayNext]_displayVars
               PROVE  DisplaySound'
    OBVIOUS
  <2>1. CASE SetCursor  BY <2>1, SetCursorIsSound
  <2>2. CASE Fill  BY <2>2, FillIsSound
  <2>3. CASE Light  BY <2>3, LightIsSound
  <2>4. CASE ResetCounters  BY <2>4, ResetCountersIsSound
  <2>5. CASE NewLine  BY <2>5, NewLineIsSound
  <2>6. CASE MakeRoom  BY <2>6, MakeRoomIsSound
  <2>7. CASE PrintChar  BY <2>7, PrintCharIsSound
  <2>8. CASE StartScrollHorizontal  BY <2>8, ScrollingIsSound
  <2>9. CASE DeactivateScroll  BY <2>9, StoppingIsSound
  <2>10. CASE SendLogo  BY <2>10, LogoIsSound
  <2>11. CASE Reset  BY <2>11, ResetIsSound
  <2>12. CASE ScrollStep  BY <2>12, ScrollStepIsSound
  <2>13. CASE OledProbe  BY <2>13, OledProbeIsSound
  <2>14. CASE \E text \in Texts : EtxWrite(text)  BY <2>14, EtxWriteIsSound
  <2>15. CASE OledRemove \/ ClientProbe \/ ClientRemove  BY <2>15, ShortHandlersAreSound
  <2>16. CASE ChangeDriver  BY <2>16, ChangeDriverIsSound
  <2>17. CASE EtxSpiInit  BY <2>17, SpiInitIsSound
  <2>18. CASE EtxSpiExit  BY <2>18, SpiExitIsSound
  <2>19. CASE UNCHANGED displayVars  BY <2>19, DisplayStays
  <2> QED  BY <2>1, <2>2, <2>3, <2>4, <2>5, <2>6, <2>7, <2>8, <2>9, <2>10, <2>11, <2>12, <2>13,
              <2>14, <2>15, <2>16, <2>17, <2>18, <2>19 DEF DisplayNext
<1> QED  BY <1>1, <1>2, PTL DEF DisplaySpec

-----------------------------------------------------------------------------
(* What is displayed *)

\* Wherever SSD1306_PrintChar draws, the controller is on the line and at the column that
\* SSD1306_LineNum and SSD1306_CursorPos tell; the new line of 33 may leave it further left.
THEOREM PointerFollows == DisplaySpec => []PointerFollowsCursor
<1>1. ASSUME DisplaySound PROVE PointerFollowsCursor
  <2>1. SUFFICES ASSUME calls # <<>>, Head(calls).op = "char"
                 PROVE  /\ At(0)[1] = LineNum /\ At(0)[2] <= CursorPos
                        /\ driver = "spi" => At(0)[2] = CursorPos
    BY DEF PointerFollowsCursor
  <2>2. /\ Column \in Nat /\ Column <= CursorPos /\ CursorPos \in 0..127
        /\ \A k \in Nat : Column + k < 128 => At(k) = <<LineNum, Column + k>>
    BY <1>1, <2>1, PrintsHere
  <2>3. 0 \in Nat /\ Column + 0 < 128 /\ Column + 0 = Column  BY <2>2
  <2>4. At(0) = <<LineNum, Column>>  BY <2>2, <2>3
  <2>5. driver = "spi" => Column = CursorPos  BY <1>1, <2>1, SpiPrints
  <2> QED  BY <2>2, <2>4, <2>5
<1> QED  BY <1>1, DisplayIsSound, PTL

\* No letter is broken over the edge of the display or left over in part, on any text.
THEOREM LettersAreWhole == DisplaySpec => []GlyphsAreWhole
<1>1. ASSUME DisplaySound PROVE GlyphsAreWhole
  <2>1. ASSUME NEW x \in Glyphs, scrolled = 0 \/ x[1] > 2, NEW k \in 0..FontSize - 1
        PROVE  /\ <<x[1], x[2] - screen[x].k + k>> \in DOMAIN screen
               /\ screen[<<x[1], x[2] - screen[x].k + k>>] = [c |-> screen[x].c, k |-> k]
    <3>1. Whole(x)  BY <1>1, <2>1 DEF DisplaySound, Lettering, Still
    <3> QED  BY <3>1 DEF Whole, First
  <2> QED  BY <2>1 DEF GlyphsAreWhole
<1> QED  BY <1>1, DisplayIsSound, PTL

\* Any message that has not come around the display is all there after etx_write and
\* after the probe function of 33, in its order.
THEOREM MessageReads == DisplaySpec => []MessageIsLegible
<1>1. ASSUME DisplaySound PROVE MessageIsLegible
  <2> SUFFICES ASSUME driver = "i2c", turns <= MAX_LINE
               PROVE  /\ \A i \in 2..Len(drawn) : Place(drawn[i - 1]) < Place(drawn[i])
                      /\ calls = <<>> /\ loaded =>
                           /\ Len(drawn) = Len(message)
                           /\ \A i \in 1..Len(message) : message[i] # NL =>
                                /\ drawn[i] \in Glyphs
                                /\ screen[drawn[i]] = [c |-> message[i], k |-> 0]
    BY DEF MessageIsLegible
  <2>1. Len(drawn) \in Nat /\ Len(message) \in Nat  BY <1>1 DEF DisplaySound, DisplayTypeOK
  <2>2. ASSUME NEW i \in 2..Len(drawn) PROVE Place(drawn[i - 1]) < Place(drawn[i])
    <3>1. i \in 1..Len(drawn) /\ i > 1  BY <2>1
    <3> QED  BY <1>1, <3>1 DEF DisplaySound, Ascending
  <2>3. ASSUME calls = <<>>, loaded
        PROVE  /\ Len(drawn) = Len(message)
               /\ \A i \in 1..Len(message) : message[i] # NL =>
                    drawn[i] \in Glyphs /\ screen[drawn[i]] = [c |-> message[i], k |-> 0]
    <3>1. Left = 0 /\ Before = 0 - Len(message)  BY <2>3 DEF Left, Before
    <3>2. Ready /\ Printing  BY <2>1, <2>3, <3>1 DEF Ready, Printing
    <3>3. Len(drawn) + Before = 0  BY <1>1, <3>2 DEF DisplaySound, Sixes
    <3>4. Len(drawn) = Len(message)  BY <2>1, <3>1, <3>3
    <3>5. ASSUME NEW i \in 1..Len(message), message[i] # NL
          PROVE  drawn[i] \in Glyphs /\ screen[drawn[i]] = [c |-> message[i], k |-> 0]
      <4>1. drawn[i] \in DOMAIN screen /\ screen[drawn[i]] = [c |-> message[i], k |-> 0]
        BY <1>1, <3>2, <3>4, <3>5 DEF DisplaySound, OnScreen
      <4>2. message[i] \in Chars  BY <1>1 DEF DisplaySound, DisplayTypeOK
      <4>3. message[i] \notin NoLetters  BY <4>2, LettersShow
      <4> QED  BY <4>1, <4>3 DEF Glyphs
    <3> QED  BY <3>4, <3>5
  <2> QED  BY <2>2, <2>3
<1> QED  BY <1>1, DisplayIsSound, PTL

\* When etx_spi_init of 39_spi returns, the display shows the whole logo and stands still.
THEOREM LogoShows == DisplaySpec => []LogoIsShown
<1>1. ASSUME DisplaySound PROVE LogoIsShown
  <2>1. calls = <<>> => Left = 0  BY DEF Left
  <2> QED  BY <1>1, <2>1 DEF DisplaySound, SpiCursor, LogoIsShown
<1> QED  BY <1>1, DisplayIsSound, PTL
=============================================================================
