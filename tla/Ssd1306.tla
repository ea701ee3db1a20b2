------------------------------- MODULE Ssd1306 -------------------------------
(***************************************************************************)
(* The drivers of the SSD1306 display: 33_i2c_ssd1306_complete, whose      *)
(* device prints what is written to it, 39_spi, whose init function prints *)
(* a greeting and a logo, and 29_i2c_client, which lights the display and  *)
(* clears it. The first two keep a line and a column of their own next to  *)
(* the address pointer of the controller, and none reads the controller    *)
(* back. 29 and 33 drive the same display, one after the other. It has its *)
(* real size.                                                              *)
(***************************************************************************)
EXTENDS Integers, Sequences, FiniteSets

CONSTANTS Drivers,    \* among "i2c" (33), "spi" (39) and "client" (29)
          Texts,      \* what is written to the device: sequences of characters
          MaxWrites,  \* bound on the number of writes in a behaviour
          MaxScroll   \* bound on the number of steps of the controller's scroll

MAX_SEG  == 128       \* SSD1306_MAX_SEG
MAX_LINE == 7         \* SSD1306_MAX_LINE
FontSize == 5         \* SSD1306_DEF_FONT_SIZE
NL       == "\n"

Letters(text) == {text[i] : i \in DOMAIN text}

\* What is left of a cell that shows no letter.
NoLetters == {"noise", "lit", "logo"}

ASSUME DriversAssumption == Drivers \subseteq {"i2c", "spi", "client"}
\* A text fits in etx_write's rec_buf, with the NUL that ends it.
ASSUME TextsAssumption ==
  \A text \in Texts : /\ text \in Seq(Letters(text)) /\ Letters(text) \cap NoLetters = {}
                      /\ Len(text) < MAX_SEG * (MAX_LINE + 1)
ASSUME DisplayBounds == MaxWrites \in Nat /\ MaxScroll \in Nat

VARIABLES
  driver,
  LineNum, CursorPos,  \* SSD1306_LineNum, SSD1306_CursorPos
  loaded,              \* the display is probed, or the SPI module loaded
  calls,               \* the calls the running handler has yet to make
  window,              \* controller: first page and column of the address window
  ramPointer,          \* controller: where in the window the next byte goes
  screen,              \* controller: what its cells show, but for the blank ones
  scroll,              \* controller: its pages 0..2 are scrolled
  writes,              \* history: how many writes were made
  scrolled,            \* history: how many steps pages 0..2 were scrolled
  message,             \* history: what was last written
  drawn,               \* history: where each character of it was drawn, and where the
                       \* pointer was when a new line came
  turns                \* history: how often it went to the next line

history == <<writes, scrolled, message, drawn, turns>>
displayVars == <<driver, LineNum, CursorPos, loaded, calls, window, ramPointer, screen, scroll,
                 history>>

Cells == (0..MAX_LINE) \X (0..MAX_SEG - 1)

DisplayInit ==
  /\ driver \in Drivers
  /\ LineNum = 0 /\ CursorPos = 0
  /\ loaded = FALSE /\ calls = <<>>
  /\ window = [page |-> 0, col |-> 0] /\ ramPointer = 0
  /\ screen = [x \in Cells |-> [c |-> "noise", k |-> 0]]
  /\ scroll = FALSE
  /\ writes = 0 /\ scrolled = 0
  /\ message = <<>> /\ drawn = <<>> /\ turns = 0

-----------------------------------------------------------------------------
(* The controller, in horizontal addressing mode: the pointer runs over the  *)
(* columns of a page of the window, then over its pages, and starts again.   *)

Width == MAX_SEG - window.col
Size  == Width * (MAX_LINE + 1 - window.page)

At(i) == LET n == (ramPointer + i) % Size
         IN  <<window.page + n \div Width, window.col + (n % Width)>>

\* Set Column Address and Set Page Address, up to the last column and page.
SetWindow(line, col) ==
  window' = [page |-> line, col |-> col] /\ ramPointer' = 0

\* What lit shows comes over what was shown; the cells of dark go dark.
Show(lit, dark) ==
  screen' = [x \in (DOMAIN screen \ dark) \cup DOMAIN lit |->
               IF x \in DOMAIN lit THEN lit[x] ELSE screen[x]]

InWindow == {x \in Cells : x[1] >= window.page /\ x[2] >= window.col}

\* The scroll shifts what pages 0..2 show by a column.
ScrollStep ==
  /\ scroll /\ scrolled < MaxScroll
  /\ scrolled' = scrolled + 1
  /\ LET From(x) == IF x[1] \in 0..2 THEN <<x[1], (x[2] + 1) % MAX_SEG>> ELSE x
     IN  screen' = [x \in {y \in Cells : From(y) \in DOMAIN screen} |-> screen[From(x)]]
  /\ UNCHANGED <<driver, LineNum, CursorPos, loaded, calls, window, ramPointer, scroll,
                 writes, message, drawn, turns>>

-----------------------------------------------------------------------------
(* The functions of the drivers, one step for each call of a handler *)

Call(op) == calls # <<>> /\ Head(calls).op = op /\ calls' = Tail(calls)

fill            == <<[op |-> "fill"]>>
cursor(line, c) == <<[op |-> "cursor", line |-> line, col |-> c]>>
String(str)     == [i \in 1..Len(str) |-> [op |-> "char", c |-> str[i]]]

\* Seeded fault: the SPI driver does not keep the position it sends either.
SetCursorUnsaved ==
  /\ Call("cursor")
  /\ SetWindow(Head(calls).line, Head(calls).col)
  /\ UNCHANGED <<driver, LineNum, CursorPos, loaded, screen, scroll, history>>

\* Only the SPI driver keeps the position it sends, and etx_write sets both.
SetCursor ==
  /\ Call("cursor")
  /\ SetWindow(Head(calls).line, Head(calls).col)
  /\ IF driver = "spi"
     THEN LineNum' = Head(calls).line /\ CursorPos' = Head(calls).col
     ELSE UNCHANGED <<LineNum, CursorPos>>
  /\ UNCHANGED <<driver, loaded, screen, scroll, history>>

\* As many bytes as the display has cells, from where the pointer is.
Fill ==
  /\ Call("fill")
  /\ Show(<<>>, InWindow)
  /\ ramPointer' = (ramPointer + Cardinality(Cells)) % Size
  /\ UNCHANGED <<driver, LineNum, CursorPos, loaded, window, scroll, history>>

\* ... lit instead of dark, by 29_i2c_client.
Light ==
  /\ Call("light")
  /\ Show([x \in InWindow |-> [c |-> "lit", k |-> 0]], {})
  /\ ramPointer' = (ramPointer + Cardinality(Cells)) % Size
  /\ UNCHANGED <<driver, LineNum, CursorPos, loaded, window, scroll, history>>

\* Seeded fault: the next message goes on from the counters of the last one.
ResetCountersForgotten ==
  /\ Call("home")
  /\ drawn' = <<>> /\ turns' = 0
  /\ UNCHANGED <<driver, LineNum, CursorPos, loaded, window, ramPointer, screen, scroll,
                 writes, scrolled, message>>

ResetCounters ==
  /\ Call("home")
  /\ LineNum' = 0 /\ CursorPos' = 0
  /\ drawn' = <<>> /\ turns' = 0
  /\ UNCHANGED <<driver, loaded, window, ramPointer, screen, scroll, writes, scrolled, message>>

GoToNextLine ==
  /\ LineNum' = (LineNum + 1) % (MAX_LINE + 1)
  /\ SetWindow((LineNum + 1) % (MAX_LINE + 1), 0)
  /\ turns' = turns + 1
  /\ UNCHANGED <<driver, loaded, screen, scroll, writes, scrolled, message>>

\* Seeded fault: a glyph is let in as long as its first column fits.
LineIsFullLate == CursorPos >= MAX_SEG

LineIsFull == CursorPos + FontSize >= MAX_SEG

\* The i2c driver goes to the next line and keeps its CursorPos.
NewLine ==
  /\ Call("char") /\ Head(calls).c = NL
  /\ GoToNextLine
  /\ CursorPos' = IF driver = "spi" THEN 0 ELSE CursorPos
  /\ drawn' = Append(drawn, At(0))

\* PrintChar first makes room, ...
MakeRoom ==
  /\ calls # <<>> /\ Head(calls).op = "char" /\ Head(calls).c # NL
  /\ LineIsFull
  /\ GoToNextLine /\ CursorPos' = 0
  /\ UNCHANGED <<calls, drawn>>

\* ... then sends the columns of the character and a blank one.
PrintChar ==
  /\ Call("char") /\ Head(calls).c # NL
  /\ ~LineIsFull
  /\ Show([x \in {At(k) : k \in 0..FontSize - 1} |->
             [c |-> Head(calls).c, k |-> CHOOSE k \in 0..FontSize - 1 : At(k) = x]],
          {At(FontSize)})
  /\ ramPointer' = (ramPointer + FontSize + 1) % Size
  /\ CursorPos' = CursorPos + FontSize + 1
  /\ drawn' = Append(drawn, At(0))
  /\ UNCHANGED <<driver, LineNum, loaded, window, scroll, writes, scrolled, message, turns>>

StartScrollHorizontal ==
  /\ Call("scroll")
  /\ scroll' = TRUE
  /\ UNCHANGED <<driver, LineNum, CursorPos, loaded, window, ramPointer, screen, history>>

DeactivateScroll ==
  /\ Call("stop")
  /\ scroll' = FALSE
  /\ UNCHANGED <<driver, LineNum, CursorPos, loaded, window, ramPointer, screen, history>>

\* The bytes of the logo, one for each cell, from the first cell on.
SendLogo ==
  /\ Call("logo")
  /\ Show([x \in InWindow |-> [c |-> "logo", k |-> x[2]]], {})
  /\ ramPointer' = (ramPointer + Cardinality(Cells)) % Size
  /\ UNCHANGED <<driver, LineNum, CursorPos, loaded, window, scroll, history>>

\* The reset line: the controller forgets its window, not its cells.
Reset ==
  /\ Call("reset")
  /\ SetWindow(0, 0) /\ scroll' = FALSE
  /\ UNCHANGED <<driver, LineNum, CursorPos, loaded, screen, history>>

-----------------------------------------------------------------------------
(* The handlers: each runs to its end before the next one starts *)

Handler(d, body) == driver = d /\ calls = <<>> /\ calls' = body

ClearDisplay == cursor(0, 0) \o fill
stop         == <<[op |-> "stop"]>>

\* 33_i2c: the module has just been loaded when it finds the display.
OledProbe ==
  /\ Handler("i2c", stop \o fill \o fill \o cursor(0, 0)
                    \o String(<<"E", "m", "b", "e", "T", "r", "o", "n", "i", "c", "X">>))
  /\ ~loaded /\ loaded' = TRUE
  /\ LineNum' = 0 /\ CursorPos' = 0
  /\ message' = <<"E", "m", "b", "e", "T", "r", "o", "n", "i", "c", "X">>
  /\ drawn' = <<>> /\ turns' = 0
  /\ UNCHANGED <<driver, window, ramPointer, screen, scroll, writes, scrolled>>

EtxWrite(text) ==
  /\ Handler("i2c", fill \o cursor(0, 0) \o <<[op |-> "home"]>> \o String(text))
  /\ loaded /\ writes < MaxWrites /\ writes' = writes + 1
  /\ message' = text
  /\ UNCHANGED <<driver, LineNum, CursorPos, loaded, window, ramPointer, screen, scroll,
                 scrolled, drawn, turns>>

OledRemove ==
  /\ Handler("i2c", fill)
  /\ loaded /\ loaded' = FALSE
  /\ UNCHANGED <<driver, LineNum, CursorPos, window, ramPointer, screen, scroll, history>>

\* 29_i2c: its SSD1306_DisplayInit sets no window either.
clientInit == stop

ClientProbe ==
  /\ Handler("client", clientInit \o <<[op |-> "light"]>>)
  /\ ~loaded /\ loaded' = TRUE
  /\ UNCHANGED <<driver, LineNum, CursorPos, window, ramPointer, screen, scroll, history>>

ClientRemove ==
  /\ Handler("client", fill)
  /\ loaded /\ loaded' = FALSE
  /\ UNCHANGED <<driver, LineNum, CursorPos, window, ramPointer, screen, scroll, history>>

\* One I2C driver is unloaded and the other one loaded: the display is not reset.
ChangeDriver ==
  /\ calls = <<>> /\ ~loaded /\ driver # "spi"
  /\ driver' \in (Drivers \ {"spi"}) \ {driver}
  /\ UNCHANGED <<LineNum, CursorPos, loaded, calls, window, ramPointer, screen, scroll, history>>

\* 39_spi: the greeting, its words runs of one character here, line by line.
Line(n) == [i \in 1..n + 1 |-> [op |-> "char", c |-> IF i <= n THEN "a" ELSE NL]]

GreetingText ==
  <<[op |-> "reset"]>> \o stop \o ClearDisplay \o <<[op |-> "scroll"]>>
  \o cursor(0, 0) \o Line(7) \o Line(2) \o Line(11)
  \o cursor(4, 35) \o Line(9) \o cursor(5, 23) \o Line(13) \o cursor(6, 37) \o Line(8)

PrintLogo == cursor(0, 0) \o <<[op |-> "logo"]>>

\* Seeded fault: the scroll goes on under the logo.
GreetingScrolled == GreetingText \o ClearDisplay \o PrintLogo \o stop

Greeting == GreetingText \o ClearDisplay \o stop \o PrintLogo

EtxSpiInit ==
  /\ Handler("spi", Greeting)
  /\ ~loaded /\ loaded' = TRUE
  /\ LineNum' = 0 /\ CursorPos' = 0
  /\ drawn' = <<>> /\ turns' = 0
  /\ UNCHANGED <<driver, window, ramPointer, screen, scroll, writes, scrolled, message>>

EtxSpiExit ==
  /\ Handler("spi", ClearDisplay)
  /\ loaded /\ loaded' = FALSE
  /\ UNCHANGED <<driver, LineNum, CursorPos, window, ramPointer, screen, scroll, history>>

DisplayNext ==
  \/ SetCursor \/ Fill \/ Light \/ ResetCounters \/ NewLine \/ MakeRoom \/ PrintChar
  \/ StartScrollHorizontal \/ DeactivateScroll \/ SendLogo \/ Reset \/ ScrollStep
  \/ OledProbe \/ (\E text \in Texts : EtxWrite(text)) \/ OledRemove
  \/ ClientProbe \/ ClientRemove \/ ChangeDriver
  \/ EtxSpiInit \/ EtxSpiExit

DisplaySpec == DisplayInit /\ [][DisplayNext]_displayVars

-----------------------------------------------------------------------------
(* Properties *)

Glyphs == {x \in DOMAIN screen : screen[x].c \notin NoLetters}

\* Whenever a character is about to be drawn, the controller is where the driver
\* believes it to be: on its line, and at its column; only the i2c driver, which
\* keeps its column over a new line, may believe itself further right.
PointerFollowsCursor ==
  calls # <<>> /\ Head(calls).op = "char" =>
    /\ At(0)[1] = LineNum
    /\ At(0)[2] <= CursorPos
    /\ driver = "spi" => At(0)[2] = CursorPos

\* No character is broken over the edge of the display, and none is left over
\* in part from an earlier message; the scroll may split what it moves.
GlyphsAreWhole ==
  \A x \in Glyphs : scrolled = 0 \/ x[1] > 2 =>
    \A k \in 0..FontSize - 1 :
      LET y == <<x[1], x[2] - screen[x].k + k>>
      IN  y \in DOMAIN screen /\ screen[y] = [c |-> screen[x].c, k |-> k]

Place(x) == MAX_SEG * x[1] + x[2]

\* A message of no more lines than the display has is all there, each character
\* behind the one before it.
MessageIsLegible ==
  driver = "i2c" /\ turns <= MAX_LINE =>
    /\ \A i \in 2..Len(drawn) : Place(drawn[i - 1]) < Place(drawn[i])
    /\ calls = <<>> /\ loaded =>
         /\ Len(drawn) = Len(message)
         /\ \A i \in 1..Len(message) : message[i] # NL =>
              drawn[i] \in Glyphs /\ screen[drawn[i]] = [c |-> message[i], k |-> 0]

\* The SPI driver leaves the whole logo, which no scroll moves any more.
LogoIsShown ==
  driver = "spi" /\ loaded /\ calls = <<>> =>
    ~scroll /\ screen = [x \in Cells |-> [c |-> "logo", k |-> x[2]]]

\* 33_i2c_ssd1306_complete/driver.c:444: etx_write clears all pixels before it
\* prints, so a message that fits is all the display shows.
ShowsOnlyTheMessage ==
  driver = "i2c" /\ loaded /\ calls = <<>> /\ turns <= MAX_LINE =>
    Cardinality(Glyphs) = FontSize * Cardinality({i \in DOMAIN message : message[i] # NL})
=============================================================================
