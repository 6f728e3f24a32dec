------------------------------ MODULE Console -------------------------------
(***************************************************************************)
(* The console of xv6: console.c, with its two sources of characters,      *)
(* kbd.c and uart.c.  Interrupts edit a line in a ring indexed by three    *)
(* counters that wrap; processes read finished lines from it; both echo    *)
(* and the output of processes move one cursor on the screen.              *)
(*                                                                         *)
(* consoleintr, consoleread and consolewrite hold cons.lock, so one        *)
(* character of an interrupt, one pass of a read and one write are single  *)
(* steps.  kill does not take cons.lock: it may fall between a reader's    *)
(* test of killed and its sleep, the moment "doze", when nobody else can   *)
(* have the lock.                                                          *)
(***************************************************************************)
EXTENDS Integers, Sequences, FiniteSets, FiniteSetsExt

CONSTANTS
    Readers,        \* processes
    INPUT_BUF,
    UINT,           \* 2^32, the modulus of input.r, input.w and input.e
    COLS, ROWS,     \* 80 and 24: the part of the screen that is used
    SerialChars,    \* what the serial line may deliver
    Keys,           \* keys of the keyboard that are used
    ReadSizes,      \* the n of consoleread
    Outputs,        \* what processes write
    Listing,        \* what procdump prints
    Start,          \* empty lines typed and read before the model starts
    MaxInput        \* bound on characters received, keys moved and writes

ASSUME INPUT_BUFAssumption == INPUT_BUF \in Nat \ {0}
ASSUME UINTAssumption == UINT \in Nat /\ UINT % INPUT_BUF = 0 /\ UINT > INPUT_BUF
ASSUME ScreenAssumption ==
    /\ COLS \in Nat \ {0} /\ ROWS \in Nat \ {0}
    /\ INPUT_BUF <= (ROWS - 1) * COLS       \* 128 and 23 * 80
ASSUME ReadSizesAssumption == ReadSizes \subseteq Nat \ {0}
ASSUME StartAssumption == Start \in Nat /\ Start >= INPUT_BUF /\ Start >= ROWS

VARIABLES
    buf, r, w, e,   \* input
    screen,         \* CGA memory and the cursor
    shift,          \* kbdgetc's static: modifiers and the E0 escape
    held, wire,     \* the keys held down and the bytes they sent
    pc, n, dst,     \* each reader: where it is, what it still wants, has
    killed,
    inputs,         \* characters, key movements and writes so far
    mixed           \* history: others wrote after the line was begun

inputVars == <<buf, r, w, e>>
kbdVars == <<shift, held, wire>>
readerVars == <<pc, n, dst, killed>>
vars == <<inputVars, screen, kbdVars, readerVars, inputs, mixed>>

NewLine == "\n"
EndOfFile == "^D"
Blank == " "
BACKSPACE == "BACKSPACE"
NO == "NO"

\* A byte is never BACKSPACE, which is 0x100.
ASSUME SerialAssumption == BACKSPACE \notin SerialChars
ASSUME OutputsAssumption ==
    \A string \in Outputs \cup {Listing} :
        string \in Seq({string[i] : i \in DOMAIN string})

Plus(i, k) == (i + k) % UINT
Minus(i, k) == (i - k + UINT) % UINT
Slice(i, k) == [j \in 1 .. k |-> buf[Plus(i, j - 1) % INPUT_BUF]]

Ready == Slice(r, Minus(w, r))
Line == Slice(w, Minus(e, w))

Locked == \E p \in Readers : pc[p] = "doze"

\* Empty lines only: the ring holds newlines, the screen is blank.
Init ==
    /\ buf = [i \in 0 .. INPUT_BUF - 1 |-> NewLine]
    /\ r = Start % UINT /\ w = Start % UINT /\ e = Start % UINT
    /\ screen = [pos |-> (ROWS - 1) * COLS,
                 crt |-> [i \in 0 .. (ROWS + 1) * COLS - 1 |-> Blank]]
    /\ shift = {} /\ held = {} /\ wire = <<>>
    /\ pc = [p \in Readers |-> "user"]
    /\ n = [p \in Readers |-> 0]
    /\ dst = [p \in Readers |-> <<>>]
    /\ killed = [p \in Readers |-> FALSE]
    /\ inputs = 0
    /\ mixed = FALSE
-----------------------------------------------------------------------------
(* Output: the cursor moves on, back or to the next row, the rows move up   *)
(* when it leaves the last one, and the cell under it is blank.             *)

cursorMoves(s, c) ==
    CASE c = NewLine   -> [s EXCEPT !.pos = s.pos + COLS - (s.pos % COLS)]
      [] c = BACKSPACE -> [s EXCEPT !.pos = IF @ > 0 THEN @ - 1 ELSE @]
      [] OTHER         -> [s EXCEPT !.crt[s.pos] = c, !.pos = @ + 1]

\* Mutant: one row too late.
MustScrollLate(s) == s.pos \div COLS > ROWS

MustScroll(s) == s.pos \div COLS >= ROWS

scrollUp(s) ==
    IF MustScroll(s)
    THEN [pos |-> s.pos - COLS,
          crt |-> [i \in DOMAIN s.crt |->
                     IF i >= s.pos - COLS /\ i < ROWS * COLS THEN Blank
                     ELSE IF i < (ROWS - 1) * COLS THEN s.crt[i + COLS]
                     ELSE s.crt[i]]]
    ELSE s

showCursor(s) == [s EXCEPT !.crt[s.pos] = Blank]

cgaputc(s, c) == showCursor(scrollUp(cursorMoves(s, c)))

cgaputs(s, string) ==
    LET after[k \in 0 .. Len(string)] ==
            IF k = 0 THEN s ELSE cgaputc(after[k - 1], string[k])
    IN  after[Len(string)]

consolewrite(string) ==
    /\ inputs < MaxInput
    /\ ~ Locked
    /\ inputs' = inputs + 1
    /\ screen' = cgaputs(screen, string)
    /\ mixed' = (Line # <<>>)
    /\ UNCHANGED <<inputVars, kbdVars, readerVars>>
-----------------------------------------------------------------------------
(* consoleintr, for one character c of its loop.                            *)

wakeupReaders ==
    pc' = [p \in Readers |-> IF pc[p] = "asleep" THEN "read" ELSE pc[p]]

HasRoom == Minus(e, r) < INPUT_BUF

\* Mutant: only a newline or ^D makes input readable.
FinishesLineNotFull(c) == c \in {NewLine, EndOfFile}

FinishesLine(c) == c \in {NewLine, EndOfFile} \/ Plus(e, 1) = Plus(r, INPUT_BUF)

insert(c) ==
    /\ c # NO /\ HasRoom
    /\ buf' = [buf EXCEPT ![e % INPUT_BUF] = c]
    /\ e' = Plus(e, 1)
    /\ screen' = cgaputc(screen, c)
    /\ IF FinishesLine(c)
       THEN w' = e' /\ wakeupReaders /\ mixed' = FALSE
       ELSE UNCHANGED <<w, pc, mixed>>
    /\ UNCHANGED r

drop(c) ==
    /\ c = NO \/ ~ HasRoom
    /\ UNCHANGED <<inputVars, screen, pc, mixed>>

erase(k) ==
    /\ e' = Minus(e, k)
    /\ screen' = cgaputs(screen, [i \in 1 .. k |-> BACKSPACE])
    /\ mixed' = (mixed /\ k < Len(Line))
    /\ UNCHANGED <<buf, r, w, pc>>

\* ^U goes back to w, or to a newline, which no unfinished line holds.
killLineLength ==
    Len(Line) - Max({0} \cup {i \in DOMAIN Line : Line[i] = NewLine})

\* After the loop over the keys, with cons.lock released; one key a step here.
procdump ==
    /\ screen' = cgaputs(screen, Listing)
    /\ mixed' = (Line # <<>>)
    /\ UNCHANGED <<inputVars, pc>>

editKey(c) ==
    \/ c = "^P" /\ procdump
    \/ c = "^U" /\ erase(killLineLength)
    \/ c = "^H" /\ e # w /\ erase(1)
    \/ c = "^H" /\ e = w /\ UNCHANGED <<inputVars, screen, pc, mixed>>

consoleintr(c) ==
    /\ ~ Locked
    /\ \/ editKey(c)
       \/ /\ c \notin {"^P", "^U", "^H"}
          /\ LET d == IF c = "\r" THEN NewLine ELSE c
             IN  insert(d) \/ drop(d)
    /\ UNCHANGED <<n, dst, killed>>

\* uartgetc hands over whatever byte has arrived.
uartintr(c) ==
    /\ inputs < MaxInput
    /\ inputs' = inputs + 1
    /\ consoleintr(c)
    /\ UNCHANGED kbdVars
-----------------------------------------------------------------------------
(* The keyboard.  A key is a base scan code and whether the keyboard sends  *)
(* E0 before it; a byte on the wire is E0, or a code going down or up.      *)

Codes == {"ctl", "shift", "caps", "d", "enter"}
AllKeys == [code : Codes, ext : BOOLEAN]
ASSUME KeysAssumption == Keys \subseteq AllKeys

Byte(code, up) == [code |-> code, up |-> up]
KeyBytes(key, up) ==
    (IF key.ext THEN <<Byte("E0", FALSE)>> ELSE <<>>) \o <<Byte(key.code, up)>>

moveKey(key) ==
    /\ inputs < MaxInput
    /\ wire = <<>>
    /\ inputs' = inputs + 1
    /\ wire' = KeyBytes(key, key \in held)
    /\ held' = IF key \in held THEN held \ {key} ELSE held \cup {key}
    /\ UNCHANGED <<inputVars, screen, shift, readerVars, mixed>>

shiftcode(key) ==
    CASE key.code = "ctl"                -> {"CTL"}
      [] key.code = "shift" /\ ~ key.ext -> {"SHIFT"}
      [] OTHER                           -> {}

togglecode(key) == IF key.code = "caps" /\ ~ key.ext THEN {"CAPSLOCK"} ELSE {}

charcode(modifiers, key) ==
    CASE key.code = "d" /\ ~ key.ext ->
            (IF "CTL" \in modifiers THEN "^D"
             ELSE IF "SHIFT" \in modifiers THEN "D" ELSE "d")
      [] key.code = "enter" -> (IF "CTL" \in modifiers THEN "\r" ELSE NewLine)
      [] OTHER -> NO

capsLock(modifiers, c) ==
    IF "CAPSLOCK" \notin modifiers THEN c
    ELSE CASE c = "d" -> "D" [] c = "D" -> "d" [] OTHER -> c

Pressed(key) == (shift \ {"E0ESC"}) \cup shiftcode(key)
Toggled(set, code) == (set \ code) \cup (code \ set)

\* Mutant: a release code is looked up without its E0.
releasedPlain(key) ==
    /\ shift' = shift \ (IF key.ext THEN {"E0ESC"} ELSE shiftcode(key))
    /\ consoleintr(NO)

released(key) ==
    /\ shift' = shift \ (shiftcode(key) \cup {"E0ESC"})
    /\ consoleintr(NO)

pressed(key) ==
    /\ shift' = Toggled(Pressed(key), togglecode(key))
    /\ consoleintr(capsLock(shift', charcode(shift', key)))

kbdintr ==
    /\ wire # <<>>
    /\ wire' = Tail(wire)
    /\ LET key == [code |-> Head(wire).code, ext |-> "E0ESC" \in shift]
       IN  \/ /\ key.code = "E0"
              /\ shift' = shift \cup {"E0ESC"}
              /\ consoleintr(NO)
           \/ key.code # "E0" /\ Head(wire).up /\ released(key)
           \/ key.code # "E0" /\ ~ Head(wire).up /\ pressed(key)
    /\ UNCHANGED <<held, inputs>>
-----------------------------------------------------------------------------
(* consoleread: one pass takes characters up to a newline, a ^D, n of them  *)
(* or all there are; an unfinished read of an empty ring dozes off.         *)

consoleread(p, k) ==
    /\ pc[p] = "user" /\ ~ killed[p]
    /\ pc' = [pc EXCEPT ![p] = "read"]
    /\ n' = [n EXCEPT ![p] = k]
    /\ dst' = [dst EXCEPT ![p] = <<>>]
    /\ UNCHANGED <<inputVars, screen, kbdVars, killed, inputs, mixed>>

copy(p, k) ==
    /\ dst' = [dst EXCEPT ![p] = @ \o Slice(r, k)]
    /\ n' = [n EXCEPT ![p] = @ - k]

goTo(p, place) == pc' = [pc EXCEPT ![p] = place]

\* Index in Ready of the character that ends the read, 0 if none does.
EndOfRead(p) ==
    LET ends == {i \in 1 .. Min({n[p], Len(Ready)}) :
                    Ready[i] \in {NewLine, EndOfFile}}
    IN  IF ends = {} THEN 0 ELSE Min(ends)

readLine(p) ==
    /\ EndOfRead(p) # 0 /\ Ready[EndOfRead(p)] = NewLine
    /\ copy(p, EndOfRead(p))
    /\ r' = Plus(r, EndOfRead(p))
    /\ goTo(p, "user")

\* Mutant: the ^D is taken with the characters before it.
readEndTakes(p) ==
    /\ EndOfRead(p) # 0 /\ Ready[EndOfRead(p)] = EndOfFile
    /\ copy(p, EndOfRead(p))
    /\ r' = Plus(r, EndOfRead(p))
    /\ goTo(p, "user")

\* ^D: saved for the next read unless this one has nothing.
readEnd(p) ==
    /\ EndOfRead(p) # 0 /\ Ready[EndOfRead(p)] = EndOfFile
    /\ copy(p, EndOfRead(p) - 1)
    /\ r' = Plus(r, IF dst'[p] = <<>> THEN EndOfRead(p) ELSE EndOfRead(p) - 1)
    /\ goTo(p, "user")

readFull(p) ==
    /\ EndOfRead(p) = 0 /\ n[p] <= Len(Ready)
    /\ copy(p, n[p])
    /\ r' = Plus(r, n[p])
    /\ goTo(p, "user")

\* The killed reader returns -1; what it copied is lost.
readAll(p) ==
    /\ EndOfRead(p) = 0 /\ n[p] > Len(Ready)
    /\ copy(p, Len(Ready))
    /\ r' = w
    /\ goTo(p, IF killed[p] THEN "user" ELSE "doze")

readPass(p) ==
    /\ ~ Locked
    /\ pc[p] = "read"
    /\ readLine(p) \/ readEnd(p) \/ readFull(p) \/ readAll(p)
    /\ UNCHANGED <<buf, w, e, screen, kbdVars, killed, inputs, mixed>>

sleepOnInput(p) ==
    /\ pc[p] = "doze"
    /\ goTo(p, "asleep")
    /\ UNCHANGED <<inputVars, screen, kbdVars, n, dst, killed, inputs, mixed>>

kill(p) ==
    /\ ~ killed[p]
    /\ killed' = [killed EXCEPT ![p] = TRUE]
    /\ goTo(p, IF pc[p] = "asleep" THEN "read" ELSE pc[p])
    /\ UNCHANGED <<inputVars, screen, kbdVars, n, dst, inputs, mixed>>

Next ==
    \/ \E c \in SerialChars : uartintr(c)
    \/ \E key \in Keys : moveKey(key)
    \/ kbdintr
    \/ \E string \in Outputs : consolewrite(string)
    \/ \E p \in Readers, k \in ReadSizes : consoleread(p, k)
    \/ \E p \in Readers : readPass(p) \/ sleepOnInput(p) \/ kill(p)

Spec == Init /\ [][Next]_vars
-----------------------------------------------------------------------------
\* Readers and the typist never wait for each other: a process sleeps in
\* consoleread only while no finished input is left, and while none is left
\* consoleintr has room for another character.
NoStall ==
    /\ \A p \in Readers : pc[p] = "asleep" => Ready = <<>>
    /\ Ready = <<>> => HasRoom

\* What is echoed is what is edited: the cursor of cgaputc stays on the
\* screen, and unless others wrote meanwhile, the cells before it hold the
\* unfinished line of consoleintr.
EditedLineShown ==
    /\ screen.pos \in 0 .. ROWS * COLS - 1
    /\ ~ mixed =>
         /\ screen.pos >= Len(Line)
         /\ \A i \in DOMAIN Line :
              screen.crt[screen.pos - Len(Line) + i - 1] = Line[i]

\* kbdgetc's static state has no modifier, and no E0, left over once every
\* byte of the keys that were moved has been taken.
NoStuckModifier ==
    wire = <<>> =>
      /\ "E0ESC" \notin shift
      /\ \A m \in {"CTL", "SHIFT"} :
           (\A key \in held : m \notin shiftcode(key)) => m \notin shift

\* What can be on a line: bytes of the serial line and letters of the keyboard.
LineChars == SerialChars \cup {"d", "D", NewLine, EndOfFile}

\* The ring with its wrapping counters implements Terminal: finished input
\* is read once and in order, whoever reads and whatever is typed meanwhile.
T == INSTANCE Terminal WITH
        line <- Line, ready <- Ready, Size <- INPUT_BUF, Char <- LineChars
Implements == T!Spec
=============================================================================
