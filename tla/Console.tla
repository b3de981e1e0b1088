------------------------------ MODULE Console ------------------------------
(***************************************************************************)
(* The console: getChar and putChar (bobmon/stdio.asm) over the driver of  *)
(* the mc6850 (bobmon/mc6850.asm).  There are no interrupts: the driver    *)
(* polls the status register, and the terminal goes on sending and         *)
(* receiving between any two of its reads and writes.  A step is one       *)
(* access to a device register with the code that follows it, one event in *)
(* the device, or one call by the program on top.                          *)
(*                                                                         *)
(* A definition marked "a mutant" is the one that follows it with a slip a *)
(* programmer could make; nothing here uses it.                            *)
(***************************************************************************)
EXTENDS Stdio, SequencesExt

CONSTANTS
    Typings,       \* what the terminal may send: sequences of bytes
    Writable,      \* the characters the program may write
    MaxShown       \* bound: characters written

ASSUME ConsoleAssumption ==
    /\ Typings \subseteq Seq(Byte)
    /\ Writable \subseteq Byte
    /\ MaxShown \in Nat

VARIABLES
    toType,        \* what the terminal has still to send
    rdrf, rdr,     \* receive data register: full, and its character
    tdre, tdr,     \* transmit data register: empty, and its character
    screen,        \* what has reached the terminal
    pc,            \* where the firmware is: see Places
    a,             \* register A: the character being written
    prevChar,      \* g.prevChar
    echo,          \* g.echo
    currentColumn, \* g.currentColumn
    got,           \* history: what calls of getChar have returned
    taken          \* history: what they have read for that, as it was typed

device == <<toType, rdrf, rdr, tdre, tdr, screen>>
stdioVars == <<prevChar, echo, currentColumn, got, taken>>
vars == <<device, pc, a, stdioVars>>

\* In no call; polling for a character; about to read it; polling for room;
\* about to write.
Places == {"idle", "sgcWait", "sgcRead", "spcWait", "spcWrite"}

-----------------------------------------------------------------------------
(* The mc6850 and the terminal.                                            *)

\* A character arrives.  If the last one has not been read it is lost: that
\* sets the overrun flag, which nobody looks at.
Arrive ==
    /\ toType # <<>>
    /\ toType' = Tail(toType)
    /\ rdrf' = TRUE
    /\ rdr' = IF rdrf THEN rdr ELSE Head(toType)
    /\ UNCHANGED <<tdre, tdr, screen, pc, a, stdioVars>>

Transmit ==
    /\ ~tdre
    /\ tdre' = TRUE
    /\ screen' = Append(screen, tdr)
    /\ UNCHANGED <<toType, rdrf, rdr, tdr, pc, a, stdioVars>>

-----------------------------------------------------------------------------
(* putChar and serialPutChar.                                              *)

\* A mutant: DEL taken for a character that moves the cursor.
ColumnWithDEL(column, c) ==
    IF c = CR THEN 1
    ELSE IF c >= SPACE /\ c <= DEL THEN (column + 1) % 256 ELSE column

\* putChar's count of columns: bytes of $80 and more are negative to blt.
ColumnAfter(column, c) ==
    IF c = CR THEN 1
    ELSE IF c >= SPACE /\ c < DEL THEN (column + 1) % 256 ELSE column

\* putChar, up to its first look at the status register.
Put(c) ==
    /\ pc' = "spcWait"
    /\ a' = c
    /\ currentColumn' = ColumnAfter(currentColumn, c)

CallPutChar ==
    /\ pc = "idle" /\ Len(screen) < MaxShown
    /\ \E c \in Writable : Put(c)
    /\ UNCHANGED <<device, prevChar, echo, got, taken>>

\* A mutant: the wrong bit of the status register.
PollReceiver ==
    /\ pc = "spcWait" /\ rdrf
    /\ pc' = "spcWrite"
    /\ UNCHANGED <<device, a, stdioVars>>

PollTransmit ==
    /\ pc = "spcWait" /\ tdre
    /\ pc' = "spcWrite"
    /\ UNCHANGED <<device, a, stdioVars>>

WriteData ==
    /\ pc = "spcWrite"
    /\ tdr' = a /\ tdre' = FALSE
    /\ pc' = "idle"
    /\ UNCHANGED <<toType, rdrf, rdr, screen, a, stdioVars>>

-----------------------------------------------------------------------------
(* getChar and serialGetChar.                                              *)

CallGetChar ==
    /\ pc = "idle"
    /\ pc' = "sgcWait"
    /\ UNCHANGED <<device, a, stdioVars>>

PollReceive ==
    /\ pc = "sgcWait" /\ rdrf
    /\ pc' = "sgcRead"
    /\ UNCHANGED <<device, a, stdioVars>>

\* A mutant: the character is compared before a line feed is converted, and
\* kept as it came.
ReadDataRaw ==
    /\ pc = "sgcRead"
    /\ rdrf' = FALSE
    /\ taken' = Append(taken, rdr)
    /\ \/ /\ Swallowed(prevChar, rdr)
          /\ pc' = "sgcWait"
          /\ UNCHANGED <<a, prevChar, currentColumn, got>>
       \/ /\ ~Swallowed(prevChar, rdr)
          /\ prevChar' = rdr
          /\ got' = Append(got, Canonical(rdr))
          /\ IF echo THEN Put(Canonical(rdr))
             ELSE pc' = "idle" /\ UNCHANGED <<a, currentColumn>>
    /\ UNCHANGED <<toType, rdr, tdre, tdr, screen, echo>>

\* The data register is read, and getChar goes on: to the device again if it
\* has a line feed to ignore, to putChar if echo is on.
ReadData ==
    /\ pc = "sgcRead"
    /\ rdrf' = FALSE
    /\ taken' = Append(taken, rdr)
    /\ \/ /\ Swallowed(prevChar, rdr)
          /\ pc' = "sgcWait"
          /\ UNCHANGED <<a, prevChar, currentColumn, got>>
       \/ /\ ~Swallowed(prevChar, rdr)
          /\ prevChar' = Canonical(rdr)
          /\ got' = Append(got, prevChar')
          /\ IF echo THEN Put(prevChar')
             ELSE pc' = "idle" /\ UNCHANGED <<a, currentColumn>>
    /\ UNCHANGED <<toType, rdr, tdre, tdr, screen, echo>>

\* The load command turns echo on, and off when it is done.
ToggleEcho ==
    /\ pc = "idle"
    /\ echo' = ~echo
    /\ UNCHANGED <<device, pc, a, prevChar, currentColumn, got, taken>>

-----------------------------------------------------------------------------
Init ==
    /\ toType \in Typings
    /\ rdrf = FALSE /\ rdr = 0
    /\ tdre = TRUE /\ tdr = 0
    /\ screen = <<>>
    /\ pc = "idle" /\ a = 0
    /\ prevChar = 0 /\ echo = FALSE /\ currentColumn = 0
    /\ got = <<>> /\ taken = <<>>

Driver == PollTransmit \/ WriteData \/ PollReceive \/ ReadData
Program == CallPutChar \/ CallGetChar \/ ToggleEcho

Next == Arrive \/ Transmit \/ Driver \/ Program

Spec == Init /\ [][Next]_vars

\* The processor does not stop, and the device sends what it is given.
FairSpec == Spec /\ WF_vars(Driver) /\ WF_vars(Transmit)

-----------------------------------------------------------------------------
(* Properties.                                                             *)

Writing == pc \in {"spcWait", "spcWrite"}

\* What the terminal shows once the device has caught up.
Shown == screen \o (IF tdre THEN <<>> ELSE <<tdr>>)
                \o (IF Writing THEN <<a>> ELSE <<>>)

\* The console is a channel: nothing is lost but by overrun, nothing written
\* is overwritten, the echo is what the program got, where it got it.
C == INSTANCE Channel WITH
        coming  <- (IF rdrf THEN <<rdr>> ELSE <<>>) \o toType,
        last    <- prevChar,
        given   <- got,
        shown   <- Shown,
        echoing <- echo

IsChannel == C!ChannelSpec

TypeOK ==
    /\ toType \in Seq(Byte) /\ screen \in Seq(Byte) /\ got \in Seq(Byte)
    /\ taken \in Seq(Byte)
    /\ rdrf \in BOOLEAN /\ rdr \in Byte
    /\ tdre \in BOOLEAN /\ tdr \in Byte
    /\ pc \in Places /\ a \in Byte
    /\ prevChar \in Byte \ {LF} /\ echo \in BOOLEAN
    /\ currentColumn \in Byte

\* Where the cursor of a terminal is after what it has been sent: a TAB goes to
\* the next column of eight, and a byte of $80 or more is a letter like any other.
Moved(column, c) ==
    CASE c = CR  -> 1
      [] c = BS  -> IF column = 1 THEN 1 ELSE column - 1
      [] c = TAB -> column + 8 - ((column - 1) % 8)
      [] c \in SPACE..DEL - 1 \/ c > DEL -> column + 1
      [] OTHER   -> column

Cursor(s) ==
    LET column[n \in 0..Len(s)] == IF n = 0 THEN 1 ELSE Moved(column[n - 1], s[n])
    IN  column[Len(s)]

\* Text in ASCII: what is printed, and DEL, LF and BELL, which move no cursor.
Plain == (SPACE..DEL) \cup {LF, BELL}

\* Since the last CR nothing but plain text has been shown.
NewRow(s) == \E i \in DOMAIN s :
                 /\ s[i] = CR
                 /\ \A j \in i + 1..Len(s) : s[j] \in Plain

\* Between two calls g.currentColumn is the column of the terminal's cursor while
\* a row holds plain text only, and again with the next CR after a row that does
\* not: padToCol counts on it (stdio.asm:77-93).  Of a TAB, a BS and a byte of
\* $80 or more putChar knows nothing.
ColumnIsTheCursors ==
    ~Writing /\ NewRow(Shown) => currentColumn = Cursor(Shown) % 256

\* "If a linefeed is read, either ignore it (if it follows a CR) or convert it
\* to CR" (stdio.asm:32-34): a program gets one CR for each CR, LF or CR LF.
\* Not so of two line feeds in a row: the first, converted, counts as a CR, and
\* the second is ignored.
LineEnds == {i \in DOMAIN taken :
                 \/ taken[i] = CR
                 \/ taken[i] = LF /\ (i = 1 \/ taken[i - 1] # CR)}
LineFeedTwice == \E i \in 2..Len(taken) : taken[i] = LF /\ taken[i - 1] = LF
EveryLineEnds ==
    ~LineFeedTwice =>
        Cardinality({i \in DOMAIN got : got[i] = CR}) = Cardinality(LineEnds)

\* Output never waits for ever, and neither does a character that has come
\* for a program that is waiting for one.
Answers ==
    /\ Writing ~> ~Writing
    /\ (pc = "sgcWait" /\ rdrf) ~> ~rdrf
=============================================================================
