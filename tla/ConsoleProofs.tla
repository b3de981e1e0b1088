--------------------------- MODULE ConsoleProofs ---------------------------
(***************************************************************************)
(* The console is a channel, for whatever is typed and written, at any     *)
(* time and however much: the type invariant of Console, and the           *)
(* refinement of Channel.  And every line that is typed ends in one CR     *)
(* (EveryLineEnds), and the column is the cursor's (ColumnIsTheCursors).   *)
(***************************************************************************)
EXTENDS Console, SequenceTheorems, FiniteSetTheorems, WellFoundedInduction, TLAPS

Less == {pair \in Nat \X Nat : pair[1] < pair[2]}

\* A set of natural numbers that is not empty has a least element.
LEMMA LeastOf ==
    ASSUME NEW S \in SUBSET Nat, S # {}
    PROVE  \E i \in S : \A j \in S : i <= j
  <1>1. IsWellFoundedOn(Less, Nat)
    BY NatLessThanWellFounded DEF OpToRel, Less
  <1>2. PICK i \in S : \A j \in S : ~(<<j, i>> \in Less)
    BY <1>1, WFMin
  <1>3. \A j \in S : ~(j < i)
    BY <1>2 DEF Less
  <1> QED
    BY <1>3

(***************************************************************************)
(* Sequences.                                                              *)
(***************************************************************************)
LEMMA OneAndTail ==
    ASSUME NEW S, NEW s \in Seq(S), s # <<>>
    PROVE  <<Head(s)>> \o Tail(s) = s
  <1>1. Head(s) \in S /\ Tail(s) \in Seq(S)
    BY HeadTailProperties
  <1>2. <<Head(s)>> \in Seq(S) /\ <<Head(s)>> \o Tail(s) \in Seq(S)
    BY <1>1, ConcatProperties
  <1>3. Len(<<Head(s)>> \o Tail(s)) = Len(s)
    BY <1>1, <1>2, HeadTailProperties, ConcatProperties
  <1>4. \A i \in 1..Len(s) : (<<Head(s)>> \o Tail(s))[i] = s[i]
    BY <1>1, <1>2, HeadTailProperties, ConcatProperties
  <1> QED
    BY <1>2, <1>3, <1>4, SeqEqual

LEMMA OneThen ==
    ASSUME NEW S, NEW e \in S, NEW s \in Seq(S)
    PROVE  /\ <<e>> \o s \in Seq(S)
           /\ <<e>> \o s # <<>>
           /\ Len(<<e>> \o s) = Len(s) + 1
           /\ Head(<<e>> \o s) = e
           /\ Tail(<<e>> \o s) = s
  <1> DEFINE t == <<e>> \o s
  <1>1. <<e>> \in Seq(S) /\ Len(<<e>>) = 1
    OBVIOUS
  <1>2. /\ t \in Seq(S) /\ Len(t) = Len(s) + 1
        /\ \A i \in 1..Len(s) + 1 : t[i] = IF i = 1 THEN e ELSE s[i - 1]
    BY <1>1, ConcatProperties
  <1> HIDE DEF t
  <1>3. t # <<>> /\ t[1] = e /\ Head(t) = t[1]
    BY <1>2
  <1>4. Tail(t) \in Seq(S) /\ Len(Tail(t)) = Len(s)
    BY <1>2, <1>3, HeadTailProperties
  <1>5. \A i \in 1..Len(s) : Tail(t)[i] = s[i]
    BY <1>2, <1>3, <1>4, HeadTailProperties
  <1>6. Tail(t) = s
    BY <1>4, <1>5, SeqEqual
  <1> QED
    BY <1>2, <1>3, <1>6 DEF t

\* Overrun: the second of what is coming is lost.
LEMMA LoseSecond ==
    ASSUME NEW S, NEW e \in S, NEW s \in Seq(S), s # <<>>
    PROVE  /\ 2 \in DOMAIN (<<e>> \o s)
           /\ RemoveAt(<<e>> \o s, 2) = <<e>> \o Tail(s)
  <1> DEFINE t == <<e>> \o s
  <1>1. Len(s) \in Nat \ {0}
    BY EmptySeq
  <1>2. /\ t \in Seq(S) /\ Len(t) = Len(s) + 1 /\ Tail(t) = s /\ t[1] = e
        /\ t # <<>>
    BY OneThen
  <1> HIDE DEF t
  <1>3. SubSeq(t, 1, 1) = <<e>>
    <2>1. \A i \in 1..1 : t[i] \in S
      BY <1>2
    <2>2. /\ SubSeq(t, 1, 1) \in Seq(S) /\ Len(SubSeq(t, 1, 1)) = 1
          /\ \A i \in 1..1 : SubSeq(t, 1, 1)[i] = t[1 + i - 1]
      BY <2>1, SubSeqProperties
    <2>3. SubSeq(t, 1, 1)[1] = e
      BY <1>2, <2>2
    <2>4. <<e>> \in Seq(S) /\ Len(<<e>>) = 1 /\ <<e>>[1] = e
      OBVIOUS
    <2>5. \A i \in 1..1 : SubSeq(t, 1, 1)[i] = <<e>>[i]
      BY <2>3, <2>4
    <2> QED
      BY <2>2, <2>4, <2>5, SeqEqual
  <1>4. SubSeq(t, 3, Len(t)) = Tail(s)
    <2>1. s = SubSeq(t, 2, Len(t)) /\ Tail(s) = Tail(SubSeq(t, 2, Len(t)))
      BY <1>2, TailIsSubSeq
    <2>2. Tail(SubSeq(t, 2, Len(t))) = SubSeq(t, 2 + 1, Len(t))
      BY <1>1, <1>2, HeadTailOfSubSeq
    <2> QED
      BY <2>1, <2>2, SMTT(30)
  <1>5. RemoveAt(t, 2) = <<e>> \o Tail(s)
    <2>1. 2 - 1 = 1 /\ 2 + 1 = 3
      OBVIOUS
    <2>2. RemoveAt(t, 2) = SubSeq(t, 1, 2 - 1) \o SubSeq(t, 3, Len(t))
      BY <2>1 DEF RemoveAt
    <2> QED
      BY <1>3, <1>4, <2>1, <2>2
  <1>6. 2 \in DOMAIN t
    BY <1>1, <1>2
  <1> QED
    BY <1>5, <1>6 DEF t

(***************************************************************************)
(* The invariant: a place in the driver says what its last poll has seen,  *)
(* and nobody else changes that.                                           *)
(***************************************************************************)
Polled ==
    /\ pc = "spcWrite" => tdre
    /\ pc = "sgcRead" => rdrf

ConsoleInv == TypeOK /\ Polled

LEMMA CharacterTypes ==
    ASSUME NEW c \in Byte
    PROVE  Canonical(c) \in Byte \ {LF}
  BY DEF Canonical, Byte, CR, LF

LEMMA PutTypes ==
    ASSUME NEW c \in Byte, currentColumn \in Byte, Put(c)
    PROVE  pc' = "spcWait" /\ a' = c /\ a' \in Byte /\ currentColumn' \in Byte
  <1>1. 1 \in Byte /\ (currentColumn + 1) % 256 \in Byte
    BY DEF Byte
  <1> QED
    BY <1>1 DEF Put, ColumnAfter

\* The characters read: the data register's, and then it is empty.
LEMMA ReadTypes ==
    ASSUME ConsoleInv, ReadData
    PROVE  /\ taken' \in Seq(Byte) /\ got' \in Seq(Byte)
           /\ prevChar' \in Byte \ {LF} /\ currentColumn' \in Byte /\ a' \in Byte
           /\ pc' \in {"sgcWait", "spcWait", "idle"}
  <1>1. /\ rdr \in Byte /\ taken \in Seq(Byte) /\ got \in Seq(Byte) /\ a \in Byte
        /\ prevChar \in Byte \ {LF} /\ currentColumn \in Byte
    BY DEF ConsoleInv, TypeOK
  <1>2. taken' \in Seq(Byte)
    BY <1>1, AppendProperties DEF ReadData
  <1>3. CASE Swallowed(prevChar, rdr)
    BY <1>1, <1>2, <1>3 DEF ReadData
  <1>4. CASE ~Swallowed(prevChar, rdr)
    <2>1. prevChar' = Canonical(rdr) /\ got' = Append(got, prevChar')
      BY <1>4 DEF ReadData
    <2>2. prevChar' \in Byte \ {LF}
      BY <1>1, <2>1, CharacterTypes
    <2>3. got' \in Seq(Byte)
      BY <1>1, <2>1, <2>2, AppendProperties
    <2>4. CASE echo
      <3>1. Put(prevChar')
        BY <1>4, <2>4 DEF ReadData
      <3>2. pc' = "spcWait" /\ a' \in Byte /\ currentColumn' \in Byte
        BY <1>1, <2>2, <3>1 DEF Put, ColumnAfter, Byte
      <3> QED
        BY <1>2, <2>2, <2>3, <3>2
    <2>5. CASE ~echo
      BY <1>1, <1>2, <1>4, <2>2, <2>3, <2>5 DEF ReadData
    <2> QED
      BY <2>4, <2>5
  <1> QED
    BY <1>3, <1>4

LEMMA InitEstablishes == Init => ConsoleInv
  <1>1. ASSUME Init PROVE ConsoleInv
    <2>1. toType \in Seq(Byte)
      BY <1>1, ConsoleAssumption DEF Init
    <2>2. <<>> \in Seq(Byte)
      OBVIOUS
    <2>3. 0 \in Byte /\ 0 \in Byte \ {LF} /\ "idle" \in Places
      BY DEF Byte, LF, Places
    <2>4. TypeOK
      BY <1>1, <2>1, <2>2, <2>3 DEF Init, TypeOK
    <2>5. Polled
      BY <1>1 DEF Init, Polled
    <2> QED
      BY <2>4, <2>5 DEF ConsoleInv
  <1> QED
    BY <1>1

LEMMA DeviceKeeps == ASSUME ConsoleInv, Arrive \/ Transmit PROVE ConsoleInv'
  <1>1. CASE Arrive
    <2>1. Head(toType) \in Byte /\ Tail(toType) \in Seq(Byte)
      BY <1>1, HeadTailProperties DEF Arrive, ConsoleInv, TypeOK
    <2>2. toType' \in Seq(Byte) /\ rdr' \in Byte
      BY <1>1, <2>1 DEF Arrive, ConsoleInv, TypeOK
    <2> QED
      BY <1>1, <2>2 DEF Arrive, ConsoleInv, TypeOK, Polled, stdioVars
  <1>2. CASE Transmit
    <2>1. screen' \in Seq(Byte)
      BY <1>2, AppendProperties DEF Transmit, ConsoleInv, TypeOK
    <2> QED
      BY <1>2, <2>1 DEF Transmit, ConsoleInv, TypeOK, Polled, stdioVars
  <1> QED
    BY <1>1, <1>2

LEMMA DriverKeeps == ASSUME ConsoleInv, Driver PROVE ConsoleInv'
  <1>1. CASE PollTransmit \/ PollReceive
    BY <1>1 DEF PollTransmit, PollReceive, ConsoleInv, TypeOK, Polled, Places, device,
                stdioVars
  <1>2. CASE WriteData
    BY <1>2 DEF WriteData, ConsoleInv, TypeOK, Polled, Places, stdioVars
  <1>3. CASE ReadData
    <2>1. UNCHANGED <<toType, rdr, tdre, tdr, screen, echo>> /\ rdrf' = FALSE
      BY <1>3 DEF ReadData
    <2> QED
      BY <1>3, <2>1, ReadTypes DEF ConsoleInv, TypeOK, Polled, Places
  <1> QED
    BY <1>1, <1>2, <1>3 DEF Driver

LEMMA ProgramKeeps == ASSUME ConsoleInv, Program PROVE ConsoleInv'
  <1>1. CASE CallPutChar
    <2>1. PICK c \in Writable : Put(c)
      BY <1>1 DEF CallPutChar
    <2>2. c \in Byte /\ currentColumn \in Byte
      BY ConsoleAssumption DEF ConsoleInv, TypeOK
    <2>3. pc' = "spcWait" /\ a' \in Byte /\ currentColumn' \in Byte
      BY <2>1, <2>2, PutTypes
    <2> QED
      BY <1>1, <2>3 DEF CallPutChar, ConsoleInv, TypeOK, Polled, Places, device
  <1>2. CASE CallGetChar \/ ToggleEcho
    BY <1>2 DEF CallGetChar, ToggleEcho, ConsoleInv, TypeOK, Polled, Places, device,
                stdioVars
  <1> QED
    BY <1>1, <1>2 DEF Program

LEMMA NextKeeps == ConsoleInv /\ [Next]_vars => ConsoleInv'
  <1> SUFFICES ASSUME ConsoleInv, [Next]_vars PROVE ConsoleInv'
    OBVIOUS
  <1>1. CASE UNCHANGED vars
    BY <1>1 DEF vars, device, stdioVars, ConsoleInv, TypeOK, Polled
  <1> QED
    BY <1>1, DeviceKeeps, DriverKeeps, ProgramKeeps DEF Next

LEMMA Invariance == Spec => []ConsoleInv
  BY InitEstablishes, NextKeeps, PTL DEF Spec

\* Registers and globals keep their widths, for any text and any output: the column
\* is a byte, and the last character is never a line feed (stdio.asm:32-60, 77-93).
THEOREM TypeCorrect == Spec => []TypeOK
  <1>1. ConsoleInv => TypeOK
    BY DEF ConsoleInv
  <1> QED
    BY <1>1, Invariance, PTL

(***************************************************************************)
(* The refinement.                                                         *)
(***************************************************************************)
Coming == (IF rdrf THEN <<rdr>> ELSE <<>>) \o toType
InFlight == IF tdre THEN <<>> ELSE <<tdr>>
Written == IF Writing THEN <<a>> ELSE <<>>

\* The channel's actions in the console's terms.
LEMMA ChannelActions ==
    /\ /\ \E i \in DOMAIN Coming : Coming' = RemoveAt(Coming, i)
       /\ UNCHANGED <<prevChar, got, Shown, echo>>
       => C!Lose
    /\ /\ Coming # <<>> /\ Swallowed(prevChar, Head(Coming)) /\ Coming' = Tail(Coming)
       /\ UNCHANGED <<prevChar, got, Shown, echo>>
       => C!Skip
    /\ /\ Coming # <<>> /\ ~Swallowed(prevChar, Head(Coming)) /\ Coming' = Tail(Coming)
       /\ prevChar' = Canonical(Head(Coming)) /\ got' = Append(got, prevChar')
       /\ Shown' = IF echo THEN Append(Shown, prevChar') ELSE Shown
       /\ UNCHANGED echo
       => C!Give
    /\ UNCHANGED <<Coming, prevChar, got, Shown, echo>> => UNCHANGED C!channel
  <1>1. /\ \E i \in DOMAIN Coming : Coming' = RemoveAt(Coming, i)
        /\ UNCHANGED <<prevChar, got, Shown, echo>>
        => C!Lose
    BY DEF C!Lose, Coming, C!RemoveAt, RemoveAt
  <1>2. /\ Coming # <<>> /\ Swallowed(prevChar, Head(Coming)) /\ Coming' = Tail(Coming)
        /\ UNCHANGED <<prevChar, got, Shown, echo>>
        => C!Skip
    BY DEF C!Skip, Coming, C!Swallowed, Swallowed, C!CR, CR, C!LF, LF
  <1>3. /\ Coming # <<>> /\ ~Swallowed(prevChar, Head(Coming)) /\ Coming' = Tail(Coming)
        /\ prevChar' = Canonical(Head(Coming)) /\ got' = Append(got, prevChar')
        /\ Shown' = IF echo THEN Append(Shown, prevChar') ELSE Shown
        /\ UNCHANGED echo
        => C!Give
    BY DEF C!Give, Coming, C!Swallowed, Swallowed, C!Canonical, Canonical,
           C!CR, CR, C!LF, LF
  <1>4. UNCHANGED <<Coming, prevChar, got, Shown, echo>> => UNCHANGED C!channel
    BY DEF C!channel, Coming
  <1> QED
    BY <1>1, <1>2, <1>3, <1>4

\* What is shown, in three parts.
LEMMA ShownParts ==
    ASSUME ConsoleInv
    PROVE  /\ screen \in Seq(Byte) /\ InFlight \in Seq(Byte) /\ Written \in Seq(Byte)
           /\ screen \o InFlight \in Seq(Byte)
           /\ Shown = (screen \o InFlight) \o Written
           /\ ~Writing => Shown = screen \o InFlight
  <1>1. screen \in Seq(Byte) /\ InFlight \in Seq(Byte) /\ Written \in Seq(Byte)
    BY DEF ConsoleInv, TypeOK, InFlight, Written
  <1>2. screen \o InFlight \in Seq(Byte)
    BY <1>1, ConcatProperties
  <1>3. (screen \o InFlight) \o <<>> = screen \o InFlight
    BY <1>2, ConcatEmptySeq
  <1> QED
    BY <1>1, <1>2, <1>3 DEF Shown, InFlight, Written

\* What is written is shown behind all the rest at once.
LEMMA WrittenIsShown ==
    ASSUME ConsoleInv, ~Writing, NEW c \in Byte, pc' = "spcWait", a' = c,
           UNCHANGED <<screen, tdre, tdr>>
    PROVE  Shown' = Append(Shown, c)
  <1>1. Shown = screen \o InFlight /\ Shown \in Seq(Byte)
    BY ShownParts
  <1>2. Shown' = Shown \o <<c>>
    BY <1>1 DEF Shown, Writing, InFlight
  <1> QED
    BY <1>1, <1>2, AppendIsConcat

LEMMA ArriveRefines ==
    ASSUME ConsoleInv, Arrive
    PROVE  C!Lose \/ UNCHANGED C!channel
  <1>1. toType \in Seq(Byte) /\ toType # <<>> /\ rdr \in Byte
    BY DEF ConsoleInv, TypeOK, Arrive
  <1>2. UNCHANGED <<prevChar, got, Shown, echo>>
    BY DEF Arrive, Shown, Writing, stdioVars
  <1>3. CASE rdrf
    <2>1. Coming = <<rdr>> \o toType /\ Coming' = <<rdr>> \o Tail(toType)
      BY <1>3 DEF Arrive, Coming
    <2>2. 2 \in DOMAIN Coming /\ Coming' = RemoveAt(Coming, 2)
      BY <1>1, <2>1, LoseSecond
    <2> QED
      BY <1>2, <2>2, ChannelActions
  <1>4. CASE ~rdrf
    <2>1. Coming = <<>> \o toType /\ Coming' = <<Head(toType)>> \o Tail(toType)
      BY <1>4 DEF Arrive, Coming
    <2>2. Coming' = Coming
      BY <1>1, <2>1, OneAndTail, ConcatEmptySeq
    <2> QED
      BY <1>2, <2>2, ChannelActions
  <1> QED
    BY <1>3, <1>4

LEMMA TransmitRefines ==
    ASSUME ConsoleInv, Transmit
    PROVE  UNCHANGED C!channel
  <1>1. screen \in Seq(Byte) /\ tdr \in Byte /\ InFlight = <<tdr>>
    BY DEF ConsoleInv, TypeOK, Transmit, InFlight
  <1>2. screen' = screen \o <<tdr>>
    BY <1>1, AppendIsConcat DEF Transmit
  <1>3. screen' \o <<>> = screen'
    BY <1>1, AppendProperties, ConcatEmptySeq DEF Transmit
  <1>4. Shown' = Shown
    BY <1>1, <1>2, <1>3 DEF Transmit, Shown, Writing, InFlight
  <1> QED
    BY <1>4 DEF Transmit, C!channel, stdioVars

LEMMA WriteRefines ==
    ASSUME ConsoleInv, WriteData
    PROVE  UNCHANGED C!channel
  <1>1. tdre /\ screen \in Seq(Byte) /\ a \in Byte
    BY DEF ConsoleInv, TypeOK, Polled, WriteData
  <1>2. Shown = (screen \o <<>>) \o <<a>>
    BY <1>1 DEF WriteData, Shown, Writing
  <1>3. Shown' = (screen \o <<a>>) \o <<>>
    BY <1>1 DEF WriteData, Shown, Writing
  <1>4. screen \o <<>> = screen
    BY <1>1, ConcatEmptySeq
  <1>5. screen \o <<a>> \in Seq(Byte)
    BY <1>1, ConcatProperties
  <1>6. (screen \o <<a>>) \o <<>> = screen \o <<a>>
    BY <1>5, ConcatEmptySeq
  <1>7. Shown' = Shown
    BY <1>2, <1>3, <1>4, <1>6
  <1> QED
    BY <1>7 DEF WriteData, C!channel, stdioVars

LEMMA ReadRefines ==
    ASSUME ConsoleInv, ReadData
    PROVE  C!Skip \/ C!Give
  <1>1. rdrf /\ rdr \in Byte /\ toType \in Seq(Byte)
    BY DEF ConsoleInv, TypeOK, Polled, ReadData
  <1>2. Coming = <<rdr>> \o toType /\ Coming' = <<>> \o toType
    BY <1>1 DEF ReadData, Coming
  <1>3. Coming # <<>> /\ Head(Coming) = rdr /\ Coming' = Tail(Coming)
    BY <1>1, <1>2, OneThen, ConcatEmptySeq
  <1>4. ~Writing /\ echo' = echo /\ UNCHANGED <<screen, tdre, tdr>>
    BY DEF ReadData, Writing
  <1>5. CASE Swallowed(prevChar, rdr)
    <2>1. pc' = "sgcWait" /\ UNCHANGED <<prevChar, got>>
      BY <1>5 DEF ReadData
    <2>2. Shown' = Shown
      BY <1>4, <2>1 DEF Shown, Writing
    <2> QED
      BY <1>3, <1>4, <1>5, <2>1, <2>2, ChannelActions
  <1>6. CASE ~Swallowed(prevChar, rdr)
    <2>1. prevChar' = Canonical(rdr) /\ got' = Append(got, prevChar')
      BY <1>6 DEF ReadData
    <2>2. prevChar' \in Byte
      BY <1>1, <2>1, CharacterTypes
    <2>3. CASE echo
      <3>1. Put(prevChar')
        BY <1>6, <2>3 DEF ReadData
      <3>2. Shown' = Append(Shown, prevChar')
        BY <1>4, <2>2, <3>1, WrittenIsShown DEF Put
      <3> QED
        BY <1>3, <1>4, <1>6, <2>1, <2>3, <3>2, ChannelActions
    <2>4. CASE ~echo
      <3>1. pc' = "idle"
        BY <1>6, <2>4 DEF ReadData
      <3>2. Shown' = Shown
        BY <1>4, <3>1 DEF Shown, Writing
      <3> QED
        BY <1>3, <1>4, <1>6, <2>1, <2>4, <3>2, ChannelActions
    <2> QED
      BY <2>3, <2>4
  <1> QED
    BY <1>5, <1>6

LEMMA CallRefines ==
    ASSUME ConsoleInv, CallPutChar
    PROVE  C!Show
  <1>1. PICK c \in Writable : Put(c)
    BY DEF CallPutChar
  <1>2. c \in Byte /\ ~Writing /\ UNCHANGED <<screen, tdre, tdr>>
    BY ConsoleAssumption DEF CallPutChar, Writing, device
  <1>3. Shown' = Append(Shown, c)
    BY <1>1, <1>2, WrittenIsShown DEF Put
  <1> QED
    BY <1>3 DEF CallPutChar, C!Show, device

\* The rest is not seen from outside, but for the switch of the echo.
LEMMA RestRefines ==
    ASSUME ConsoleInv,
           PollTransmit \/ PollReceive \/ CallGetChar \/ ToggleEcho \/ UNCHANGED vars
    PROVE  C!SetEcho \/ UNCHANGED C!channel
  <1>1. CASE PollTransmit \/ PollReceive \/ CallGetChar
    <2>1. UNCHANGED <<device, a, stdioVars>> /\ (Writing' <=> Writing)
      BY <1>1 DEF PollTransmit, PollReceive, CallGetChar, Writing
    <2>2. Coming' = Coming /\ UNCHANGED <<prevChar, got, echo>>
      BY <2>1 DEF Coming, device, stdioVars
    <2>3. Shown' = Shown
      BY <2>1 DEF Shown, device
    <2> QED
      BY <2>2, <2>3, ChannelActions
  <1>2. CASE ToggleEcho
    BY <1>2 DEF ToggleEcho, C!SetEcho, Shown, Writing, device
  <1>3. CASE UNCHANGED vars
    BY <1>3 DEF vars, C!channel, Shown, Writing, device, stdioVars
  <1> QED
    BY <1>1, <1>2, <1>3

LEMMA NextRefines == ConsoleInv /\ [Next]_vars => [C!ChannelNext]_(C!channel)
  <1> SUFFICES ASSUME ConsoleInv, [Next]_vars PROVE [C!ChannelNext]_(C!channel)
    OBVIOUS
  <1> QED
    BY ArriveRefines, TransmitRefines, WriteRefines, ReadRefines, CallRefines,
       RestRefines
    DEF Next, Driver, Program, C!ChannelNext

LEMMA InitRefines == Init => C!ChannelInit
  <1> SUFFICES ASSUME Init PROVE C!ChannelInit
    OBVIOUS
  <1>1. toType \in Seq(Byte)
    BY ConsoleAssumption DEF Init
  <1>2. <<>> \o toType = toType
    BY <1>1, ConcatEmptySeq
  <1>3. (<<>> \o <<>>) \o <<>> = <<>>
    OBVIOUS
  <1>4. Shown = <<>>
    BY <1>3 DEF Init, Shown, Writing
  <1> QED
    BY <1>2, <1>4 DEF Init, C!ChannelInit

\* The console is a channel: what is typed reaches a program in its order, once, or
\* is lost, each line ending in one CR but for the line feed of a pair; what is
\* written, echo included, is shown once and in its order (stdio.asm, mc6850.asm).
THEOREM ConsoleIsAChannel == Spec => IsChannel
  BY InitRefines, NextRefines, Invariance, PTL DEF Spec, IsChannel, C!ChannelSpec

(***************************************************************************)
(* Line ends.  EveryLineEnds counts; it is kept because the last character *)
(* returned tells how the last one read was typed.                         *)
(***************************************************************************)
LastRead == prevChar = IF taken = <<>> THEN 0 ELSE Canonical(taken[Len(taken)])

EndsInv == ConsoleInv /\ LastRead /\ EveryLineEnds

\* The character read next: it adds one to the places that are looked for, or none.
LEMMA CountOneMore ==
    ASSUME NEW n \in Nat, NEW A \in SUBSET (1..n)
    PROVE  /\ Cardinality(A) \in Nat
           /\ Cardinality(A \cup {n + 1}) = Cardinality(A) + 1
  <1>1. IsFiniteSet(1..n)
    BY FS_Interval
  <1>2. IsFiniteSet(A)
    BY <1>1, FS_Subset
  <1>3. ~(n + 1 \in A)
    OBVIOUS
  <1> QED
    BY <1>2, <1>3, FS_AddElement, FS_CardinalityType

GotCR == {i \in DOMAIN got : got[i] = CR}

LEMMA GotSteps ==
    ASSUME got \in Seq(Byte), NEW c \in Byte, got' = Append(got, c)
    PROVE  /\ Cardinality(GotCR) \in Nat
           /\ Cardinality(GotCR') = IF c = CR THEN Cardinality(GotCR) + 1
                                    ELSE Cardinality(GotCR)
  <1> DEFINE n == Len(got)
  <1>1. n \in Nat /\ DOMAIN got = 1..n /\ GotCR \in SUBSET (1..n)
    BY DEF GotCR
  <1>2. /\ DOMAIN got' = 1..(n + 1) /\ got'[n + 1] = c
        /\ \A i \in 1..n : got'[i] = got[i]
    BY AppendProperties
  <1> HIDE DEF n
  <1>3. GotCR' = IF c = CR THEN GotCR \cup {n + 1} ELSE GotCR
    <2>1. \A i : i \in 1..(n + 1) <=> i \in 1..n \/ i = n + 1
      BY <1>1
    <2>2. \A i : i \in GotCR <=> i \in 1..n /\ got[i] = CR
      BY <1>1 DEF GotCR
    <2>3. \A i : i \in GotCR' <=> i \in 1..(n + 1) /\ got'[i] = CR
      BY <1>2 DEF GotCR
    <2>4. \A i : i \in GotCR' <=> i \in GotCR \/ (c = CR /\ i = n + 1)
      BY <1>2, <2>1, <2>2, <2>3
    <2> QED
      BY <2>4
  <1> QED
    BY <1>1, <1>3, CountOneMore

LEMMA TakenSteps ==
    ASSUME taken \in Seq(Byte), NEW c \in Byte, taken' = Append(taken, c)
    PROVE  /\ Cardinality(LineEnds) \in Nat
           /\ Cardinality(LineEnds') =
                 IF c = CR \/ (c = LF /\ (taken = <<>> \/ taken[Len(taken)] # CR))
                 THEN Cardinality(LineEnds) + 1 ELSE Cardinality(LineEnds)
           /\ LineFeedTwice => LineFeedTwice'
           /\ c = LF /\ taken # <<>> /\ taken[Len(taken)] = LF => LineFeedTwice'
           /\ taken' # <<>> /\ taken'[Len(taken')] = c
  <1> DEFINE n == Len(taken)
  <1>1. /\ n \in Nat /\ DOMAIN taken = 1..n /\ LineEnds \in SUBSET (1..n)
        /\ taken = <<>> <=> n = 0
    BY EmptySeq DEF LineEnds
  <1>2. /\ DOMAIN taken' = 1..(n + 1) /\ taken'[n + 1] = c
        /\ Len(taken') = n + 1 /\ taken' \in Seq(Byte)
        /\ \A i \in 1..n : taken'[i] = taken[i]
    BY AppendProperties
  <1>3. taken' # <<>> /\ taken'[Len(taken')] = c
    BY <1>1, <1>2, EmptySeq
  <1> DEFINE ends == c = CR \/ (c = LF /\ (taken = <<>> \/ taken[n] # CR))
  <1>4. LineEnds' = IF ends THEN LineEnds \cup {n + 1} ELSE LineEnds
    <2>1. \A i : i \in LineEnds <=>
             /\ i \in 1..n
             /\ taken[i] = CR \/ (taken[i] = LF /\ (i = 1 \/ taken[i - 1] # CR))
      BY <1>1 DEF LineEnds
    <2>2. \A i : i \in LineEnds' <=>
             /\ i \in 1..(n + 1)
             /\ taken'[i] = CR \/ (taken'[i] = LF /\ (i = 1 \/ taken'[i - 1] # CR))
      BY <1>2 DEF LineEnds
    <2> HIDE DEF n
    <2>3. ASSUME NEW i \in 1..n PROVE i \in LineEnds' <=> i \in LineEnds
      <3>1. i \in 1..(n + 1) /\ (i = 1 \/ i - 1 \in 1..n)
        BY <1>1
      <3> QED
        BY <1>2, <2>1, <2>2, <3>1
    <2>4. n + 1 \in LineEnds' <=> ends
      <3>1. n + 1 \in 1..(n + 1) /\ (n + 1) - 1 = n /\ (n + 1 = 1 <=> n = 0)
        BY <1>1
      <3>2. n # 0 => n \in 1..n
        BY <1>1
      <3>3. n # 0 => taken'[n] = taken[n]
        BY <1>2, <3>2
      <3>4. n + 1 \in LineEnds' <=>
               c = CR \/ (c = LF /\ (n = 0 \/ taken'[n] # CR))
        BY <1>2, <2>2, <3>1
      <3> QED
        BY <1>1, <3>3, <3>4
    <2>5. \A i : i \in 1..(n + 1) <=> i \in 1..n \/ i = n + 1
      BY <1>1
    <2>6. \A i : i \in LineEnds' <=> i \in LineEnds \/ (ends /\ i = n + 1)
      <3>1. ~(n + 1 \in 1..n)
        BY <1>1
      <3> HIDE DEF ends
      <3> QED
        BY <2>1, <2>2, <2>3, <2>4, <2>5, <3>1
    <2> HIDE DEF ends
    <2> QED
      BY <2>6
  <1>5. LineFeedTwice => LineFeedTwice'
    <2>1. ASSUME NEW i \in 2..n
          PROVE  i \in 1..n /\ i - 1 \in 1..n /\ i \in 2..(n + 1)
      BY <1>1
    <2> HIDE DEF n
    <2>2. LineFeedTwice => \E i \in 2..n : taken[i] = LF /\ taken[i - 1] = LF
      BY DEF LineFeedTwice, n
    <2>3. (\E i \in 2..(n + 1) : taken'[i] = LF /\ taken'[i - 1] = LF) => LineFeedTwice'
      BY <1>2 DEF LineFeedTwice
    <2> QED
      BY <1>2, <2>1, <2>2, <2>3
  <1>6. c = LF /\ taken # <<>> /\ taken[Len(taken)] = LF => LineFeedTwice'
    <2>1. n # 0 => n \in 1..n /\ n + 1 \in 2..(n + 1) /\ (n + 1) - 1 = n
      BY <1>1
    <2>2. n = Len(taken)
      OBVIOUS
    <2> HIDE DEF n
    <2>3. (\E i \in 2..(n + 1) : taken'[i] = LF /\ taken'[i - 1] = LF) => LineFeedTwice'
      BY <1>2 DEF LineFeedTwice
    <2> QED
      BY <1>1, <1>2, <2>1, <2>2, <2>3
  <1>7. Cardinality(LineEnds) \in Nat
    BY <1>1, CountOneMore
  <1>8. Cardinality(LineEnds') = IF ends THEN Cardinality(LineEnds) + 1 ELSE Cardinality(LineEnds)
    <2> HIDE DEF ends, n
    <2> QED
      BY <1>1, <1>4, CountOneMore
  <1> QED
    BY <1>3, <1>5, <1>6, <1>7, <1>8

LEMMA EndsInit == Init => EndsInv
  <1> SUFFICES ASSUME Init PROVE LastRead /\ EveryLineEnds
    BY InitEstablishes DEF EndsInv
  <1>1. got = <<>> /\ taken = <<>> /\ prevChar = 0
    BY DEF Init
  <1>2. GotCR = {} /\ LineEnds = {}
    BY <1>1 DEF GotCR, LineEnds
  <1> QED
    BY <1>1, <1>2 DEF LastRead, EveryLineEnds, GotCR

LEMMA EndsNext == EndsInv /\ [Next]_vars => EndsInv'
  <1> SUFFICES ASSUME EndsInv, [Next]_vars PROVE LastRead' /\ EveryLineEnds'
    BY NextKeeps DEF EndsInv
  <1>0. /\ rdr \in Byte /\ taken \in Seq(Byte) /\ got \in Seq(Byte)
        /\ ConsoleInv /\ LastRead
        /\ ~LineFeedTwice => Cardinality(GotCR) = Cardinality(LineEnds)
    BY DEF EndsInv, ConsoleInv, TypeOK, EveryLineEnds, GotCR
  <1>1. CASE ReadData
    <2>1. taken' = Append(taken, rdr)
      BY <1>1 DEF ReadData
    <2> DEFINE last == taken[Len(taken)]
               ends == rdr = CR \/ (rdr = LF /\ (taken = <<>> \/ last # CR))
    <2>2. /\ Cardinality(LineEnds) \in Nat
          /\ Cardinality(LineEnds') = IF ends THEN Cardinality(LineEnds) + 1
                                      ELSE Cardinality(LineEnds)
          /\ LineFeedTwice => LineFeedTwice'
          /\ rdr = LF /\ taken # <<>> /\ last = LF => LineFeedTwice'
          /\ taken' # <<>> /\ taken'[Len(taken')] = rdr
      BY <1>0, <2>1, TakenSteps
    <2>3. prevChar = IF taken = <<>> THEN 0 ELSE Canonical(last)
      BY <1>0 DEF LastRead
    <2> HIDE DEF last
    <2>4. CASE Swallowed(prevChar, rdr)
      <3>1. UNCHANGED <<prevChar, got>> /\ rdr = LF /\ prevChar = CR
        BY <1>1, <2>4 DEF ReadData, Swallowed
      <3>2. LastRead'
        BY <2>2, <3>1 DEF LastRead, Canonical
      <3>3. ASSUME ~LineFeedTwice' PROVE ~ends
        <4>1. taken # <<>> /\ last # LF
          BY <2>2, <2>3, <3>1, <3>3 DEF CR
        <4>2. last = CR
          BY <2>3, <3>1, <4>1 DEF Canonical
        <4> QED
          BY <3>1, <4>1, <4>2 DEF LF, CR
      <3>4. GotCR' = GotCR
        BY <3>1 DEF GotCR
      <3> HIDE DEF ends
      <3>5. EveryLineEnds'
        BY <1>0, <2>2, <3>3, <3>4 DEF EveryLineEnds, GotCR
      <3> QED
        BY <3>2, <3>5
    <2>5. CASE ~Swallowed(prevChar, rdr)
      <3>1. prevChar' = Canonical(rdr) /\ got' = Append(got, prevChar')
        BY <1>1, <2>5 DEF ReadData
      <3>2. LastRead'
        BY <2>2, <3>1 DEF LastRead
      <3>3. prevChar' \in Byte
        BY <1>0, <3>1, CharacterTypes
      <3>4. /\ Cardinality(GotCR) \in Nat
            /\ Cardinality(GotCR') = IF prevChar' = CR THEN Cardinality(GotCR) + 1
                                     ELSE Cardinality(GotCR)
        BY <1>0, <3>1, <3>3, GotSteps
      <3>5. prevChar' = CR <=> ends
        <4>1. prevChar' = CR <=> rdr = CR \/ rdr = LF
          BY <3>1 DEF Canonical, CR, LF
        <4>2. ASSUME rdr = LF, taken # <<>> PROVE last # CR
          BY <2>3, <2>5, <4>2 DEF Swallowed, Canonical, CR, LF
        <4> QED
          BY <4>1, <4>2
      <3> HIDE DEF ends
      <3>6. EveryLineEnds'
        BY <1>0, <2>2, <3>4, <3>5 DEF EveryLineEnds, GotCR
      <3> QED
        BY <3>2, <3>6
    <2> QED
      BY <2>4, <2>5
  <1>2. CASE ~ReadData
    <2>1. UNCHANGED <<prevChar, got, taken>>
      BY <1>2 DEF Next, Arrive, Transmit, Driver, Program, PollTransmit, WriteData, PollReceive,
                  CallPutChar, CallGetChar, ToggleEcho, stdioVars, vars
    <2>2. GotCR' = GotCR /\ LineEnds' = LineEnds /\ (LineFeedTwice' <=> LineFeedTwice)
      BY <2>1 DEF GotCR, LineEnds, LineFeedTwice
    <2> QED
      BY <1>0, <2>1, <2>2 DEF LastRead, EveryLineEnds, GotCR
  <1> QED
    BY <1>1, <1>2

\* A program gets one CR for each CR, LF or CR LF typed, whatever else is typed and
\* however long, but for two line feeds in a row (stdio.asm:32-60).
THEOREM LinesEnd == Spec => []EveryLineEnds
  <1>1. EndsInv => EveryLineEnds
    BY DEF EndsInv
  <1> QED
    BY <1>1, EndsInit, EndsNext, PTL DEF Spec

(***************************************************************************)
(* The cursor.  That Cursor goes on by one character is a fact about a     *)
(* recursive function: that there is one at all, for a text of any length, *)
(* is shown from the least length for which there would be none.           *)
(***************************************************************************)

Column(s, f) == [n \in 0..Len(s) |-> IF n = 0 THEN 1 ELSE Moved(f[n - 1], s[n])]
Columns(s) == CHOOSE f : f = Column(s, f)

\* f is where the cursor is in the first m characters of s.
GoesOn(f, s, m) == \A n \in 1..m : f[n] = Moved(f[n - 1], s[n])
IsColumn(f, s, m) == f \in [0..m -> Nat \ {0}] /\ f[0] = 1 /\ GoesOn(f, s, m)
Alike(f, g, D) == \A n \in D : f[n] = g[n]

LEMMA MovedTypes ==
    ASSUME NEW column \in Nat \ {0}, NEW c
    PROVE  Moved(column, c) \in Nat \ {0}
  <1>1. (column - 1) % 8 \in 0..7
    OBVIOUS
  <1>2. column + 8 - ((column - 1) % 8) \in Nat \ {0}
    BY <1>1
  <1>3. /\ 1 \in Nat \ {0} /\ column + 1 \in Nat \ {0}
        /\ (IF column = 1 THEN 1 ELSE column - 1) \in Nat \ {0}
    OBVIOUS
  <1> QED
    BY <1>2, <1>3, Zenon DEF Moved

LEMMA HasColumn ==
    ASSUME NEW s, NEW m \in Nat
    PROVE  \E f : IsColumn(f, s, m)
  <1> DEFINE none == {k \in Nat : ~\E f : IsColumn(f, s, k)}
  <1> SUFFICES ASSUME none # {} PROVE FALSE
    OBVIOUS
  <1>1. PICK k \in none : \A j \in none : k <= j
    BY LeastOf
  <1>2. CASE k = 0
    <2> DEFINE f == [n \in 0..0 |-> 1]
    <2>1. f \in [0..0 -> Nat \ {0}] /\ f[0] = 1 /\ 1..0 = {}
      OBVIOUS
    <2> QED
      BY <1>1, <1>2, <2>1 DEF IsColumn, GoesOn
  <1>3. CASE k # 0
    <2>1. k - 1 \in Nat /\ k \in Nat /\ ~(k - 1 \in none)
      BY <1>1, <1>3
    <2>2. PICK f : IsColumn(f, s, k - 1)
      BY <2>1
    <2> DEFINE g == [n \in 0..k |-> IF n = k THEN Moved(f[k - 1], s[k]) ELSE f[n]]
    <2>3. /\ \A n \in 0..(k - 1) : n \in 0..k /\ n # k
          /\ \A n \in 1..k : n \in 0..k /\ (n # k => n \in 1..(k - 1) /\ n - 1 \in 0..(k - 1))
          /\ \A n \in 0..k : n # k => n \in 0..(k - 1)
          /\ k \in 0..k /\ 0 \in 0..k /\ k - 1 \in 0..(k - 1) /\ 0 \in 0..(k - 1)
      BY <2>1, <1>3
    <2>4. f[k - 1] \in Nat \ {0} /\ Moved(f[k - 1], s[k]) \in Nat \ {0}
      BY <2>2, <2>3, MovedTypes DEF IsColumn, GoesOn
    <2>5. \A n \in 0..k : g[n] = IF n = k THEN Moved(f[k - 1], s[k]) ELSE f[n]
      OBVIOUS
    <2>6. g \in [0..k -> Nat \ {0}]
      BY <2>2, <2>3, <2>4 DEF IsColumn, GoesOn
    <2> HIDE DEF g
    <2>7. g[0] = 1
      BY <1>3, <2>2, <2>3, <2>5 DEF IsColumn, GoesOn
    <2>8. ASSUME NEW n \in 1..k PROVE g[n] = Moved(g[n - 1], s[n])
      <3>1. n - 1 \in 0..k /\ n - 1 # k
        BY <2>1
      <3>2. g[n - 1] = f[n - 1]
        BY <2>5, <3>1
      <3>3. CASE n = k
        BY <2>3, <2>5, <3>2, <3>3
      <3>4. CASE n # k
        BY <2>2, <2>3, <2>5, <3>2, <3>4 DEF IsColumn, GoesOn
      <3> QED
        BY <3>3, <3>4
    <2>9. IsColumn(g, s, k)
      BY <2>6, <2>7, <2>8 DEF IsColumn, GoesOn
    <2> QED
      BY <1>1, <2>9
  <1> QED
    BY <1>2, <1>3

\* Two columns that go on alike are alike.
LEMMA SameColumn ==
    ASSUME NEW f, NEW g, NEW s, NEW t, NEW m \in Nat,
           f[0] = g[0], GoesOn(f, s, m), GoesOn(g, t, m), Alike(s, t, 1..m)
    PROVE  Alike(f, g, 0..m)
  <1> DEFINE apart == {k \in 0..m : f[k] # g[k]}
  <1> SUFFICES ASSUME apart # {} PROVE FALSE
    BY DEF Alike
  <1>1. apart \in SUBSET Nat
    OBVIOUS
  <1>2. PICK k \in apart : \A j \in apart : k <= j
    BY <1>1, LeastOf
  <1>3. k # 0 /\ k \in 1..m /\ k - 1 \in 0..m /\ ~(k - 1 \in apart)
    BY <1>2
  <1>4. f[k - 1] = g[k - 1]
    BY <1>3
  <1>5. f[k] = g[k]
    BY <1>3, <1>4 DEF GoesOn, Alike
  <1> QED
    BY <1>2, <1>5

LEMMA ColumnsAre ==
    ASSUME NEW s \in Seq(Byte)
    PROVE  IsColumn(Columns(s), s, Len(s))
  <1>1. Len(s) \in Nat
    OBVIOUS
  <1>2. PICK f : IsColumn(f, s, Len(s))
    BY <1>1, HasColumn
  <1>3. f = Column(s, f)
    <2>1. f = [n \in 0..Len(s) |-> f[n]]
      BY <1>2 DEF IsColumn, GoesOn
    <2>2. \A n \in 0..Len(s) : f[n] = IF n = 0 THEN 1 ELSE Moved(f[n - 1], s[n])
      BY <1>1, <1>2 DEF IsColumn, GoesOn
    <2> QED
      BY <2>1, <2>2, Zenon DEF Column
  <1>4. Columns(s) = Column(s, Columns(s))
    BY <1>3, Zenon DEF Columns
  <1> DEFINE c == Columns(s)
  <1>5. c = [n \in 0..Len(s) |-> IF n = 0 THEN 1 ELSE Moved(c[n - 1], s[n])]
    BY <1>4, Zenon DEF Column
  <1> HIDE DEF c
  <1>6. \A n \in 0..Len(s) : c[n] = IF n = 0 THEN 1 ELSE Moved(c[n - 1], s[n])
    BY <1>5, Zenon
  <1>7. \A n \in 0..Len(s) : c[n] = f[n]
    <2>1. GoesOn(c, s, Len(s)) /\ GoesOn(f, s, Len(s)) /\ Alike(s, s, 1..Len(s))
      BY <1>1, <1>2, <1>6 DEF IsColumn, GoesOn, Alike
    <2>2. c[0] = f[0]
      BY <1>1, <1>2, <1>6 DEF IsColumn
    <2>3. Alike(c, f, 0..Len(s))
      BY <1>1, <2>1, <2>2, SameColumn, Zenon
    <2> QED
      BY <2>3 DEF Alike
  <1>8. c = f
    <2>1. c = [n \in 0..Len(s) |-> c[n]]
      BY <1>5, Zenon
    <2>2. f = [n \in 0..Len(s) |-> f[n]]
      BY <1>2 DEF IsColumn, GoesOn
    <2> QED
      BY <1>7, <2>1, <2>2, Zenon
  <1> QED
    BY <1>2, <1>8 DEF c

LEMMA CursorMoves ==
    ASSUME NEW s \in Seq(Byte), NEW c \in Byte
    PROVE  /\ Cursor(s) \in Nat
           /\ Cursor(Append(s, c)) = Moved(Cursor(s), c)
  <1> DEFINE t == Append(s, c)
             m == Len(s)
             f == Columns(s)
             g == Columns(t)
  <1>1. /\ m \in Nat /\ t \in Seq(Byte) /\ Len(t) = m + 1 /\ t[m + 1] = c
        /\ \A n \in 1..m : s[n] = t[n]
    BY AppendProperties
  <1>2. Cursor(s) = f[m] /\ Cursor(t) = g[Len(t)]
    BY DEF Cursor, Columns, Column
  <1>3. IsColumn(f, s, m)
    BY ColumnsAre
  <1>4. IsColumn(g, t, Len(t))
    BY <1>1, ColumnsAre, Zenon
  <1> HIDE DEF t, m, f, g
  <1>5. IsColumn(g, t, m + 1)
    BY <1>1, <1>4
  <1>6. \A n \in 0..m : f[n] = g[n]
    <2>1. \A n \in 1..m : n \in 1..(m + 1)
      BY <1>1
    <2>2. GoesOn(f, s, m) /\ GoesOn(g, t, m) /\ Alike(s, t, 1..m)
      BY <1>1, <1>3, <1>5, <2>1, Zenon DEF IsColumn, GoesOn, Alike
    <2>3. f[0] = g[0]
      BY <1>3, <1>5, Zenon DEF IsColumn
    <2>4. Alike(f, g, 0..m)
      BY <1>1, <2>2, <2>3, SameColumn, Zenon
    <2> QED
      BY <2>4 DEF Alike
  <1>7. m \in 0..m /\ m + 1 \in 1..(m + 1) /\ (m + 1) - 1 = m
    BY <1>1
  <1>8. f[m] \in Nat
    BY <1>3, <1>7 DEF IsColumn, GoesOn
  <1>9. g[m + 1] = Moved(g[m], t[m + 1])
    BY <1>5, <1>7 DEF IsColumn, GoesOn
  <1>10. g[m] = f[m]
    BY <1>6, <1>7
  <1> QED
    BY <1>1, <1>2, <1>8, <1>9, <1>10 DEF t

\* The row that is shown: what one more character makes of it.
LEMMA RowGoesOn ==
    ASSUME NEW s \in Seq(Byte), NEW c \in Byte, NewRow(Append(s, c))
    PROVE  c = CR \/ (c \in Plain /\ NewRow(s))
  <1> DEFINE t == Append(s, c)
             m == Len(s)
  <1>1. /\ m \in Nat /\ DOMAIN s = 1..m /\ DOMAIN t = 1..(m + 1) /\ Len(t) = m + 1
        /\ t[m + 1] = c
        /\ \A n \in 1..m : s[n] = t[n]
    BY AppendProperties
  <1> HIDE DEF t, m
  <1>2. PICK i \in 1..(m + 1) : t[i] = CR /\ \A j \in i + 1..(m + 1) : t[j] \in Plain
    BY <1>1 DEF NewRow, t
  <1>3. CASE i = m + 1
    BY <1>1, <1>2, <1>3
  <1>4. CASE i # m + 1
    <2>1. i \in 1..m /\ m + 1 \in i + 1..(m + 1)
      BY <1>1, <1>2, <1>4
    <2>2. c \in Plain
      BY <1>1, <1>2, <2>1
    <2>3. s[i] = CR
      BY <1>1, <1>2, <2>1
    <2>4. ASSUME NEW j \in i + 1..m PROVE s[j] \in Plain
      <3>1. j \in 1..m /\ j \in i + 1..(m + 1)
        BY <1>1, <2>1
      <3> QED
        BY <1>1, <1>2, <3>1
    <2>5. NewRow(s)
      BY <1>1, <2>1, <2>3, <2>4 DEF NewRow, m
    <2> QED
      BY <2>2, <2>5
  <1> QED
    BY <1>3, <1>4

ColumnInv == ConsoleInv /\ (NewRow(Shown) => currentColumn = Cursor(Shown) % 256)

\* What is shown, and putChar's count, change together, by a character.
LEMMA ShownSteps ==
    ASSUME ConsoleInv, [Next]_vars
    PROVE  \/ UNCHANGED <<Shown, currentColumn>>
           \/ \E c \in Byte : /\ Shown' = Append(Shown, c)
                              /\ currentColumn' = ColumnAfter(currentColumn, c)
  <1>1. CASE Arrive
    BY <1>1 DEF Arrive, Shown, Writing, stdioVars
  <1>2. CASE Transmit \/ WriteData
    <2>1. UNCHANGED C!channel
      BY <1>2, TransmitRefines, WriteRefines
    <2> QED
      BY <1>2, <2>1 DEF C!channel, Transmit, WriteData, stdioVars
  <1>3. CASE ReadData
    <2>1. ~Writing /\ UNCHANGED <<screen, tdre, tdr>> /\ rdr \in Byte
      BY <1>3 DEF ReadData, Writing, ConsoleInv, TypeOK
    <2>2. CASE \E c \in Byte : Put(c)
      BY <2>1, <2>2, WrittenIsShown DEF Put
    <2>3. CASE ~\E c \in Byte : Put(c)
      <3>1. Canonical(rdr) \in Byte
        BY <2>1, CharacterTypes
      <3>2. pc' \in {"sgcWait", "idle"} /\ UNCHANGED currentColumn
        BY <1>3, <2>3, <3>1 DEF ReadData
      <3> QED
        BY <2>1, <3>2 DEF Shown, Writing
    <2> QED
      BY <2>2, <2>3
  <1>4. CASE CallPutChar
    <2>1. PICK c \in Writable : Put(c)
      BY <1>4 DEF CallPutChar
    <2>2. c \in Byte /\ ~Writing /\ UNCHANGED <<screen, tdre, tdr>>
      BY <1>4, ConsoleAssumption DEF CallPutChar, Writing, device
    <2> QED
      BY <2>1, <2>2, WrittenIsShown DEF Put
  <1>5. CASE PollTransmit \/ PollReceive \/ CallGetChar \/ ToggleEcho \/ UNCHANGED vars
    <2>1. UNCHANGED Shown
      BY <1>5, RestRefines DEF C!SetEcho, C!channel
    <2>2. UNCHANGED currentColumn
      BY <1>5 DEF PollTransmit, PollReceive, CallGetChar, ToggleEcho, vars, stdioVars
    <2> QED
      BY <2>1, <2>2
  <1> QED
    BY <1>1, <1>2, <1>3, <1>4, <1>5 DEF Next, Driver, Program

LEMMA ShownIsText == ConsoleInv => Shown \in Seq(Byte)
  BY ShownParts, ConcatProperties

LEMMA ColumnNext == ColumnInv /\ [Next]_vars => ColumnInv'
  <1> SUFFICES ASSUME ColumnInv, [Next]_vars, NewRow(Shown)'
               PROVE  currentColumn' = (Cursor(Shown) % 256)'
    BY NextKeeps DEF ColumnInv
  <1>1. ConsoleInv /\ Shown \in Seq(Byte) /\ currentColumn \in Byte
    BY ShownIsText DEF ColumnInv, ConsoleInv, TypeOK
  <1>2. CASE UNCHANGED <<Shown, currentColumn>>
    BY <1>2 DEF ColumnInv
  <1>3. ASSUME NEW c \in Byte, Shown' = Append(Shown, c),
               currentColumn' = ColumnAfter(currentColumn, c)
        PROVE  currentColumn' = (Cursor(Shown) % 256)'
    <2>1. Cursor(Shown) \in Nat /\ Cursor(Append(Shown, c)) = Moved(Cursor(Shown), c)
      BY <1>1, CursorMoves
    <2>2. c = CR \/ (c \in Plain /\ NewRow(Shown))
      BY <1>1, <1>3, RowGoesOn
    <2> DEFINE k == Cursor(Shown)
    <2>3. (Cursor(Shown) % 256)' = Moved(k, c) % 256
      BY <1>3, <2>1
    <2>4. c # CR => currentColumn = k % 256
      BY <2>2 DEF ColumnInv
    <2>5. k \in Nat
      BY <2>1
    <2> HIDE DEF k
    <2>6. ColumnAfter(currentColumn, c) = Moved(k, c) % 256
      <3>1. ((k % 256) + 1) % 256 = (k + 1) % 256 /\ 1 % 256 = 1
        BY <2>5
      <3>2. CASE c = CR
        <4>1. Moved(k, c) = 1
          BY <2>5, <3>2, SMT DEF Moved, CR, BS, TAB, SPACE, DEL
        <4>2. ColumnAfter(currentColumn, c) = 1
          BY <3>2, Zenon DEF ColumnAfter
        <4> QED
          BY <3>1, <4>1, <4>2
      <3>3. CASE c # CR
        <4>1. c \in Plain /\ currentColumn = k % 256
          BY <2>2, <2>4, <3>3
        <4>2. c # CR /\ c # BS /\ c # TAB /\ c \in Nat /\ ~(c > DEL)
          BY <4>1 DEF Plain, SPACE, DEL, LF, BELL, CR, BS, TAB
        <4>3. c \in SPACE..DEL - 1 <=> c >= SPACE /\ c < DEL
          BY <4>2 DEF SPACE, DEL
        <4>4. Moved(k, c) = IF c \in SPACE..DEL - 1 THEN k + 1 ELSE k
          BY <4>2, Zenon DEF Moved
        <4>5. ColumnAfter(currentColumn, c) =
                IF c \in SPACE..DEL - 1 THEN (currentColumn + 1) % 256 ELSE currentColumn
          BY <4>2, <4>3, Zenon DEF ColumnAfter
        <4> QED
          BY <3>1, <4>1, <4>4, <4>5
      <3> QED
        BY <3>2, <3>3
    <2> QED
      BY <1>3, <2>3, <2>6
  <1> QED
    BY <1>1, <1>2, <1>3, ShownSteps

\* putChar's count of columns is where the terminal's cursor is in a row of plain
\* text, however long, whatever was written in the rows before it -- a TAB, a BS or
\* a byte of $80 or more spoils the count up to the next CR only (stdio.asm:77-93).
THEOREM ColumnIsRight == Spec => []ColumnIsTheCursors
  <1>1. ColumnInv => ColumnIsTheCursors
    BY DEF ColumnInv, ColumnIsTheCursors
  <1>2. Init => ColumnInv
    <2> SUFFICES ASSUME Init PROVE ~NewRow(Shown)
      BY InitEstablishes DEF ColumnInv
    <2>1. (<<>> \o <<>>) \o <<>> = <<>>
      OBVIOUS
    <2>2. Shown = <<>>
      BY <2>1 DEF Init, Shown, Writing
    <2> QED
      BY <2>2 DEF NewRow
  <1> QED
    BY <1>1, <1>2, ColumnNext, PTL DEF Spec
=============================================================================
