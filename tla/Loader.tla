------------------------------- MODULE Loader -------------------------------
(***************************************************************************)
(* The "load" command of the monitor (bobmon/load_cmd.asm) with the digit  *)
(* and line readers it calls (libX09 getHexDigit, getHexByte, getHexWord,  *)
(* skipLine and getChar of bobmon/stdio.asm).                              *)
(*                                                                         *)
(* The firmware runs alone between two characters, so a step is: one call  *)
(* of getChar returns, and the code runs on to its next call of getChar.   *)
(* pc names the call it is waiting in, half which digit of getHexByte it   *)
(* is.  The terminal, the line (which may lose or alter a character, as    *)
(* the receiver is polled and its error flags are never read) and the      *)
(* operator are the environment.                                           *)
(*                                                                         *)
(* A definition marked "a mutant" is the one that follows it with a slip a *)
(* programmer could make; nothing here uses it.                            *)
(***************************************************************************)
EXTENDS LoadFile

CONSTANTS
    Transmissions, \* the files a terminal may send
    Noise,         \* the bytes the line may put in place of one sent
    MaxLoads,      \* bound: load commands given
    MaxFaults,     \* bound: characters the line loses or alters in one load
    Operator       \* TRUE: somebody presses keys while the loader waits

ASSUME LoaderAssumption ==
    /\ \A t \in Transmissions : IsFile(t)
    /\ Noise \subseteq Byte
    /\ MaxLoads \in Nat
    /\ MaxFaults \in Nat
    /\ Operator \in BOOLEAN

VARIABLES
    wire,          \* characters sent and not yet read, oldest first
    prevChar,      \* g.prevChar
    echo,          \* g.echo
    pc,            \* the call of getChar the firmware is in
    half,          \* which digit of getHexByte that call is for
    upperNibble,   \* g.upperNibble
    loadLength,    \* g.loadLength
    loadAddress,   \* g.loadAddress
    loadType,      \* g.loadType
    loadXsum,      \* g.loadXsum
    hi,            \* register B in getHexWord: the first byte read
    count,         \* register B (Intel) or X (Motorola): data bytes to come
    ptr,           \* register X (Intel) or Y (Motorola): where the next goes
    mem,           \* what this load has stored: a partial memory
    said,          \* the messages this load has printed
    total,         \* history: sum of all bytes of the current record
    sent,          \* history: the file being sent
    loads,         \* history: how many load commands were given
    faults,        \* history: where in this load the line failed, in order
    lastKey        \* the key the operator pressed last

lineVars   == <<wire, prevChar>>
recordVars == <<loadLength, loadAddress, loadType, loadXsum, hi, count, ptr>>
digitVars  == <<half, upperNibble, total>>
envVars    == <<sent, loads, faults, lastKey>>
vars == <<lineVars, recordVars, digitVars, envVars, echo, pc, mem, said>>

-----------------------------------------------------------------------------
(* Where getChar may be waiting.                                           *)

\* The calls made by getHexByte, each for the byte it is named after.
BytePcs == { "iLen", "iAddrHi", "iAddrLo", "iType", "iData", "iSum",
             "iEndSum", "sLen", "s9Hi", "s9Lo", "s9Sum", "s1Hi", "s1Lo",
             "s1Data", "s1Sum" }

\* The calls made by loadMotoRecord through skipLine.
MotoSkips == { "s1Rest", "sIgnore", "sUnsupported", "sBadXsum" }

CharPcs == { "prompt", "detect", "dlSkip", "iCR", "iNext", "iSkip",
             "sType", "sNext" } \cup MotoSkips

Messages == { "ok", "badFormat", "aborted", "badXsum", "unsupported",
              "badChar", "noDisk" }

-----------------------------------------------------------------------------
(* Reading.                                                                *)

\* The character getChar is about to return.
Char == Canonical(Head(wire))

GetChar ==
    /\ wire # <<>>
    /\ ~Swallowed(prevChar, Head(wire))
    /\ wire' = Tail(wire)
    /\ prevChar' = Char

\* getChar loops: the line feed of a CR LF pair reaches nobody.
SwallowLF ==
    /\ wire # <<>>
    /\ Swallowed(prevChar, Head(wire))
    /\ wire' = Tail(wire)
    /\ UNCHANGED <<prevChar, recordVars, digitVars, envVars,
                   echo, pc, mem, said>>

\* A call of getChar from place p that is not for a digit.
GetCharAt(p) ==
    /\ pc = p
    /\ GetChar
    /\ UNCHANGED <<digitVars, envVars>>

\* getHexByte: first digit.
HighDigit ==
    /\ pc \in BytePcs
    /\ half = "hi"
    /\ GetChar
    /\ upperNibble' = UpperNibble(Char)
    /\ half' = "lo"
    /\ UNCHANGED <<recordVars, envVars, total, echo, pc, mem, said>>

HexByte == ByteValue(upperNibble, Char)
Carry   == ByteCarry(upperNibble, Char)

\* getHexByte: second digit, with which the byte p is complete.
GotByte(p) ==
    /\ pc = p
    /\ half = "lo"
    /\ GetChar
    /\ half' = "hi"
    /\ total' = HexByte + (IF p \in {"iLen", "sLen"} THEN 0 ELSE total)
    /\ UNCHANGED <<upperNibble, envVars>>

-----------------------------------------------------------------------------
(* Leaving.                                                                *)

\* A mutant: g.echo is not cleared.
FinishEchoing(messages) ==
    /\ pc' = "prompt"
    /\ said' = said \cup messages
    /\ UNCHANGED echo

\* dlDone and dlEnd, dlAbort and dlEnd: back to the command loop.
Finish(messages) ==
    /\ pc' = "prompt"
    /\ echo' = FALSE
    /\ said' = said \cup messages

\* dlError runs on into dlDone.
Fail(messages) == Finish(messages \cup {"badFormat", "ok"})
Abort == Finish({"aborted"})

Goto(p) == pc' = p /\ UNCHANGED <<echo, said>>

GotoSaying(p, message) ==
    /\ pc' = p
    /\ said' = said \cup {message}
    /\ UNCHANGED echo

\* loadMoto's use of what loadMotoRecord leaves in A.
MotoReturn(a, messages) ==
    \/ a = 0 /\ Fail(messages)
    \/ a = 2 /\ Finish(messages \cup {"ok"})
    \/ /\ a \notin {0, 2}
       /\ pc' = "sNext"
       /\ said' = said \cup messages
       /\ UNCHANGED echo

\* lmrBadChar prints, and returns A as it finds it.
BadChar(a) == MotoReturn(a, {"badChar"})

Deposit(v) ==
    /\ mem' = [a \in DOMAIN mem \cup {ptr} |-> IF a = ptr THEN v ELSE mem[a]]
    /\ ptr' = (ptr + 1) % 65536

\* The running checksum, with the byte (or the two bytes) in v.
Sum(v) == (loadXsum + v) % 256

-----------------------------------------------------------------------------
(* loadFn.                                                                 *)

\* What is being sent when nothing is.
NoFile == [text |-> <<>>, image |-> NoMemory, supported |-> FALSE]

Init ==
    /\ wire = <<>> /\ prevChar = 0
    /\ echo = FALSE /\ pc = "prompt"
    /\ half = "hi" /\ upperNibble = 0
    /\ loadLength = 0 /\ loadAddress = 0 /\ loadType = 0 /\ loadXsum = 0
    /\ hi = 0 /\ count = 0 /\ ptr = 0
    /\ mem = NoMemory
    /\ said = {} /\ total = 0
    /\ sent = NoFile /\ loads = 0 /\ faults = <<>> /\ lastKey = CR

\* "load": the line that gave the command has just ended in a CR.  The memory
\* recorded is this load's.
LoadSerial ==
    /\ pc = "prompt" /\ wire = <<>> /\ loads < MaxLoads
    /\ sent' \in Transmissions
    /\ wire' = sent'.text
    /\ prevChar' = CR
    /\ echo' = TRUE
    /\ pc' = "detect"
    /\ mem' = NoMemory
    /\ said' = {}
    /\ loads' = loads + 1
    /\ faults' = <<>>
    /\ UNCHANGED <<recordVars, digitVars, lastKey>>

\* "load <filename>": whatever fatValidDisk answers, nothing is read.
LoadDisk ==
    /\ pc = "prompt" /\ wire = <<>> /\ loads < MaxLoads
    /\ \E valid \in BOOLEAN :
          said' = IF valid THEN {"ok"} ELSE {"noDisk", "ok"}
    /\ prevChar' = CR
    /\ echo' = FALSE
    /\ mem' = NoMemory
    /\ sent' = NoFile
    /\ loads' = loads + 1
    /\ faults' = <<>>
    /\ UNCHANGED <<wire, pc, recordVars, digitVars, lastKey>>

\* What is left on the wire after a load is typed at the command prompt.
Prompt ==
    /\ GetCharAt("prompt")
    /\ UNCHANGED <<recordVars, echo, pc, mem, said>>

Detect ==
    /\ GetCharAt("detect")
    /\ \/ Char = CTRLC /\ Abort
       \/ Char = Colon /\ Goto("iLen")
       \/ LowerCase(Char) = 115 /\ Goto("sType")               \* 'S' or 's'
       \/ Char \notin {CTRLC, Colon, 83, 115} /\ Goto("dlSkip")
    /\ UNCHANGED <<recordVars, mem>>

\* A mutant: the end of the line is looked for as a line feed.
SkipToLineFeed ==
    /\ GetCharAt("dlSkip")
    /\ Goto(IF Char = LF THEN "detect" ELSE "dlSkip")
    /\ UNCHANGED <<recordVars, mem>>

SkipToNextLine ==
    /\ GetCharAt("dlSkip")
    /\ Goto(IF Char = CR THEN "detect" ELSE "dlSkip")
    /\ UNCHANGED <<recordVars, mem>>

-----------------------------------------------------------------------------
(* loadiHexRecord.                                                         *)

\* A mutant: the checksum is not reset.
IHexLengthKeepsSum ==
    /\ GotByte("iLen")
    /\ loadLength' = HexByte
    /\ loadXsum' = Sum(HexByte)
    /\ Goto("iAddrHi")
    /\ UNCHANGED <<loadAddress, loadType, hi, count, ptr, mem>>

IHexLength ==
    /\ GotByte("iLen")
    /\ loadLength' = HexByte
    /\ loadXsum' = HexByte
    /\ Goto("iAddrHi")
    /\ UNCHANGED <<loadAddress, loadType, hi, count, ptr, mem>>

IHexAddressHigh ==
    /\ GotByte("iAddrHi")
    /\ hi' = HexByte
    /\ Goto("iAddrLo")
    /\ UNCHANGED <<loadLength, loadAddress, loadType, loadXsum, count, ptr, mem>>

IHexAddressLow ==
    /\ GotByte("iAddrLo")
    /\ loadAddress' = 256 * hi + HexByte
    /\ loadXsum' = Sum(hi + HexByte)
    /\ Goto("iType")
    /\ UNCHANGED <<loadLength, loadType, hi, count, ptr, mem>>

IHexType ==
    /\ GotByte("iType")
    /\ loadType' = HexByte
    /\ loadXsum' = Sum(HexByte)
    /\ \/ /\ HexByte = 0
          /\ ptr' = loadAddress
          /\ count' = loadLength
          /\ Goto(IF loadLength = 0 THEN "iSum" ELSE "iData")
       \/ HexByte = 1 /\ Goto("iEndSum") /\ UNCHANGED <<ptr, count>>
       \/ /\ HexByte \notin {0, 1}
          /\ GotoSaying("iSkip", "unsupported")
          /\ UNCHANGED <<ptr, count>>
    /\ UNCHANGED <<loadLength, loadAddress, hi, mem>>

\* A byte is in memory before the checksum that covers it has been seen.
IHexData ==
    /\ GotByte("iData")
    /\ Deposit(HexByte)
    /\ loadXsum' = Sum(HexByte)
    /\ count' = count - 1
    /\ Goto(IF count = 1 THEN "iSum" ELSE "iData")
    /\ UNCHANGED <<loadLength, loadAddress, loadType, hi>>

\* A mutant: coma without the inca.
OnesForTwos(b) == 255 - b

TwosComplement(b) == (256 - b) % 256

\* A mutant: the comparison is not used.
IHexChecksumUnused ==
    /\ GotByte("iSum")
    /\ loadXsum' = TwosComplement(loadXsum)
    /\ Goto("iCR")
    /\ UNCHANGED <<loadLength, loadAddress, loadType, hi, count, ptr, mem>>

IHexChecksum ==
    /\ GotByte("iSum")
    /\ loadXsum' = TwosComplement(loadXsum)
    /\ \/ HexByte = TwosComplement(loadXsum) /\ Goto("iCR")
       \/ HexByte # TwosComplement(loadXsum) /\ Fail({"badXsum"})
    /\ UNCHANGED <<loadLength, loadAddress, loadType, hi, count, ptr, mem>>

IHexEndOfLine ==
    /\ GetCharAt("iCR")
    /\ \/ Char = CR /\ Goto("iNext")
       \/ Char # CR /\ Fail({})
    /\ UNCHANGED <<recordVars, mem>>

\* The end record's checksum is computed, and the comparison not used.
IHexEndChecksum ==
    /\ GotByte("iEndSum")
    /\ loadXsum' = TwosComplement(loadXsum)
    /\ Finish({"ok"})
    /\ UNCHANGED <<loadLength, loadAddress, loadType, hi, count, ptr, mem>>

IHexSkip ==
    /\ GetCharAt("iSkip")
    /\ \/ Char = CR /\ Fail({})
       \/ Char # CR /\ Goto("iSkip")
    /\ UNCHANGED <<recordVars, mem>>

IHexNext ==
    /\ GetCharAt("iNext")
    /\ \/ Char = CTRLC /\ Abort
       \/ Char = Colon /\ Goto("iLen")
       \/ Char \notin {CTRLC, Colon} /\ Fail({})
    /\ UNCHANGED <<recordVars, mem>>

-----------------------------------------------------------------------------
(* loadMotoRecord.                                                         *)

MotoType ==
    /\ GetCharAt("sType")
    /\ \/ IsDigit(Char) /\ loadType' = Char /\ Goto("sLen")
       \/ ~IsDigit(Char) /\ BadChar(Char) /\ UNCHANGED loadType
    /\ UNCHANGED <<loadLength, loadAddress, loadXsum, hi, count, ptr, mem>>

MotoLength ==
    /\ GotByte("sLen")
    /\ \/ Carry /\ BadChar(HexByte) /\ UNCHANGED <<loadLength, loadXsum>>
       \/ /\ ~Carry
          /\ loadLength' = HexByte
          /\ loadXsum' = HexByte
          /\ \/ loadType \in {Zero, Zero + 5} /\ Goto("sIgnore")
             \/ loadType = Nine /\ Goto("s9Hi")
             \/ loadType = Zero + 1 /\ Goto("s1Hi")
             \/ /\ loadType \notin {Zero, Zero + 1, Zero + 5, Nine}
                /\ GotoSaying("sUnsupported", "unsupported")
    /\ UNCHANGED <<loadAddress, loadType, hi, count, ptr, mem>>

\* getHexWord: the carry of the first byte is lost when the second is read.
MotoAddressHigh ==
    /\ \/ GotByte("s9Hi") /\ Goto("s9Lo")
       \/ GotByte("s1Hi") /\ Goto("s1Lo")
    /\ hi' = HexByte
    /\ UNCHANGED <<loadLength, loadAddress, loadType, loadXsum, count, ptr, mem>>

Moto9AddressLow ==
    /\ GotByte("s9Lo")
    /\ \/ Carry /\ BadChar(hi) /\ UNCHANGED <<loadAddress, loadXsum>>
       \/ /\ ~Carry
          /\ loadAddress' = 256 * hi + HexByte
          /\ loadXsum' = Sum(hi + HexByte)
          /\ Goto("s9Sum")
    /\ UNCHANGED <<loadLength, loadType, hi, count, ptr, mem>>

\* A mutant: the checksum is counted with the data.
MotoDataWithChecksum == (loadLength - 2) % 65536

\* The number of data bytes is the count less 3, in 16 bits.
MotoDataLength == (loadLength - 3) % 65536

Moto1AddressLow ==
    /\ GotByte("s1Lo")
    /\ \/ /\ Carry
          /\ BadChar(hi)
          /\ UNCHANGED <<loadAddress, loadXsum, ptr, count>>
       \/ /\ ~Carry
          /\ loadAddress' = 256 * hi + HexByte
          /\ loadXsum' = Sum(hi + HexByte)
          /\ ptr' = 256 * hi + HexByte
          /\ count' = MotoDataLength
          /\ Goto("s1Data")
    /\ UNCHANGED <<loadLength, loadType, hi, mem>>

\* The loop stores first and counts after.
Moto1Data ==
    /\ GotByte("s1Data")
    /\ \/ Carry /\ BadChar(HexByte) /\ UNCHANGED <<loadXsum, count, ptr, mem>>
       \/ /\ ~Carry
          /\ Deposit(HexByte)
          /\ loadXsum' = Sum(HexByte)
          /\ count' = (count - 1) % 65536
          /\ Goto(IF count = 1 THEN "s1Sum" ELSE "s1Data")
    /\ UNCHANGED <<loadLength, loadAddress, loadType, hi>>

OnesComplement(b) == 255 - b

\* A data record continues to the end of its line, an end record ends the load.
MotoChecksum ==
    /\ \/ GotByte("s1Sum")
       \/ GotByte("s9Sum")
    /\ \/ Carry /\ BadChar(HexByte) /\ UNCHANGED loadXsum
       \/ /\ ~Carry
          /\ loadXsum' = OnesComplement(loadXsum)
          /\ \/ /\ HexByte # OnesComplement(loadXsum)
                /\ GotoSaying("sBadXsum", "badXsum")
             \/ /\ HexByte = OnesComplement(loadXsum)
                /\ \/ pc = "s1Sum" /\ Goto("s1Rest")
                   \/ pc = "s9Sum" /\ MotoReturn(2, {})
    /\ UNCHANGED <<loadLength, loadAddress, loadType, hi, count, ptr, mem>>

\* What loadMotoRecord returns after skipLine; after a bad checksum A still
\* holds the checksum that was calculated.
MotoResult(p) ==
    CASE p = "sUnsupported" -> 0
      [] p = "sBadXsum"     -> loadXsum
      [] OTHER              -> 1

MotoSkip ==
    /\ \E p \in MotoSkips :
          /\ GetCharAt(p)
          /\ \/ Char = CR /\ MotoReturn(MotoResult(p), {})
             \/ Char # CR /\ Goto(p)
    /\ UNCHANGED <<recordVars, mem>>

MotoNext ==
    /\ GetCharAt("sNext")
    /\ \/ Char = CTRLC /\ Abort
       \/ Char \in {83, 115} /\ Goto("sType")
       \/ Char \notin {CTRLC, 83, 115} /\ Fail({})
    /\ UNCHANGED <<recordVars, mem>>

-----------------------------------------------------------------------------
(* The line and the operator.                                              *)

Loading == pc # "prompt"

\* serialGetChar reads the data register, never the error flags: an overrun
\* loses a character, a bad one is delivered.
Disturb(rest) ==
    /\ Loading /\ Len(faults) < MaxFaults
    /\ wire' = rest
    /\ faults' = Append(faults, pc)
    /\ UNCHANGED <<prevChar, recordVars, digitVars, sent, loads, lastKey,
                   echo, pc, mem, said>>

LineLoses == wire # <<>> /\ Disturb(Tail(wire))
LineAlters ==
    /\ wire # <<>>
    /\ \E n \in Noise \ {Head(wire)} : Disturb(<<n>> \o Tail(wire))

\* Nothing has come for a while: CR and Ctrl-C in turn.
PressKey ==
    /\ Operator /\ Loading /\ wire = <<>>
    /\ lastKey' = IF lastKey = CR THEN CTRLC ELSE CR
    /\ wire' = <<lastKey'>>
    /\ UNCHANGED <<prevChar, recordVars, digitVars, sent, loads, faults,
                   echo, pc, mem, said>>

-----------------------------------------------------------------------------
IHex == \/ IHexLength \/ IHexAddressHigh \/ IHexAddressLow \/ IHexType
        \/ IHexData \/ IHexChecksum \/ IHexEndOfLine \/ IHexEndChecksum
        \/ IHexSkip \/ IHexNext

Moto == \/ MotoType \/ MotoLength \/ MotoAddressHigh \/ Moto9AddressLow
        \/ Moto1AddressLow \/ Moto1Data \/ MotoChecksum \/ MotoSkip \/ MotoNext

\* Everything the firmware does when a character is there.
Firmware == \/ SwallowLF \/ HighDigit \/ Prompt \/ Detect \/ SkipToNextLine
            \/ IHex \/ Moto

Next == \/ LoadSerial \/ LoadDisk \/ Firmware
        \/ LineLoses \/ LineAlters \/ PressKey

Spec == Init /\ [][Next]_vars

\* The firmware polls without end, and the operator does not give up.
FairSpec == Spec /\ WF_vars(Firmware) /\ WF_vars(PressKey)

-----------------------------------------------------------------------------
(* Properties.                                                             *)

\* The type invariant, by groups of variables.  half is "lo" only inside
\* getHexByte, and echo is on exactly while a load is going on.
LineOK == wire \in Seq(Byte) /\ prevChar \in Byte

DigitOK ==
    /\ half \in {"hi", "lo"} /\ (half = "lo" => pc \in BytePcs)
    /\ upperNibble \in Byte /\ total \in Nat

ControlOK ==
    /\ pc \in BytePcs \cup CharPcs
    /\ echo = Loading
    /\ said \subseteq Messages

RecordOK ==
    /\ loadLength \in Byte /\ loadAddress \in Word
    /\ loadType \in Byte /\ loadXsum \in Byte
    /\ hi \in Byte /\ count \in Word /\ ptr \in Word

MemoryOK ==
    /\ DOMAIN mem \subseteq Word
    /\ mem = [a \in DOMAIN mem |-> mem[a]]
    /\ \A a \in DOMAIN mem : mem[a] \in Byte

EnvOK ==
    /\ loads \in 0..MaxLoads
    /\ faults \in Seq(BytePcs \cup CharPcs) /\ Len(faults) <= MaxFaults
    /\ lastKey \in {CR, CTRLC}

TypeOK == LineOK /\ DigitOK /\ ControlOK /\ RecordOK /\ MemoryOK /\ EnvOK

\* Between two bytes of a record g.loadXsum is the sum, modulo 256, of all
\* the bytes read so far; in the middle of an address the byte in B is not
\* in it yet.
XsumTracks ==
    /\ pc \in {"iAddrHi", "iType", "iData", "iSum", "iEndSum",
               "s9Hi", "s9Sum", "s1Hi", "s1Data", "s1Sum"}
          => loadXsum = total % 256
    /\ pc \in {"iAddrLo", "s9Lo", "s1Lo"}
          => total >= hi /\ loadXsum = (total - hi) % 256

\* A data record goes on past its checksum only if the bytes received, the
\* checksum included, add up to what the format says: 0 for Intel hex, $FF
\* for S-records.  This is about the record AS READ: bad digits, carries and
\* a checksum that has eaten the line end all count.
ChecksumHolds ==
    /\ pc = "iCR" => total % 256 = 0
    /\ pc = "s1Rest" => total % 256 = 255

\* The window of the data record being read.
DataLength == IF pc = "iData" THEN loadLength ELSE loadLength - 3
InRecord(a) == \E k \in 0..(DataLength - 1) : a = (loadAddress + k) % 65536

\* In a data loop the pointer and the counter are in step: what has been
\* stored and what is to come make up the record.
LoopInStep ==
    /\ pc = "iData" =>
          /\ count \in 1..loadLength
          /\ ptr = (loadAddress + (loadLength - count)) % 65536
    /\ pc = "s1Data" /\ loadLength > 3 =>
          /\ count \in 1..(loadLength - 3)
          /\ ptr = (loadAddress + (loadLength - 3 - count)) % 65536

\* While a record is read, what the loader keeps of it agrees with the bytes that
\* have come, whichever way they came; and it is accepted only if they add up
\* (load_cmd.asm:176-225, 347-422).
RecordInStep == XsumTracks /\ ChecksumHolds /\ LoopInStep

Stored(a) == a \in DOMAIN mem => mem'[a] # mem[a]

\* Whatever arrives on the line, a data record stores only inside the window
\* its own header gives it -- if that window is not empty: see the next.
DepositsStayInRecord ==
    [][ (pc = "s1Data" => loadLength > 3) =>
            \A a \in DOMAIN mem' : Stored(a) => InRecord(a) ]_vars

\* The same of every record, as "count included address and xsum"
\* (load_cmd.asm:393) intends: false, an S1 record whose count is 3 or less
\* stores until its counter wraps.
EveryDepositStaysInRecord ==
    [][ \A a \in DOMAIN mem' : Stored(a) => InRecord(a) ]_vars

Complained == said \cap {"badFormat", "badXsum", "unsupported", "badChar"} # {}

\* With nothing lost or altered, a file the command claims to support ends up
\* in memory exactly, with no complaint, whatever ends its lines and whatever
\* an earlier load has left behind; one it does not support is complained
\* about.
FaithfulLoad ==
    (~Loading /\ loads > 0 /\ faults = <<>>) =>
        \/ "noDisk" \in said
        \/ sent = NoFile
        \/ sent.supported /\ mem = sent.image /\ said = {"ok"}
        \/ ~sent.supported /\ Complained

\* One character lost or altered does not put a wrong byte in memory without
\* a complaint.  The type digit of an S-record is outside: the format covers
\* it by nothing.
WrongBytesAreReported ==
    (/\ ~Loading /\ ~Operator /\ ~Complained
     /\ Len(faults) <= 1 /\ faults # <<"sType">>) =>
        \A a \in DOMAIN mem : a \in DOMAIN sent.image /\ mem[a] = sent.image[a]

\* A complete, undisturbed file brings the prompt back by itself: as long as
\* the loader waits there is something left for it to read.
NeverStarves == (Loading /\ sent.supported /\ faults = <<>>) => wire # <<>>

\* Whatever the line did, an operator who goes on pressing CR and Ctrl-C in
\* turn gets the prompt back.
Recovers == Loading ~> ~Loading

-----------------------------------------------------------------------------
(* What a comment says, and the code does not do.                          *)

\* loadMotoRecord returns "A: 0=Error" (load_cmd.asm:305): the load does not
\* carry on after a bad checksum.
BadChecksumStops == "badXsum" \in said => pc \in {"sBadXsum", "prompt"}
=============================================================================
