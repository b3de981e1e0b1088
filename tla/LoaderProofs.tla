---------------------------- MODULE LoaderProofs ----------------------------
(***************************************************************************)
(* What holds of the loader for every set of files, every noise and every  *)
(* bound.                                                                  *)
(***************************************************************************)
EXTENDS Loader, WellFoundedInduction, TLAPS

\* The inductive invariant.  The type of count needs LoopInStep (the Intel
\* loop counts down without a borrow), and ChecksumHolds needs XsumTracks.
IInv == TypeOK /\ XsumTracks /\ ChecksumHolds /\ LoopInStep

-----------------------------------------------------------------------------
(* Arithmetic.                                                             *)

\* Eight and sixteen bits.
LEMMA ByteRange == \A n \in Nat : n % 256 \in Byte
  BY Z3 DEF Byte

LEMMA WordRange == \A n \in Int : n % 65536 \in Word
  BY Z3 DEF Word

LEMMA BytesAreWords == Byte \subseteq Word
  BY DEF Byte, Word

LEMMA WordModulo == \A a \in Word : (a + 0) % 65536 = a
  BY SMT DEF Word

\* A byte added to a running sum kept modulo 256 keeps it the sum.
LEMMA SumModulo ==
    ASSUME NEW t \in Nat, NEW v \in Nat
    PROVE  ((t % 256) + v) % 256 = (t + v) % 256
  BY Z3

\* The two checksums close the sum.
LEMMA TwosCloses ==
    ASSUME NEW t \in Nat, NEW b \in Byte, b = TwosComplement(t % 256)
    PROVE  (t + b) % 256 = 0
  BY Z3 DEF Byte, TwosComplement

LEMMA OnesCloses ==
    ASSUME NEW t \in Nat, NEW b \in Byte, b = OnesComplement(t % 256)
    PROVE  (t + b) % 256 = 255
  BY Z3 DEF Byte, OnesComplement

\* The pointer's wrap.
LEMMA PointerStep ==
    ASSUME NEW a \in Word, NEW k \in Nat
    PROVE  (((a + k) % 65536) + 1) % 65536 = (a + (k + 1)) % 65536
  BY Z3 DEF Word

-----------------------------------------------------------------------------
(* Characters and digits.                                                  *)

\* getHexDigit answers 0..15, or $ff.
LEMMA HexDigitRange ==
    ASSUME NEW c \in Byte
    PROVE  HexDigit(c) \in 0..15 \cup {255}
  BY Z3 DEF HexDigit, LowerCase, IsUpper, IsDigit, BadDigit, Byte, Zero, Nine

LEMMA HexByteRange ==
    ASSUME NEW c \in Byte, NEW u \in Byte
    PROVE  /\ UpperNibble(c) \in Byte
           /\ ByteValue(u, c) \in Byte
  <1>1. HexDigit(c) \in Nat
    BY HexDigitRange
  <1>2. 16 * HexDigit(c) \in Nat /\ u + HexDigit(c) \in Nat
    BY <1>1, Z3 DEF Byte
  <1> QED
    BY <1>2, ByteRange DEF UpperNibble, ByteValue

LEMMA CanonicalByte ==
    ASSUME NEW c \in Byte
    PROVE  Canonical(c) \in Byte
  BY DEF Canonical, Byte, CR, LF

\* What a call of getChar does to the line.
LEMMA LineStep ==
    ASSUME LineOK, GetChar
    PROVE  LineOK' /\ Char \in Byte
  <1>1. Head(wire) \in Byte /\ Tail(wire) \in Seq(Byte)
    BY DEF LineOK, GetChar
  <1> QED
    BY <1>1, CanonicalByte DEF LineOK, GetChar, Char

\* What a completed getHexByte does: the digit half is over, and the byte goes
\* into the record's sum.
LEMMA ByteStep ==
    ASSUME TypeOK, NEW p \in BytePcs, GotByte(p)
    PROVE  /\ LineOK' /\ EnvOK'
           /\ HexByte \in Byte
           /\ half' = "hi" /\ upperNibble' \in Byte
           /\ total' \in Nat
           /\ p \in {"iLen", "sLen"} => total' = HexByte
           /\ p \notin {"iLen", "sLen"} => total' = total + HexByte
           /\ pc = p
  <1>1. LineOK' /\ Char \in Byte
    BY LineStep DEF TypeOK, GotByte
  <1>2. HexByte \in Byte
    BY <1>1, HexByteRange DEF TypeOK, DigitOK, HexByte
  <1>3. EnvOK'
    BY DEF TypeOK, EnvOK, GotByte, envVars
  <1>4. total' = HexByte + (IF p \in {"iLen", "sLen"} THEN 0 ELSE total)
    BY DEF GotByte
  <1>5. total \in Nat /\ HexByte \in Nat
    BY <1>2 DEF TypeOK, DigitOK, Byte
  <1> QED
    BY <1>1, <1>2, <1>3, <1>4, <1>5 DEF TypeOK, DigitOK, GotByte

\* What any other getChar does.
LEMMA CharStep ==
    ASSUME TypeOK, NEW p \in CharPcs, GetCharAt(p)
    PROVE  /\ LineOK' /\ EnvOK' /\ DigitOK'
           /\ Char \in Byte
           /\ total' = total
           /\ pc = p
  <1>1. LineOK' /\ Char \in Byte
    BY LineStep DEF TypeOK, GetCharAt
  <1>2. pc = p /\ pc \notin BytePcs
    BY DEF GetCharAt, CharPcs, MotoSkips, BytePcs
  <1>3. EnvOK'
    BY DEF TypeOK, EnvOK, GetCharAt, envVars
  <1>4. DigitOK'
    BY <1>2 DEF TypeOK, DigitOK, GetCharAt, digitVars
  <1> QED
    BY <1>1, <1>2, <1>3, <1>4 DEF GetCharAt, digitVars

-----------------------------------------------------------------------------
(* Leaving.                                                                *)

\* The ways out of a load, and on within it, keep pc, echo and said in their
\* types.
LEMMA FinishStep ==
    ASSUME ControlOK, NEW messages \in SUBSET Messages, Finish(messages)
    PROVE  ControlOK' /\ pc' = "prompt"
  BY DEF ControlOK, Finish, Loading, CharPcs

LEMMA FailStep ==
    ASSUME ControlOK, NEW messages \in SUBSET Messages, Fail(messages)
    PROVE  ControlOK' /\ pc' = "prompt"
  BY FinishStep DEF Fail, Messages

LEMMA AbortStep ==
    ASSUME ControlOK, Abort
    PROVE  ControlOK' /\ pc' = "prompt"
  BY FinishStep DEF Abort, Messages

LEMMA GotoStep ==
    ASSUME ControlOK, pc # "prompt",
           NEW p \in (BytePcs \cup CharPcs) \ {"prompt"},
           Goto(p)
    PROVE  ControlOK' /\ pc' = p
  BY DEF ControlOK, Goto, Loading

LEMMA GotoSayingStep ==
    ASSUME ControlOK, pc # "prompt",
           NEW p \in (BytePcs \cup CharPcs) \ {"prompt"},
           NEW m \in Messages,
           GotoSaying(p, m)
    PROVE  ControlOK' /\ pc' = p
  BY DEF ControlOK, GotoSaying, Loading

\* loadMoto either leaves or goes on to the next record.
LEMMA MotoReturnStep ==
    ASSUME ControlOK, pc # "prompt", NEW a, NEW messages \in SUBSET Messages,
           MotoReturn(a, messages)
    PROVE  ControlOK' /\ pc' \in {"prompt", "sNext"}
  <1>1. CASE Fail(messages)
    BY <1>1, FailStep
  <1>2. CASE Finish(messages \cup {"ok"})
    BY <1>2, FinishStep DEF Messages
  <1>3. CASE /\ pc' = "sNext"
             /\ said' = said \cup messages
             /\ UNCHANGED echo
    BY <1>3 DEF ControlOK, Loading, CharPcs
  <1> QED
    BY <1>1, <1>2, <1>3 DEF MotoReturn

\* Storing a byte keeps memory a partial memory.
LEMMA DepositStep ==
    ASSUME MemoryOK, ptr \in Word, NEW v \in Byte, Deposit(v)
    PROVE  MemoryOK' /\ ptr' \in Word
  <1>1. DOMAIN mem' = DOMAIN mem \cup {ptr}
    BY DEF Deposit
  <1>2. mem' = [a \in DOMAIN mem' |-> mem'[a]]
    BY DEF Deposit
  <1>3. \A a \in DOMAIN mem' : mem'[a] \in Byte
    BY DEF Deposit, MemoryOK
  <1>4. ptr' \in Word
    <2>1. ptr' = (ptr + 1) % 65536
      BY DEF Deposit
    <2>2. ptr + 1 \in Nat
      BY DEF Word
    <2> QED
      BY <2>1, <2>2, WordRange
  <1> QED
    BY <1>1, <1>2, <1>3, <1>4 DEF MemoryOK

\* The running checksum stays a byte.
LEMMA SumRange ==
    ASSUME loadXsum \in Byte, NEW v \in Nat
    PROVE  Sum(v) \in Byte
  <1>1. loadXsum + v \in Nat
    BY DEF Byte
  <1> QED
    BY <1>1, ByteRange DEF Sum

\* The parts of IInv about records say nothing of the other places.
Quiet(p) == p \in (CharPcs \cup {"iLen", "sLen"}) \ {"iCR", "s1Rest"}

LEMMA QuietStep ==
    ASSUME Quiet(pc')
    PROVE  XsumTracks' /\ ChecksumHolds' /\ LoopInStep'
  BY DEF Quiet, CharPcs, MotoSkips, XsumTracks, ChecksumHolds, LoopInStep

\* So a step that waits for a character, not a digit, and leaves the record
\* alone has only pc, echo and said to answer for.
LEMMA CharAction ==
    ASSUME IInv, NEW p \in CharPcs, GetCharAt(p), UNCHANGED <<recordVars, mem>>,
           ControlOK', Quiet(pc')
    PROVE  IInv'
  <1>1. LineOK' /\ EnvOK' /\ DigitOK'
    BY CharStep DEF IInv
  <1>2. RecordOK' /\ MemoryOK'
    BY DEF IInv, TypeOK, RecordOK, MemoryOK, recordVars
  <1> QED
    BY <1>1, <1>2, QuietStep DEF IInv, TypeOK

\* A step that completes a byte has the record as well.
LEMMA ByteAction ==
    ASSUME IInv, NEW p \in BytePcs, GotByte(p),
           ControlOK', RecordOK', MemoryOK',
           XsumTracks', ChecksumHolds', LoopInStep'
    PROVE  IInv'
  BY ByteStep DEF IInv, TypeOK, DigitOK

-----------------------------------------------------------------------------
(* The invariant is inductive.                                             *)

LEMMA InitEstablishesIInv == Init => IInv
  <1> SUFFICES ASSUME Init PROVE IInv
    OBVIOUS
  <1> USE LoaderAssumption
  <1>1. LineOK /\ DigitOK
    BY DEF Init, LineOK, DigitOK, Byte
  <1>2. ControlOK
    BY DEF Init, ControlOK, Loading, CharPcs
  <1>3. RecordOK /\ MemoryOK
    BY DEF Init, RecordOK, MemoryOK, NoMemory, Byte, Word
  <1>4. EnvOK
    <2>1. loads = 0 /\ faults = <<>> /\ lastKey = CR
      BY DEF Init
    <2> QED
      BY <2>1 DEF EnvOK
  <1> QED
    BY <1>1, <1>2, <1>3, <1>4
    DEF IInv, TypeOK, XsumTracks, ChecksumHolds, LoopInStep, Init

\* The commands and the environment touch no record in progress.
LEMMA LoadKeeps ==
    ASSUME IInv, LoadSerial \/ LoadDisk
    PROVE  IInv'
  <1> USE LoaderAssumption
  <1>1. LineOK'
    <2>1. CASE LoadSerial
      <3>1. sent' \in Transmissions /\ wire' = sent'.text /\ prevChar' = CR
        BY <2>1 DEF LoadSerial
      <3>2. sent'.text \in Seq(Byte)
        BY <3>1 DEF IsFile
      <3> QED
        BY <3>1, <3>2 DEF LineOK, CR, Byte
    <2>2. CASE LoadDisk
      BY <2>2 DEF IInv, TypeOK, LineOK, LoadDisk, CR, Byte
    <2> QED
      BY <2>1, <2>2
  <1>2. DigitOK' /\ ControlOK' /\ Quiet(pc')
    BY DEF IInv, TypeOK, DigitOK, ControlOK, LoadSerial, LoadDisk, Loading,
           Quiet, digitVars, CharPcs, BytePcs, MotoSkips, Messages
  <1>3. RecordOK' /\ MemoryOK'
    BY DEF IInv, TypeOK, RecordOK, MemoryOK, LoadSerial, LoadDisk, NoMemory,
           recordVars
  <1>4. EnvOK'
    <2>1. /\ loads < MaxLoads /\ loads' = loads + 1
          /\ faults' = <<>> /\ lastKey' = lastKey
      BY DEF LoadSerial, LoadDisk
    <2>2. loads \in 0..MaxLoads /\ lastKey \in {CR, CTRLC}
      BY DEF IInv, TypeOK, EnvOK
    <2> QED
      BY <2>1, <2>2 DEF EnvOK
  <1> QED
    BY <1>1, <1>2, <1>3, <1>4, QuietStep DEF IInv, TypeOK

\* What the environment and the first digit of a byte leave alone.
LEMMA IdleKeeps ==
    ASSUME IInv, LineOK', DigitOK', EnvOK',
           UNCHANGED <<recordVars, total, echo, pc, mem, said>>
    PROVE  IInv'
  <1>1. ControlOK' /\ RecordOK' /\ MemoryOK'
    BY DEF IInv, TypeOK, ControlOK, RecordOK, MemoryOK, recordVars, Loading
  <1>2. XsumTracks' /\ ChecksumHolds' /\ LoopInStep'
    BY DEF IInv, XsumTracks, ChecksumHolds, LoopInStep, recordVars
  <1> QED
    BY <1>1, <1>2 DEF IInv, TypeOK

LEMMA LineKeeps ==
    ASSUME IInv, SwallowLF \/ LineLoses \/ LineAlters \/ PressKey
    PROVE  IInv'
  <1> USE LoaderAssumption DEF IInv, TypeOK
  <1>1. CASE SwallowLF
    <2>1. LineOK' /\ DigitOK' /\ EnvOK'
      BY <1>1 DEF LineOK, DigitOK, EnvOK, SwallowLF, digitVars, envVars
    <2> QED
      BY <1>1, <2>1, IdleKeeps DEF SwallowLF, digitVars
  <1>2. ASSUME NEW rest \in Seq(Byte), Disturb(rest) PROVE IInv'
    <2>1. EnvOK'
      BY <1>2 DEF EnvOK, ControlOK, Disturb
    <2>2. LineOK' /\ DigitOK'
      BY <1>2 DEF LineOK, DigitOK, Disturb, digitVars
    <2> QED
      BY <1>2, <2>1, <2>2, IdleKeeps DEF Disturb, digitVars
  <1>3. CASE LineLoses
    <2>1. wire # <<>> /\ Disturb(Tail(wire))
      BY <1>3 DEF LineLoses
    <2>2. Tail(wire) \in Seq(Byte)
      BY <2>1 DEF LineOK
    <2> QED
      BY <1>2, <2>1, <2>2
  <1>4. CASE LineAlters
    <2>1. PICK n \in Noise : Disturb(<<n>> \o Tail(wire)) /\ wire # <<>>
      BY <1>4 DEF LineAlters
    <2>2. <<n>> \o Tail(wire) \in Seq(Byte)
      BY <2>1 DEF LineOK
    <2> QED
      BY <1>2, <2>1, <2>2
  <1>5. CASE PressKey
    <2>1. LineOK' /\ DigitOK' /\ EnvOK'
      BY <1>5 DEF LineOK, DigitOK, EnvOK, PressKey, digitVars, CR, CTRLC, Byte
    <2> QED
      BY <1>5, <2>1, IdleKeeps DEF PressKey, digitVars
  <1> QED
    BY <1>1, <1>3, <1>4, <1>5

LEMMA HighDigitKeeps ==
    ASSUME IInv, HighDigit
    PROVE  IInv'
  <1>1. LineOK' /\ Char \in Byte
    BY LineStep DEF IInv, TypeOK, HighDigit
  <1>2. upperNibble' \in Byte
    BY <1>1, HexByteRange DEF HighDigit, IInv, TypeOK, DigitOK
  <1>3. DigitOK' /\ EnvOK'
    BY <1>2 DEF HighDigit, IInv, TypeOK, DigitOK, EnvOK, envVars
  <1> QED
    BY <1>1, <1>3, IdleKeeps DEF HighDigit

-----------------------------------------------------------------------------
(* Steps that wait for a character.                                        *)

LEMMA CommandKeeps ==
    ASSUME IInv, Prompt \/ Detect \/ SkipToNextLine
    PROVE  IInv'
  <1>1. ControlOK
    BY DEF IInv, TypeOK
  <1>2. CASE Prompt
    <2>1. ControlOK' /\ Quiet(pc')
      BY <1>1, <1>2 DEF Prompt, GetCharAt, ControlOK, Loading, Quiet, CharPcs
    <2> QED
      BY <1>2, <2>1, CharAction DEF Prompt, CharPcs
  <1>3. CASE Detect
    <2>1. pc = "detect" /\ GetCharAt("detect") /\ UNCHANGED <<recordVars, mem>>
      BY <1>3 DEF Detect, GetCharAt
    <2>2. \/ Abort \/ Goto("iLen") \/ Goto("sType") \/ Goto("dlSkip")
      BY <1>3 DEF Detect
    <2>3. ControlOK' /\ Quiet(pc')
      BY <1>1, <2>1, <2>2, AbortStep, GotoStep DEF Quiet, CharPcs, BytePcs
    <2> QED
      BY <2>1, <2>3, CharAction DEF CharPcs
  <1>4. CASE SkipToNextLine
    <2>1. pc = "dlSkip" /\ GetCharAt("dlSkip") /\ UNCHANGED <<recordVars, mem>>
      BY <1>4 DEF SkipToNextLine, GetCharAt
    <2>2. Goto("detect") \/ Goto("dlSkip")
      BY <1>4 DEF SkipToNextLine
    <2>3. ControlOK' /\ Quiet(pc')
      BY <1>1, <2>1, <2>2, GotoStep DEF Quiet, CharPcs
    <2> QED
      BY <2>1, <2>3, CharAction DEF CharPcs
  <1> QED
    BY <1>2, <1>3, <1>4

LEMMA IHexCharKeeps ==
    ASSUME IInv, IHexEndOfLine \/ IHexSkip \/ IHexNext
    PROVE  IInv'
  <1>1. ControlOK
    BY DEF IInv, TypeOK
  <1>2. PICK p \in {"iCR", "iSkip", "iNext"} :
            /\ GetCharAt(p) /\ pc = p
            /\ UNCHANGED <<recordVars, mem>>
            /\ Goto("iNext") \/ Goto("iSkip") \/ Goto("iLen") \/ Abort \/ Fail({})
    BY DEF IHexEndOfLine, IHexSkip, IHexNext, GetCharAt
  <1>3. ControlOK' /\ Quiet(pc')
    BY <1>1, <1>2, GotoStep, AbortStep, FailStep DEF Quiet, CharPcs, BytePcs
  <1> QED
    BY <1>2, <1>3, CharAction DEF CharPcs

LEMMA MotoCharKeeps ==
    ASSUME IInv, MotoSkip \/ MotoNext
    PROVE  IInv'
  <1>1. ControlOK
    BY DEF IInv, TypeOK
  <1>2. CASE MotoNext
    <2>1. pc = "sNext" /\ GetCharAt("sNext") /\ UNCHANGED <<recordVars, mem>>
      BY <1>2 DEF MotoNext, GetCharAt
    <2>2. Abort \/ Goto("sType") \/ Fail({})
      BY <1>2 DEF MotoNext
    <2>3. ControlOK' /\ Quiet(pc')
      BY <1>1, <2>1, <2>2, GotoStep, AbortStep, FailStep DEF Quiet, CharPcs
    <2> QED
      BY <2>1, <2>3, CharAction DEF CharPcs
  <1>3. CASE MotoSkip
    <2>1. PICK p \in MotoSkips :
              /\ GetCharAt(p) /\ pc = p
              /\ MotoReturn(MotoResult(p), {}) \/ Goto(p)
      BY <1>3 DEF MotoSkip, GetCharAt
    <2>2. UNCHANGED <<recordVars, mem>> /\ p \in CharPcs /\ p # "prompt"
      BY <1>3 DEF MotoSkip, CharPcs, MotoSkips
    <2>3. CASE MotoReturn(MotoResult(p), {})
      <3>1. ControlOK' /\ Quiet(pc')
        BY <1>1, <2>1, <2>2, <2>3, MotoReturnStep DEF Quiet, CharPcs
      <3> QED
        BY <2>1, <2>2, <3>1, CharAction
    <2>4. CASE Goto(p)
      <3>1. ControlOK' /\ pc' = pc
        BY <1>1, <2>1, <2>2, <2>4, GotoStep
      <3>2. UNCHANGED <<echo, said>> /\ total' = total
        BY <2>1, <2>4 DEF Goto, GetCharAt, digitVars
      <3>3. LineOK' /\ EnvOK' /\ DigitOK'
        BY <2>1, <2>2, CharStep DEF IInv
      <3> QED
        BY <2>2, <3>1, <3>2, <3>3, IdleKeeps
    <2> QED
      BY <2>1, <2>3, <2>4
  <1> QED
    BY <1>2, <1>3

LEMMA MotoTypeKeeps ==
    ASSUME IInv, MotoType
    PROVE  IInv'
  <1>1. ControlOK /\ RecordOK /\ MemoryOK
    BY DEF IInv, TypeOK
  <1>2. GetCharAt("sType") /\ pc = "sType"
    BY DEF MotoType, GetCharAt
  <1>3. LineOK' /\ EnvOK' /\ DigitOK' /\ Char \in Byte
    BY <1>2, CharStep DEF IInv, CharPcs
  <1>4. ControlOK' /\ Quiet(pc')
    <2>1. CASE Goto("sLen")
      BY <1>1, <1>2, <2>1, GotoStep DEF Quiet, CharPcs, BytePcs
    <2>2. CASE BadChar(Char)
      BY <1>1, <1>2, <2>2, MotoReturnStep DEF BadChar, Messages, Quiet, CharPcs
    <2> QED
      BY <2>1, <2>2 DEF MotoType
  <1>5. RecordOK' /\ MemoryOK'
    BY <1>1, <1>3 DEF MotoType, RecordOK, MemoryOK
  <1> QED
    BY <1>3, <1>4, <1>5, QuietStep DEF IInv, TypeOK

-----------------------------------------------------------------------------
(* Steps that complete a byte: Intel hex.                                  *)

LEMMA OutsideLoops ==
    ASSUME pc' \notin {"iData", "s1Data"} PROVE LoopInStep'
  BY DEF LoopInStep

LEMMA OutsideAccepted ==
    ASSUME pc' \notin {"iCR", "s1Rest"} PROVE ChecksumHolds'
  BY DEF ChecksumHolds

\* A byte that joins both the record's sum and the running checksum.
LEMMA SumStep ==
    ASSUME total \in Nat, NEW b \in Byte, loadXsum = total % 256,
           loadXsum' = Sum(b), total' = total + b
    PROVE  loadXsum' = total' % 256
  BY SumModulo DEF Sum, Byte

\* The low byte of an address brings the high one with it.
LEMMA AddressSumStep ==
    ASSUME total \in Nat, hi \in Byte, NEW b \in Byte,
           total >= hi, loadXsum = (total - hi) % 256,
           loadXsum' = Sum(hi + b), total' = total + b
    PROVE  loadXsum' = total' % 256
  <1>1. total - hi \in Nat /\ hi + b \in Nat
    BY DEF Byte
  <1>2. loadXsum' = ((total - hi) + (hi + b)) % 256
    BY <1>1, SumModulo DEF Sum
  <1>3. (total - hi) + (hi + b) = total + b
    BY DEF Byte
  <1> QED
    BY <1>2, <1>3

LEMMA AddressRange ==
    ASSUME NEW h \in Byte, NEW b \in Byte
    PROVE  256 * h + b \in Word /\ h + b \in Nat
  BY SMT DEF Byte, Word

LEMMA IHexLengthKeeps == ASSUME IInv, IHexLength PROVE IInv'
  <1>1. GotByte("iLen") /\ "iLen" \in BytePcs
    BY DEF IHexLength, BytePcs
  <1>2. HexByte \in Byte /\ total' = HexByte /\ pc = "iLen"
    BY <1>1, ByteStep DEF IInv
  <1>3. ControlOK' /\ pc' = "iAddrHi"
    BY <1>2, GotoStep DEF IHexLength, IInv, TypeOK, BytePcs
  <1>4. RecordOK' /\ MemoryOK'
    BY <1>2 DEF IHexLength, IInv, TypeOK, RecordOK, MemoryOK
  <1>5. XsumTracks'
    <2>1. loadXsum' = HexByte % 256
      BY <1>2, Z3 DEF IHexLength, Byte
    <2> QED
      BY <1>2, <1>3, <2>1 DEF XsumTracks
  <1> QED
    BY <1>1, <1>3, <1>4, <1>5, OutsideLoops, OutsideAccepted, ByteAction

LEMMA IHexAddressHighKeeps == ASSUME IInv, IHexAddressHigh PROVE IInv'
  <1>1. GotByte("iAddrHi") /\ "iAddrHi" \in BytePcs
    BY DEF IHexAddressHigh, BytePcs
  <1>2. HexByte \in Byte /\ total' = total + HexByte /\ pc = "iAddrHi"
    BY <1>1, ByteStep DEF IInv
  <1>3. ControlOK' /\ pc' = "iAddrLo"
    BY <1>2, GotoStep DEF IHexAddressHigh, IInv, TypeOK, BytePcs
  <1>4. RecordOK' /\ MemoryOK'
    BY <1>2 DEF IHexAddressHigh, IInv, TypeOK, RecordOK, MemoryOK
  <1>5. XsumTracks'
    <2>1. total \in Nat /\ loadXsum = total % 256
      BY <1>2 DEF IInv, TypeOK, DigitOK, XsumTracks
    <2>2. total' >= hi' /\ total' - hi' = total
      BY <1>2, <2>1 DEF IHexAddressHigh, Byte
    <2> QED
      BY <1>3, <2>1, <2>2 DEF XsumTracks, IHexAddressHigh
  <1> QED
    BY <1>1, <1>3, <1>4, <1>5, OutsideLoops, OutsideAccepted, ByteAction

LEMMA IHexAddressLowKeeps == ASSUME IInv, IHexAddressLow PROVE IInv'
  <1>1. GotByte("iAddrLo") /\ "iAddrLo" \in BytePcs
    BY DEF IHexAddressLow, BytePcs
  <1>2. HexByte \in Byte /\ total' = total + HexByte /\ pc = "iAddrLo"
    BY <1>1, ByteStep DEF IInv
  <1>3. ControlOK' /\ pc' = "iType"
    BY <1>2, GotoStep DEF IHexAddressLow, IInv, TypeOK, BytePcs
  <1>4. RecordOK' /\ MemoryOK'
    <2>1. hi \in Byte /\ loadXsum \in Byte
      BY DEF IInv, TypeOK, RecordOK
    <2>2. 256 * hi + HexByte \in Word /\ Sum(hi + HexByte) \in Byte
      BY <1>2, <2>1, AddressRange, SumRange
    <2> QED
      BY <2>2 DEF IHexAddressLow, IInv, TypeOK, RecordOK, MemoryOK
  <1>5. XsumTracks'
    <2>1. /\ total \in Nat /\ hi \in Byte
          /\ total >= hi /\ loadXsum = (total - hi) % 256
      BY <1>2 DEF IInv, TypeOK, DigitOK, RecordOK, XsumTracks
    <2>2. loadXsum' = total' % 256
      BY <1>2, <2>1, AddressSumStep DEF IHexAddressLow
    <2> QED
      BY <1>3, <2>2 DEF XsumTracks
  <1> QED
    BY <1>1, <1>3, <1>4, <1>5, OutsideLoops, OutsideAccepted, ByteAction

LEMMA IHexTypeKeeps == ASSUME IInv, IHexType PROVE IInv'
  <1>1. GotByte("iType") /\ "iType" \in BytePcs
    BY DEF IHexType, BytePcs
  <1>2. HexByte \in Byte /\ total' = total + HexByte /\ pc = "iType"
    BY <1>1, ByteStep DEF IInv
  <1>3. ControlOK' /\ pc' \in {"iSum", "iData", "iEndSum", "iSkip"}
    <2>1. CASE Goto("iSum") \/ Goto("iData") \/ Goto("iEndSum")
      BY <1>2, <2>1, GotoStep DEF IInv, TypeOK, BytePcs
    <2>2. CASE GotoSaying("iSkip", "unsupported")
      BY <1>2, <2>2, GotoSayingStep DEF IInv, TypeOK, CharPcs, Messages
    <2> QED
      BY <2>1, <2>2 DEF IHexType
  <1>4. RecordOK' /\ MemoryOK'
    <2>1. ptr' \in Word /\ count' \in Word
      <3>1. /\ ptr' \in {ptr, loadAddress}
            /\ count' \in {count, loadLength}
        BY DEF IHexType
      <3>2. /\ ptr \in Word /\ loadAddress \in Word
            /\ count \in Word /\ loadLength \in Word
        BY BytesAreWords DEF IInv, TypeOK, RecordOK
      <3> QED
        BY <3>1, <3>2
    <2>2. loadXsum' \in Byte
      BY <1>2, SumRange DEF IHexType, IInv, TypeOK, RecordOK, Byte
    <2> QED
      BY <1>2, <2>1, <2>2 DEF IHexType, IInv, TypeOK, RecordOK, MemoryOK
  <1>5. XsumTracks'
    <2>1. total \in Nat /\ loadXsum = total % 256
      BY <1>2 DEF IInv, TypeOK, DigitOK, XsumTracks
    <2>2. loadXsum' = total' % 256
      BY <1>2, <2>1, SumStep DEF IHexType
    <2> QED
      BY <1>3, <2>2 DEF XsumTracks
  <1>6. LoopInStep'
    <2>1. CASE pc' = "iData"
      <3>1. /\ ptr' = loadAddress /\ count' = loadLength /\ loadLength # 0
            /\ loadAddress' = loadAddress /\ loadLength' = loadLength
        BY <2>1 DEF IHexType, Goto, GotoSaying
      <3>2. loadAddress \in Word /\ loadLength \in Byte
        BY DEF IInv, TypeOK, RecordOK
      <3>3. count' \in 1..loadLength'
        BY <3>1, <3>2 DEF Byte
      <3>4. ptr' = (loadAddress' + (loadLength' - count')) % 65536
        <4>1. loadLength' - count' = 0
          BY <3>1, <3>2 DEF Byte
        <4> QED
          BY <3>1, <3>2, <4>1, WordModulo
      <3> QED
        BY <2>1, <3>3, <3>4 DEF LoopInStep
    <2>2. CASE pc' # "iData"
      BY <1>3, <2>2, OutsideLoops
    <2> QED
      BY <2>1, <2>2
  <1> QED
    BY <1>1, <1>3, <1>4, <1>5, <1>6, OutsideAccepted, ByteAction

LEMMA IHexDataKeeps == ASSUME IInv, IHexData PROVE IInv'
  <1>1. GotByte("iData") /\ "iData" \in BytePcs
    BY DEF IHexData, BytePcs
  <1>2. HexByte \in Byte /\ total' = total + HexByte /\ pc = "iData"
    BY <1>1, ByteStep DEF IInv
  <1>3. /\ ptr \in Word /\ loadAddress \in Word /\ loadLength \in Byte
        /\ total \in Nat /\ loadXsum = total % 256 /\ loadXsum \in Byte
        /\ count \in 1..loadLength
        /\ ptr = (loadAddress + (loadLength - count)) % 65536
    BY <1>2 DEF IInv, TypeOK, DigitOK, RecordOK, XsumTracks, LoopInStep
  <1>4. /\ count' = count - 1 /\ loadXsum' = Sum(HexByte)
        /\ ptr' = (ptr + 1) % 65536
        /\ UNCHANGED <<loadLength, loadAddress, loadType, hi>>
        /\ Goto(IF count = 1 THEN "iSum" ELSE "iData")
    BY DEF IHexData, Deposit
  <1>5. ControlOK' /\ pc' = IF count = 1 THEN "iSum" ELSE "iData"
    BY <1>2, <1>4, GotoStep DEF IInv, TypeOK, BytePcs
  <1>6. MemoryOK' /\ ptr' \in Word
    BY <1>2, <1>3, DepositStep DEF IHexData, IInv, TypeOK
  <1>7. RecordOK'
    <2>1. count' \in Word
      BY <1>3, <1>4 DEF Byte, Word
    <2>2. loadXsum' \in Byte
      BY <1>2, <1>3, <1>4, SumRange DEF Byte
    <2> QED
      BY <1>4, <1>6, <2>1, <2>2 DEF IInv, TypeOK, RecordOK
  <1>8. XsumTracks'
    <2>1. loadXsum' = total' % 256
      BY <1>2, <1>3, <1>4, SumStep
    <2> QED
      BY <1>5, <2>1 DEF XsumTracks
  <1>9. LoopInStep'
    <2>1. CASE count = 1
      BY <1>5, <2>1, OutsideLoops
    <2>2. CASE count # 1
      <3>1. count' \in 1..loadLength'
        BY <1>3, <1>4, <2>2 DEF Byte
      <3>2. loadLength - count \in Nat
        BY <1>3 DEF Byte
      <3>3. ptr' = (loadAddress + ((loadLength - count) + 1)) % 65536
        BY <1>3, <1>4, <3>2, PointerStep
      <3>4. (loadLength - count) + 1 = loadLength' - count'
        BY <1>3, <1>4 DEF Byte
      <3> QED
        BY <1>4, <1>5, <2>2, <3>1, <3>3, <3>4 DEF LoopInStep
    <2> QED
      BY <2>1, <2>2
  <1> QED
    BY <1>1, <1>5, <1>6, <1>7, <1>8, <1>9, OutsideAccepted, ByteAction

LEMMA ComplementRange ==
    ASSUME NEW b \in Byte
    PROVE  TwosComplement(b) \in Byte /\ OnesComplement(b) \in Byte
  BY DEF Byte, TwosComplement, OnesComplement

LEMMA IHexChecksumKeeps == ASSUME IInv, IHexChecksum PROVE IInv'
  <1>1. GotByte("iSum") /\ "iSum" \in BytePcs
    BY DEF IHexChecksum, BytePcs
  <1>2. HexByte \in Byte /\ total' = total + HexByte /\ pc = "iSum"
    BY <1>1, ByteStep DEF IInv
  <1>3. \/ Goto("iCR") /\ HexByte = TwosComplement(loadXsum)
        \/ Fail({"badXsum"})
    BY DEF IHexChecksum
  <1>4. ControlOK' /\ pc' \in {"iCR", "prompt"}
    BY <1>2, <1>3, GotoStep, FailStep DEF IInv, TypeOK, CharPcs, Messages
  <1>5. RecordOK' /\ MemoryOK'
    BY ComplementRange DEF IHexChecksum, IInv, TypeOK, RecordOK, MemoryOK
  <1>6. ChecksumHolds'
    <2>1. CASE Goto("iCR") /\ HexByte = TwosComplement(loadXsum)
      <3>1. total \in Nat /\ loadXsum = total % 256
        BY <1>2 DEF IInv, TypeOK, DigitOK, XsumTracks
      <3>2. total' % 256 = 0
        BY <1>2, <2>1, <3>1, TwosCloses
      <3> QED
        BY <1>4, <3>2 DEF ChecksumHolds
    <2>2. CASE Fail({"badXsum"})
      BY <2>2, OutsideAccepted DEF Fail, Finish
    <2> QED
      BY <1>3, <2>1, <2>2
  <1>7. XsumTracks'
    BY <1>4 DEF XsumTracks
  <1> QED
    BY <1>1, <1>4, <1>5, <1>6, <1>7, OutsideLoops, ByteAction

LEMMA IHexEndChecksumKeeps == ASSUME IInv, IHexEndChecksum PROVE IInv'
  <1>1. GotByte("iEndSum") /\ "iEndSum" \in BytePcs
    BY DEF IHexEndChecksum, BytePcs
  <1>2. ControlOK' /\ pc' = "prompt"
    BY FinishStep DEF IHexEndChecksum, IInv, TypeOK, Messages
  <1>3. RecordOK' /\ MemoryOK'
    BY ComplementRange DEF IHexEndChecksum, IInv, TypeOK, RecordOK, MemoryOK
  <1>4. XsumTracks'
    BY <1>2 DEF XsumTracks
  <1> QED
    BY <1>1, <1>2, <1>3, <1>4, OutsideLoops, OutsideAccepted, ByteAction

-----------------------------------------------------------------------------
(* Steps that complete a byte: S-records.                                  *)

\* Every exit through lmrBadChar leaves the record's registers, memory and
\* every place IInv speaks of.
LEMMA BadCharKeeps ==
    ASSUME IInv, NEW p \in BytePcs, GotByte(p), NEW a, BadChar(a),
           RecordOK', MemoryOK'
    PROVE  IInv'
  <1>1. pc = p /\ pc # "prompt"
    BY ByteStep DEF IInv, BytePcs
  <1>2. ControlOK' /\ pc' \in {"prompt", "sNext"}
    BY <1>1, MotoReturnStep DEF BadChar, IInv, TypeOK, Messages
  <1>3. Quiet(pc')
    BY <1>2 DEF Quiet, CharPcs
  <1> QED
    BY <1>2, <1>3, QuietStep, ByteAction

LEMMA MotoLengthKeeps == ASSUME IInv, MotoLength PROVE IInv'
  <1>1. GotByte("sLen") /\ "sLen" \in BytePcs
    BY DEF MotoLength, BytePcs
  <1>2. HexByte \in Byte /\ total' = HexByte /\ pc = "sLen"
    BY <1>1, ByteStep DEF IInv
  <1>3. RecordOK' /\ MemoryOK'
    BY <1>2 DEF MotoLength, IInv, TypeOK, RecordOK, MemoryOK
  <1>4. CASE BadChar(HexByte)
    BY <1>1, <1>3, <1>4, BadCharKeeps
  <1>5. CASE /\ loadXsum' = HexByte
             /\ \/ Goto("sIgnore") \/ Goto("s9Hi") \/ Goto("s1Hi")
                \/ GotoSaying("sUnsupported", "unsupported")
    <2>1. ControlOK' /\ pc' \in {"sIgnore", "s9Hi", "s1Hi", "sUnsupported"}
      BY <1>2, <1>5, GotoStep, GotoSayingStep
      DEF IInv, TypeOK, BytePcs, CharPcs, MotoSkips, Messages
    <2>2. loadXsum' = total' % 256
      BY <1>2, <1>5 DEF Byte
    <2>3. XsumTracks'
      BY <2>1, <2>2 DEF XsumTracks
    <2> QED
      BY <1>1, <1>3, <2>1, <2>3, OutsideLoops, OutsideAccepted, ByteAction
  <1> QED
    BY <1>4, <1>5 DEF MotoLength

LEMMA MotoAddressHighKeeps == ASSUME IInv, MotoAddressHigh PROVE IInv'
  <1>1. PICK p \in {"s9Hi", "s1Hi"} :
            /\ GotByte(p)
            /\ Goto("s9Lo") \/ Goto("s1Lo")
    BY DEF MotoAddressHigh
  <1>2. p \in BytePcs
    BY DEF BytePcs
  <1>3. HexByte \in Byte /\ total' = total + HexByte /\ pc = p
    BY <1>1, <1>2, ByteStep DEF IInv
  <1>4. ControlOK' /\ pc' \in {"s9Lo", "s1Lo"}
    BY <1>1, <1>3, GotoStep DEF IInv, TypeOK, BytePcs
  <1>5. RecordOK' /\ MemoryOK'
    BY <1>3 DEF MotoAddressHigh, IInv, TypeOK, RecordOK, MemoryOK
  <1>6. XsumTracks'
    <2>1. total \in Nat /\ loadXsum = total % 256
      BY <1>3 DEF IInv, TypeOK, DigitOK, XsumTracks
    <2>2. total' >= hi' /\ total' - hi' = total
      BY <1>3, <2>1 DEF MotoAddressHigh, Byte
    <2> QED
      BY <1>4, <2>1, <2>2 DEF XsumTracks, MotoAddressHigh
  <1> QED
    BY <1>1, <1>2, <1>4, <1>5, <1>6, OutsideLoops, OutsideAccepted, ByteAction

LEMMA Moto9AddressLowKeeps == ASSUME IInv, Moto9AddressLow PROVE IInv'
  <1>1. GotByte("s9Lo") /\ "s9Lo" \in BytePcs
    BY DEF Moto9AddressLow, BytePcs
  <1>2. HexByte \in Byte /\ total' = total + HexByte /\ pc = "s9Lo"
    BY <1>1, ByteStep DEF IInv
  <1>3. RecordOK' /\ MemoryOK'
    <2>1. hi \in Byte /\ loadXsum \in Byte /\ loadAddress \in Word
      BY DEF IInv, TypeOK, RecordOK
    <2>2. 256 * hi + HexByte \in Word /\ Sum(hi + HexByte) \in Byte
      BY <1>2, <2>1, AddressRange, SumRange
    <2>3. loadAddress' \in Word /\ loadXsum' \in Byte
      BY <2>1, <2>2 DEF Moto9AddressLow
    <2> QED
      BY <2>3 DEF Moto9AddressLow, IInv, TypeOK, RecordOK, MemoryOK
  <1>4. CASE BadChar(hi)
    BY <1>1, <1>3, <1>4, BadCharKeeps
  <1>5. CASE loadXsum' = Sum(hi + HexByte) /\ Goto("s9Sum")
    <2>1. ControlOK' /\ pc' = "s9Sum"
      BY <1>2, <1>5, GotoStep DEF IInv, TypeOK, BytePcs
    <2>2. /\ total \in Nat /\ hi \in Byte
          /\ total >= hi /\ loadXsum = (total - hi) % 256
      BY <1>2 DEF IInv, TypeOK, DigitOK, RecordOK, XsumTracks
    <2>3. loadXsum' = total' % 256
      BY <1>2, <1>5, <2>2, AddressSumStep
    <2>4. XsumTracks'
      BY <2>1, <2>3 DEF XsumTracks
    <2> QED
      BY <1>1, <1>3, <2>1, <2>4, OutsideLoops, OutsideAccepted, ByteAction
  <1> QED
    BY <1>4, <1>5 DEF Moto9AddressLow

LEMMA Moto1AddressLowKeeps == ASSUME IInv, Moto1AddressLow PROVE IInv'
  <1>1. GotByte("s1Lo") /\ "s1Lo" \in BytePcs
    BY DEF Moto1AddressLow, BytePcs
  <1>2. HexByte \in Byte /\ total' = total + HexByte /\ pc = "s1Lo"
    BY <1>1, ByteStep DEF IInv
  <1>3. /\ hi \in Byte /\ loadXsum \in Byte /\ loadLength \in Byte
        /\ loadAddress \in Word /\ ptr \in Word /\ count \in Word
    BY DEF IInv, TypeOK, RecordOK
  <1>4. RecordOK' /\ MemoryOK'
    <2>1. MotoDataLength \in Word
      BY <1>3, WordRange DEF Byte, MotoDataLength
    <2>2. 256 * hi + HexByte \in Word /\ Sum(hi + HexByte) \in Byte
      BY <1>2, <1>3, AddressRange, SumRange
    <2> QED
      BY <1>3, <2>1, <2>2
      DEF Moto1AddressLow, IInv, TypeOK, RecordOK, MemoryOK
  <1>5. CASE BadChar(hi)
    BY <1>1, <1>4, <1>5, BadCharKeeps
  <1>6. CASE /\ loadAddress' = 256 * hi + HexByte
             /\ loadXsum' = Sum(hi + HexByte)
             /\ ptr' = 256 * hi + HexByte
             /\ count' = MotoDataLength
             /\ Goto("s1Data")
    <2>1. ControlOK' /\ pc' = "s1Data"
      BY <1>2, <1>6, GotoStep DEF IInv, TypeOK, BytePcs
    <2>2. total \in Nat /\ total >= hi /\ loadXsum = (total - hi) % 256
      BY <1>2 DEF IInv, TypeOK, DigitOK, XsumTracks
    <2>3. loadXsum' = total' % 256
      BY <1>2, <1>3, <1>6, <2>2, AddressSumStep
    <2>4. XsumTracks'
      BY <2>1, <2>3 DEF XsumTracks
    <2>5. LoopInStep'
      <3>1. loadLength' = loadLength
        BY DEF Moto1AddressLow
      <3>2. ASSUME loadLength > 3
            PROVE  /\ count' \in 1..(loadLength' - 3)
                   /\ loadLength' - 3 - count' = 0
        BY <1>3, <1>6, <3>1, <3>2 DEF Byte, MotoDataLength
      <3>3. ptr' = (loadAddress' + 0) % 65536
        BY <1>4, <1>6, WordModulo DEF RecordOK
      <3> QED
        BY <2>1, <3>1, <3>2, <3>3 DEF LoopInStep
    <2> QED
      BY <1>1, <1>4, <2>1, <2>4, <2>5, OutsideAccepted, ByteAction
  <1> QED
    BY <1>5, <1>6 DEF Moto1AddressLow

LEMMA Moto1DataKeeps == ASSUME IInv, Moto1Data PROVE IInv'
  <1>1. GotByte("s1Data") /\ "s1Data" \in BytePcs
    BY DEF Moto1Data, BytePcs
  <1>2. HexByte \in Byte /\ total' = total + HexByte /\ pc = "s1Data"
    BY <1>1, ByteStep DEF IInv
  <1>3. /\ ptr \in Word /\ loadAddress \in Word /\ loadLength \in Byte
        /\ count \in Word /\ loadXsum \in Byte /\ MemoryOK
        /\ total \in Nat /\ loadXsum = total % 256
    BY <1>2 DEF IInv, TypeOK, DigitOK, RecordOK, XsumTracks
  <1>4. CASE BadChar(HexByte) /\ UNCHANGED <<loadXsum, count, ptr, mem>>
    <2>1. RecordOK' /\ MemoryOK'
      BY <1>4 DEF Moto1Data, IInv, TypeOK, RecordOK, MemoryOK
    <2> QED
      BY <1>1, <1>4, <2>1, BadCharKeeps
  <1>5. CASE /\ Deposit(HexByte)
             /\ loadXsum' = Sum(HexByte)
             /\ count' = (count - 1) % 65536
             /\ Goto(IF count = 1 THEN "s1Sum" ELSE "s1Data")
    <2>1. ControlOK' /\ pc' = IF count = 1 THEN "s1Sum" ELSE "s1Data"
      BY <1>2, <1>5, GotoStep DEF IInv, TypeOK, BytePcs
    <2>2. UNCHANGED <<loadLength, loadAddress, loadType, hi>>
      BY DEF Moto1Data
    <2>3. MemoryOK' /\ ptr' \in Word
      BY <1>2, <1>3, <1>5, DepositStep
    <2>4. RecordOK'
      <3>1. count - 1 \in Int
        BY <1>3 DEF Word
      <3>2. count' \in Word /\ loadXsum' \in Byte
        BY <1>2, <1>3, <1>5, <3>1, WordRange, SumRange DEF Byte
      <3> QED
        BY <2>2, <2>3, <3>2 DEF IInv, TypeOK, RecordOK
    <2>5. XsumTracks'
      <3>1. loadXsum' = total' % 256
        BY <1>2, <1>3, <1>5, SumStep
      <3> QED
        BY <2>1, <3>1 DEF XsumTracks
    <2>6. LoopInStep'
      <3>1. CASE count = 1 \/ loadLength <= 3
        BY <1>3, <2>1, <2>2, <3>1 DEF LoopInStep, Byte
      <3>2. CASE count # 1 /\ loadLength > 3
        <4>1. /\ count \in 1..(loadLength - 3)
              /\ ptr = (loadAddress + (loadLength - 3 - count)) % 65536
          BY <1>2, <3>2 DEF IInv, LoopInStep
        <4>2. count' = count - 1 /\ count' \in 1..(loadLength - 3)
          BY <1>3, <1>5, <3>2, <4>1 DEF Byte
        <4>3. loadLength - 3 - count \in Nat
          BY <1>3, <4>1 DEF Byte
        <4>4. ptr' = (loadAddress + ((loadLength - 3 - count) + 1)) % 65536
          BY <1>3, <1>5, <4>1, <4>3, PointerStep DEF Deposit
        <4>5. (loadLength - 3 - count) + 1 = loadLength' - 3 - count'
          BY <1>3, <2>2, <4>1, <4>2 DEF Byte
        <4> QED
          BY <2>1, <2>2, <3>2, <4>2, <4>4, <4>5 DEF LoopInStep
      <3> QED
        BY <1>3, <3>1, <3>2 DEF Byte
    <2> QED
      BY <1>1, <2>1, <2>3, <2>4, <2>5, <2>6, OutsideAccepted, ByteAction
  <1> QED
    BY <1>4, <1>5 DEF Moto1Data

LEMMA MotoChecksumKeeps == ASSUME IInv, MotoChecksum PROVE IInv'
  <1>1. PICK p \in {"s1Sum", "s9Sum"} : GotByte(p)
    BY DEF MotoChecksum
  <1>2. p \in BytePcs
    BY DEF BytePcs
  <1>3. HexByte \in Byte /\ total' = total + HexByte /\ pc = p
    BY <1>1, <1>2, ByteStep DEF IInv
  <1>4. RecordOK' /\ MemoryOK'
    BY ComplementRange DEF MotoChecksum, IInv, TypeOK, RecordOK, MemoryOK
  <1>5. CASE BadChar(HexByte)
    BY <1>1, <1>2, <1>4, <1>5, BadCharKeeps
  <1>6. CASE GotoSaying("sBadXsum", "badXsum") \/ MotoReturn(2, {})
    <2>1. ControlOK' /\ Quiet(pc')
      BY <1>3, <1>6, GotoSayingStep, MotoReturnStep
      DEF IInv, TypeOK, CharPcs, MotoSkips, Messages, Quiet
    <2> QED
      BY <1>1, <1>2, <1>4, <2>1, QuietStep, ByteAction
  <1>7. CASE HexByte = OnesComplement(loadXsum) /\ pc = "s1Sum" /\ Goto("s1Rest")
    <2>1. ControlOK' /\ pc' = "s1Rest"
      BY <1>7, GotoStep DEF IInv, TypeOK, CharPcs, MotoSkips
    <2>2. total \in Nat /\ loadXsum = total % 256
      BY <1>7 DEF IInv, TypeOK, DigitOK, XsumTracks
    <2>3. total' % 256 = 255
      BY <1>3, <1>7, <2>2, OnesCloses
    <2>4. ChecksumHolds' /\ XsumTracks' /\ LoopInStep'
      BY <2>1, <2>3 DEF ChecksumHolds, XsumTracks, LoopInStep
    <2> QED
      BY <1>1, <1>2, <1>4, <2>1, <2>4, ByteAction
  <1> QED
    BY <1>5, <1>6, <1>7 DEF MotoChecksum

-----------------------------------------------------------------------------
(* The theorems.                                                           *)

LEMMA StutterKeeps == ASSUME IInv, UNCHANGED vars PROVE IInv'
  <1>1. LineOK' /\ DigitOK' /\ EnvOK'
    BY DEF IInv, TypeOK, LineOK, DigitOK, EnvOK, vars, lineVars, digitVars,
           envVars
  <1> QED
    BY <1>1, IdleKeeps DEF vars, digitVars

\* IInv is inductive: one step per action.
LEMMA NextKeepsIInv == IInv /\ [Next]_vars => IInv'
  <1> SUFFICES ASSUME IInv, [Next]_vars PROVE IInv'
    OBVIOUS
  <1>1. CASE LoadSerial \/ LoadDisk
    BY <1>1, LoadKeeps
  <1>2. CASE SwallowLF \/ LineLoses \/ LineAlters \/ PressKey
    BY <1>2, LineKeeps
  <1>3. CASE HighDigit
    BY <1>3, HighDigitKeeps
  <1>4. CASE Prompt \/ Detect \/ SkipToNextLine
    BY <1>4, CommandKeeps
  <1>5. CASE IHex
    BY <1>5, IHexCharKeeps, IHexLengthKeeps, IHexAddressHighKeeps,
       IHexAddressLowKeeps, IHexTypeKeeps, IHexDataKeeps, IHexChecksumKeeps,
       IHexEndChecksumKeeps
    DEF IHex
  <1>6. CASE Moto
    BY <1>6, MotoCharKeeps, MotoTypeKeeps, MotoLengthKeeps,
       MotoAddressHighKeeps, Moto9AddressLowKeeps, Moto1AddressLowKeeps,
       Moto1DataKeeps, MotoChecksumKeeps
    DEF Moto
  <1>7. CASE UNCHANGED vars
    BY <1>7, StutterKeeps
  <1> QED
    BY <1>1, <1>2, <1>3, <1>4, <1>5, <1>6, <1>7 DEF Next, Firmware

LEMMA Invariance == Spec => []IInv
  BY InitEstablishesIInv, NextKeepsIInv, PTL DEF Spec

\* Every variable keeps its type, whatever the files, the noise and the keys;
\* in particular echo (load_cmd.asm:85-86, 150) is off again whenever the
\* command loop has control.
THEOREM TypeCorrect == Spec => []TypeOK
  <1>1. IInv => TypeOK
    BY DEF IInv
  <1> QED
    BY <1>1, Invariance, PTL

\* g.loadXsum is the sum of the record's bytes modulo 256 wherever the code
\* relies on it (load_cmd.asm:176-188, 218-219, 347-350, 379-382, 400-402).
THEOREM XsumIsTheSum == Spec => []XsumTracks
  <1>1. IInv => XsumTracks
    BY DEF IInv
  <1> QED
    BY <1>1, Invariance, PTL

\* No data record is accepted (load_cmd.asm:224-225, 413-422) unless its bytes
\* add up as its format asks.
THEOREM AcceptedRecordsAddUp == Spec => []ChecksumHolds
  <1>1. IInv => ChecksumHolds
    BY DEF IInv
  <1> QED
    BY <1>1, Invariance, PTL

\* The data loops' pointer and counter stay in step (load_cmd.asm:214-222,
\* 397-409).
THEOREM LoopsStayInStep == Spec => []LoopInStep
  <1>1. IInv => LoopInStep
    BY DEF IInv
  <1> QED
    BY <1>1, Invariance, PTL

\* So all that is kept of a record agrees with its bytes, for every file, fault and
\* number of loads.
THEOREM RecordsStayInStep == Spec => []RecordInStep
  <1>1. IInv => RecordInStep
    BY DEF IInv, RecordInStep
  <1> QED
    BY <1>1, Invariance, PTL

\* Where the pointer of the loop in step is, is inside the record.
LEMMA PointerInRecord ==
    ASSUME IInv, pc = "iData" \/ (pc = "s1Data" /\ loadLength > 3)
    PROVE  InRecord(ptr)
  <1>1. loadLength \in Byte
    BY DEF IInv, TypeOK, RecordOK
  <1>2. CASE pc = "iData"
    <2>1. /\ count \in 1..loadLength
          /\ ptr = (loadAddress + (loadLength - count)) % 65536
      BY <1>2 DEF IInv, LoopInStep
    <2>2. loadLength - count \in 0..(DataLength - 1)
      BY <1>1, <1>2, <2>1 DEF DataLength, Byte
    <2> QED
      BY <2>1, <2>2 DEF InRecord
  <1>3. CASE pc = "s1Data" /\ loadLength > 3
    <2>1. /\ count \in 1..(loadLength - 3)
          /\ ptr = (loadAddress + (loadLength - 3 - count)) % 65536
      BY <1>3 DEF IInv, LoopInStep
    <2>2. loadLength - 3 - count \in 0..(DataLength - 1)
      BY <1>1, <1>3, <2>1 DEF DataLength, Byte
    <2> QED
      BY <2>1, <2>2 DEF InRecord
  <1> QED
    BY <1>2, <1>3

\* Only the two data loops and the start of a load touch memory.
LEMMA MemorySteps ==
    ASSUME Next
    PROVE  \/ mem' = mem
           \/ mem' = NoMemory
           \/ Deposit(HexByte) /\ pc \in {"iData", "s1Data"}
  <1>1. CASE LoadSerial \/ LoadDisk
    BY <1>1 DEF LoadSerial, LoadDisk
  <1>2. CASE SwallowLF \/ HighDigit \/ Prompt \/ Detect \/ SkipToNextLine
    BY <1>2 DEF SwallowLF, HighDigit, Prompt, Detect, SkipToNextLine
  <1>3. CASE IHexData \/ Moto1Data
    BY <1>3 DEF IHexData, Moto1Data, GotByte
  <1>4. CASE IHex /\ ~IHexData
    BY <1>4 DEF IHex, IHexLength, IHexAddressHigh, IHexAddressLow, IHexType,
                IHexChecksum, IHexEndOfLine, IHexEndChecksum, IHexSkip, IHexNext
  <1>5. CASE Moto /\ ~Moto1Data
    BY <1>5 DEF Moto, MotoType, MotoLength, MotoAddressHigh, Moto9AddressLow,
                Moto1AddressLow, MotoChecksum, MotoSkip, MotoNext
  <1>6. CASE LineLoses \/ LineAlters \/ PressKey
    BY <1>6 DEF LineLoses, LineAlters, Disturb, PressKey
  <1> QED
    BY <1>1, <1>2, <1>3, <1>4, <1>5, <1>6 DEF Next, Firmware

\* No data record, whatever it holds and however it is damaged on the way,
\* stores a byte outside the window its own header gives, if that window is
\* not empty (load_cmd.asm:204-222, 390-409).
THEOREM NoStrayDeposit == Spec => DepositsStayInRecord
  <1> DEFINE Confined == (pc = "s1Data" => loadLength > 3) =>
                            \A a \in DOMAIN mem' : Stored(a) => InRecord(a)
  <1>1. IInv /\ [Next]_vars => [Confined]_vars
    <2> SUFFICES ASSUME IInv, Next, pc = "s1Data" => loadLength > 3,
                        NEW a \in DOMAIN mem', Stored(a)
                 PROVE  InRecord(a)
      BY DEF Confined
    <2>1. \/ mem' = mem
          \/ mem' = NoMemory
          \/ Deposit(HexByte) /\ pc \in {"iData", "s1Data"}
      BY MemorySteps
    <2>2. CASE mem' = mem
      BY <2>2 DEF Stored
    <2>3. CASE mem' = NoMemory
      BY <2>3 DEF NoMemory
    <2>4. CASE Deposit(HexByte) /\ pc \in {"iData", "s1Data"}
      <3>1. a = ptr
        BY <2>4 DEF Deposit, Stored
      <3> QED
        BY <2>4, <3>1, PointerInRecord
    <2> QED
      BY <2>1, <2>2, <2>3, <2>4
  <1> QED
    BY <1>1, Invariance, PTL DEF Spec, DepositsStayInRecord, Confined

-----------------------------------------------------------------------------
(* Where the loader is in an undisturbed file.                             *)

\* The place of the character to come, and what is ahead of it.
At == Len(sent.text) - Len(wire) + 1
Ahead ==
    /\ Len(wire) <= Len(sent.text)
    /\ \A i \in 1..Len(wire) : wire[i] = sent.text[At + i - 1]

Rec(k) == sent.records[k]
LastRecord == Len(sent.records)
Image(k) == Images(sent)[k]

\* In byte j of record k: before its first digit, or between its digits.
InByte(k, j) ==
    /\ At = DigitsOf(sent, Rec(k), j) + (IF half = "lo" THEN 1 ELSE 0)
    /\ half = "lo" => upperNibble = 16 * (Rec(k).bytes[j] \div 16)
    /\ j > 1 => total = Sums(Rec(k).bytes)[j - 1]

\* Past the last digit of record k.
PastDigits(k) == At = EndOf(sent, Rec(k)) /\ prevChar # CR

\* Between two records: the line feed of a CR LF pair may be still to come.
Before(k) ==
    /\ k > 1 /\ prevChar = CR /\ mem = Image(k - 1)
    /\ \/ At = Rec(k).at
       \/ At = Rec(k).at - 1 /\ sent.text[At] = LF

Addressed(k) == loadLength = Rec(k).bytes[1] /\ loadAddress = Address(Rec(k))

\* The byte of record k that getHexByte is reading.
ToCome(k) ==
    IF pc \in {"iLen", "sLen"} THEN 1
    ELSE IF pc \in {"iAddrHi", "s9Hi", "s1Hi"} THEN 2
    ELSE IF pc \in {"iAddrLo", "s9Lo", "s1Lo"} THEN 3
    ELSE IF pc \in {"iType", "s9Sum"} THEN 4
    ELSE IF pc = "iEndSum" THEN 5
    ELSE IF pc = "iData" THEN 5 + (loadLength - count)
    ELSE IF pc = "s1Data" THEN 4 + (loadLength - 3 - count)
    ELSE Len(Rec(k).bytes)

InIntel(k) ==
    \/ pc = "iLen" /\ mem = Image(k - 1)
    \/ pc = "iAddrHi" /\ mem = Image(k - 1) /\ loadLength = Rec(k).bytes[1]
    \/ /\ pc = "iAddrLo" /\ mem = Image(k - 1)
       /\ loadLength = Rec(k).bytes[1] /\ hi = Rec(k).bytes[2]
    \/ pc = "iType" /\ mem = Image(k - 1) /\ Addressed(k)
    \/ /\ pc = "iData" /\ Addressed(k) /\ Rec(k).type = 0
       /\ mem = Overlay(sent, Rec(k), Image(k - 1), loadLength - count)
    \/ pc = "iSum" /\ mem = Image(k) /\ Rec(k).type = 0
    \/ pc = "iEndSum" /\ mem = Image(k - 1) /\ Rec(k).type = 1
    \/ pc = "iCR" /\ mem = Image(k) /\ Rec(k).type = 0 /\ PastDigits(k)
    \/ pc = "iNext" /\ Before(k)

InMoto(k) ==
    \/ pc = "sType" /\ mem = Image(k - 1) /\ At = Rec(k).at + 1
    \/ pc = "sLen" /\ mem = Image(k - 1) /\ loadType = Zero + Rec(k).type
    \/ pc \in {"s9Hi", "s9Lo", "s9Sum"} /\ mem = Image(k - 1) /\ Rec(k).type = 9
    \/ /\ pc = "s1Hi" /\ mem = Image(k - 1) /\ Rec(k).type = 1
       /\ loadLength = Rec(k).bytes[1]
    \/ /\ pc = "s1Lo" /\ mem = Image(k - 1) /\ Rec(k).type = 1
       /\ loadLength = Rec(k).bytes[1] /\ hi = Rec(k).bytes[2]
    \/ /\ pc = "s1Data" /\ Addressed(k) /\ Rec(k).type = 1
       /\ mem = Overlay(sent, Rec(k), Image(k - 1), loadLength - 3 - count)
    \/ pc = "s1Sum" /\ mem = Image(k) /\ Rec(k).type = 1
    \/ pc = "s1Rest" /\ mem = Image(k) /\ Rec(k).type = 1 /\ PastDigits(k)
    \/ /\ pc = "sIgnore" /\ mem = Image(k) /\ Rec(k).type \in {0, 5}
       /\ prevChar # CR
       /\ At \in DigitsOf(sent, Rec(k), 2)..EndOf(sent, Rec(k))
    \/ pc = "sNext" /\ Before(k)

\* In record k, or right before it; every earlier one was of a known type.
Reading(k) ==
    /\ \A i \in 1..(k - 1) : Rec(i).type \in Supported(sent)
    /\ pc \in BytePcs => InByte(k, ToCome(k))
    /\ IF sent.format = "intel" THEN InIntel(k) ELSE InMoto(k)

\* In the lines before the first record.
InTitle ==
    /\ mem = NoMemory
    /\ \/ /\ pc = "detect" /\ prevChar = CR
          /\ At <= Rec(1).at /\ LineStart(sent, At)
       \/ pc = "dlSkip" /\ prevChar # CR /\ At < Rec(1).at

Complaining == "unsupported" \in said /\ ~sent.supported

Loaded ==
    IF sent.supported THEN mem = sent.image /\ said = {"ok"} ELSE Complained

Underway ==
    /\ said = {} /\ Ahead
    /\ InTitle \/ \E k \in 1..LastRecord : Reading(k)

Progress == IF Loading THEN Complaining \/ Underway ELSE Loaded

FileInv ==
    /\ sent \in Transmissions \cup {NoFile}
    /\ sent = NoFile => ~Loading
    /\ sent # NoFile /\ HasData(sent) /\ faults = <<>> => Progress

-----------------------------------------------------------------------------
(* Functions that are defined step by step.                                *)

Less == {pair \in Nat \X Nat : pair[1] < pair[2]}

\* A set of natural numbers that is not empty has a least element.
LEMMA LeastOf ==
    ASSUME NEW S \in SUBSET Nat, S # {}
    PROVE  \E i \in S : \A j \in S : i <= j
  <1>1. IsWellFoundedOn(Less, Nat)
    BY NatLessThanWellFounded DEF OpToRel, Less
  <1>2. PICK i \in S : \A j \in S : ~(<<j, i>> \in Less)
    BY <1>1, WFMin
  <1>3. \A j \in S : ~(j < i)
    BY <1>2 DEF Less
  <1> QED
    BY <1>3

\* What holds at 0 and goes on holding holds everywhere.
LEMMA UpTo ==
    ASSUME NEW n \in Nat, NEW P, 0 \in P, \A i \in 1..n : i - 1 \in P => i \in P
    PROVE  \A i \in 0..n : i \in P
  <1> DEFINE out == {i \in 0..n : i \notin P}
  <1>1. CASE out = {}
    BY <1>1
  <1>2. CASE out # {}
    <2>1. out \in SUBSET Nat
      OBVIOUS
    <2>2. PICK i \in out : \A j \in out : i <= j
      BY <1>2, <2>1, LeastOf
    <2>3. i \in 1..n /\ i - 1 \in 0..n /\ ~(i <= i - 1)
      BY <2>2
    <2>4. i - 1 \in P
      BY <2>2, <2>3
    <2> QED
      BY <2>2, <2>3, <2>4
  <1> QED
    BY <1>1, <1>2

Steps(n, S) == [1..n -> [S -> S]]
Defined(n, S, start, T) ==
    \E f \in [0..n -> S] : f[0] = start /\ \A i \in 1..n : f[i] = T[i][f[i - 1]]

\* A function is defined by what it is at 0 and how it goes on.
LEMMA Recursion ==
    ASSUME NEW n \in Nat, NEW S, NEW start \in S, NEW T \in Steps(n, S)
    PROVE  Defined(n, S, start, T)
  <1> DEFINE Runs(m, f) == /\ f \in [0..m -> S] /\ f[0] = start
                           /\ \A i \in 1..m : f[i] = T[i][f[i - 1]]
             P == {m \in 0..n : \E f : Runs(m, f)}
  <1>1. 0 \in P
    <2> DEFINE f == [i \in 0..0 |-> start]
    <2>1. Runs(0, f)
      OBVIOUS
    <2>2. 0 \in 0..n
      OBVIOUS
    <2> HIDE DEF f, Runs
    <2> QED
      BY <2>1, <2>2, Zenon
  <1>2. ASSUME NEW m \in 1..n, m - 1 \in P PROVE m \in P
    <2>1. PICK f : Runs(m - 1, f)
      BY <1>2
    <2>2. /\ m \in Nat /\ m \in 0..m /\ 0 \in 0..m /\ 0 # m /\ m - 1 \in 0..(m - 1)
          /\ \A i \in 0..m : i # m => i \in 0..(m - 1)
          /\ \A i \in 1..m : i - 1 \in 0..m /\ i \in 0..m /\ i - 1 # m
          /\ \A i \in 1..m : i # m => i \in 1..(m - 1)
          /\ 0 \in 0..(m - 1) /\ m \in 0..n
      OBVIOUS
    <2> DEFINE last == T[m][f[m - 1]]
               h == [i \in 0..m |-> IF i = m THEN last ELSE f[i]]
    <2>3. last \in S
      <3>1. f[m - 1] \in S
        BY <2>1, <2>2
      <3> QED
        BY <3>1 DEF Steps
    <2>4. h \in [0..m -> S]
      BY <2>1, <2>2, <2>3
    <2>5. \A i \in 0..m : h[i] = IF i = m THEN last ELSE f[i]
      OBVIOUS
    <2> HIDE DEF h
    <2>6. h[0] = start
      BY <2>1, <2>2, <2>5
    <2>7. ASSUME NEW i \in 1..m PROVE h[i] = T[i][h[i - 1]]
      <3>1. h[i - 1] = f[i - 1]
        BY <2>2, <2>5
      <3>2. CASE i = m
        BY <2>2, <2>5, <3>1, <3>2
      <3>3. CASE i # m
        BY <2>1, <2>2, <2>5, <3>1, <3>3
      <3> QED
        BY <3>2, <3>3
    <2>8. Runs(m, h)
      BY <2>4, <2>6, <2>7
    <2> QED
      BY <2>2, <2>8
  <1> HIDE DEF P
  <1>3. n \in P
    <2>1. \A i \in 0..n : i \in P
      BY <1>1, <1>2, UpTo
    <2> QED
      BY <2>1
  <1> USE DEF P
  <1> QED
    BY <1>3 DEF Defined

\* The sums of a record's bytes.
LEMMA SumsAre ==
    ASSUME NEW b \in Seq(Byte)
    PROVE  /\ Sums(b)[0] = 0
           /\ \A i \in 1..Len(b) : /\ Sums(b)[i - 1] \in Nat
                                   /\ Sums(b)[i] = Sums(b)[i - 1] + b[i]
  <1> DEFINE n == Len(b)
             T == [i \in 1..n |-> [v \in Nat |-> v + b[i]]]
             Pass(g) == [i \in 0..n |-> IF i = 0 THEN 0 ELSE g[i - 1] + b[i]]
             c == CHOOSE g : g = Pass(g)
  <1>1. n \in Nat /\ 0 \in 0..n /\ \A i \in 1..n : b[i] \in Nat
    BY DEF Byte
  <1>2. /\ \A i \in 0..n : i # 0 => i \in 1..n
        /\ \A i \in 1..n : i # 0 /\ i \in 0..n /\ i - 1 \in 0..n
    BY <1>1
  <1>3. Sums(b) = c
    BY Zenon DEF Sums
  <1>4. T \in Steps(n, Nat) /\ \A i \in 1..n, v \in Nat : T[i][v] = v + b[i]
    BY <1>1 DEF Steps
  <1> HIDE DEF T, n
  <1>5. PICK f \in [0..n -> Nat] : f[0] = 0 /\ \A i \in 1..n : f[i] = T[i][f[i - 1]]
    <2> DEFINE S == Nat
               start == 0
    <2>1. start \in S /\ T \in Steps(n, S)
      BY <1>4
    <2> HIDE DEF S, start
    <2>2. Defined(n, S, start, T)
      BY <1>1, <2>1, Recursion
    <2> QED
      BY <2>2, Zenon DEF S, start, Defined
  <1>6. \A i \in 1..n : f[i] = f[i - 1] + b[i]
    BY <1>2, <1>4, <1>5
  <1>7. f = Pass(f)
    BY <1>2, <1>5, <1>6, Zenon
  <1>8. c = Pass(c)
    BY <1>7, Zenon
  <1> HIDE DEF c
  <1>9. c[0] = 0 /\ \A i \in 1..n : c[i] = c[i - 1] + b[i]
    BY <1>1, <1>2, <1>8, Zenon
  <1>10. \A i \in 0..n : c[i] \in Nat
    <2> DEFINE P == {i \in 0..n : c[i] \in Nat}
    <2>1. 0 \in P
      BY <1>1, <1>9
    <2>2. ASSUME NEW i \in 1..n, i - 1 \in P PROVE i \in P
      <3>1. c[i - 1] \in Nat /\ b[i] \in Nat /\ c[i] = c[i - 1] + b[i]
        BY <1>1, <1>9, <2>2
      <3>2. c[i] \in Nat /\ i \in 0..n
        BY <1>2, <3>1
      <3> QED
        BY <3>2
    <2> HIDE DEF P
    <2>3. \A i \in 0..n : i \in P
      BY <1>1, <2>1, <2>2, UpTo
    <2> QED
      BY <2>3 DEF P
  <1> QED
    BY <1>2, <1>3, <1>9, <1>10 DEF n

-----------------------------------------------------------------------------
(* What a record stores.                                                   *)

LEMMA WindowGrows ==
    ASSUME NEW a \in Word, NEW n \in Nat
    PROVE  /\ Window(a, 0) = {}
           /\ Window(a, n + 1) = Window(a, n) \cup {(a + n) % 65536}
           /\ Window(a, n) \subseteq Word
  <1> DEFINE f(i) == (a + i) % 65536
  <1>1. /\ Window(a, 0) = {f(i) : i \in 0..(0 - 1)}
        /\ Window(a, n) = {f(i) : i \in 0..(n - 1)}
        /\ Window(a, n + 1) = {f(i) : i \in 0..(n + 1 - 1)}
    BY DEF Window
  <1>2. \A i \in Int : f(i) \in Word
    <2> SUFFICES ASSUME NEW i \in Int PROVE (a + i) % 65536 \in Word
      OBVIOUS
    <2>1. a + i \in Int
      BY DEF Word
    <2> QED
      BY <2>1, WordRange
  <1> HIDE DEF f
  <1>3. 0..(0 - 1) = {} /\ 0..(n + 1 - 1) = 0..(n - 1) \cup {n}
    OBVIOUS
  <1>4. Window(a, 0) = {} /\ Window(a, n + 1) = Window(a, n) \cup {f(n)}
    BY <1>1, <1>3
  <1>5. Window(a, n) \subseteq Word
    BY <1>1, <1>2
  <1> QED
    BY <1>4, <1>5 DEF f

LEMMA WindowPlace ==
    ASSUME NEW a \in Word, NEW i \in Nat, i < 65536
    PROVE  (((a + i) % 65536) - a) % 65536 = i
  BY Z3 DEF Word

LEMMA OverlayStarts ==
    ASSUME NEW t, NEW r, Address(r) \in Word, NEW m, m = [x \in DOMAIN m |-> m[x]]
    PROVE  Overlay(t, r, m, 0) = m
  <1> DEFINE A == Address(r)
             W == Window(A, 0)
             Has(x) == r.bytes[FirstData(t) + ((x - A) % 65536)]
  <1>1. W = {}
    BY WindowGrows
  <1>2. Overlay(t, r, m, 0) = [x \in DOMAIN m \cup W |-> IF x \in W THEN Has(x) ELSE m[x]]
    BY DEF Overlay
  <1> HIDE DEF W, Has, A
  <1>3. DOMAIN m \cup W = DOMAIN m
    BY <1>1
  <1>4. Overlay(t, r, m, 0) = [x \in DOMAIN m |-> m[x]]
    BY <1>1, <1>2, <1>3
  <1> QED
    BY <1>4, Zenon

Wrapped(a) == a % 65536
Put(m, p, v) == [a \in DOMAIN m \cup {p} |-> IF a = p THEN v ELSE m[a]]

LEMMA OverlayGrows ==
    ASSUME NEW t, NEW r, Address(r) \in Word, NEW m, NEW n \in Nat, n <= 255,
           NEW old, old = Overlay(t, r, m, n),
           NEW p, p = Wrapped(Address(r) + n),
           NEW v, v = r.bytes[FirstData(t) + n]
    PROVE  Put(old, p, v) = Overlay(t, r, m, n + 1)
  <1> DEFINE A == Address(r)
             W == Window(A, n)
             V == Window(A, n + 1)
             Has(x) == r.bytes[FirstData(t) + ((x - A) % 65536)]
  <1>1. V = W \cup {p}
    BY WindowGrows DEF Wrapped
  <1>2. (p - A) % 65536 = n
    <2>1. n < 65536
      OBVIOUS
    <2> QED
      BY <2>1, WindowPlace DEF Wrapped
  <1>3. Has(p) = v
    BY <1>2
  <1>4. old = [x \in DOMAIN m \cup W |-> IF x \in W THEN Has(x) ELSE m[x]]
    BY DEF Overlay
  <1>5. Overlay(t, r, m, n + 1)
           = [x \in DOMAIN m \cup V |-> IF x \in V THEN Has(x) ELSE m[x]]
    BY DEF Overlay
  <1> HIDE DEF A, W, V, Has
  <1>6. /\ DOMAIN old = DOMAIN m \cup W
        /\ \A x \in DOMAIN old : old[x] = IF x \in W THEN Has(x) ELSE m[x]
    BY <1>4
  <1>7. DOMAIN m \cup V = DOMAIN old \cup {p}
    BY <1>1, <1>6
  <1>8. \A x \in DOMAIN old \cup {p} :
           (IF x = p THEN v ELSE old[x]) = IF x \in V THEN Has(x) ELSE m[x]
    BY <1>1, <1>3, <1>6
  <1> QED
    BY <1>5, <1>7, <1>8 DEF Put

\* Partial memories.
Memories == UNION {[D -> Byte] : D \in SUBSET Word}

LEMMA MemoriesAre ==
    /\ \A m : m \in Memories <=>
                 /\ DOMAIN m \subseteq Word /\ m = [x \in DOMAIN m |-> m[x]]
                 /\ \A x \in DOMAIN m : m[x] \in Byte
    /\ NoMemory \in Memories
  <1>1. ASSUME NEW m, m \in Memories
        PROVE  /\ DOMAIN m \subseteq Word /\ m = [x \in DOMAIN m |-> m[x]]
               /\ \A x \in DOMAIN m : m[x] \in Byte
    <2>1. PICK D \in SUBSET Word : m \in [D -> Byte]
      BY <1>1 DEF Memories
    <2> QED
      BY <2>1
  <1>2. ASSUME NEW m, DOMAIN m \subseteq Word, m = [x \in DOMAIN m |-> m[x]],
               \A x \in DOMAIN m : m[x] \in Byte
        PROVE  m \in Memories
    <2>1. m \in [DOMAIN m -> Byte]
      BY <1>2
    <2> QED
      BY <1>2, <2>1 DEF Memories
  <1>3. NoMemory \in Memories
    <2>1. NoMemory \in [{} -> Byte]
      BY DEF NoMemory
    <2> QED
      BY <2>1 DEF Memories
  <1> QED
    BY <1>1, <1>2, <1>3

LEMMA OverlayIsMemory ==
    ASSUME NEW t, NEW r, Address(r) \in Word, NEW m \in Memories,
           NEW n \in Nat, n <= 255,
           \A i \in 0..(n - 1) : r.bytes[FirstData(t) + i] \in Byte
    PROVE  Overlay(t, r, m, n) \in Memories
  <1> DEFINE A == Address(r)
             W == Window(A, n)
             Has(x) == r.bytes[FirstData(t) + ((x - A) % 65536)]
             new == Overlay(t, r, m, n)
  <1>1. new = [x \in DOMAIN m \cup W |-> IF x \in W THEN Has(x) ELSE m[x]]
    BY DEF Overlay
  <1>2. W \subseteq Word
    BY WindowGrows
  <1>3. ASSUME NEW x \in W PROVE Has(x) \in Byte
    <2>1. PICK i \in 0..(n - 1) : x = (A + i) % 65536
      BY <1>3 DEF Window
    <2>2. A \in Word /\ i \in Nat /\ i < 65536
      BY <2>1
    <2>3. (x - A) % 65536 = i
      BY <2>1, <2>2, WindowPlace
    <2> QED
      BY <2>3
  <1> HIDE DEF new, W, Has, A
  <1>4. /\ DOMAIN new \subseteq Word /\ new = [x \in DOMAIN new |-> new[x]]
        /\ \A x \in DOMAIN new : new[x] \in Byte
    BY <1>1, <1>2, <1>3, MemoriesAre
  <1> QED
    BY <1>4, MemoriesAre DEF new

-----------------------------------------------------------------------------
(* What the proofs use of a file.                                          *)

LEMMA FileIs ==
    ASSUME NEW t, IsFile(t)
    PROVE  /\ t.text \in Seq(Byte) /\ t.format \in {"intel", "moto"}
           /\ Len(t.records) \in Nat \ {0}
           /\ \A k \in 1..Len(t.records) : IsRecord(t, t.records[k])
           /\ \A k \in 1..(Len(t.records) - 1) :
                 /\ t.records[k].type # EndType(t)
                 /\ NextLine(t, EndOf(t, t.records[k]), t.records[k + 1].at)
           /\ Title(t)
           /\ t.supported <=> \A k \in 1..Len(t.records) :
                                 t.records[k].type \in Supported(t)
           /\ t.supported =>
                 /\ t.records[Len(t.records)].type = EndType(t)
                 /\ t.image = Images(t)[Len(t.records)]
  BY Zenon DEF IsFile

LEMMA ByteBounds == \A b \in Byte : b \in Nat /\ 0 <= b /\ b <= 255
  BY DEF Byte

LEMMA RecordIs ==
    ASSUME NEW t, t.format \in {"intel", "moto"}, t.text \in Seq(Byte),
           NEW r, IsRecord(t, r)
    PROVE  /\ r.bytes \in Seq(Byte) /\ Len(r.bytes) \in Nat
           /\ Len(r.bytes) >= 4
           /\ \A i \in 1..Len(r.bytes) : r.bytes[i] \in Byte
           /\ Address(r) \in Word
           /\ DataCount(t, r) \in Nat /\ DataCount(t, r) <= 255
           /\ \A i \in 0..(DataCount(t, r) - 1) :
                 /\ FirstData(t) + i \in 1..Len(r.bytes)
                 /\ r.bytes[FirstData(t) + i] \in Byte
  <1>1. r.bytes \in Seq(Byte) /\ Len(r.bytes) \in Nat
    BY DEF IsRecord
  <1>2. /\ Len(r.bytes) >= FirstData(t)
        /\ r.bytes[1] = Len(r.bytes) - 5 \/ r.bytes[1] = Len(r.bytes) - 1
        /\ FirstData(t) \in {4, 5}
    BY DEF IsRecord, IntelRecord, MotoRecord, FirstData
  <1>3. \A i \in 1..Len(r.bytes) : r.bytes[i] \in Byte
    BY <1>1
  <1>4. {1, 2, 3} \subseteq 1..Len(r.bytes)
    BY <1>1, <1>2
  <1>5. r.bytes[1] \in Byte /\ r.bytes[2] \in Byte /\ r.bytes[3] \in Byte
    BY <1>3, <1>4
  <1>6. Address(r) \in Word
    <2>1. \A a, b \in Byte : 256 * a + b \in Word
      BY SMT DEF Byte, Word
    <2> QED
      BY <1>5, <2>1 DEF Address
  <1>7. DataCount(t, r) \in Nat /\ DataCount(t, r) <= 255
    <2>1. r.bytes[1] \in Nat /\ r.bytes[1] <= 255 /\ 0 <= r.bytes[1]
      BY <1>5, ByteBounds
    <2>2. CASE t.format = "intel"
      <3>1. FirstData(t) = 5 /\ r.bytes[1] = Len(r.bytes) - 5
        BY <2>2 DEF FirstData, IsRecord, IntelRecord
      <3>2. DataCount(t, r) = r.bytes[1]
        BY <3>1 DEF DataCount
      <3> QED
        BY <2>1, <3>2
    <2>3. CASE t.format # "intel"
      <3>1. FirstData(t) = 4 /\ r.bytes[1] = Len(r.bytes) - 1 /\ Len(r.bytes) >= 4
        BY <2>3 DEF FirstData, IsRecord, MotoRecord
      <3>2. DataCount(t, r) = Len(r.bytes) - 4
        BY <3>1 DEF DataCount
      <3> QED
        BY <1>1, <2>1, <3>1, <3>2
    <2> QED
      BY <2>2, <2>3
  <1>8. \A i \in 0..(DataCount(t, r) - 1) : FirstData(t) + i \in 1..Len(r.bytes)
    <2> DEFINE n == Len(r.bytes)
               f == FirstData(t)
    <2>1. n \in Nat /\ f \in Nat \ {0} /\ DataCount(t, r) = n - f
      BY <1>1, <1>2 DEF DataCount
    <2> HIDE DEF n, f
    <2> SUFFICES ASSUME NEW i \in 0..(n - f - 1) PROVE f + i \in 1..n
      BY <2>1 DEF n, f
    <2> QED
      BY <2>1
  <1>9. Len(r.bytes) >= 4
    BY <1>1, <1>2
  <1>10. \A i \in 0..(DataCount(t, r) - 1) :
            /\ FirstData(t) + i \in 1..Len(r.bytes)
            /\ r.bytes[FirstData(t) + i] \in Byte
    BY <1>3, <1>8
  <1> QED
    BY <1>1, <1>3, <1>6, <1>7, <1>9, <1>10

\* What the first records stand for.
LEMMA ImagesAre ==
    ASSUME NEW t, IsFile(t)
    PROVE  /\ Images(t)[0] = NoMemory
           /\ \A k \in 1..Len(t.records) :
                 /\ Images(t)[k - 1] \in Memories
                 /\ Images(t)[k] =
                       IF t.records[k].type = DataType(t)
                       THEN Overlay(t, t.records[k], Images(t)[k - 1],
                                    DataCount(t, t.records[k]))
                       ELSE Images(t)[k - 1]
  <1> DEFINE n == Len(t.records)
             Then(k, m) == IF t.records[k].type = DataType(t)
                           THEN Overlay(t, t.records[k], m, DataCount(t, t.records[k]))
                           ELSE m
             T == [k \in 1..n |-> [m \in Memories |-> Then(k, m)]]
             Pass(g) == [k \in 0..n |-> IF k = 0 THEN NoMemory ELSE Then(k, g[k - 1])]
             c == CHOOSE g : g = Pass(g)
  <1>1. n \in Nat /\ 0 \in 0..n /\ NoMemory \in Memories
    BY FileIs, MemoriesAre
  <1>2. /\ \A k \in 0..n : k # 0 => k \in 1..n
        /\ \A k \in 1..n : k # 0 /\ k \in 0..n /\ k - 1 \in 0..n
    BY <1>1
  <1>3. Images(t) = c
    BY Zenon DEF Images
  <1>4. ASSUME NEW k \in 1..n, NEW m \in Memories PROVE Then(k, m) \in Memories
    <2> DEFINE r == t.records[k]
               d == DataCount(t, r)
    <2>1. IsRecord(t, r) /\ t.text \in Seq(Byte) /\ t.format \in {"intel", "moto"}
      BY FileIs
    <2>2. /\ Address(r) \in Word /\ d \in Nat /\ d <= 255
          /\ \A i \in 0..(d - 1) : r.bytes[FirstData(t) + i] \in Byte
      BY <2>1, RecordIs
    <2> HIDE DEF r, d
    <2>3. Overlay(t, r, m, d) \in Memories
      BY <1>4, <2>2, OverlayIsMemory, Zenon
    <2> QED
      BY <2>3 DEF r, d
  <1> HIDE DEF Then
  <1>5. T \in Steps(n, Memories) /\ \A k \in 1..n, m \in Memories : T[k][m] = Then(k, m)
    BY <1>4 DEF Steps
  <1> HIDE DEF T, n
  <1>6. PICK f \in [0..n -> Memories] :
           f[0] = NoMemory /\ \A k \in 1..n : f[k] = T[k][f[k - 1]]
    <2>1. Defined(n, Memories, NoMemory, T)
      BY <1>1, <1>5, Recursion
    <2> QED
      BY <2>1, Zenon DEF Defined
  <1>7. \A k \in 1..n : f[k] = Then(k, f[k - 1])
    BY <1>2, <1>5, <1>6
  <1>8. f = Pass(f)
    BY <1>2, <1>6, <1>7, Zenon
  <1>9. c = Pass(c)
    BY <1>8, Zenon
  <1> HIDE DEF c
  <1>10. c[0] = NoMemory /\ \A k \in 1..n : c[k] = Then(k, c[k - 1])
    BY <1>1, <1>2, <1>9, Zenon
  <1>11. \A k \in 0..n : c[k] \in Memories
    <2> DEFINE P == {k \in 0..n : c[k] \in Memories}
    <2>1. 0 \in P
      BY <1>1, <1>10
    <2>2. ASSUME NEW k \in 1..n, k - 1 \in P PROVE k \in P
      <3>1. c[k - 1] \in Memories
        BY <2>2
      <3>2. Then(k, c[k - 1]) \in Memories
        BY <1>4, <3>1
      <3>3. c[k] \in Memories /\ k \in 0..n
        BY <1>2, <1>10, <3>2
      <3> QED
        BY <3>3
    <2> HIDE DEF P
    <2>3. \A k \in 0..n : k \in P
      BY <1>1, <2>1, <2>2, UpTo
    <2> QED
      BY <2>3 DEF P
  <1> QED
    BY <1>2, <1>3, <1>10, <1>11 DEF n, Then

-----------------------------------------------------------------------------
(* The characters of a file.                                               *)

Sending == sent \in Transmissions /\ HasData(sent)

LEMMA SendsFile == ASSUME Sending PROVE IsFile(sent)
  BY LoaderAssumption DEF Sending

LEMMA SentIs ==
    ASSUME Sending
    PROVE  /\ sent.text \in Seq(Byte) /\ Len(sent.text) \in Nat
           /\ sent.format \in {"intel", "moto"}
           /\ LastRecord \in Nat \ {0} /\ 1 \in 1..LastRecord
           /\ \A k \in 1..LastRecord :
                 /\ k \in Nat /\ k - 1 \in 0..LastRecord
                 /\ Rec(k).at \in Nat \ {0} /\ Rec(k).type \in Nat
                 /\ Rec(k).at + 1 <= Len(sent.text)
                 /\ Rec(k).bytes \in Seq(Byte)
                 /\ Len(Rec(k).bytes) \in Nat /\ Len(Rec(k).bytes) >= 4
                 /\ \A i \in 1..Len(Rec(k).bytes) : Rec(k).bytes[i] \in Byte
                 /\ Address(Rec(k)) \in Word
                 /\ Image(k - 1) \in Memories
  <1>1. IsFile(sent)
    BY SendsFile
  <1>2. /\ sent.text \in Seq(Byte) /\ sent.format \in {"intel", "moto"}
        /\ LastRecord \in Nat \ {0}
        /\ \A k \in 1..LastRecord : IsRecord(sent, Rec(k))
    BY <1>1, FileIs, Zenon DEF LastRecord, Rec
  <1>3. \A k \in 1..LastRecord : Image(k - 1) \in Memories
    BY <1>1, ImagesAre, Zenon DEF LastRecord, Image
  <1>4. ASSUME NEW k \in 1..LastRecord
        PROVE  /\ Rec(k).at \in Nat \ {0} /\ Rec(k).type \in Nat
               /\ Rec(k).at + 1 <= Len(sent.text)
    BY <1>2 DEF IsRecord
  <1>5. ASSUME NEW k \in 1..LastRecord
        PROVE  /\ Rec(k).bytes \in Seq(Byte)
               /\ Len(Rec(k).bytes) \in Nat /\ Len(Rec(k).bytes) >= 4
               /\ \A i \in 1..Len(Rec(k).bytes) : Rec(k).bytes[i] \in Byte
               /\ Address(Rec(k)) \in Word
    BY <1>2, RecordIs
  <1> QED
    BY <1>2, <1>3, <1>4, <1>5

LEMMA DigitIs ==
    ASSUME NEW d \in 0..15, NEW c \in DigitChars(d)
    PROVE  /\ c \in Byte /\ HexDigit(c) = d /\ Canonical(c) = c
           /\ c # CR /\ c # LF
  BY DEF DigitChars, HexDigit, LowerCase, IsUpper, IsDigit, BadDigit, Byte, Zero,
         Nine, Canonical, CR, LF

LEMMA Nibbles ==
    ASSUME NEW b \in Byte
    PROVE  /\ b \div 16 \in 0..15 /\ b % 16 \in 0..15
           /\ b = 16 * (b \div 16) + (b % 16)
           /\ b % 256 = b /\ ~(b > 255)
  <1>1. b \in Nat /\ b <= 255
    BY ByteBounds
  <1>2. b \div 16 \in 0..15
    BY <1>1
  <1>3. b % 16 \in 0..15
    BY <1>1
  <1>4. b = 16 * (b \div 16) + (b % 16)
    BY <1>1
  <1>5. b % 256 = b /\ ~(b > 255)
    BY <1>1
  <1> QED
    BY <1>2, <1>3, <1>4, <1>5

LEMMA PlaceStep ==
    ASSUME NEW a \in Nat \ {0}, NEW l \in {1, 2}, NEW j \in Nat \ {0}
    PROVE  /\ a + l + 2 * (j - 1) \in Nat \ {0}
           /\ a + l + 2 * ((j + 1) - 1) = a + l + 2 * (j - 1) + 2
  OBVIOUS

LEMMA DigitsAre ==
    ASSUME Sending, NEW k \in 1..LastRecord, NEW j \in 1..Len(Rec(k).bytes)
    PROVE  LET p == DigitsOf(sent, Rec(k), j)
               b == Rec(k).bytes[j]
           IN  /\ p \in Nat \ {0} /\ p + 1 <= Len(sent.text)
               /\ sent.text[p] \in DigitChars(b \div 16)
               /\ sent.text[p + 1] \in DigitChars(b % 16)
               /\ b \div 16 \in 0..15 /\ b % 16 \in 0..15
               /\ b = 16 * (b \div 16) + (b % 16)
               /\ DigitsOf(sent, Rec(k), j + 1) = p + 2
  <1> DEFINE p == DigitsOf(sent, Rec(k), j)
             b == Rec(k).bytes[j]
  <1>1. IsRecord(sent, Rec(k))
    BY SendsFile, FileIs DEF LastRecord, Rec
  <1>2. /\ p + 1 <= Len(sent.text)
        /\ sent.text[p] \in DigitChars(b \div 16)
        /\ sent.text[p + 1] \in DigitChars(b % 16)
    BY <1>1 DEF IsRecord, Spelled
  <1>3. /\ Rec(k).at \in Nat \ {0} /\ Len(Rec(k).bytes) \in Nat
        /\ \A i \in 1..Len(Rec(k).bytes) : Rec(k).bytes[i] \in Byte
    BY SentIs
  <1>4. p \in Nat \ {0} /\ DigitsOf(sent, Rec(k), j + 1) = p + 2
    <2>1. Lead(sent) \in {1, 2} /\ j \in Nat \ {0}
      BY <1>3 DEF Lead
    <2>2. /\ p = Rec(k).at + Lead(sent) + 2 * (j - 1)
          /\ DigitsOf(sent, Rec(k), j + 1) = Rec(k).at + Lead(sent) + 2 * ((j + 1) - 1)
      BY DEF DigitsOf
    <2>3. \A a \in Nat \ {0}, l \in {1, 2} :
             /\ a + l + 2 * (j - 1) \in Nat \ {0}
             /\ a + l + 2 * ((j + 1) - 1) = a + l + 2 * (j - 1) + 2
      BY <2>1, PlaceStep
    <2>4. /\ Rec(k).at + Lead(sent) + 2 * (j - 1) \in Nat \ {0}
          /\ Rec(k).at + Lead(sent) + 2 * ((j + 1) - 1)
                = Rec(k).at + Lead(sent) + 2 * (j - 1) + 2
      BY <1>3, <2>1, <2>3
    <2> QED
      BY <2>2, <2>4
  <1>5. b \in Byte
    BY <1>3
  <1> HIDE DEF b, p
  <1>6. b \div 16 \in 0..15 /\ b % 16 \in 0..15 /\ b = 16 * (b \div 16) + (b % 16)
    BY <1>5, Nibbles
  <1> QED
    BY <1>2, <1>4, <1>6 DEF b, p

LEMMA WireStep ==
    ASSUME Sending, LineOK, Ahead, wire # <<>>, wire' = Tail(wire), sent' = sent
    PROVE  /\ At \in 1..Len(sent.text) /\ Head(wire) = sent.text[At]
           /\ Ahead' /\ At' = At + 1
  <1> DEFINE n == Len(wire)
             m == Len(sent.text)
  <1>1. wire \in Seq(Byte) /\ n \in Nat \ {0} /\ m \in Nat /\ n <= m
    BY SentIs DEF LineOK, Ahead
  <1>2. /\ Len(wire') = n - 1 /\ Head(wire) = wire[1]
        /\ \A i \in 1..(n - 1) : wire'[i] = wire[i + 1]
    BY <1>1
  <1>3. At = m - n + 1 /\ At' = m - (n - 1) + 1
    BY <1>2 DEF At
  <1>4. \A i \in 1..n : wire[i] = sent.text[m - n + 1 + i - 1]
    BY <1>3 DEF Ahead
  <1> HIDE DEF n, m
  <1>5. At' = At + 1 /\ At \in 1..m
    BY <1>1, <1>3
  <1>6. Head(wire) = sent.text[At]
    <2>1. 1 \in 1..n /\ m - n + 1 + 1 - 1 = At
      BY <1>1, <1>3
    <2> QED
      BY <1>2, <1>4, <2>1
  <1>7. \A i \in 1..(n - 1) : wire'[i] = sent.text[At' + i - 1]
    <2> SUFFICES ASSUME NEW i \in 1..(n - 1) PROVE wire'[i] = sent.text[At' + i - 1]
      OBVIOUS
    <2>1. i + 1 \in 1..n /\ m - n + 1 + (i + 1) - 1 = At' + i - 1
      BY <1>1, <1>3
    <2> QED
      BY <1>2, <1>4, <2>1
  <1>8. Ahead'
    BY <1>1, <1>2, <1>7 DEF Ahead, n, m
  <1> QED
    BY <1>5, <1>6, <1>8 DEF m

\* There is something to read as long as the file is not over.
LEMMA HasMore ==
    ASSUME Sending, LineOK, At <= Len(sent.text)
    PROVE  wire # <<>>
  <1>1. Len(wire) \in Nat /\ Len(sent.text) \in Nat
    BY SentIs DEF LineOK
  <1>2. Len(wire) # 0
    BY <1>1 DEF At
  <1> QED
    BY <1>2

-----------------------------------------------------------------------------
(* A byte of a record, digit by digit.                                     *)

\* What every step of the firmware during a load leaves alone.
Steady == sent' = sent /\ faults' = faults

LEMMA FirstDigitRead ==
    ASSUME IInv, Sending, Ahead, NEW k \in 1..LastRecord,
           NEW j \in 1..Len(Rec(k).bytes), InByte(k, j), HighDigit
    PROVE  /\ InByte(k, j)' /\ Ahead' /\ Steady /\ prevChar' # CR
           /\ UNCHANGED <<recordVars, echo, pc, mem, said>>
  <1> DEFINE p == DigitsOf(sent, Rec(k), j)
             b == Rec(k).bytes[j]
  <1>1. /\ p \in Nat \ {0} /\ p + 1 <= Len(sent.text)
        /\ sent.text[p] \in DigitChars(b \div 16) /\ b \div 16 \in 0..15
    BY DigitsAre
  <1>2. /\ wire # <<>> /\ wire' = Tail(wire) /\ prevChar' = Char /\ half = "hi"
        /\ half' = "lo" /\ upperNibble' = UpperNibble(Char)
        /\ Steady /\ total' = total
        /\ UNCHANGED <<recordVars, echo, pc, mem, said>>
    BY DEF HighDigit, GetChar, Steady, envVars
  <1>3. At = p
    BY <1>1, <1>2 DEF InByte
  <1>4. Head(wire) = sent.text[p] /\ Ahead' /\ At' = p + 1
    BY <1>2, <1>3, WireStep DEF IInv, TypeOK, Steady
  <1>5. /\ Char # CR /\ HexDigit(Char) = b \div 16
    BY <1>1, <1>4, DigitIs DEF Char
  <1> HIDE DEF b, p
  <1>6. upperNibble' = 16 * (b \div 16)
    <2> DEFINE d == b \div 16
    <2>1. upperNibble' = (16 * d) % 256 /\ d \in 0..15
      BY <1>1, <1>2, <1>5 DEF UpperNibble
    <2> HIDE DEF d
    <2>2. upperNibble' = 16 * d
      BY <2>1
    <2> QED
      BY <2>2 DEF d
  <1>7. InByte(k, j)'
    <2>1. Rec(k)' = Rec(k) /\ sent' = sent
      BY <1>2 DEF Steady, Rec
    <2>2. half' # "hi"
      BY <1>2
    <2> QED
      BY <1>2, <1>4, <1>6, <2>1 DEF InByte, b, p
  <1> QED
    BY <1>2, <1>4, <1>5, <1>7

LEMMA ByteRead ==
    ASSUME IInv, Sending, Ahead, NEW k \in 1..LastRecord,
           NEW j \in 1..Len(Rec(k).bytes), InByte(k, j),
           NEW p \in BytePcs, GotByte(p), p \in {"iLen", "sLen"} <=> j = 1
    PROVE  /\ HexByte = Rec(k).bytes[j] /\ HexByte \in Byte /\ ~Carry
           /\ Ahead' /\ Steady
           /\ At' = DigitsOf(sent, Rec(k), j + 1) /\ prevChar' # CR
           /\ half' = "hi" /\ total' = Sums(Rec(k).bytes)[j]
           /\ Rec(k)' = Rec(k)
  <1> DEFINE b == Rec(k).bytes[j]
             q == DigitsOf(sent, Rec(k), j)
             bytes == Rec(k).bytes
  <1>1. /\ q \in Nat \ {0} /\ q + 1 <= Len(sent.text)
        /\ sent.text[q + 1] \in DigitChars(b % 16)
        /\ b \div 16 \in 0..15 /\ b % 16 \in 0..15
        /\ b = 16 * (b \div 16) + (b % 16)
        /\ DigitsOf(sent, Rec(k), j + 1) = q + 2
    BY DigitsAre
  <1>2. /\ wire # <<>> /\ wire' = Tail(wire) /\ prevChar' = Char /\ half = "lo"
        /\ half' = "hi" /\ Steady
        /\ total' = HexByte + (IF p \in {"iLen", "sLen"} THEN 0 ELSE total)
    BY DEF GotByte, GetChar, Steady, envVars
  <1>3. At = q + 1 /\ upperNibble = 16 * (b \div 16)
    BY <1>2 DEF InByte
  <1>4. Head(wire) = sent.text[q + 1] /\ Ahead' /\ At' = q + 2
    BY <1>1, <1>2, <1>3, WireStep DEF IInv, TypeOK, Steady
  <1>5. Char # CR /\ HexDigit(Char) = b % 16
    BY <1>1, <1>4, DigitIs DEF Char
  <1>6. b \in Byte /\ bytes \in Seq(Byte)
    BY SentIs
  <1>7. HexByte = b /\ ~Carry
    <2> HIDE DEF b, q
    <2> DEFINE h == b \div 16
               l == b % 16
    <2>1. h \in 0..15 /\ l \in 0..15 /\ b = 16 * h + l
          /\ upperNibble = 16 * h /\ HexDigit(Char) = l
      BY <1>1, <1>3, <1>5
    <2> HIDE DEF h, l
    <2>2. upperNibble + HexDigit(Char) = b
      BY <2>1
    <2>3. b % 256 = b /\ ~(b > 255)
      BY <1>6, Nibbles
    <2> QED
      BY <2>2, <2>3 DEF HexByte, Carry, ByteValue, ByteCarry
  <1>8. total' = Sums(bytes)[j]
    <2>1. /\ Sums(bytes)[0] = 0 /\ Sums(bytes)[j - 1] \in Nat
          /\ Sums(bytes)[j] = Sums(bytes)[j - 1] + b
      BY <1>6, SumsAre
    <2>2. CASE j = 1
      <3>1. j - 1 = 0 /\ total' = b + 0
        BY <1>2, <1>7, <2>2
      <3> QED
        BY <1>6, <2>1, <3>1 DEF Byte
    <2>3. CASE j # 1
      <3>1. j > 1 /\ total' = b + total
        BY <1>2, <1>7, <2>3
      <3>2. total = Sums(bytes)[j - 1]
        BY <3>1 DEF InByte
      <3>3. b \in Nat
        BY <1>6, ByteBounds
      <3> HIDE DEF b, bytes
      <3> QED
        BY <2>1, <3>1, <3>2, <3>3
    <2> QED
      BY <2>2, <2>3
  <1>9. Rec(k)' = Rec(k)
    BY <1>2 DEF Rec, Steady
  <1> QED
    BY <1>1, <1>2, <1>4, <1>5, <1>6, <1>7, <1>8, <1>9

-----------------------------------------------------------------------------
(* The records of a file.                                                  *)

LEMMA IntelIs ==
    ASSUME Sending, sent.format = "intel", NEW k \in 1..LastRecord
    PROVE  LET r == Rec(k)
           IN  /\ sent.text[r.at] = Colon
               /\ Len(r.bytes) >= 5 /\ r.bytes[1] = Len(r.bytes) - 5
               /\ r.bytes[4] = r.type
               /\ Sums(r.bytes)[Len(r.bytes)] % 256 = 0
               /\ DigitsOf(sent, r, 1) = r.at + 1
  <1>1. IsRecord(sent, Rec(k))
    BY SendsFile, FileIs DEF LastRecord, Rec
  <1>2. IntelRecord(sent, Rec(k))
    BY <1>1 DEF IsRecord
  <1>3. DigitsOf(sent, Rec(k), 1) = Rec(k).at + 1 + 2 * (1 - 1)
    BY DEF DigitsOf, Lead
  <1>4. Rec(k).at \in Nat
    BY SentIs
  <1> QED
    BY <1>2, <1>3, <1>4 DEF IntelRecord

LEMMA MotoIs ==
    ASSUME Sending, sent.format # "intel", NEW k \in 1..LastRecord
    PROVE  LET r == Rec(k)
           IN  /\ sent.text[r.at] \in {83, 115}
               /\ r.type \in 0..9 /\ sent.text[r.at + 1] = Zero + r.type
               /\ r.bytes[1] = Len(r.bytes) - 1
               /\ r.type = 9 => Len(r.bytes) = 4
               /\ r.type = 1 => Len(r.bytes) >= 5
               /\ Sums(r.bytes)[Len(r.bytes)] % 256 = 255
               /\ DigitsOf(sent, r, 1) = r.at + 2
  <1>1. IsRecord(sent, Rec(k))
    BY SendsFile, FileIs DEF LastRecord, Rec
  <1>2. MotoRecord(sent, Rec(k))
    BY <1>1 DEF IsRecord
  <1>3. DigitsOf(sent, Rec(k), 1) = Rec(k).at + 2 + 2 * (1 - 1)
    BY DEF DigitsOf, Lead
  <1>4. Rec(k).at \in Nat /\ Len(Rec(k).bytes) \in Nat
    BY SentIs
  <1>5. Rec(k).type = 1 => Len(Rec(k).bytes) >= 5
    <2>1. sent.format = "moto"
      BY SentIs
    <2>2. Rec(k).type = 1 => DataCount(sent, Rec(k)) > 0
      BY <2>1 DEF Sending, HasData, DataType, Rec, LastRecord
    <2>3. DataCount(sent, Rec(k)) = Len(Rec(k).bytes) - 4
      BY <2>1 DEF DataCount, FirstData
    <2> QED
      BY <1>4, <2>2, <2>3
  <1> QED
    BY <1>2, <1>3, <1>4, <1>5 DEF MotoRecord, EndType

\* A record of a known type that does not end the file is followed by another.
LEMMA GoesOn ==
    ASSUME Sending, NEW k \in 1..LastRecord,
           \A i \in 1..k : Rec(i).type \in Supported(sent),
           Rec(k).type # EndType(sent)
    PROVE  /\ k + 1 \in 1..LastRecord
           /\ NextLine(sent, EndOf(sent, Rec(k)), Rec(k + 1).at)
  <1>1. LastRecord \in Nat
    BY SentIs
  <1>2. k # LastRecord
    <2> SUFFICES ASSUME k = LastRecord PROVE FALSE
      OBVIOUS
    <2>1. sent.supported
      BY SendsFile, FileIs DEF Rec, LastRecord
    <2> QED
      BY <2>1, SendsFile, FileIs DEF Rec, LastRecord
  <1>3. k \in 1..(LastRecord - 1) /\ k + 1 \in 1..LastRecord
    BY <1>1, <1>2
  <1> QED
    BY <1>3, SendsFile, FileIs DEF Rec, LastRecord

\* A record that ends the file is its last, and the file stands for what has
\* been read.
LEMMA EndsHere ==
    ASSUME Sending, NEW k \in 1..LastRecord,
           \A i \in 1..k : Rec(i).type \in Supported(sent),
           Rec(k).type = EndType(sent)
    PROVE  sent.supported /\ sent.image = Image(k - 1)
  <1>1. LastRecord \in Nat
    BY SentIs
  <1>2. k = LastRecord
    <2> SUFFICES ASSUME k # LastRecord PROVE FALSE
      OBVIOUS
    <2>1. k \in 1..(LastRecord - 1)
      BY <1>1
    <2> QED
      BY <2>1, SendsFile, FileIs DEF Rec, LastRecord
  <1>3. sent.supported
    BY <1>2, SendsFile, FileIs DEF Rec, LastRecord
  <1>4. sent.image = Image(k)
    BY <1>2, <1>3, SendsFile, FileIs DEF Image, LastRecord
  <1>5. EndType(sent) # DataType(sent)
    BY DEF EndType, DataType
  <1>6. Image(k) = Image(k - 1)
    BY <1>5, SendsFile, ImagesAre DEF Image, Rec, LastRecord
  <1> QED
    BY <1>3, <1>4, <1>6

LEMMA UnknownType ==
    ASSUME Sending, NEW k \in 1..LastRecord, Rec(k).type \notin Supported(sent)
    PROVE  ~sent.supported
  BY SendsFile, FileIs DEF Rec, LastRecord

\* What the records up to k stand for.
LEMMA ImageIs ==
    ASSUME Sending, NEW k \in 1..LastRecord
    PROVE  Image(k) = IF Rec(k).type = DataType(sent)
                      THEN Overlay(sent, Rec(k), Image(k - 1),
                                   DataCount(sent, Rec(k)))
                      ELSE Image(k - 1)
  BY SendsFile, ImagesAre, Zenon DEF Image, Rec, LastRecord

LEMMA NoImage == ASSUME Sending PROVE Image(0) = NoMemory
  BY SendsFile, ImagesAre DEF Image

-----------------------------------------------------------------------------
(* Where the loader is, the file goes on.                                  *)

\* A load that is in a record, with nothing wrong.
InFile(k) == Sending /\ said = {} /\ Ahead /\ k \in 1..LastRecord /\ Reading(k)

IntelBytes == { "iLen", "iAddrHi", "iAddrLo", "iType", "iData", "iSum", "iEndSum" }
MotoBytes == { "sLen", "s9Hi", "s9Lo", "s9Sum", "s1Hi", "s1Lo", "s1Data", "s1Sum" }

LEMMA FormatsApart ==
    ASSUME NEW k, Reading(k)
    PROVE  /\ pc \in IntelBytes \cup {"iCR", "iNext"} =>
                 sent.format = "intel" /\ InIntel(k)
           /\ pc \in MotoBytes \cup {"sType", "s1Rest", "sIgnore", "sNext"} =>
                 sent.format # "intel" /\ InMoto(k)
           /\ pc \in IntelBytes \cup {"iCR", "iNext"}
                \cup MotoBytes \cup {"sType", "s1Rest", "sIgnore", "sNext"}
  <1>1. CASE sent.format = "intel"
    <2>1. InIntel(k)
      BY <1>1 DEF Reading
    <2>2. pc \in IntelBytes \cup {"iCR", "iNext"}
      BY <2>1 DEF InIntel, IntelBytes
    <2> QED
      BY <1>1, <2>1, <2>2 DEF IntelBytes, MotoBytes
  <1>2. CASE sent.format # "intel"
    <2>1. InMoto(k)
      BY <1>2 DEF Reading
    <2>2. pc \in MotoBytes \cup {"sType", "s1Rest", "sIgnore", "sNext"}
      BY <2>1 DEF InMoto, MotoBytes
    <2> QED
      BY <1>2, <2>1, <2>2 DEF IntelBytes, MotoBytes
  <1> QED
    BY <1>1, <1>2

LEMMA ToComeIs ==
    ASSUME IInv, NEW k, InFile(k), pc \in BytePcs
    PROVE  /\ ToCome(k) \in 1..Len(Rec(k).bytes) /\ InByte(k, ToCome(k))
           /\ pc \in {"iLen", "sLen"} <=> ToCome(k) = 1
  <1> DEFINE n == Len(Rec(k).bytes)
  <1>1. n \in Nat /\ n >= 4 /\ Sending /\ Reading(k) /\ k \in 1..LastRecord
    BY SentIs DEF InFile
  <1>2. InByte(k, ToCome(k))
    BY <1>1 DEF Reading
  <1>3. CASE pc \in IntelBytes
    <2>1. InIntel(k) /\ n >= 5 /\ Rec(k).bytes[1] = n - 5
      BY <1>1, <1>3, FormatsApart, IntelIs
    <2>2. pc = "iData" => count \in 1..loadLength /\ loadLength = n - 5
      BY <2>1 DEF InIntel, Addressed, IInv, LoopInStep
    <2> HIDE DEF n
    <2>3. \/ pc = "iLen" /\ ToCome(k) = 1
          \/ pc \notin {"iLen", "sLen"} /\ ToCome(k) \in {2, 3, 4, 5}
          \/ pc \notin {"iLen", "sLen"} /\ ToCome(k) = n
          \/ pc = "iData" /\ ToCome(k) = 5 + (loadLength - count)
      BY <1>3 DEF ToCome, IntelBytes, n
    <2>4. ToCome(k) \in 1..n /\ (ToCome(k) = 1 <=> pc = "iLen")
      BY <1>1, <2>1, <2>2, <2>3
    <2> QED
      BY <1>2, <1>3, <2>4 DEF n, IntelBytes
  <1>4. CASE pc \in MotoBytes
    <2>1. /\ InMoto(k) /\ Rec(k).bytes[1] = n - 1
          /\ Rec(k).type = 1 => n >= 5
      BY <1>1, <1>4, FormatsApart, MotoIs
    <2>2. pc = "s1Data" => Rec(k).type = 1 /\ loadLength = n - 1
      BY <2>1 DEF InMoto, Addressed
    <2>3. pc = "s1Data" => count \in 1..(loadLength - 3)
      BY <1>1, <2>1, <2>2 DEF IInv, LoopInStep
    <2> HIDE DEF n
    <2>4. \/ pc = "sLen" /\ ToCome(k) = 1
          \/ pc \notin {"iLen", "sLen"} /\ ToCome(k) \in {2, 3, 4}
          \/ pc \notin {"iLen", "sLen"} /\ ToCome(k) = n
          \/ pc = "s1Data" /\ ToCome(k) = 4 + (loadLength - 3 - count)
      BY <1>4 DEF ToCome, MotoBytes, n
    <2>5. ToCome(k) \in 1..n /\ (ToCome(k) = 1 <=> pc = "sLen")
      BY <1>1, <2>2, <2>3, <2>4
    <2> QED
      BY <1>2, <1>4, <2>5 DEF n, MotoBytes
  <1>5. pc \in IntelBytes \cup MotoBytes
    BY <1>1, FormatsApart DEF BytePcs, IntelBytes, MotoBytes
  <1> QED
    BY <1>3, <1>4, <1>5

\* Every record but the last has an end of line after it.
LEMMA LineEnds ==
    ASSUME Sending, NEW k \in 1..LastRecord,
           \A i \in 1..k : Rec(i).type \in Supported(sent),
           Rec(k).type # EndType(sent)
    PROVE  LET e == EndOf(sent, Rec(k))
           IN  /\ e \in Nat \ {0} /\ e <= Len(sent.text)
               /\ sent.text[e] \in Eol /\ sent.text[e] \in Byte
               /\ \/ Rec(k + 1).at = e + 1
                  \/ Rec(k + 1).at = e + 2 /\ sent.text[e + 1] = LF
                     /\ sent.text[e] = CR
  <1> DEFINE e == EndOf(sent, Rec(k))
             n == Len(Rec(k).bytes)
  <1>1. NextLine(sent, e, Rec(k + 1).at)
    BY GoesOn
  <1>2. n \in Nat /\ n >= 4
    BY SentIs
  <1>3. DigitsOf(sent, Rec(k), n) \in Nat \ {0}
        /\ DigitsOf(sent, Rec(k), n + 1) = DigitsOf(sent, Rec(k), n) + 2
    <2>1. n \in 1..Len(Rec(k).bytes)
      BY <1>2
    <2> QED
      BY <2>1, DigitsAre
  <1>4. e \in Nat \ {0}
    BY <1>3 DEF EndOf
  <1> HIDE DEF e
  <1>5. e \in 1..Len(sent.text) /\ sent.text[e] \in Byte
    <2>1. e <= Len(sent.text) /\ sent.text \in Seq(Byte) /\ Len(sent.text) \in Nat
      BY <1>1, SentIs DEF NextLine
    <2>2. e \in 1..Len(sent.text)
      BY <1>4, <2>1
    <2> QED
      BY <2>1, <2>2
  <1> QED
    BY <1>1, <1>4, <1>5 DEF NextLine, Eol, e

\* Wherever the loader is in a file, there is more of it.
LEMMA PlaceInFile ==
    ASSUME IInv, NEW k, InFile(k)
    PROVE  At <= Len(sent.text)
  <1>1. /\ Sending /\ Reading(k) /\ k \in 1..LastRecord
        /\ Len(sent.text) \in Nat /\ Rec(k).at \in Nat /\ k \in Nat
        /\ Rec(k).at + 1 <= Len(sent.text)
    BY SentIs DEF InFile
  <1>2. CASE pc \in BytePcs
    <2> DEFINE j == ToCome(k)
               p == DigitsOf(sent, Rec(k), j)
    <2>1. j \in 1..Len(Rec(k).bytes) /\ InByte(k, j)
      BY <1>2, ToComeIs
    <2>2. p \in Nat /\ p + 1 <= Len(sent.text)
      BY <1>1, <2>1, DigitsAre
    <2>3. At = p \/ At = p + 1
      BY <2>1, <2>2 DEF InByte
    <2> HIDE DEF p
    <2> QED
      BY <1>1, <2>2, <2>3
  <1>3. CASE pc \in {"iCR", "s1Rest", "sIgnore"}
    <2>1. /\ At <= EndOf(sent, Rec(k)) /\ Rec(k).type \in Supported(sent)
          /\ Rec(k).type # EndType(sent)
      <3>1. /\ pc = "iCR" => sent.format = "intel" /\ InIntel(k)
            /\ pc \in {"s1Rest", "sIgnore"} => sent.format # "intel" /\ InMoto(k)
        BY <1>1, FormatsApart
      <3>2. CASE pc = "iCR"
        <4>1. Rec(k).type = 0 /\ At = EndOf(sent, Rec(k))
          BY <3>1, <3>2 DEF InIntel, PastDigits
        <4>2. At \in Int
          BY <1>1 DEF At, InFile, Ahead, IInv, TypeOK, LineOK
        <4> QED
          BY <3>1, <3>2, <4>1, <4>2 DEF Supported, EndType
      <3>3. CASE pc = "s1Rest"
        <4>1. Rec(k).type = 1 /\ At = EndOf(sent, Rec(k))
          BY <3>1, <3>3 DEF InMoto, PastDigits
        <4>2. At \in Int
          BY <1>1 DEF At, InFile, Ahead, IInv, TypeOK, LineOK
        <4> QED
          BY <3>1, <3>3, <4>1, <4>2 DEF Supported, EndType
      <3>4. CASE pc = "sIgnore"
        <4>1. /\ Rec(k).type \in {0, 5}
              /\ At \in DigitsOf(sent, Rec(k), 2)..EndOf(sent, Rec(k))
          BY <3>1, <3>4 DEF InMoto
        <4> QED
          BY <3>1, <3>4, <4>1 DEF Supported, EndType
      <3> QED
        BY <1>3, <3>2, <3>3, <3>4
    <2>2. \A i \in 1..k : Rec(i).type \in Supported(sent)
      <3>1. \A i \in 1..k : i = k \/ i \in 1..(k - 1)
        BY <1>1
      <3> QED
        BY <1>1, <2>1, <3>1 DEF Reading
    <2>3. EndOf(sent, Rec(k)) <= Len(sent.text) /\ EndOf(sent, Rec(k)) \in Nat
      BY <1>1, <2>1, <2>2, LineEnds
    <2>4. At \in Int
      BY <1>1 DEF At, InFile, Ahead, IInv, TypeOK, LineOK
    <2> QED
      BY <1>1, <2>1, <2>3, <2>4
  <1>4. CASE pc \in {"iNext", "sNext"}
    <2>1. Before(k)
      BY <1>1, <1>4, FormatsApart DEF InIntel, InMoto
    <2>2. At = Rec(k).at \/ At = Rec(k).at - 1
      BY <2>1 DEF Before
    <2> QED
      BY <1>1, <2>2
  <1>5. CASE pc = "sType"
    <2>1. At = Rec(k).at + 1
      BY <1>1, <1>5, FormatsApart DEF InMoto
    <2> QED
      BY <1>1, <2>1
  <1>6. pc \in BytePcs \cup {"iCR", "s1Rest", "sIgnore", "iNext", "sNext", "sType"}
    BY <1>1, FormatsApart DEF BytePcs, IntelBytes, MotoBytes
  <1> QED
    BY <1>2, <1>3, <1>4, <1>5, <1>6

-----------------------------------------------------------------------------
(* A step of a load that stays in its file.                                *)

LEMMA SteadyIs ==
    ASSUME Steady
    PROVE  /\ sent' = sent /\ LastRecord' = LastRecord
           /\ \A i : Rec(i)' = Rec(i) /\ Image(i)' = Image(i)
  BY Zenon DEF Steady, Rec, Image, LastRecord

LEMMA SoFar ==
    ASSUME NEW k, InFile(k)
    PROVE  /\ Sending /\ said = {} /\ Ahead /\ k \in 1..LastRecord /\ k \in Nat
           /\ \A i \in 1..(k - 1) : Rec(i).type \in Supported(sent)
           /\ Rec(k).type \in Supported(sent) =>
                 \A i \in 1..k : Rec(i).type \in Supported(sent)
  <1>1. Sending /\ said = {} /\ Ahead /\ k \in 1..LastRecord
    BY DEF InFile
  <1>2. k \in Nat
    BY <1>1, SentIs
  <1>3. \A i \in 1..(k - 1) : Rec(i).type \in Supported(sent)
    BY DEF InFile, Reading
  <1>4. \A i \in 1..k : i = k \/ i \in 1..(k - 1)
    BY <1>2
  <1> QED
    BY <1>1, <1>2, <1>3, <1>4

\* The load goes on in record k.
LEMMA ReadsOn ==
    ASSUME Sending, Steady, said' = {}, Ahead', pc' # "prompt",
           NEW k \in 1..LastRecord,
           \A i \in 1..(k - 1) : Rec(i).type \in Supported(sent),
           pc' \in BytePcs => InByte(k, ToCome(k))',
           IF sent.format = "intel" THEN InIntel(k)' ELSE InMoto(k)'
    PROVE  Progress'
  <1>1. Reading(k)'
    <2>1. /\ sent' = sent /\ \A i : Rec(i)' = Rec(i)
      BY SteadyIs
    <2>2. \A i \in 1..(k - 1) : Rec(i).type' \in Supported(sent')
      BY <2>1
    <2> QED
      BY <2>1, <2>2 DEF Reading
  <1>2. k \in 1..LastRecord'
    BY SteadyIs
  <1>3. Underway'
    BY <1>1, <1>2 DEF Underway
  <1> QED
    BY <1>3 DEF Progress, Loading

\* A byte has been read.
LEMMA ByteFollows ==
    ASSUME IInv, NEW k, InFile(k), NEW p \in BytePcs, GotByte(p)
    PROVE  LET j == ToCome(k)
           IN  /\ j \in 1..Len(Rec(k).bytes)
               /\ HexByte = Rec(k).bytes[j] /\ HexByte \in Byte /\ ~Carry
               /\ Ahead' /\ Steady /\ prevChar' # CR
               /\ At' = DigitsOf(sent, Rec(k), j + 1)
               /\ total' = Sums(Rec(k).bytes)[j]
               /\ j > 1 => total = Sums(Rec(k).bytes)[j - 1]
               /\ ToCome(k)' = j + 1 => InByte(k, ToCome(k))'
               /\ Rec(k)' = Rec(k) /\ Image(k)' = Image(k)
               /\ Image(k - 1)' = Image(k - 1)
  <1> DEFINE j == ToCome(k)
  <1>1. pc = p
    BY DEF GotByte
  <1>2. j \in 1..Len(Rec(k).bytes) /\ InByte(k, j) /\ (p \in {"iLen", "sLen"} <=> j = 1)
    BY <1>1, ToComeIs
  <1>3. Sending /\ Ahead /\ k \in 1..LastRecord
    BY SoFar
  <1> HIDE DEF j
  <1>4. /\ HexByte = Rec(k).bytes[j] /\ HexByte \in Byte /\ ~Carry
        /\ Ahead' /\ Steady /\ prevChar' # CR
        /\ At' = DigitsOf(sent, Rec(k), j + 1)
        /\ half' = "hi" /\ total' = Sums(Rec(k).bytes)[j]
        /\ Rec(k)' = Rec(k)
    BY <1>2, <1>3, ByteRead
  <1>5. j > 1 => total = Sums(Rec(k).bytes)[j - 1]
    BY <1>2 DEF InByte
  <1>6. ASSUME ToCome(k)' = j + 1 PROVE InByte(k, ToCome(k))'
    <2> DEFINE q == DigitsOf(sent, Rec(k), j + 1)
    <2>1. j \in Nat /\ j + 1 - 1 = j /\ q \in Nat
      <3>1. Len(Rec(k).bytes) \in Nat
        BY <1>3, SentIs
      <3>2. j \in Nat
        BY <1>2, <3>1
      <3>3. DigitsOf(sent, Rec(k), j) \in Nat /\ q = DigitsOf(sent, Rec(k), j) + 2
        BY <1>2, <1>3, DigitsAre
      <3> QED
        BY <3>2, <3>3
    <2>2. sent' = sent
      BY <1>4 DEF Steady
    <2>3. At' = q + 0
      BY <1>4, <2>1
    <2>4. DigitsOf(sent, Rec(k), ToCome(k))' = q
      BY <1>4, <1>6, <2>2
    <2>5. half' # "lo"
      BY <1>4
    <2>6. total' = (Sums(Rec(k).bytes)[ToCome(k) - 1])'
      BY <1>4, <1>6, <2>1
    <2> HIDE DEF q
    <2> QED
      BY <2>3, <2>4, <2>5, <2>6 DEF InByte
  <1>7. Image(k)' = Image(k) /\ Image(k - 1)' = Image(k - 1)
    BY <1>4, SteadyIs
  <1> QED
    BY <1>2, <1>4, <1>5, <1>6, <1>7 DEF j

\* Another character has been read.
LEMMA CharFollows ==
    ASSUME IInv, NEW k, InFile(k), NEW p \in CharPcs, GetCharAt(p)
    PROVE  /\ pc = p /\ At \in 1..Len(sent.text) /\ At' = At + 1
           /\ Char = Canonical(sent.text[At]) /\ prevChar' = Char
           /\ Ahead' /\ Steady
           /\ ~(prevChar = CR /\ sent.text[At] = LF)
  <1>1. /\ wire # <<>> /\ wire' = Tail(wire) /\ prevChar' = Char /\ pc = p
        /\ ~Swallowed(prevChar, Head(wire)) /\ Steady
    BY DEF GetCharAt, GetChar, Steady, envVars
  <1>2. /\ At \in 1..Len(sent.text) /\ Head(wire) = sent.text[At]
        /\ Ahead' /\ At' = At + 1
    BY <1>1, SoFar, WireStep DEF IInv, TypeOK, Steady
  <1> QED
    BY <1>1, <1>2 DEF Char, Swallowed

LEMMA HighDigitFollows ==
    ASSUME IInv, NEW k, InFile(k), HighDigit
    PROVE  Progress'
  <1>1. pc \in BytePcs /\ pc # "prompt"
    BY DEF HighDigit, BytePcs
  <1>2. /\ Sending /\ Ahead /\ said = {} /\ k \in 1..LastRecord
        /\ \A i \in 1..(k - 1) : Rec(i).type \in Supported(sent)
    BY SoFar
  <1>3. ToCome(k) \in 1..Len(Rec(k).bytes) /\ InByte(k, ToCome(k))
    BY <1>1, ToComeIs
  <1>4. PICK j \in 1..Len(Rec(k).bytes) : j = ToCome(k)
    BY <1>3
  <1>5. /\ InByte(k, j)' /\ Ahead' /\ Steady
        /\ UNCHANGED <<recordVars, echo, pc, mem, said>>
    BY <1>2, <1>3, <1>4, FirstDigitRead
  <1>6. /\ sent' = sent /\ Rec(k)' = Rec(k) /\ Image(k)' = Image(k)
        /\ Image(k - 1)' = Image(k - 1)
    BY <1>5, SteadyIs
  <1>7. InByte(k, ToCome(k))'
    <2>1. ToCome(k)' = j
      BY <1>4, <1>5, <1>6 DEF ToCome, recordVars
    <2> QED
      BY <1>5, <2>1 DEF InByte
  <1>8. IF sent.format = "intel" THEN InIntel(k)' ELSE InMoto(k)'
    <2>1. Addressed(k)' <=> Addressed(k)
      BY <1>5, <1>6 DEF Addressed, recordVars
    <2>2. CASE sent.format = "intel"
      <3>1. InIntel(k)
        BY <2>2 DEF InFile, Reading
      <3> QED
        BY <1>1, <1>5, <1>6, <2>1, <2>2, <3>1 DEF InIntel, recordVars, BytePcs
    <2>3. CASE sent.format # "intel"
      <3>1. InMoto(k)
        BY <2>3 DEF InFile, Reading
      <3> QED
        BY <1>1, <1>5, <1>6, <2>1, <2>3, <3>1 DEF InMoto, recordVars, BytePcs
    <2> QED
      BY <2>2, <2>3
  <1> QED
    BY <1>1, <1>2, <1>5, <1>7, <1>8, ReadsOn

\* A line feed is swallowed between two records only.
LEMMA SwallowFollows ==
    ASSUME IInv, NEW k, InFile(k), SwallowLF
    PROVE  Progress'
  <1>1. /\ Sending /\ Ahead /\ said = {} /\ k \in 1..LastRecord
        /\ \A i \in 1..(k - 1) : Rec(i).type \in Supported(sent)
    BY SoFar
  <1>2. /\ wire # <<>> /\ wire' = Tail(wire) /\ prevChar = CR /\ Head(wire) = LF
        /\ Steady /\ UNCHANGED <<prevChar, pc, mem, said>>
    BY DEF SwallowLF, Swallowed, Steady, envVars
  <1>3. /\ At \in 1..Len(sent.text) /\ sent.text[At] = LF /\ Ahead' /\ At' = At + 1
    BY <1>1, <1>2, WireStep DEF IInv, TypeOK, Steady
  <1>4. /\ sent' = sent /\ Rec(k)' = Rec(k) /\ Image(k - 1)' = Image(k - 1)
    BY <1>2, SteadyIs
  <1>5. pc \notin BytePcs
    <2> SUFFICES ASSUME pc \in BytePcs PROVE FALSE
      OBVIOUS
    <2> DEFINE j == ToCome(k)
               p == DigitsOf(sent, Rec(k), j)
               b == Rec(k).bytes[j]
    <2>1. j \in 1..Len(Rec(k).bytes) /\ InByte(k, j)
      BY ToComeIs
    <2>2. /\ sent.text[p] \in DigitChars(b \div 16) /\ b \div 16 \in 0..15
          /\ sent.text[p + 1] \in DigitChars(b % 16) /\ b % 16 \in 0..15
          /\ p \in Nat
      BY <1>1, <2>1, DigitsAre
    <2>3. sent.text[p] # LF /\ sent.text[p + 1] # LF
      BY <2>2, DigitIs
    <2>4. At = p \/ At = p + 1
      BY <2>1, <2>2 DEF InByte
    <2> QED
      BY <1>3, <2>3, <2>4
  <1>6. pc \notin {"iCR", "s1Rest", "sIgnore"}
    BY <1>2, FormatsApart DEF InFile, InIntel, InMoto, PastDigits
  <1>7. pc # "sType"
    <2> SUFFICES ASSUME pc = "sType" PROVE FALSE
      OBVIOUS
    <2>1. sent.format # "intel" /\ At = Rec(k).at + 1
      BY FormatsApart DEF InFile, InMoto
    <2>2. sent.text[At] = Zero + Rec(k).type /\ Rec(k).type \in 0..9
      BY <1>1, <2>1, MotoIs
    <2>3. Zero + Rec(k).type # LF
      BY <2>2 DEF Zero, LF
    <2> QED
      BY <1>3, <2>2, <2>3
  <1>8. pc \in {"iNext", "sNext"}
    BY <1>5, <1>6, <1>7, FormatsApart DEF InFile, BytePcs, IntelBytes, MotoBytes
  <1>9. Before(k) /\ (pc = "iNext" <=> sent.format = "intel")
    BY <1>8, FormatsApart DEF InFile, InIntel, InMoto
  <1>10. Before(k)'
    <2>1. Rec(k).at \in Nat /\ sent.text[Rec(k).at] # LF
      <3>1. sent.text[Rec(k).at] \in {Colon, 83, 115}
        BY <1>1, IntelIs, MotoIs
      <3>2. Rec(k).at \in Nat
        BY <1>1, SentIs
      <3> QED
        BY <3>1, <3>2 DEF Colon, LF
    <2>2. At = Rec(k).at - 1
      BY <1>3, <1>9, <2>1 DEF Before
    <2>3. At' = Rec(k)'.at
      BY <1>3, <1>4, <2>1, <2>2
    <2> QED
      BY <1>2, <1>4, <1>9, <2>3 DEF Before
  <1>11. /\ pc' \notin BytePcs /\ pc' # "prompt"
         /\ IF sent.format = "intel" THEN InIntel(k)' ELSE InMoto(k)'
    BY <1>2, <1>5, <1>8, <1>9, <1>10 DEF InIntel, InMoto
  <1> QED
    BY <1>1, <1>2, <1>3, <1>11, ReadsOn

-----------------------------------------------------------------------------
(* Intel hex.                                                              *)

LEMMA IHexLengthFollows ==
    ASSUME IInv, NEW k, InFile(k), IHexLength
    PROVE  Progress'
  <1>1. /\ GotByte("iLen") /\ pc = "iLen" /\ pc' = "iAddrHi"
        /\ said' = said /\ mem' = mem /\ loadLength' = HexByte
    BY DEF IHexLength, GotByte, Goto
  <1>2. sent.format = "intel" /\ mem = Image(k - 1)
    BY <1>1, FormatsApart DEF InFile, InIntel, IntelBytes
  <1>3. ToCome(k) = 1 /\ ToCome(k)' = 1 + 1
    BY <1>1 DEF ToCome
  <1>4. /\ HexByte = Rec(k).bytes[1] /\ Ahead' /\ Steady
        /\ InByte(k, ToCome(k))' /\ Rec(k)' = Rec(k) /\ Image(k - 1)' = Image(k - 1)
    BY <1>1, <1>3, ByteFollows DEF BytePcs
  <1>5. InIntel(k)'
    BY <1>1, <1>2, <1>4 DEF InIntel
  <1> QED
    BY <1>1, <1>2, <1>4, <1>5, SoFar, ReadsOn

LEMMA IHexAddressHighFollows ==
    ASSUME IInv, NEW k, InFile(k), IHexAddressHigh
    PROVE  Progress'
  <1>1. /\ GotByte("iAddrHi") /\ pc = "iAddrHi" /\ pc' = "iAddrLo"
        /\ said' = said /\ mem' = mem /\ hi' = HexByte /\ loadLength' = loadLength
    BY DEF IHexAddressHigh, GotByte, Goto
  <1>2. sent.format = "intel" /\ mem = Image(k - 1) /\ loadLength = Rec(k).bytes[1]
    BY <1>1, FormatsApart DEF InFile, InIntel, IntelBytes
  <1>3. ToCome(k) = 2 /\ ToCome(k)' = 2 + 1
    BY <1>1 DEF ToCome
  <1>4. /\ HexByte = Rec(k).bytes[2] /\ Ahead' /\ Steady
        /\ InByte(k, ToCome(k))' /\ Rec(k)' = Rec(k) /\ Image(k - 1)' = Image(k - 1)
    BY <1>1, <1>3, ByteFollows DEF BytePcs
  <1>5. InIntel(k)'
    BY <1>1, <1>2, <1>4 DEF InIntel
  <1> QED
    BY <1>1, <1>2, <1>4, <1>5, SoFar, ReadsOn

LEMMA IHexAddressLowFollows ==
    ASSUME IInv, NEW k, InFile(k), IHexAddressLow
    PROVE  Progress'
  <1>1. /\ GotByte("iAddrLo") /\ pc = "iAddrLo" /\ pc' = "iType"
        /\ said' = said /\ mem' = mem /\ loadAddress' = 256 * hi + HexByte
        /\ loadLength' = loadLength
    BY DEF IHexAddressLow, GotByte, Goto
  <1>2. /\ sent.format = "intel" /\ mem = Image(k - 1)
        /\ loadLength = Rec(k).bytes[1] /\ hi = Rec(k).bytes[2]
    BY <1>1, FormatsApart DEF InFile, InIntel, IntelBytes
  <1>3. ToCome(k) = 3 /\ ToCome(k)' = 3 + 1
    BY <1>1 DEF ToCome
  <1>4. /\ HexByte = Rec(k).bytes[3] /\ Ahead' /\ Steady
        /\ InByte(k, ToCome(k))' /\ Rec(k)' = Rec(k) /\ Image(k - 1)' = Image(k - 1)
    BY <1>1, <1>3, ByteFollows DEF BytePcs
  <1>5. Addressed(k)'
    BY <1>1, <1>2, <1>4 DEF Addressed, Address
  <1>6. InIntel(k)'
    BY <1>1, <1>2, <1>4, <1>5 DEF InIntel
  <1> QED
    BY <1>1, <1>2, <1>4, <1>6, SoFar, ReadsOn

\* A type the command does not claim is complained about.
LEMMA ComplainsOf ==
    ASSUME IInv, NEW k, InFile(k), Rec(k).type \notin Supported(sent),
           Steady, GotoSaying("iSkip", "unsupported")
              \/ GotoSaying("sUnsupported", "unsupported")
    PROVE  Progress'
  <1>1. ~sent.supported /\ sent' = sent
    BY SoFar, UnknownType DEF Steady
  <1>2. "unsupported" \in said' /\ pc' # "prompt"
    BY DEF GotoSaying
  <1> QED
    BY <1>1, <1>2 DEF Progress, Complaining, Loading

\* What is stored of a data record, up to all of it.
LEMMA StoredNone ==
    ASSUME Sending, NEW k \in 1..LastRecord
    PROVE  Overlay(sent, Rec(k), Image(k - 1), 0) = Image(k - 1)
  <1>1. Address(Rec(k)) \in Word /\ Image(k - 1) \in Memories
    BY SentIs
  <1>2. Image(k - 1) = [x \in DOMAIN Image(k - 1) |-> Image(k - 1)[x]]
    BY <1>1, MemoriesAre
  <1> QED
    BY <1>1, <1>2, OverlayStarts

LEMMA IntelData ==
    ASSUME Sending, NEW k \in 1..LastRecord, sent.format = "intel"
    PROVE  /\ DataCount(sent, Rec(k)) = Rec(k).bytes[1]
           /\ FirstData(sent) = 5 /\ DataType(sent) = 0 /\ EndType(sent) = 1
           /\ Supported(sent) = {0, 1}
           /\ Rec(k).bytes[1] \in Nat /\ Rec(k).bytes[1] <= 255
           /\ Len(Rec(k).bytes) = Rec(k).bytes[1] + 5
  <1>1. Len(Rec(k).bytes) >= 5 /\ Rec(k).bytes[1] = Len(Rec(k).bytes) - 5
    BY IntelIs
  <1>2. /\ Len(Rec(k).bytes) \in Nat
        /\ \A i \in 1..Len(Rec(k).bytes) : Rec(k).bytes[i] \in Byte
    BY SentIs
  <1>3. Rec(k).bytes[1] \in Byte
    BY <1>1, <1>2
  <1>4. Rec(k).bytes[1] \in Nat /\ Rec(k).bytes[1] <= 255
    BY <1>3, ByteBounds
  <1> QED
    BY <1>1, <1>2, <1>4
    DEF DataCount, FirstData, DataType, EndType, Supported

LEMMA MotoData ==
    ASSUME Sending, NEW k \in 1..LastRecord, sent.format # "intel"
    PROVE  /\ DataCount(sent, Rec(k)) = Rec(k).bytes[1] - 3
           /\ FirstData(sent) = 4 /\ DataType(sent) = 1 /\ EndType(sent) = 9
           /\ Supported(sent) = {0, 1, 5, 9}
           /\ Rec(k).bytes[1] \in Nat /\ Rec(k).bytes[1] <= 255
           /\ Rec(k).type = 1 => Rec(k).bytes[1] > 3
           /\ Len(Rec(k).bytes) = Rec(k).bytes[1] + 1
  <1>1. /\ Rec(k).bytes[1] = Len(Rec(k).bytes) - 1
        /\ Rec(k).type = 1 => Len(Rec(k).bytes) >= 5
    BY MotoIs
  <1>2. /\ Len(Rec(k).bytes) \in Nat /\ Len(Rec(k).bytes) >= 4
        /\ \A i \in 1..Len(Rec(k).bytes) : Rec(k).bytes[i] \in Byte
    BY SentIs
  <1>3. Rec(k).bytes[1] \in Byte
    BY <1>1, <1>2
  <1>4. Rec(k).bytes[1] \in Nat /\ Rec(k).bytes[1] <= 255
    BY <1>3, ByteBounds
  <1>5. /\ FirstData(sent) = 4 /\ DataType(sent) = 1 /\ EndType(sent) = 9
        /\ Supported(sent) = {0, 1, 5, 9}
    BY DEF FirstData, DataType, EndType, Supported
  <1> QED
    BY <1>1, <1>2, <1>4, <1>5 DEF DataCount

\* The next byte of a data record goes where the record says.
LEMMA DepositFollows ==
    ASSUME Sending, NEW k \in 1..LastRecord, NEW n \in Nat, n <= 255,
           mem = Overlay(sent, Rec(k), Image(k - 1), n),
           ptr = Wrapped(Address(Rec(k)) + n),
           NEW v, v = Rec(k).bytes[FirstData(sent) + n], Deposit(v)
    PROVE  mem' = Overlay(sent, Rec(k), Image(k - 1), n + 1)
  <1>1. Address(Rec(k)) \in Word
    BY SentIs
  <1>2. mem' = Put(mem, ptr, v)
    BY DEF Deposit, Put
  <1>3. Put(mem, ptr, v) = Overlay(sent, Rec(k), Image(k - 1), n + 1)
    BY <1>1, OverlayGrows
  <1> QED
    BY <1>2, <1>3

LEMMA IHexTypeFollows ==
    ASSUME IInv, NEW k, InFile(k), IHexType
    PROVE  Progress'
  <1>1. /\ GotByte("iType") /\ pc = "iType" /\ mem' = mem /\ loadLength' = loadLength
        /\ loadAddress' = loadAddress
    BY DEF IHexType, GotByte
  <1>2. sent.format = "intel" /\ mem = Image(k - 1) /\ Addressed(k)
    BY <1>1, FormatsApart DEF InFile, InIntel, IntelBytes
  <1>3. ToCome(k) = 4
    BY <1>1 DEF ToCome
  <1>4. /\ HexByte = Rec(k).bytes[4] /\ Ahead' /\ Steady
        /\ ToCome(k)' = 4 + 1 => InByte(k, ToCome(k))'
        /\ Rec(k)' = Rec(k) /\ Image(k - 1)' = Image(k - 1) /\ Image(k)' = Image(k)
    BY <1>1, <1>3, ByteFollows DEF BytePcs
  <1>5. /\ k \in 1..LastRecord /\ Sending /\ HexByte = Rec(k).type
    BY <1>2, <1>4, SoFar, IntelIs
  <1>6. Addressed(k)'
    BY <1>1, <1>2, <1>4 DEF Addressed
  <1>7. /\ Supported(sent) = {0, 1} /\ DataType(sent) = 0
        /\ loadLength \in Nat /\ Len(Rec(k).bytes) = loadLength + 5
        /\ DataCount(sent, Rec(k)) = loadLength
    BY <1>2, <1>5, IntelData DEF Addressed
  <1>8. CASE HexByte = 0
    <2>1. /\ count' = loadLength /\ said' = said
          /\ pc' = (IF loadLength = 0 THEN "iSum" ELSE "iData")
      BY <1>8 DEF IHexType, Goto
    <2>2. CASE loadLength = 0
      <3>1. pc' = "iSum" /\ ToCome(k)' = 5
        BY <1>4, <1>7, <2>1, <2>2 DEF ToCome
      <3>2. Image(k) = Image(k - 1)
        BY <1>5, <1>7, <1>8, <2>2, ImageIs, StoredNone
      <3>3. InIntel(k)'
        BY <1>1, <1>2, <1>4, <1>5, <1>8, <3>1, <3>2 DEF InIntel
      <3> QED
        BY <1>2, <1>4, <2>1, <3>1, <3>3, SoFar, ReadsOn
    <2>3. CASE loadLength # 0
      <3>1. pc' = "iData" /\ ToCome(k)' = 5
        BY <1>1, <1>7, <2>1, <2>3 DEF ToCome
      <3>2. loadLength' - count' = 0
        BY <1>1, <1>7, <2>1
      <3>3. mem' = Overlay(sent', Rec(k)', Image(k - 1)', loadLength' - count')
        BY <1>1, <1>2, <1>4, <1>5, <3>2, StoredNone DEF Steady
      <3>4. InIntel(k)'
        BY <1>4, <1>5, <1>6, <1>8, <3>1, <3>3 DEF InIntel
      <3> QED
        BY <1>2, <1>4, <2>1, <3>1, <3>4, SoFar, ReadsOn
    <2> QED
      BY <2>2, <2>3
  <1>9. CASE HexByte = 1
    <2>1. pc' = "iEndSum" /\ said' = said
      BY <1>9 DEF IHexType, Goto
    <2>2. ToCome(k)' = 5
      BY <2>1 DEF ToCome
    <2>3. InIntel(k)'
      BY <1>1, <1>2, <1>4, <1>5, <1>9, <2>1 DEF InIntel
    <2> QED
      BY <1>2, <1>4, <2>1, <2>2, <2>3, SoFar, ReadsOn
  <1>10. CASE HexByte \notin {0, 1}
    <2>1. GotoSaying("iSkip", "unsupported")
      BY <1>10 DEF IHexType
    <2> QED
      BY <1>4, <1>5, <1>7, <1>10, <2>1, ComplainsOf
  <1> QED
    BY <1>8, <1>9, <1>10

LEMMA IHexDataFollows ==
    ASSUME IInv, NEW k, InFile(k), IHexData
    PROVE  Progress'
  <1> DEFINE n == loadLength - count
  <1>1. /\ GotByte("iData") /\ pc = "iData" /\ loadLength' = loadLength
        /\ loadAddress' = loadAddress /\ Deposit(HexByte) /\ said' = said
        /\ count' = count - 1 /\ pc' = (IF count = 1 THEN "iSum" ELSE "iData")
    BY DEF IHexData, GotByte, Goto
  <1>2. /\ sent.format = "intel" /\ Addressed(k) /\ Rec(k).type = 0
        /\ mem = Overlay(sent, Rec(k), Image(k - 1), n)
    BY <1>1, FormatsApart DEF InFile, InIntel, IntelBytes
  <1>3. Sending /\ k \in 1..LastRecord
    BY SoFar
  <1>4. /\ DataCount(sent, Rec(k)) = loadLength /\ FirstData(sent) = 5
        /\ DataType(sent) = 0 /\ loadLength \in Nat /\ loadLength <= 255
        /\ Len(Rec(k).bytes) = loadLength + 5
    BY <1>2, <1>3, IntelData DEF Addressed
  <1>5. count \in 1..loadLength /\ ptr = Wrapped(loadAddress + n)
    BY <1>1 DEF IInv, LoopInStep, Wrapped
  <1>6. n \in Nat /\ n <= 255 /\ loadLength - count' = n + 1
    BY <1>1, <1>4, <1>5
  <1>7. ToCome(k) = 5 + n
    BY <1>1 DEF ToCome
  <1> HIDE DEF n
  <1>8. /\ HexByte = Rec(k).bytes[5 + n] /\ Ahead' /\ Steady
        /\ ToCome(k)' = (5 + n) + 1 => InByte(k, ToCome(k))'
        /\ Rec(k)' = Rec(k) /\ Image(k - 1)' = Image(k - 1) /\ Image(k)' = Image(k)
    BY <1>1, <1>7, ByteFollows DEF BytePcs
  <1>9. mem' = Overlay(sent, Rec(k), Image(k - 1), n + 1)
    <2>1. /\ ptr = Wrapped(Address(Rec(k)) + n)
          /\ HexByte = Rec(k).bytes[FirstData(sent) + n]
      BY <1>2, <1>4, <1>5, <1>8 DEF Addressed
    <2> QED
      BY <1>1, <1>2, <1>3, <1>6, <2>1, DepositFollows
  <1>10. CASE count = 1
    <2>1. pc' = "iSum" /\ n + 1 = loadLength
      BY <1>1, <1>4, <1>6, <1>10
    <2>2. mem' = Image(k)
      BY <1>2, <1>3, <1>4, <1>9, <2>1, ImageIs
    <2>3. ToCome(k)' = (5 + n) + 1
      <3>1. ToCome(k)' = Len(Rec(k).bytes)
        BY <1>8, <2>1 DEF ToCome
      <3> QED
        BY <1>4, <1>6, <2>1, <3>1
    <2>4. InIntel(k)'
      BY <1>2, <1>8, <2>1, <2>2 DEF InIntel
    <2> QED
      BY <1>1, <1>2, <1>8, <2>1, <2>3, <2>4, SoFar, ReadsOn
  <1>11. CASE count # 1
    <2>1. pc' = "iData" /\ loadLength' - count' = n + 1
      BY <1>1, <1>6, <1>11
    <2>2. ToCome(k)' = (5 + n) + 1
      <3>1. ToCome(k)' = 5 + (n + 1)
        BY <2>1 DEF ToCome
      <3> QED
        BY <1>6, <3>1
    <2>3. /\ Addressed(k)' /\ sent' = sent
          /\ mem' = Overlay(sent', Rec(k)', Image(k - 1)', loadLength' - count')
      BY <1>1, <1>2, <1>8, <1>9, <2>1 DEF Addressed, Steady
    <2>4. InIntel(k)'
      BY <1>2, <1>8, <2>1, <2>3 DEF InIntel
    <2> QED
      BY <1>1, <1>2, <1>8, <2>1, <2>2, <2>4, SoFar, ReadsOn
  <1> QED
    BY <1>10, <1>11

\* The only byte that closes a sum.
LEMMA TwosOnly ==
    ASSUME NEW t \in Nat, NEW b \in Byte, (t + b) % 256 = 0
    PROVE  b = TwosComplement(t % 256)
  BY Z3 DEF Byte, TwosComplement

LEMMA OnesOnly ==
    ASSUME NEW t \in Nat, NEW b \in Byte, (t + b) % 256 = 255
    PROVE  b = OnesComplement(t % 256)
  BY Z3 DEF Byte, OnesComplement

\* The last byte of a record is read where the sum of the others is known.
LEMMA LastSum ==
    ASSUME IInv, NEW k, InFile(k), ToCome(k) = Len(Rec(k).bytes),
           pc \in {"iSum", "s1Sum", "s9Sum"}, NEW p \in BytePcs, GotByte(p)
    PROVE  /\ sent.format = "intel" => HexByte = TwosComplement(loadXsum)
           /\ sent.format # "intel" => HexByte = OnesComplement(loadXsum)
           /\ At' = EndOf(sent, Rec(k)) /\ PastDigits(k)'
  <1> DEFINE n == Len(Rec(k).bytes)
             s == Sums(Rec(k).bytes)
  <1>1. Sending /\ k \in 1..LastRecord
    BY SoFar
  <1>2. n \in Nat /\ n >= 4 /\ Rec(k).bytes \in Seq(Byte)
    BY <1>1, SentIs
  <1>3. /\ HexByte = Rec(k).bytes[n] /\ HexByte \in Byte
        /\ At' = EndOf(sent, Rec(k)) /\ prevChar' # CR /\ Steady
        /\ total = s[n - 1] /\ Rec(k)' = Rec(k)
    BY <1>2, ByteFollows DEF EndOf
  <1>4. s[n - 1] \in Nat /\ s[n] = s[n - 1] + Rec(k).bytes[n]
    BY <1>2, SumsAre
  <1>5. loadXsum = s[n - 1] % 256
    BY <1>3 DEF IInv, XsumTracks
  <1>6. /\ sent.format = "intel" => s[n] % 256 = 0
        /\ sent.format # "intel" => s[n] % 256 = 255
    BY <1>1, IntelIs, MotoIs
  <1>7. PastDigits(k)'
    BY <1>3 DEF PastDigits, Steady
  <1> HIDE DEF n, s
  <1>8. sent.format = "intel" => HexByte = TwosComplement(loadXsum)
    BY <1>3, <1>4, <1>5, <1>6, TwosOnly
  <1>9. sent.format # "intel" => HexByte = OnesComplement(loadXsum)
    BY <1>3, <1>4, <1>5, <1>6, OnesOnly
  <1> QED
    BY <1>3, <1>7, <1>8, <1>9

LEMMA IHexChecksumFollows ==
    ASSUME IInv, NEW k, InFile(k), IHexChecksum
    PROVE  Progress'
  <1>1. GotByte("iSum") /\ pc = "iSum" /\ mem' = mem
    BY DEF IHexChecksum, GotByte
  <1>2. sent.format = "intel" /\ mem = Image(k) /\ Rec(k).type = 0
    BY <1>1, FormatsApart DEF InFile, InIntel, IntelBytes
  <1>3. ToCome(k) = Len(Rec(k).bytes)
    BY <1>1 DEF ToCome
  <1>4. HexByte = TwosComplement(loadXsum) /\ PastDigits(k)'
    BY <1>1, <1>2, <1>3, LastSum DEF BytePcs
  <1>5. pc' = "iCR" /\ said' = said
    BY <1>4 DEF IHexChecksum, Goto
  <1>6. Ahead' /\ Steady /\ Rec(k)' = Rec(k) /\ Image(k)' = Image(k)
    BY <1>1, ByteFollows DEF BytePcs
  <1>7. InIntel(k)'
    BY <1>1, <1>2, <1>4, <1>5, <1>6 DEF InIntel
  <1>8. pc' \notin BytePcs /\ pc' # "prompt"
    BY <1>5 DEF BytePcs
  <1> QED
    BY <1>2, <1>5, <1>6, <1>7, <1>8, SoFar, ReadsOn

\* The end of the line of a record that has been stored.
LEMMA NextRecord ==
    ASSUME IInv, NEW k, InFile(k), Rec(k).type \in Supported(sent),
           Rec(k).type # EndType(sent), mem = Image(k), PastDigits(k),
           NEW p \in CharPcs, GetCharAt(p), mem' = mem, said' = said, Char = CR,
           pc' = (IF sent.format = "intel" THEN "iNext" ELSE "sNext")
    PROVE  Progress'
  <1> DEFINE e == EndOf(sent, Rec(k))
  <1>1. /\ Sending /\ k \in 1..LastRecord /\ said = {} /\ k \in Nat
        /\ \A i \in 1..k : Rec(i).type \in Supported(sent)
    BY SoFar
  <1>2. k + 1 \in 1..LastRecord /\ k + 1 > 1 /\ (k + 1) - 1 = k
    BY <1>1, GoesOn
  <1>3. /\ e \in Nat
        /\ \/ Rec(k + 1).at = e + 1
           \/ Rec(k + 1).at = e + 2 /\ sent.text[e + 1] = LF
    BY <1>1, LineEnds
  <1>4. /\ At = e /\ At' = At + 1 /\ prevChar' = CR /\ Ahead' /\ Steady
    BY CharFollows DEF PastDigits
  <1>5. /\ sent' = sent /\ Rec(k + 1)' = Rec(k + 1) /\ Image(k)' = Image(k)
    BY <1>4, SteadyIs
  <1> HIDE DEF e
  <1>6. Before(k + 1)'
    <2>1. At' = Rec(k + 1)'.at \/ (At' = Rec(k + 1)'.at - 1 /\ sent'.text[At'] = LF)
      BY <1>3, <1>4, <1>5
    <2> QED
      BY <1>2, <1>4, <1>5, <2>1 DEF Before
  <1>7. /\ IF sent.format = "intel" THEN InIntel(k + 1)' ELSE InMoto(k + 1)'
        /\ pc' \notin BytePcs /\ pc' # "prompt"
    BY <1>6 DEF InIntel, InMoto, BytePcs
  <1>8. PICK m \in 1..LastRecord : m = k + 1 /\ m - 1 = k
    BY <1>2
  <1> QED
    BY <1>1, <1>4, <1>7, <1>8, ReadsOn

LEMMA IHexEndOfLineFollows ==
    ASSUME IInv, NEW k, InFile(k), IHexEndOfLine
    PROVE  Progress'
  <1>1. GetCharAt("iCR") /\ pc = "iCR" /\ mem' = mem
    BY DEF IHexEndOfLine, GetCharAt
  <1>2. /\ sent.format = "intel" /\ mem = Image(k) /\ Rec(k).type = 0
        /\ PastDigits(k)
    BY <1>1, FormatsApart DEF InFile, InIntel
  <1>3. Rec(k).type \in Supported(sent) /\ Rec(k).type # EndType(sent)
    BY <1>2 DEF Supported, EndType
  <1>4. Char = CR
    <2>1. sent.text[EndOf(sent, Rec(k))] \in Eol
      BY <1>3, SoFar, LineEnds
    <2>2. Char = Canonical(sent.text[At]) /\ At = EndOf(sent, Rec(k))
      BY <1>1, <1>2, CharFollows DEF CharPcs, PastDigits
    <2> QED
      BY <2>1, <2>2 DEF Eol, Canonical
  <1>5. pc' = "iNext" /\ said' = said
    BY <1>4 DEF IHexEndOfLine, Goto
  <1> QED
    BY <1>1, <1>2, <1>3, <1>4, <1>5, NextRecord DEF CharPcs

LEMMA IHexEndChecksumFollows ==
    ASSUME IInv, NEW k, InFile(k), IHexEndChecksum
    PROVE  Progress'
  <1>1. /\ GotByte("iEndSum") /\ pc = "iEndSum" /\ mem' = mem
        /\ pc' = "prompt" /\ said' = said \cup {"ok"}
    BY DEF IHexEndChecksum, GotByte, Finish
  <1>2. sent.format = "intel" /\ mem = Image(k - 1) /\ Rec(k).type = 1
    BY <1>1, FormatsApart DEF InFile, InIntel, IntelBytes
  <1>3. sent.supported /\ sent.image = Image(k - 1)
    BY <1>2, SoFar, EndsHere DEF EndType, Supported
  <1>4. sent' = sent
    BY <1>1, ByteFollows DEF BytePcs, Steady
  <1>5. said' = {"ok"}
    BY <1>1, SoFar
  <1> QED
    BY <1>1, <1>2, <1>3, <1>4, <1>5 DEF Progress, Loading, Loaded

\* The first character of the next record.
LEMMA RecordStarts ==
    ASSUME IInv, NEW k, InFile(k), Before(k), NEW p \in CharPcs, GetCharAt(p)
    PROVE  /\ Char = sent.text[Rec(k).at] /\ At' = Rec(k).at + 1
           /\ Ahead' /\ Steady /\ Rec(k)' = Rec(k) /\ Image(k - 1)' = Image(k - 1)
  <1>1. /\ pc = p /\ At' = At + 1 /\ Char = Canonical(sent.text[At])
        /\ Ahead' /\ Steady /\ ~(prevChar = CR /\ sent.text[At] = LF)
    BY CharFollows
  <1>2. At = Rec(k).at
    BY <1>1 DEF Before
  <1>3. Rec(k)' = Rec(k) /\ Image(k - 1)' = Image(k - 1)
    BY <1>1, SteadyIs
  <1>4. sent.text[Rec(k).at] # LF
    BY <1>1, <1>2 DEF Before
  <1> QED
    BY <1>1, <1>2, <1>3, <1>4 DEF Canonical

LEMMA IHexNextFollows ==
    ASSUME IInv, NEW k, InFile(k), IHexNext
    PROVE  Progress'
  <1>1. GetCharAt("iNext") /\ pc = "iNext" /\ mem' = mem
    BY DEF IHexNext, GetCharAt
  <1>2. sent.format = "intel" /\ Before(k)
    BY <1>1, FormatsApart DEF InFile, InIntel
  <1>3. Sending /\ k \in 1..LastRecord /\ half' = "hi"
    BY <1>1, SoFar DEF IInv, TypeOK, DigitOK, GetCharAt, digitVars, BytePcs
  <1>4. /\ Char = sent.text[Rec(k).at] /\ At' = Rec(k).at + 1
        /\ Ahead' /\ Steady /\ Rec(k)' = Rec(k) /\ Image(k - 1)' = Image(k - 1)
    BY <1>1, <1>2, RecordStarts DEF CharPcs
  <1>5. Char = Colon /\ DigitsOf(sent, Rec(k), 1) = Rec(k).at + 1
    BY <1>2, <1>3, <1>4, IntelIs
  <1>6. pc' = "iLen" /\ said' = said
    BY <1>5 DEF IHexNext, Goto, Colon, CTRLC
  <1>7. ToCome(k)' = 1 /\ sent' = sent
    BY <1>4, <1>6 DEF ToCome, Steady
  <1>8. InByte(k, ToCome(k))'
    <2>1. Rec(k).at + 1 + 0 = Rec(k).at + 1
      BY <1>3, SentIs
    <2>2. half' # "lo" /\ ~(ToCome(k)' > 1)
      BY <1>3, <1>7
    <2> QED
      BY <1>4, <1>5, <1>7, <2>1, <2>2 DEF InByte
  <1>9. InIntel(k)'
    BY <1>1, <1>2, <1>4, <1>6 DEF InIntel, Before
  <1> QED
    BY <1>2, <1>4, <1>6, <1>8, <1>9, SoFar, ReadsOn

-----------------------------------------------------------------------------
(* S-records.                                                              *)

LEMMA MotoTypeFollows ==
    ASSUME IInv, NEW k, InFile(k), MotoType
    PROVE  Progress'
  <1>1. GetCharAt("sType") /\ pc = "sType" /\ mem' = mem
    BY DEF MotoType, GetCharAt
  <1>2. /\ sent.format # "intel" /\ mem = Image(k - 1) /\ At = Rec(k).at + 1
    BY <1>1, FormatsApart DEF InFile, InMoto
  <1>3. Sending /\ k \in 1..LastRecord /\ half' = "hi"
    BY <1>1, SoFar DEF IInv, TypeOK, DigitOK, GetCharAt, digitVars, BytePcs
  <1>4. /\ At' = At + 1 /\ Char = Canonical(sent.text[At]) /\ Ahead' /\ Steady
    BY <1>1, CharFollows DEF CharPcs
  <1>5. /\ Rec(k).type \in 0..9 /\ sent.text[At] = Zero + Rec(k).type
        /\ DigitsOf(sent, Rec(k), 1) = Rec(k).at + 2
    BY <1>2, <1>3, MotoIs
  <1>6. Zero + Rec(k).type \in Zero..Nine /\ Zero + Rec(k).type # LF
    BY <1>5 DEF Zero, Nine, LF
  <1>7. Char = Zero + Rec(k).type /\ IsDigit(Char)
    BY <1>4, <1>5, <1>6 DEF Canonical, IsDigit
  <1>8. pc' = "sLen" /\ said' = said /\ loadType' = Zero + Rec(k).type
    BY <1>7 DEF MotoType, Goto
  <1>9. ToCome(k)' = 1 /\ sent' = sent /\ Rec(k)' = Rec(k)
        /\ Image(k - 1)' = Image(k - 1)
    BY <1>4, <1>8, SteadyIs DEF ToCome
  <1>10. InByte(k, ToCome(k))'
    <2>1. At' = Rec(k).at + 2 + 0
      <3>1. Rec(k).at \in Nat
        BY <1>3, SentIs
      <3> QED
        BY <1>2, <1>4, <3>1
    <2>2. half' # "lo" /\ ~(ToCome(k)' > 1)
      BY <1>3, <1>9
    <2>3. Rec(k).at + 2 + 0 = DigitsOf(sent, Rec(k), 1) + 0
      BY <1>5
    <2> QED
      BY <1>9, <2>1, <2>2, <2>3 DEF InByte
  <1>11. InMoto(k)'
    BY <1>1, <1>2, <1>8, <1>9 DEF InMoto
  <1> QED
    BY <1>2, <1>4, <1>8, <1>10, <1>11, SoFar, ReadsOn

\* Where the digits of an S-record are.
LEMMA PlacesAre ==
    ASSUME Sending, NEW k \in 1..LastRecord, sent.format # "intel"
    PROVE  /\ DigitsOf(sent, Rec(k), 2) = Rec(k).at + 4
           /\ EndOf(sent, Rec(k)) = Rec(k).at + 2 + 2 * Len(Rec(k).bytes)
  <1>1. Rec(k).at \in Nat /\ Len(Rec(k).bytes) \in Nat
    BY SentIs
  <1>2. Lead(sent) = 2
    BY DEF Lead
  <1>3. /\ DigitsOf(sent, Rec(k), 2) = Rec(k).at + 2 + 2 * (2 - 1)
        /\ EndOf(sent, Rec(k)) = Rec(k).at + 2 + 2 * ((Len(Rec(k).bytes) + 1) - 1)
    BY <1>2 DEF DigitsOf, EndOf
  <1> QED
    BY <1>1, <1>3

LEMMA MotoLengthFollows ==
    ASSUME IInv, NEW k, InFile(k), MotoLength
    PROVE  Progress'
  <1>1. GotByte("sLen") /\ pc = "sLen" /\ mem' = mem
    BY DEF MotoLength, GotByte
  <1>2. /\ sent.format # "intel" /\ mem = Image(k - 1)
        /\ loadType = Zero + Rec(k).type
    BY <1>1, FormatsApart DEF InFile, InMoto, MotoBytes
  <1>3. Sending /\ k \in 1..LastRecord
    BY SoFar
  <1>4. ToCome(k) = 1
    BY <1>1 DEF ToCome
  <1>5. /\ HexByte = Rec(k).bytes[1] /\ ~Carry /\ Ahead' /\ Steady
        /\ ToCome(k)' = 1 + 1 => InByte(k, ToCome(k))'
        /\ At' = DigitsOf(sent, Rec(k), 1 + 1) /\ prevChar' # CR
        /\ Rec(k)' = Rec(k) /\ Image(k - 1)' = Image(k - 1) /\ Image(k)' = Image(k)
    BY <1>1, <1>4, ByteFollows DEF BytePcs
  <1>6. /\ loadLength' = Rec(k).bytes[1]
        /\ \/ loadType \in {Zero, Zero + 5} /\ Goto("sIgnore")
           \/ loadType = Nine /\ Goto("s9Hi")
           \/ loadType = Zero + 1 /\ Goto("s1Hi")
           \/ /\ loadType \notin {Zero, Zero + 1, Zero + 5, Nine}
              /\ GotoSaying("sUnsupported", "unsupported")
    BY <1>5 DEF MotoLength
  <1>7. Rec(k).type \in 0..9 /\ Supported(sent) = {0, 1, 5, 9} /\ DataType(sent) = 1
    BY <1>2, <1>3, MotoIs, MotoData
  <1>8. CASE loadType \in {Zero, Zero + 5} /\ Goto("sIgnore")
    <2>1. pc' = "sIgnore" /\ said' = said /\ Rec(k).type \in {0, 5}
      BY <1>2, <1>7, <1>8 DEF Goto, Zero
    <2>2. mem' = Image(k)
      BY <1>1, <1>2, <1>3, <1>7, <2>1, ImageIs
    <2>3. At' \in DigitsOf(sent, Rec(k), 2)..EndOf(sent, Rec(k))
      <3>1. /\ Rec(k).at \in Nat /\ Len(Rec(k).bytes) \in Nat
            /\ Len(Rec(k).bytes) >= 4
        BY <1>3, SentIs
      <3>2. /\ DigitsOf(sent, Rec(k), 2) = Rec(k).at + 4
            /\ EndOf(sent, Rec(k)) = Rec(k).at + 2 + 2 * Len(Rec(k).bytes)
        BY <1>2, <1>3, PlacesAre
      <3>3. At' = DigitsOf(sent, Rec(k), 2)
        BY <1>5
      <3>4. \A a, n \in Nat : n >= 4 => a + 4 \in (a + 4)..(a + 2 + 2 * n)
        OBVIOUS
      <3>5. Rec(k).at + 4 \in (Rec(k).at + 4)..(Rec(k).at + 2 + 2 * Len(Rec(k).bytes))
        BY <3>1, <3>4
      <3> QED
        BY <3>2, <3>3, <3>5
    <2>4. sent' = sent
      BY <1>5 DEF Steady
    <2>5. InMoto(k)' /\ pc' \notin BytePcs
      BY <1>5, <2>1, <2>2, <2>3, <2>4 DEF InMoto, BytePcs
    <2> QED
      BY <1>2, <1>5, <2>1, <2>5, SoFar, ReadsOn
  <1>9. CASE loadType = Nine /\ Goto("s9Hi")
    <2>1. pc' = "s9Hi" /\ said' = said /\ Rec(k).type = 9
      BY <1>2, <1>7, <1>9 DEF Goto, Zero, Nine
    <2>2. ToCome(k)' = 1 + 1
      BY <2>1 DEF ToCome
    <2>3. InMoto(k)'
      BY <1>1, <1>2, <1>5, <2>1 DEF InMoto
    <2> QED
      BY <1>2, <1>5, <2>1, <2>2, <2>3, SoFar, ReadsOn
  <1>10. CASE loadType = Zero + 1 /\ Goto("s1Hi")
    <2>1. pc' = "s1Hi" /\ said' = said /\ Rec(k).type = 1
      BY <1>2, <1>7, <1>10 DEF Goto, Zero
    <2>2. ToCome(k)' = 1 + 1
      BY <2>1 DEF ToCome
    <2>3. InMoto(k)'
      BY <1>1, <1>2, <1>5, <1>6, <2>1 DEF InMoto
    <2> QED
      BY <1>2, <1>5, <2>1, <2>2, <2>3, SoFar, ReadsOn
  <1>11. CASE /\ loadType \notin {Zero, Zero + 1, Zero + 5, Nine}
              /\ GotoSaying("sUnsupported", "unsupported")
    <2>1. Rec(k).type \notin Supported(sent)
      BY <1>2, <1>7, <1>11 DEF Zero, Nine
    <2> QED
      BY <1>5, <1>11, <2>1, ComplainsOf
  <1> QED
    BY <1>6, <1>8, <1>9, <1>10, <1>11

LEMMA MotoAddressHighFollows ==
    ASSUME IInv, NEW k, InFile(k), MotoAddressHigh
    PROVE  Progress'
  <1>1. /\ mem' = mem /\ hi' = HexByte /\ loadLength' = loadLength
        /\ \/ GotByte("s9Hi") /\ pc = "s9Hi" /\ Goto("s9Lo")
           \/ GotByte("s1Hi") /\ pc = "s1Hi" /\ Goto("s1Lo")
    BY DEF MotoAddressHigh, GotByte
  <1>2. PICK p \in BytePcs : GotByte(p)
    BY <1>1 DEF BytePcs
  <1>3. ToCome(k) = 2 /\ ToCome(k)' = 2 + 1
    BY <1>1 DEF ToCome, Goto
  <1>4. /\ HexByte = Rec(k).bytes[2] /\ Ahead' /\ Steady
        /\ InByte(k, ToCome(k))' /\ Rec(k)' = Rec(k) /\ Image(k - 1)' = Image(k - 1)
    BY <1>2, <1>3, ByteFollows
  <1>5. sent.format # "intel" /\ InMoto(k)
    BY <1>1, FormatsApart DEF InFile, MotoBytes
  <1>6. InMoto(k)'
    <2>1. CASE pc = "s9Hi"
      <3>1. pc' = "s9Lo" /\ mem = Image(k - 1) /\ Rec(k).type = 9
        BY <1>1, <1>5, <2>1 DEF InMoto, Goto
      <3> QED
        BY <1>1, <1>4, <3>1 DEF InMoto
    <2>2. CASE pc = "s1Hi"
      <3>1. /\ pc' = "s1Lo" /\ mem = Image(k - 1) /\ Rec(k).type = 1
            /\ loadLength = Rec(k).bytes[1]
        BY <1>1, <1>5, <2>2 DEF InMoto, Goto
      <3> QED
        BY <1>1, <1>4, <3>1 DEF InMoto
    <2> QED
      BY <1>1, <2>1, <2>2
  <1>7. pc' # "prompt" /\ said' = said
    BY <1>1 DEF Goto
  <1> QED
    BY <1>4, <1>5, <1>6, <1>7, SoFar, ReadsOn

LEMMA Moto9AddressLowFollows ==
    ASSUME IInv, NEW k, InFile(k), Moto9AddressLow
    PROVE  Progress'
  <1>1. GotByte("s9Lo") /\ pc = "s9Lo" /\ mem' = mem
    BY DEF Moto9AddressLow, GotByte
  <1>2. sent.format # "intel" /\ mem = Image(k - 1) /\ Rec(k).type = 9
    BY <1>1, FormatsApart DEF InFile, InMoto, MotoBytes
  <1>3. ToCome(k) = 3
    BY <1>1 DEF ToCome
  <1>4. /\ ~Carry /\ Ahead' /\ Steady
        /\ ToCome(k)' = 3 + 1 => InByte(k, ToCome(k))'
        /\ Rec(k)' = Rec(k) /\ Image(k - 1)' = Image(k - 1)
    BY <1>1, <1>3, ByteFollows DEF BytePcs
  <1>5. pc' = "s9Sum" /\ said' = said
    BY <1>4 DEF Moto9AddressLow, Goto
  <1>6. ToCome(k)' = 3 + 1
    BY <1>5 DEF ToCome
  <1>7. InMoto(k)'
    BY <1>1, <1>2, <1>4, <1>5 DEF InMoto
  <1> QED
    BY <1>2, <1>4, <1>5, <1>6, <1>7, SoFar, ReadsOn

LEMMA Moto1AddressLowFollows ==
    ASSUME IInv, NEW k, InFile(k), Moto1AddressLow
    PROVE  Progress'
  <1>1. /\ GotByte("s1Lo") /\ pc = "s1Lo" /\ mem' = mem /\ loadLength' = loadLength
    BY DEF Moto1AddressLow, GotByte
  <1>2. /\ sent.format # "intel" /\ mem = Image(k - 1) /\ Rec(k).type = 1
        /\ loadLength = Rec(k).bytes[1] /\ hi = Rec(k).bytes[2]
    BY <1>1, FormatsApart DEF InFile, InMoto, MotoBytes
  <1>3. ToCome(k) = 3
    BY <1>1 DEF ToCome
  <1>4. /\ HexByte = Rec(k).bytes[3] /\ ~Carry /\ Ahead' /\ Steady
        /\ ToCome(k)' = 3 + 1 => InByte(k, ToCome(k))'
        /\ Rec(k)' = Rec(k) /\ Image(k - 1)' = Image(k - 1)
    BY <1>1, <1>3, ByteFollows DEF BytePcs
  <1>5. /\ pc' = "s1Data" /\ said' = said /\ loadAddress' = 256 * hi + HexByte
        /\ count' = MotoDataLength
    BY <1>4 DEF Moto1AddressLow, Goto
  <1>6. Sending /\ k \in 1..LastRecord
    BY SoFar
  <1>7. loadLength \in Nat /\ loadLength <= 255 /\ loadLength > 3
    BY <1>2, <1>6, MotoData
  <1>8. count' = loadLength - 3 /\ loadLength' - 3 - count' = 0
    BY <1>1, <1>5, <1>7, SMT DEF MotoDataLength
  <1>9. ToCome(k)' = 3 + 1
    <2>1. ToCome(k)' = 4 + (loadLength' - 3 - count')
      BY <1>5 DEF ToCome
    <2> QED
      BY <1>8, <2>1
  <1>10. Addressed(k)'
    BY <1>1, <1>2, <1>4, <1>5 DEF Addressed, Address
  <1>11. mem' = Overlay(sent', Rec(k)', Image(k - 1)', loadLength' - 3 - count')
    BY <1>1, <1>2, <1>4, <1>6, <1>8, StoredNone DEF Steady
  <1>12. InMoto(k)'
    BY <1>2, <1>4, <1>5, <1>10, <1>11 DEF InMoto
  <1> QED
    BY <1>2, <1>4, <1>5, <1>9, <1>12, SoFar, ReadsOn

LEMMA Moto1DataFollows ==
    ASSUME IInv, NEW k, InFile(k), Moto1Data
    PROVE  Progress'
  <1> DEFINE n == loadLength - 3 - count
  <1>1. /\ GotByte("s1Data") /\ pc = "s1Data" /\ loadLength' = loadLength
        /\ loadAddress' = loadAddress
    BY DEF Moto1Data, GotByte
  <1>2. /\ sent.format # "intel" /\ Addressed(k) /\ Rec(k).type = 1
        /\ mem = Overlay(sent, Rec(k), Image(k - 1), n)
    BY <1>1, FormatsApart DEF InFile, InMoto, MotoBytes
  <1>3. Sending /\ k \in 1..LastRecord
    BY SoFar
  <1>4. /\ DataCount(sent, Rec(k)) = loadLength - 3 /\ FirstData(sent) = 4
        /\ DataType(sent) = 1 /\ loadLength \in Nat /\ loadLength <= 255
        /\ loadLength > 3 /\ Len(Rec(k).bytes) = loadLength + 1
    BY <1>2, <1>3, MotoData DEF Addressed
  <1>5. count \in 1..(loadLength - 3) /\ ptr = Wrapped(loadAddress + n)
    <2>1. /\ count \in 1..(loadLength - 3)
          /\ ptr = (loadAddress + (loadLength - 3 - count)) % 65536
      BY <1>1, <1>4 DEF IInv, LoopInStep
    <2> QED
      BY <2>1 DEF Wrapped
  <1>6. n \in Nat /\ n <= 255 /\ loadLength - 3 - (count - 1) = n + 1
    BY <1>4, <1>5
  <1>7. ToCome(k) = 4 + n
    BY <1>1 DEF ToCome
  <1> HIDE DEF n
  <1>8. /\ HexByte = Rec(k).bytes[4 + n] /\ ~Carry /\ Ahead' /\ Steady
        /\ ToCome(k)' = (4 + n) + 1 => InByte(k, ToCome(k))'
        /\ Rec(k)' = Rec(k) /\ Image(k - 1)' = Image(k - 1) /\ Image(k)' = Image(k)
    BY <1>1, <1>7, ByteFollows DEF BytePcs
  <1>9. /\ Deposit(HexByte) /\ said' = said /\ count' = (count - 1) % 65536
        /\ pc' = (IF count = 1 THEN "s1Sum" ELSE "s1Data")
    BY <1>8 DEF Moto1Data, Goto
  <1>10. mem' = Overlay(sent, Rec(k), Image(k - 1), n + 1)
    <2>1. /\ ptr = Wrapped(Address(Rec(k)) + n)
          /\ HexByte = Rec(k).bytes[FirstData(sent) + n]
      BY <1>2, <1>4, <1>5, <1>8 DEF Addressed
    <2> QED
      BY <1>2, <1>3, <1>6, <1>9, <2>1, DepositFollows
  <1>11. CASE count = 1
    <2>1. pc' = "s1Sum" /\ n + 1 = loadLength - 3
      BY <1>4, <1>6, <1>9, <1>11
    <2>2. mem' = Image(k)
      BY <1>2, <1>3, <1>4, <1>10, <2>1, ImageIs
    <2>3. ToCome(k)' = (4 + n) + 1
      <3>1. ToCome(k)' = Len(Rec(k).bytes)
        BY <1>8, <2>1 DEF ToCome
      <3> QED
        BY <1>4, <1>6, <2>1, <3>1
    <2>4. InMoto(k)'
      BY <1>2, <1>8, <2>1, <2>2 DEF InMoto
    <2> QED
      BY <1>2, <1>8, <1>9, <2>1, <2>3, <2>4, SoFar, ReadsOn
  <1>12. CASE count # 1
    <2>1. pc' = "s1Data" /\ count' = count - 1
      <3>1. count - 1 \in 0..254
        BY <1>4, <1>5
      <3>2. (count - 1) % 65536 = count - 1
        BY <3>1, SMT
      <3> QED
        BY <1>9, <1>12, <3>2
    <2>2. loadLength' - 3 - count' = n + 1
      BY <1>1, <1>6, <2>1
    <2>3. ToCome(k)' = (4 + n) + 1
      <3>1. ToCome(k)' = 4 + (n + 1)
        BY <2>1, <2>2 DEF ToCome
      <3> QED
        BY <1>6, <3>1
    <2>4. /\ Addressed(k)' /\ sent' = sent
          /\ mem' = Overlay(sent', Rec(k)', Image(k - 1)', loadLength' - 3 - count')
      BY <1>1, <1>2, <1>8, <1>10, <2>2 DEF Addressed, Steady
    <2>5. InMoto(k)'
      BY <1>2, <1>8, <2>1, <2>4 DEF InMoto
    <2> QED
      BY <1>2, <1>8, <1>9, <2>1, <2>3, <2>5, SoFar, ReadsOn
  <1> QED
    BY <1>11, <1>12

LEMMA MotoChecksumFollows ==
    ASSUME IInv, NEW k, InFile(k), MotoChecksum
    PROVE  Progress'
  <1>1. /\ mem' = mem
        /\ \/ GotByte("s1Sum") /\ pc = "s1Sum"
           \/ GotByte("s9Sum") /\ pc = "s9Sum"
    BY DEF MotoChecksum, GotByte
  <1>2. PICK p \in BytePcs : GotByte(p)
    BY <1>1 DEF BytePcs
  <1>3. sent.format # "intel" /\ InMoto(k) /\ Sending /\ k \in 1..LastRecord
    BY <1>1, FormatsApart, SoFar DEF InFile, MotoBytes
  <1>4. /\ pc = "s1Sum" => mem = Image(k) /\ Rec(k).type = 1
        /\ pc = "s9Sum" => mem = Image(k - 1) /\ Rec(k).type = 9
    BY <1>3 DEF InMoto
  <1>5. ToCome(k) = Len(Rec(k).bytes)
    <2>1. pc = "s1Sum" => ToCome(k) = Len(Rec(k).bytes)
      BY DEF ToCome
    <2>2. pc = "s9Sum" => ToCome(k) = 4
      BY DEF ToCome
    <2>3. Rec(k).type = 9 => Len(Rec(k).bytes) = 4
      BY <1>3, MotoIs
    <2> QED
      BY <1>1, <1>4, <2>1, <2>2, <2>3
  <1>6. HexByte = OnesComplement(loadXsum) /\ PastDigits(k)'
    BY <1>1, <1>2, <1>3, <1>5, LastSum
  <1>7. ~Carry /\ Ahead' /\ Steady /\ Rec(k)' = Rec(k) /\ Image(k)' = Image(k)
    BY <1>2, ByteFollows
  <1>8. \/ pc = "s1Sum" /\ Goto("s1Rest")
        \/ pc = "s9Sum" /\ MotoReturn(2, {})
    BY <1>6, <1>7 DEF MotoChecksum
  <1>9. CASE pc = "s1Sum"
    <2>1. pc' = "s1Rest" /\ said' = said
      BY <1>8, <1>9 DEF Goto
    <2>2. InMoto(k)' /\ pc' \notin BytePcs /\ pc' # "prompt"
      BY <1>1, <1>4, <1>6, <1>7, <1>9, <2>1 DEF InMoto, BytePcs
    <2> QED
      BY <1>3, <1>7, <2>1, <2>2, SoFar, ReadsOn
  <1>10. CASE pc = "s9Sum"
    <2>1. Finish({} \cup {"ok"})
      BY <1>8, <1>10 DEF MotoReturn
    <2>2. pc' = "prompt" /\ said' = {"ok"}
      BY <2>1, SoFar DEF Finish
    <2>3. sent.supported /\ sent.image = Image(k - 1)
      BY <1>3, <1>4, <1>10, SoFar, EndsHere DEF EndType, Supported
    <2> QED
      BY <1>1, <1>4, <1>7, <1>10, <2>2, <2>3 DEF Progress, Loading, Loaded, Steady
  <1> QED
    BY <1>1, <1>9, <1>10

LEMMA PlaceIsDigit ==
    ASSUME NEW a \in Nat, NEW n \in Nat, NEW p \in Nat,
           p >= a + 4, p < a + 2 + 2 * n
    PROVE  \E i \in 1..n : \/ p = a + 2 + 2 * (i - 1)
                           \/ p = a + 2 + 2 * (i - 1) + 1
  <1> DEFINE q == p - a - 2
             h == q \div 2
  <1>1. q \in Nat /\ p = a + 2 + q /\ q < 2 * n
    OBVIOUS
  <1> HIDE DEF q
  <1>2. h \in Nat /\ (q = 2 * h \/ q = 2 * h + 1)
    BY <1>1
  <1> HIDE DEF h
  <1>3. h + 1 \in 1..n
    BY <1>1, <1>2
  <1>4. \/ p = a + 2 + 2 * ((h + 1) - 1)
        \/ p = a + 2 + 2 * ((h + 1) - 1) + 1
    BY <1>1, <1>2
  <1> QED
    BY <1>3, <1>4

\* No digit of an S-record is the end of a line.
LEMMA DigitsGoOn ==
    ASSUME Sending, NEW k \in 1..LastRecord, sent.format # "intel",
           NEW i \in 1..Len(Rec(k).bytes), NEW p,
           \/ p = Rec(k).at + 2 + 2 * (i - 1)
           \/ p = Rec(k).at + 2 + 2 * (i - 1) + 1
    PROVE  Canonical(sent.text[p]) # CR
  <1> DEFINE d == DigitsOf(sent, Rec(k), i)
             b == Rec(k).bytes[i]
  <1>1. d = Rec(k).at + 2 + 2 * (i - 1)
    BY DEF DigitsOf, Lead
  <1>2. /\ sent.text[d] \in DigitChars(b \div 16) /\ b \div 16 \in 0..15
        /\ sent.text[d + 1] \in DigitChars(b % 16) /\ b % 16 \in 0..15
    BY DigitsAre
  <1>3. /\ Canonical(sent.text[d]) # CR /\ Canonical(sent.text[d + 1]) # CR
    BY <1>2, DigitIs
  <1> QED
    BY <1>1, <1>3, Zenon

LEMMA MotoSkipFollows ==
    ASSUME IInv, NEW k, InFile(k), MotoSkip
    PROVE  Progress'
  <1>1. PICK p \in MotoSkips :
           /\ GetCharAt(p) /\ pc = p /\ mem' = mem
           /\ \/ Char = CR /\ MotoReturn(MotoResult(p), {})
              \/ Char # CR /\ Goto(p)
    BY DEF MotoSkip, GetCharAt
  <1>2. p \in {"s1Rest", "sIgnore"} /\ p \in CharPcs
    BY <1>1, FormatsApart
    DEF InFile, MotoSkips, IntelBytes, MotoBytes, CharPcs
  <1>3. sent.format # "intel" /\ InMoto(k) /\ Sending /\ k \in 1..LastRecord
    BY <1>1, <1>2, FormatsApart, SoFar DEF InFile
  <1>4. /\ mem = Image(k) /\ prevChar # CR /\ Rec(k).type \in {0, 1, 5}
        /\ p = "s1Rest" => At = EndOf(sent, Rec(k))
        /\ p = "sIgnore" => /\ Rec(k).type \in {0, 5}
                            /\ At \in DigitsOf(sent, Rec(k), 2)..EndOf(sent, Rec(k))
    BY <1>1, <1>2, <1>3 DEF InMoto, PastDigits
  <1>5. Rec(k).type \in Supported(sent) /\ Rec(k).type # EndType(sent)
    BY <1>3, <1>4 DEF Supported, EndType
  <1>6. /\ Char = Canonical(sent.text[At]) /\ At' = At + 1 /\ Ahead' /\ Steady
        /\ prevChar' = Char
    BY <1>1, <1>2, CharFollows
  <1>7. CASE At = EndOf(sent, Rec(k))
    <2>1. Char = CR
      <3>1. sent.text[EndOf(sent, Rec(k))] \in Eol
        BY <1>5, SoFar, LineEnds
      <3> QED
        BY <1>6, <1>7, <3>1 DEF Eol, Canonical
    <2>2. pc' = "sNext" /\ said' = said
      <3>1. MotoReturn(1, {})
        BY <1>1, <1>2, <2>1 DEF MotoResult
      <3> QED
        BY <3>1 DEF MotoReturn
    <2>3. PastDigits(k)
      BY <1>4, <1>7 DEF PastDigits
    <2> QED
      BY <1>1, <1>2, <1>3, <1>4, <1>5, <2>1, <2>2, <2>3, NextRecord
  <1>8. CASE At # EndOf(sent, Rec(k))
    <2>1. p = "sIgnore"
      BY <1>2, <1>4, <1>8
    <2>2. PICK a, n \in Nat : a = Rec(k).at /\ n = Len(Rec(k).bytes)
      BY <1>3, SentIs
    <2>3. /\ DigitsOf(sent, Rec(k), 2) = a + 4
          /\ EndOf(sent, Rec(k)) = a + 2 + 2 * n
      BY <1>3, <2>2, PlacesAre
    <2>4. At \in Nat /\ At >= a + 4 /\ At < a + 2 + 2 * n
      BY <1>4, <1>8, <2>1, <2>3
    <2>5. Char # CR /\ At' \in DigitsOf(sent, Rec(k), 2)..EndOf(sent, Rec(k))
      <3>1. At' \in (a + 4)..(a + 2 + 2 * n)
        BY <1>6, <2>4
      <3>2. PICK i \in 1..n : \/ At = a + 2 + 2 * (i - 1)
                              \/ At = a + 2 + 2 * (i - 1) + 1
        BY <2>4, PlaceIsDigit
      <3>3. Canonical(sent.text[At]) # CR
        BY <1>3, <2>2, <3>2, DigitsGoOn
      <3> QED
        BY <1>6, <2>3, <3>1, <3>3
    <2>6. pc' = "sIgnore" /\ said' = said
      BY <1>1, <2>1, <2>5 DEF Goto
    <2>7. sent' = sent /\ Rec(k)' = Rec(k) /\ Image(k)' = Image(k)
      BY <1>6, SteadyIs
    <2>8. InMoto(k)' /\ pc' \notin BytePcs /\ pc' # "prompt"
      BY <1>1, <1>4, <1>6, <2>1, <2>5, <2>6, <2>7 DEF InMoto, BytePcs
    <2> QED
      BY <1>3, <1>6, <2>6, <2>8, SoFar, ReadsOn
  <1> QED
    BY <1>7, <1>8

LEMMA MotoNextFollows ==
    ASSUME IInv, NEW k, InFile(k), MotoNext
    PROVE  Progress'
  <1>1. GetCharAt("sNext") /\ pc = "sNext" /\ mem' = mem
    BY DEF MotoNext, GetCharAt
  <1>2. sent.format # "intel" /\ Before(k)
    BY <1>1, FormatsApart DEF InFile, InMoto
  <1>3. Sending /\ k \in 1..LastRecord
    BY SoFar
  <1>4. /\ Char = sent.text[Rec(k).at] /\ At' = Rec(k).at + 1
        /\ Ahead' /\ Steady /\ Rec(k)' = Rec(k) /\ Image(k - 1)' = Image(k - 1)
    BY <1>1, <1>2, RecordStarts DEF CharPcs
  <1>5. Char \in {83, 115}
    BY <1>2, <1>3, <1>4, MotoIs
  <1>6. pc' = "sType" /\ said' = said
    BY <1>5 DEF MotoNext, Goto, CTRLC
  <1>7. InMoto(k)' /\ pc' \notin BytePcs
    BY <1>1, <1>2, <1>4, <1>6 DEF InMoto, Before, BytePcs
  <1> QED
    BY <1>2, <1>4, <1>6, <1>7, SoFar, ReadsOn

-----------------------------------------------------------------------------
(* The lines before the first record.                                      *)

InLines == Sending /\ said = {} /\ Ahead /\ InTitle

LEMMA TitleIs ==
    ASSUME Sending
    PROVE  LET f == Rec(1).at
           IN  /\ f \in Nat \ {0} /\ f + 1 <= Len(sent.text)
               /\ sent.text[f] \in {Colon, 83, 115}
               /\ sent.text[f] = Colon <=> sent.format = "intel"
               /\ f = 1 \/ sent.text[f - 1] \in Eol
               /\ \A p \in 1..(f - 1) : LineStart(sent, p) =>
                     \/ sent.text[p] \notin {CTRLC, CR, LF, Colon, 83, 115}
                     \/ sent.text[p] = LF /\ sent.text[p - 1] = CR
  <1>1. Title(sent)
    BY SendsFile, FileIs
  <1>2. /\ LineStart(sent, Rec(1).at)
        /\ \A p \in 1..(Rec(1).at - 1) : LineStart(sent, p) =>
              \/ sent.text[p] \notin {CTRLC, CR, LF, Colon, 83, 115}
              \/ sent.text[p] = LF /\ sent.text[p - 1] = CR
    BY <1>1 DEF Title, Rec
  <1>3. 1 \in 1..LastRecord
    BY SentIs
  <1>4. Rec(1).at \in Nat \ {0} /\ Rec(1).at + 1 <= Len(sent.text)
    BY <1>3, SentIs
  <1>5. /\ sent.format = "intel" => sent.text[Rec(1).at] = Colon
        /\ sent.format # "intel" => sent.text[Rec(1).at] \in {83, 115}
    BY <1>3, IntelIs, MotoIs
  <1>6. Colon \notin {83, 115}
    BY DEF Colon
  <1> QED
    BY <1>2, <1>4, <1>5, <1>6 DEF LineStart

\* A character has been read there.
LEMMA LineFollows ==
    ASSUME IInv, InLines, NEW p, GetCharAt(p)
    PROVE  /\ pc = p /\ At \in Nat /\ At >= 1 /\ At <= Rec(1).at
           /\ At' = At + 1 /\ Ahead' /\ Steady
           /\ Char = Canonical(sent.text[At]) /\ prevChar' = Char
           /\ ~(prevChar = CR /\ sent.text[At] = LF)
           /\ Rec(1)' = Rec(1) /\ half' = half
  <1>1. /\ wire # <<>> /\ wire' = Tail(wire) /\ prevChar' = Char /\ pc = p
        /\ ~Swallowed(prevChar, Head(wire)) /\ Steady /\ half' = half
    BY DEF GetCharAt, GetChar, Steady, envVars, digitVars
  <1>2. /\ At \in 1..Len(sent.text) /\ Head(wire) = sent.text[At]
        /\ Ahead' /\ At' = At + 1
    BY <1>1, WireStep DEF IInv, TypeOK, Steady, InLines
  <1>3. Len(sent.text) \in Nat /\ Rec(1).at \in Nat
    BY SentIs, TitleIs DEF InLines
  <1>4. At \in Nat /\ At >= 1 /\ At <= Rec(1).at
    BY <1>2, <1>3 DEF InLines, InTitle
  <1>5. Rec(1)' = Rec(1)
    BY <1>1, SteadyIs
  <1> QED
    BY <1>1, <1>2, <1>4, <1>5 DEF Char, Swallowed

LEMMA LinesGoOn ==
    ASSUME Sending, Steady, said' = {}, Ahead', InTitle'
    PROVE  Progress'
  <1>1. Underway' /\ pc' # "prompt"
    BY DEF Underway, InTitle
  <1> QED
    BY <1>1 DEF Progress, Loading

LEMMA DetectFollows ==
    ASSUME IInv, InLines, Detect
    PROVE  Progress'
  <1> DEFINE f == Rec(1).at
  <1>1. /\ GetCharAt("detect") /\ mem' = mem /\ pc = "detect"
        /\ \/ Char = CTRLC /\ Abort
           \/ Char = Colon /\ Goto("iLen")
           \/ LowerCase(Char) = 115 /\ Goto("sType")
           \/ Char \notin {CTRLC, Colon, 83, 115} /\ Goto("dlSkip")
    BY DEF Detect, GetCharAt
  <1>2. /\ At \in Nat /\ At >= 1 /\ At <= f
        /\ At' = At + 1 /\ Ahead' /\ Steady
        /\ Char = Canonical(sent.text[At]) /\ prevChar' = Char
        /\ ~(prevChar = CR /\ sent.text[At] = LF)
        /\ Rec(1)' = Rec(1) /\ half' = half
    BY <1>1, LineFollows
  <1>3. prevChar = CR /\ LineStart(sent, At) /\ mem = NoMemory /\ Sending /\ said = {}
    BY <1>1 DEF InLines, InTitle
  <1>4. Char = sent.text[At] /\ sent.text[At] # LF
    BY <1>2, <1>3 DEF Canonical
  <1>5. sent' = sent
    BY <1>2 DEF Steady
  <1>6. CASE At = f
    <2>1. 1 \in 1..LastRecord
      BY <1>3, SentIs
    <2>2. PICK k \in 1..LastRecord : k = 1
      BY <2>1
    <2>3. mem' = Image(k - 1)'
      <3>1. Image(0)' = Image(0) /\ Image(0) = NoMemory
        BY <1>2, <1>3, SteadyIs, NoImage
      <3>2. k - 1 = 0
        BY <2>2
      <3> QED
        BY <1>1, <1>3, <3>1, <3>2
    <2>4. \A i \in 1..(k - 1) : Rec(i).type \in Supported(sent)
      BY <2>2
    <2>5. Rec(k)' = Rec(k)
      BY <1>2, SteadyIs
    <2>6. CASE sent.format = "intel"
      <3>1. Char = Colon
        BY <1>3, <1>4, <1>6, <2>6, TitleIs
      <3>2. pc' = "iLen" /\ said' = said
        BY <1>1, <3>1 DEF Goto, Colon, CTRLC, LowerCase, IsUpper
      <3>3. ToCome(k)' = 1
        BY <3>2 DEF ToCome
      <3>4. InByte(k, ToCome(k))'
        <4>1. half # "lo"
          BY <1>1 DEF IInv, TypeOK, DigitOK, BytePcs
        <4>2. half' # "lo" /\ ~(ToCome(k)' > 1)
          BY <1>2, <3>3, <4>1
        <4>3. DigitsOf(sent, Rec(k), 1) = At + 1
          BY <1>3, <1>6, <2>2, <2>6, IntelIs
        <4>4. At' = DigitsOf(sent, Rec(k), 1) + 0
          BY <1>2, <4>3
        <4> QED
          BY <1>5, <2>5, <3>3, <4>2, <4>4 DEF InByte
      <3>5. InIntel(k)'
        BY <2>3, <3>2 DEF InIntel
      <3> QED
        BY <1>2, <1>3, <2>4, <2>6, <3>2, <3>4, <3>5, ReadsOn
    <2>7. CASE sent.format # "intel"
      <3>1. Char \in {83, 115}
        BY <1>3, <1>4, <1>6, <2>7, TitleIs
      <3>2. pc' = "sType" /\ said' = said
        BY <1>1, <3>1 DEF Goto, Colon, CTRLC
      <3>3. InMoto(k)' /\ pc' \notin BytePcs
        BY <1>2, <1>6, <2>2, <2>3, <2>5, <3>2 DEF InMoto, BytePcs
      <3> QED
        BY <1>2, <1>3, <2>4, <2>7, <3>2, <3>3, ReadsOn
    <2> QED
      BY <2>6, <2>7
  <1>7. CASE At # f
    <2>1. f \in Nat /\ At \in 1..(f - 1)
      <3>1. f \in Nat
        BY <1>3, TitleIs
      <3> QED
        BY <1>2, <1>7, <3>1
    <2>2. sent.text[At] \notin {CTRLC, CR, LF, Colon, 83, 115}
      BY <1>3, <1>4, <2>1, TitleIs
    <2>3. pc' = "dlSkip" /\ said' = said
      <3>1. Char \notin {CTRLC, Colon, 83, 115}
        BY <1>4, <2>2
      <3>2. LowerCase(Char) # 115
        BY <3>1 DEF LowerCase, IsUpper
      <3> QED
        BY <1>1, <3>1, <3>2 DEF Goto
    <2>4. At' < f
      <3>1. SUFFICES ASSUME f = At + 1 PROVE FALSE
        BY <1>2, <2>1
      <3>2. f # 1 /\ f - 1 = At
        BY <1>2, <3>1
      <3>3. sent.text[At] \in Eol
        BY <1>3, <3>2, TitleIs
      <3> QED
        BY <2>2, <3>3 DEF Eol
    <2>5. InTitle'
      BY <1>1, <1>2, <1>3, <1>4, <2>2, <2>3, <2>4 DEF InTitle
    <2> QED
      BY <1>2, <1>3, <2>3, <2>5, LinesGoOn
  <1> QED
    BY <1>6, <1>7

LEMMA SkipToNextLineFollows ==
    ASSUME IInv, InLines, SkipToNextLine
    PROVE  Progress'
  <1> DEFINE f == Rec(1).at
  <1>1. /\ GetCharAt("dlSkip") /\ mem' = mem /\ said' = said /\ pc = "dlSkip"
        /\ pc' = (IF Char = CR THEN "detect" ELSE "dlSkip")
    BY DEF SkipToNextLine, GetCharAt, Goto
  <1>2. /\ At \in Nat /\ At >= 1
        /\ At' = At + 1 /\ Ahead' /\ Steady
        /\ Char = Canonical(sent.text[At]) /\ prevChar' = Char
        /\ Rec(1)' = Rec(1)
    BY <1>1, LineFollows
  <1>3. prevChar # CR /\ At < f /\ mem = NoMemory /\ Sending /\ said = {}
    BY <1>1 DEF InLines, InTitle
  <1>4. f \in Nat /\ sent' = sent
    BY <1>2, <1>3, TitleIs DEF Steady
  <1>5. CASE Char = CR
    <2>1. sent.text[At] \in Eol
      BY <1>2, <1>5 DEF Canonical, Eol
    <2>2. LineStart(sent, At + 1)
      <3>1. (At + 1) - 1 = At
        BY <1>2
      <3> QED
        BY <2>1, <3>1 DEF LineStart
    <2>3. At' <= Rec(1)'.at
      BY <1>2, <1>3, <1>4
    <2>4. InTitle'
      BY <1>1, <1>2, <1>3, <1>4, <1>5, <2>2, <2>3 DEF InTitle
    <2> QED
      BY <1>1, <1>2, <1>3, <2>4, LinesGoOn
  <1>6. CASE Char # CR
    <2>1. sent.text[At] \notin Eol
      BY <1>2, <1>6 DEF Canonical, Eol
    <2>2. At' < f
      <3>1. SUFFICES ASSUME f = At + 1 PROVE FALSE
        BY <1>2, <1>3, <1>4
      <3>2. f # 1 /\ f - 1 = At
        BY <1>2, <3>1
      <3> QED
        BY <1>3, <2>1, <3>2, TitleIs
    <2>3. InTitle'
      BY <1>1, <1>2, <1>3, <1>6, <2>2 DEF InTitle
    <2> QED
      BY <1>1, <1>2, <1>3, <2>3, LinesGoOn
  <1> QED
    BY <1>5, <1>6

LEMMA SwallowInLines ==
    ASSUME IInv, InLines, SwallowLF
    PROVE  Progress'
  <1> DEFINE f == Rec(1).at
  <1>1. /\ wire # <<>> /\ wire' = Tail(wire) /\ prevChar = CR /\ Head(wire) = LF
        /\ Steady /\ UNCHANGED <<prevChar, pc, mem, said>>
    BY DEF SwallowLF, Swallowed, Steady, envVars
  <1>2. /\ At \in 1..Len(sent.text) /\ sent.text[At] = LF /\ Ahead' /\ At' = At + 1
    BY <1>1, WireStep DEF IInv, TypeOK, Steady, InLines
  <1>3. pc = "detect" /\ At <= f /\ mem = NoMemory /\ Sending /\ said = {}
    BY <1>1 DEF InLines, InTitle
  <1>4. f \in Nat /\ sent' = sent /\ Rec(1)' = Rec(1) /\ At \in Nat
    <2>1. Len(sent.text) \in Nat
      BY <1>3, SentIs
    <2> QED
      BY <1>1, <1>2, <1>3, <2>1, TitleIs, SteadyIs
  <1>5. At # f
    <2>1. sent.text[f] # LF
      <3>1. sent.text[f] \in {Colon, 83, 115}
        BY <1>3, TitleIs
      <3> QED
        BY <3>1 DEF Colon, LF
    <2> QED
      BY <1>2, <2>1
  <1>6. At' <= f
    BY <1>2, <1>3, <1>4, <1>5
  <1>7. LineStart(sent, At + 1)
    <2>1. (At + 1) - 1 = At
      BY <1>4
    <2> QED
      BY <1>2, <2>1 DEF LineStart, Eol
  <1>8. InTitle'
    BY <1>1, <1>2, <1>3, <1>4, <1>6, <1>7 DEF InTitle
  <1> QED
    BY <1>1, <1>2, <1>3, <1>8, LinesGoOn

-----------------------------------------------------------------------------
(* A load from its first character to its last.                            *)

\* The firmware never changes what is being sent, prints on, and does nothing
\* of a load outside one.
LEMMA FirmwareSays ==
    ASSUME Firmware
    PROVE  /\ Steady /\ said \subseteq said'
           /\ pc = "prompt" => UNCHANGED <<pc, mem, said>>
  <1> USE DEF Steady, envVars
  <1>1. CASE SwallowLF
    BY <1>1 DEF SwallowLF
  <1>2. CASE HighDigit
    BY <1>2 DEF HighDigit
  <1>3. CASE Prompt
    BY <1>3 DEF Prompt, GetCharAt
  <1>4. CASE Detect
    BY <1>4 DEF Detect, GetCharAt, Abort, Finish, Goto
  <1>5. CASE SkipToNextLine
    BY <1>5 DEF SkipToNextLine, GetCharAt, Goto
  <1>6. CASE IHex
    <2> USE DEF GotByte, GetCharAt, Goto, GotoSaying, Fail, Abort, Finish
    <2>1. CASE IHexLength
      BY <2>1 DEF IHexLength
    <2>2. CASE IHexAddressHigh
      BY <2>2 DEF IHexAddressHigh
    <2>3. CASE IHexAddressLow
      BY <2>3 DEF IHexAddressLow
    <2>4. CASE IHexType
      BY <2>4 DEF IHexType
    <2>5. CASE IHexData
      BY <2>5 DEF IHexData
    <2>6. CASE IHexChecksum
      BY <2>6 DEF IHexChecksum
    <2>7. CASE IHexEndOfLine
      BY <2>7 DEF IHexEndOfLine
    <2>8. CASE IHexEndChecksum
      BY <2>8 DEF IHexEndChecksum
    <2>9. CASE IHexSkip
      BY <2>9 DEF IHexSkip
    <2>10. CASE IHexNext
      BY <2>10 DEF IHexNext
    <2> QED
      BY <1>6, <2>1, <2>2, <2>3, <2>4, <2>5, <2>6, <2>7, <2>8, <2>9, <2>10 DEF IHex
  <1>7. CASE Moto
    <2>1. \A a, messages : MotoReturn(a, messages) => said \subseteq said'
      BY DEF MotoReturn, Fail, Finish
    <2>2. \A a : BadChar(a) => said \subseteq said'
      BY <2>1 DEF BadChar
    <2> USE DEF GotByte, GetCharAt, Goto, GotoSaying, Fail, Abort, Finish
    <2>3. CASE MotoType
      BY <2>2, <2>3 DEF MotoType
    <2>4. CASE MotoLength
      BY <2>2, <2>4 DEF MotoLength
    <2>5. CASE MotoAddressHigh
      BY <2>5 DEF MotoAddressHigh
    <2>6. CASE Moto9AddressLow
      BY <2>2, <2>6 DEF Moto9AddressLow
    <2>7. CASE Moto1AddressLow
      BY <2>2, <2>7 DEF Moto1AddressLow
    <2>8. CASE Moto1Data
      BY <2>2, <2>8 DEF Moto1Data
    <2>9. CASE MotoChecksum
      BY <2>1, <2>2, <2>9 DEF MotoChecksum
    <2>10. CASE MotoSkip
      BY <2>1, <2>10 DEF MotoSkip, MotoSkips
    <2>11. CASE MotoNext
      BY <2>11 DEF MotoNext
    <2> QED
      BY <1>7, <2>3, <2>4, <2>5, <2>6, <2>7, <2>8, <2>9, <2>10, <2>11 DEF Moto
  <1> QED
    BY <1>1, <1>2, <1>3, <1>4, <1>5, <1>6, <1>7 DEF Firmware

LEMMA RecordGoesOn ==
    ASSUME IInv, NEW k, InFile(k), Firmware
    PROVE  Progress'
  <1>1. pc \in IntelBytes \cup {"iCR", "iNext"} \cup MotoBytes
                \cup {"sType", "s1Rest", "sIgnore", "sNext"}
    BY FormatsApart DEF InFile
  <1>2. ~Prompt /\ ~Detect /\ ~SkipToNextLine /\ ~IHexSkip
    BY <1>1 DEF IntelBytes, MotoBytes, Prompt, Detect, SkipToNextLine, IHexSkip, GetCharAt
  <1>3. SwallowLF \/ HighDigit => Progress'
    BY SwallowFollows, HighDigitFollows
  <1>4. IHex => Progress'
    BY <1>2, IHexLengthFollows, IHexAddressHighFollows, IHexAddressLowFollows,
       IHexTypeFollows, IHexDataFollows, IHexChecksumFollows, IHexEndOfLineFollows,
       IHexEndChecksumFollows, IHexNextFollows DEF IHex
  <1>5. Moto => Progress'
    BY MotoTypeFollows, MotoLengthFollows, MotoAddressHighFollows,
       Moto9AddressLowFollows, Moto1AddressLowFollows, Moto1DataFollows,
       MotoChecksumFollows, MotoSkipFollows, MotoNextFollows DEF Moto
  <1> QED
    BY <1>2, <1>3, <1>4, <1>5 DEF Firmware

LEMMA TitleGoesOn ==
    ASSUME IInv, InLines, Firmware
    PROVE  Progress'
  <1>1. pc \in {"detect", "dlSkip"}
    BY DEF InLines, InTitle
  <1>2. ~HighDigit /\ ~Prompt
    BY <1>1 DEF HighDigit, Prompt, GetCharAt, BytePcs
  <1>3. ~IHex
    BY <1>1 DEF IHex, IHexLength, IHexAddressHigh, IHexAddressLow, IHexType,
       IHexData, IHexChecksum, IHexEndOfLine, IHexEndChecksum, IHexSkip, IHexNext,
       GotByte, GetCharAt
  <1>4. ~Moto
    BY <1>1 DEF Moto, MotoType, MotoLength, MotoAddressHigh, Moto9AddressLow,
       Moto1AddressLow, Moto1Data, MotoChecksum, MotoSkip, MotoSkips, MotoNext,
       GotByte, GetCharAt
  <1> QED
    BY <1>2, <1>3, <1>4, DetectFollows, SkipToNextLineFollows, SwallowInLines
    DEF Firmware

LEMMA UnderwayIs ==
    ASSUME Sending, Underway
    PROVE  InLines \/ \E k : InFile(k)
  BY DEF Underway, InLines, InFile

LEMMA ProgressGoesOn ==
    ASSUME IInv, Sending, Progress, Firmware
    PROVE  Progress'
  <1>1. Steady /\ said \subseteq said' /\ (pc = "prompt" => UNCHANGED <<pc, mem, said>>)
    BY FirmwareSays
  <1>2. CASE Loading /\ Underway
    BY <1>2, UnderwayIs, RecordGoesOn, TitleGoesOn
  <1>3. CASE Loading /\ Complaining
    <2>1. Complaining'
      BY <1>1, <1>3 DEF Complaining, Steady
    <2>2. Complaining' => Loaded'
      BY DEF Complaining, Loaded, Complained
    <2> QED
      BY <2>1, <2>2 DEF Progress
  <1>4. CASE ~Loading
    BY <1>1, <1>4 DEF Progress, Loading, Loaded, Complained, Steady
  <1> QED
    BY <1>2, <1>3, <1>4 DEF Progress

\* As long as the loader waits undisturbed there is more of the file to come.
LEMMA MoreToCome ==
    ASSUME IInv, Sending, Underway
    PROVE  wire # <<>>
  <1>1. CASE InLines
    <2>1. Rec(1).at \in Nat /\ Rec(1).at + 1 <= Len(sent.text)
      BY TitleIs
    <2>2. Len(sent.text) \in Nat /\ Len(wire) \in Nat
      BY SentIs DEF IInv, TypeOK, LineOK
    <2>3. At \in Int /\ At <= Rec(1).at
      BY <1>1, <2>1, <2>2 DEF InLines, InTitle, At
    <2>4. At <= Len(sent.text)
      BY <2>1, <2>2, <2>3
    <2> QED
      BY <2>4, HasMore DEF IInv, TypeOK
  <1>2. CASE \E k : InFile(k)
    <2>1. PICK k : InFile(k)
      BY <1>2
    <2>2. At <= Len(sent.text)
      BY <2>1, PlaceInFile
    <2> QED
      BY <2>2, HasMore DEF IInv, TypeOK
  <1> QED
    BY <1>1, <1>2, UnderwayIs

LEMMA NoFileIsNone == NoFile \notin Transmissions
  <1> SUFFICES ASSUME NoFile \in Transmissions PROVE FALSE
    OBVIOUS
  <1>1. IsFile(NoFile)
    BY LoaderAssumption
  <1>2. /\ Len(NoFile.records) \in Nat \ {0}
        /\ \A k \in 1..Len(NoFile.records) : IsRecord(NoFile, NoFile.records[k])
    BY <1>1, FileIs
  <1>3. IsRecord(NoFile, NoFile.records[1])
    BY <1>2
  <1>4. NoFile.records[1].at \in Nat /\ NoFile.records[1].at + 1 <= Len(NoFile.text)
    BY <1>3 DEF IsRecord
  <1>5. Len(NoFile.text) = 0
    BY DEF NoFile
  <1> QED
    BY <1>4, <1>5

LEMMA LoadSerialBegins ==
    ASSUME LoadSerial, HasData(sent')
    PROVE  Progress'
  <1>1. /\ sent' \in Transmissions /\ wire' = sent'.text /\ prevChar' = CR
        /\ pc' = "detect" /\ mem' = NoMemory /\ said' = {}
    BY DEF LoadSerial
  <1>2. IsFile(sent')
    BY <1>1, LoaderAssumption
  <1>3. /\ sent'.text \in Seq(Byte) /\ Len(sent'.records) \in Nat \ {0}
        /\ IsRecord(sent', sent'.records[1])
    BY <1>2, FileIs
  <1>4. sent'.records[1].at \in Nat \ {0} /\ Len(sent'.text) \in Nat
    BY <1>3 DEF IsRecord
  <1>5. At' = 1
    BY <1>1, <1>4 DEF At
  <1>6. Ahead'
    <2>1. \A i \in 1..Len(wire') : wire'[i] = sent'.text[At' + i - 1]
      BY <1>1, <1>4, <1>5
    <2> QED
      BY <1>1, <1>4, <2>1 DEF Ahead
  <1>7. InTitle'
    <2>1. At' <= Rec(1)'.at
      BY <1>4, <1>5 DEF Rec
    <2> QED
      BY <1>1, <1>5, <2>1 DEF InTitle, LineStart
  <1> QED
    BY <1>1, <1>6, <1>7 DEF Progress, Loading, Underway

LEMMA FileInvHolds ==
    ASSUME IInv, FileInv, [Next]_vars
    PROVE  FileInv'
  <1>1. CASE LoadSerial
    <2>1. sent' \in Transmissions /\ sent' # NoFile
      BY <1>1, NoFileIsNone DEF LoadSerial
    <2> QED
      BY <1>1, <2>1, LoadSerialBegins DEF FileInv
  <1>2. CASE LoadDisk
    BY <1>2 DEF LoadDisk, FileInv, Loading
  <1>3. CASE Firmware
    <2>1. Steady /\ (pc = "prompt" => pc' = pc)
      BY <1>3, FirmwareSays
    <2>2. ASSUME sent # NoFile, HasData(sent), faults = <<>>
          PROVE  Progress'
      BY <1>3, <2>2, ProgressGoesOn DEF FileInv, Sending
    <2> QED
      BY <2>1, <2>2 DEF FileInv, Steady, Loading
  <1>4. CASE LineLoses \/ LineAlters
    <2>1. sent' = sent /\ pc' = pc /\ faults' = Append(faults, pc)
      BY <1>4 DEF LineLoses, LineAlters, Disturb
    <2>2. faults' # <<>>
      <3>1. faults \in Seq(BytePcs \cup CharPcs) /\ pc \in BytePcs \cup CharPcs
        BY DEF IInv, TypeOK, EnvOK, ControlOK
      <3>2. Len(faults') = Len(faults) + 1 /\ Len(faults) \in Nat
        BY <2>1, <3>1
      <3> QED
        BY <3>2
    <2> QED
      BY <2>1, <2>2 DEF FileInv, Loading
  <1>5. CASE PressKey
    <2>1. /\ wire = <<>> /\ Loading
          /\ UNCHANGED <<sent, faults, pc, mem, said>>
      BY <1>5 DEF PressKey
    <2>2. ASSUME sent # NoFile, HasData(sent), faults = <<>>
          PROVE  Progress'
      <3>1. Complaining
        BY <2>1, <2>2, MoreToCome DEF FileInv, Progress, Sending
      <3> QED
        BY <2>1, <3>1 DEF Progress, Complaining, Loading
    <2> QED
      BY <2>1, <2>2 DEF FileInv, Loading
  <1>6. CASE UNCHANGED vars
    <2>1. /\ UNCHANGED <<wire, prevChar, loadLength, loadAddress, loadType, hi, count>>
          /\ UNCHANGED <<half, upperNibble, total, sent, faults, pc, mem, said>>
      BY <1>6 DEF vars, lineVars, recordVars, digitVars, envVars
    <2>2. ASSUME NEW k PROVE Reading(k)' <=> Reading(k)
      <3> USE <2>1 DEF Rec, Image
      <3>1. At' = At
        BY DEF At
      <3>2. ToCome(k)' = ToCome(k)
        BY DEF ToCome
      <3>3. InByte(k, ToCome(k))' <=> InByte(k, ToCome(k))
        BY <3>1, <3>2 DEF InByte
      <3>4. /\ PastDigits(k)' <=> PastDigits(k)
            /\ Before(k)' <=> Before(k)
            /\ Addressed(k)' <=> Addressed(k)
        BY <3>1 DEF PastDigits, Before, Addressed
      <3>5. InIntel(k)' <=> InIntel(k)
        BY <3>4 DEF InIntel
      <3>6. InMoto(k)' <=> InMoto(k)
        BY <3>1, <3>4 DEF InMoto
      <3> QED
        BY <3>3, <3>5, <3>6 DEF Reading
    <2>3. (Ahead' <=> Ahead) /\ (InTitle' <=> InTitle) /\ LastRecord' = LastRecord
      BY <2>1 DEF Ahead, At, InTitle, Rec, LastRecord
    <2>4. Underway' <=> Underway
      BY <2>1, <2>2, <2>3 DEF Underway
    <2>5. Progress' <=> Progress
      BY <2>1, <2>4 DEF Progress, Loading, Complaining, Loaded, Complained
    <2> QED
      BY <2>1, <2>5 DEF FileInv, Loading
  <1> QED
    BY <1>1, <1>2, <1>3, <1>4, <1>5, <1>6 DEF Next

LEMMA FileInvariance == Spec => []FileInv
  <1>1. Init => FileInv
    BY DEF Init, FileInv, Loading
  <1>2. IInv /\ FileInv /\ [Next]_vars => FileInv'
    BY FileInvHolds
  <1> QED
    BY <1>1, <1>2, Invariance, PTL DEF Spec

\* Whatever files there are, with any number of records of any type, any title
\* lines and any ends of line, and whatever earlier loads have left behind: an
\* undisturbed load stores exactly what the file stands for, or complains of
\* one it does not claim (load_cmd.asm:47-148, 155-449).  An S1 record without
\* data is what it does not load.
THEOREM LoadsFaithfully ==
    ASSUME \A t \in Transmissions : HasData(t)
    PROVE  Spec => []FaithfulLoad
  <1>1. FileInv => FaithfulLoad
    <2> SUFFICES ASSUME FileInv, ~Loading, faults = <<>>, sent # NoFile
                 PROVE  \/ sent.supported /\ mem = sent.image /\ said = {"ok"}
                        \/ ~sent.supported /\ Complained
      BY DEF FaithfulLoad
    <2>1. sent \in Transmissions
      BY DEF FileInv
    <2>2. HasData(sent)
      BY <2>1
    <2>3. Loaded
      BY <2>2 DEF FileInv, Progress
    <2> QED
      BY <2>3 DEF Loaded
  <1> QED
    BY <1>1, FileInvariance, PTL

\* And the loader never waits for more than such a file has
\* (load_cmd.asm:137-142, 224-225, 413-422).
THEOREM LoadsToTheEnd ==
    ASSUME \A t \in Transmissions : HasData(t)
    PROVE  Spec => []NeverStarves
  <1>1. IInv /\ FileInv => NeverStarves
    <2> SUFFICES ASSUME IInv, FileInv, Loading, sent.supported, faults = <<>>
                 PROVE  wire # <<>>
      BY DEF NeverStarves
    <2>1. sent # NoFile /\ sent \in Transmissions
      BY DEF FileInv
    <2>2. Sending
      BY <2>1 DEF Sending
    <2>3. Underway
      BY <2>1, <2>2 DEF FileInv, Progress, Sending, Complaining
    <2> QED
      BY <2>2, <2>3, MoreToCome
  <1> QED
    BY <1>1, Invariance, FileInvariance, PTL
=============================================================================
