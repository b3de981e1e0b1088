----------------------------- MODULE DiskProofs -----------------------------
(***************************************************************************)
(* For any cards, however often they are moved and whatever they refuse:   *)
(* a read that returns has one whole block (ReadIsWhole), and the root     *)
(* directory is where the disk just read has it (DirIsThisDisks).          *)
(*                                                                         *)
(* Neither is inductive.  ReadIsWhole needs to know how far card and       *)
(* buffer have come together, DirIsThisDisks that the block which says     *)
(* where the directory is was whole, and the first.                        *)
(*                                                                         *)
(* A listing that ends is the directory (ListingIsDirectory), over however *)
(* many blocks.  ListInv says in between what has been shown: the entries  *)
(* before the place where the listing is, all blocks together.             *)
(*                                                                         *)
(* And for any image on the host: what is shown is the block that was      *)
(* asked for (HostShowsBlock).  That rests on the block which is kept      *)
(* being one of the image, under its own number.                           *)
(***************************************************************************)
EXTENDS HostDisk, WellFoundedInduction, FiniteSetTheorems, TLAPS

Less == {pair \in Nat \X Nat : pair[1] < pair[2]}

\* A set of natural numbers that is not empty has a least element.
LEMMA LeastOf ==
    ASSUME NEW S \in SUBSET Nat, S # {}
    PROVE  \E i \in S : \A j \in S : i <= j
  <1>1. IsWellFoundedOn(Less, Nat)
    BY NatLessThanWellFounded DEF OpToRel, Less
  <1>2. PICK i \in S : \A j \in S : ~(<<j, i>> \in Less)
    BY <1>1, WFMin
  <1>3. \A j \in S : ~(j < i)
    BY <1>2 DEF Less
  <1> QED
    BY <1>3

-----------------------------------------------------------------------------
(* What the byte loops of libX09 compute, for every sector number.  The    *)
(* range of 32 bits is not written as a number: the largest LSN is the one *)
(* whose bytes are all 255.                                                *)

\* The value of four bytes.
Number(a, b, c, d) == 65536 * (256 * a + b) + (256 * c + d)

LEMMA ValueIsNumber ==
    ASSUME NEW l
    PROVE  Value(l) = Number(l[1], l[2], l[3], l[4])
  BY DEF Value, Upper, Lower, Number

\* The four bytes of an LSN.
LEMMA Bytes ==
    ASSUME NEW l \in LSNs
    PROVE  l[1] \in 0..255 /\ l[2] \in 0..255 /\ l[3] \in 0..255 /\ l[4] \in 0..255
  BY DEF LSNs, Byte

\* incLSN adds one (incLSN.asm:15-35), whatever carries on the way, and goes
\* from the largest LSN back to 0: the next block of a directory is the one
\* behind it.
THEOREM IncLSNAddsOne ==
    ASSUME NEW l \in LSNs
    PROVE  /\ incLSN(l) \in LSNs
           /\ (\A i \in 1..4 : l[i] = 255) => Value(incLSN(l)) = 0
           /\ (\E i \in 1..4 : l[i] # 255) => Value(incLSN(l)) = Value(l) + 1
  <1> DEFINE r == incLSN(l)
  <1>1. incLSN(l) \in LSNs
    <2>1. \A i \in 1..4 : l[i] \in Byte /\ (l[i] + 1) % 256 \in Byte
      BY Z3 DEF LSNs, Byte
    <2> QED
      BY <2>1 DEF incLSN, LSNs
  <1>2. PICK a \in 0..255, b \in 0..255, c \in 0..255, d \in 0..255 :
            a = l[1] /\ b = l[2] /\ c = l[3] /\ d = l[4]
    BY Bytes, ZenonT(30)
  <1>3. Value(l) = Number(a, b, c, d)
    BY <1>2, ValueIsNumber
  <1>4. Value(r) = Number(r[1], r[2], r[3], r[4])
    BY ValueIsNumber
  <1>5. /\ r[4] = (d + 1) % 256
        /\ r[3] = IF d = 255 THEN (c + 1) % 256 ELSE c
        /\ r[2] = IF d = 255 /\ c = 255 THEN (b + 1) % 256 ELSE b
        /\ r[1] = IF d = 255 /\ c = 255 /\ b = 255 THEN (a + 1) % 256 ELSE a
    BY <1>2 DEF incLSN
  <1>wrap. (255 + 1) % 256 = 0
    BY Z3
  <1> HIDE DEF r
  <1> DEFINE Goal == /\ (\A i \in 1..4 : l[i] = 255) => Value(r) = 0
                     /\ (\E i \in 1..4 : l[i] # 255) => Value(r) = Value(l) + 1
  <1> SUFFICES Goal
    BY <1>1 DEF r
  <1>6. (\A i \in 1..4 : l[i] = 255) <=> a = 255 /\ b = 255 /\ c = 255 /\ d = 255
    <2>1. 1..4 = {1, 2, 3, 4}
      OBVIOUS
    <2> QED
      BY <1>2, <2>1
  <1>7. CASE d # 255
    <2>1. Number(a, b, c, (d + 1) % 256) = Number(a, b, c, d) + 1
      BY <1>7, Z3 DEF Number
    <2>2. Value(r) = Number(a, b, c, (d + 1) % 256)
      BY <1>4, <1>5, <1>7
    <2>3. Value(r) = Value(l) + 1
      BY <1>3, <1>7, <2>1, <2>2
    <2> QED
      BY <1>6, <1>7, <2>3
  <1>8. CASE d = 255 /\ c # 255
    <2>1. Number(a, b, (c + 1) % 256, 0) = Number(a, b, c, 255) + 1
      BY <1>8, Z3 DEF Number
    <2>2. Value(r) = Number(a, b, (c + 1) % 256, 0)
      BY <1>4, <1>5, <1>wrap, <1>8
    <2>3. Value(r) = Value(l) + 1
      BY <1>3, <1>8, <2>1, <2>2
    <2> QED
      BY <1>6, <1>8, <2>3
  <1>9. CASE d = 255 /\ c = 255 /\ b # 255
    <2>1. Number(a, (b + 1) % 256, 0, 0) = Number(a, b, 255, 255) + 1
      BY <1>9, Z3 DEF Number
    <2>2. Value(r) = Number(a, (b + 1) % 256, 0, 0)
      BY <1>4, <1>5, <1>wrap, <1>9
    <2>3. Value(r) = Value(l) + 1
      BY <1>3, <1>9, <2>1, <2>2
    <2> QED
      BY <1>6, <1>9, <2>3
  <1>10. CASE d = 255 /\ c = 255 /\ b = 255 /\ a # 255
    <2>1. Number((a + 1) % 256, 0, 0, 0) = Number(a, 255, 255, 255) + 1
      BY <1>10, Z3 DEF Number
    <2>2. Value(r) = Number((a + 1) % 256, 0, 0, 0)
      BY <1>4, <1>5, <1>wrap, <1>10
    <2>3. Value(r) = Value(l) + 1
      BY <1>3, <1>10, <2>1, <2>2
    <2> QED
      BY <1>6, <1>10, <2>3
  <1>11. CASE d = 255 /\ c = 255 /\ b = 255 /\ a = 255
    <2>1. Number(0, 0, 0, 0) = 0
      BY Z3 DEF Number
    <2>2. Value(r) = Number(0, 0, 0, 0)
      BY <1>4, <1>5, <1>wrap, <1>11
    <2> QED
      BY <1>6, <1>11, <2>1, <2>2
  <1> QED
    BY <1>7, <1>8, <1>9, <1>10, <1>11

\* shiftLSNL doubles (shiftLSNL.asm:14-34): the bit that leaves a byte enters
\* the one before it, and only the topmost bit of all is lost.
THEOREM ShiftLSNLDoubles ==
    ASSUME NEW l \in LSNs
    PROVE  /\ shiftLSNL(l) \in LSNs
           /\ Value(shiftLSNL(l)) =
                2 * Number(IF l[1] >= 128 THEN l[1] - 128 ELSE l[1], l[2], l[3], l[4])
  <1> DEFINE r == shiftLSNL(l)
             c(x) == IF x >= 128 THEN 1 ELSE 0
  <1>1. PICK a \in 0..255, b \in 0..255, d \in 0..255, e \in 0..255 :
            a = l[1] /\ b = l[2] /\ d = l[3] /\ e = l[4]
    BY Bytes, ZenonT(30)
  <1>2. Value(r) = Number(r[1], r[2], r[3], r[4])
    BY ValueIsNumber
  <1>3. /\ r[4] = (2 * e + 0) % 256
        /\ r[3] = (2 * d + c(e)) % 256
        /\ r[2] = (2 * b + c(d)) % 256
        /\ r[1] = (2 * a + c(b)) % 256
    BY <1>1 DEF shiftLSNL, CarryInto
  <1>4. shiftLSNL(l) \in LSNs
    <2>1. \A n \in Nat : n % 256 \in Byte
      BY Z3 DEF Byte
    <2>2. \A i \in 1..4 : (2 * l[i] + CarryInto(l, i)) \in Nat
      BY DEF LSNs, Byte, CarryInto
    <2> QED
      BY <2>1, <2>2 DEF shiftLSNL, LSNs
  <1> HIDE DEF r
  <1>5. Number((2 * a + c(b)) % 256, (2 * b + c(d)) % 256,
               (2 * d + c(e)) % 256, (2 * e + 0) % 256)
        = 2 * Number(IF a >= 128 THEN a - 128 ELSE a, b, d, e)
    BY Z3 DEF Number
  <1> HIDE DEF c
  <1>6. Value(r) = 2 * Number(IF a >= 128 THEN a - 128 ELSE a, b, d, e)
    BY <1>2, <1>3, <1>5
  <1> QED
    BY <1>1, <1>4, <1>6 DEF r

-----------------------------------------------------------------------------
(* The invariant of the disk commands.                                     *)

Unmoved == "moved" \notin trouble

\* A card that takes its time has nothing to give; one that has something has
\* some of the block it is at.
CardOK ==
    /\ card.busy => card.present /\ ~card.drq
    /\ card.drq => /\ card.present
                   /\ card.lsn \in DOMAIN card.holds
                   /\ card.next \in 1..Units

\* Where the card was at round i of a transfer.
Step(i) == IF card.wide THEN 2 * i - 1 ELSE i

\* Card and buffer are at the same place of the same block.
ReadInv ==
    /\ pc # "prompt" /\ Unmoved => card.present
    /\ pc = "transfer" => pos < Units
    /\ pc = "transfer" /\ Unmoved =>
          /\ card.busy => pos = 0
          /\ card.drq =>
                /\ card.next = Step(pos + 1)
                /\ \A i \in 1..pos :
                      blockBuff[i] = Unit(card.holds[card.lsn], Step(i))
    /\ pc = "read" /\ Unmoved =>
          ~card.busy /\ blockBuff = Whole(card.holds[card.lsn])

\* The boot block is the first that a command reads.
First ==
    /\ got \in Seq(Blocks)
    /\ pc \in {"diagWait", "setWait"} => got = <<>> /\ caller = "disk"
    /\ pc \in {"transfer", "read"} => (got = <<>> <=> caller \in {"disk", "load"})
    /\ pc = "list" => got # <<>>

DiskInv == TypeOK /\ CardOK /\ ReadInv /\ First /\ DirIsThisDisks

(***************************************************************************)
(* The sum of the FATs.                                                    *)
(***************************************************************************)
SumAfter(r, p, k) == (r + k * p) % 65536

LEMMA OneMore ==
    ASSUME NEW r \in Word, NEW p \in Word, NEW k \in 1..255
    PROVE  addd(SumAfter(r, p, k - 1), p) = SumAfter(r, p, k)
  <1> DEFINE x == r + (k - 1) * p
  <1>1. x \in Nat /\ p \in Nat /\ x + p = r + k * p
    BY DEF Word
  <1> HIDE DEF x
  <1>2. ((x % 65536) + p) % 65536 = (x + p) % 65536
    BY <1>1
  <1>3. (r + (k - 1) * p) % 65536 = x % 65536
    BY DEF x
  <1> QED
    BY <1>1, <1>2, <1>3 DEF SumAfter, addd

LEMMA SumIsWord ==
    ASSUME NEW r \in Word, NEW p \in Word, NEW k \in 0..255
    PROVE  SumAfter(r, p, k) \in Word /\ SumAfter(r, p, 0) = r
  <1> DEFINE x == k * p
  <1>1. x \in Nat /\ r \in Nat /\ r < 65536 /\ 0 * p = 0
    BY DEF Word
  <1> HIDE DEF x
  <1>2. (r + x) % 65536 \in Nat /\ (r + x) % 65536 < 65536
    BY <1>1
  <1>3. SumAfter(r, p, k) = (r + x) % 65536
    BY DEF SumAfter, x
  <1>4. SumAfter(r, p, 0) = r
    BY <1>1 DEF SumAfter
  <1> QED
    BY <1>2, <1>3, <1>4 DEF Word

LEMMA WordValue ==
    ASSUME NEW w \in Word
    PROVE  WordLSN(w) \in LSNs /\ Value(WordLSN(w)) = w
  <1>1. w \div 256 \in Byte /\ w % 256 \in Byte /\ 256 * (w \div 256) + (w % 256) = w
    BY DEF Word, Byte
  <1>2. WordLSN(w) \in LSNs
    BY <1>1 DEF WordLSN, LSNs, Byte
  <1>3. /\ WordLSN(w)[1] = 0 /\ WordLSN(w)[2] = 0
        /\ WordLSN(w)[3] = w \div 256 /\ WordLSN(w)[4] = w % 256
    BY DEF WordLSN
  <1> QED
    BY <1>1, <1>2, <1>3 DEF Value, Upper, Lower, Byte

LEMMA ClearIsZero == clearLSN \in LSNs /\ Value(clearLSN) = 0
  BY DEF clearLSN, LSNs, Byte, Value, Upper, Lower

\* One round for each FAT, the function that goes round, and what it comes to.
Round(r, p, s) == [k \in 0..255 |-> IF k = 0 THEN r ELSE addd(s[k - 1], p)]
Sums(r, p) == CHOOSE s : s = Round(r, p, s)
Ends(r, p) == [k \in 0..255 |-> SumAfter(r, p, k)]

LEMMA EndsGoRound ==
    ASSUME NEW r \in Word, NEW p \in Word
    PROVE  Ends(r, p) = Round(r, p, Ends(r, p))
  <1> DEFINE e == Ends(r, p)
  <1>1. \A k \in 0..255 : e[k] = SumAfter(r, p, k)
    BY DEF Ends
  <1>2. e = [k \in 0..255 |-> SumAfter(r, p, k)]
    BY DEF Ends
  <1> HIDE DEF e
  <1>3. ASSUME NEW k \in 0..255
        PROVE  SumAfter(r, p, k) = IF k = 0 THEN r ELSE addd(e[k - 1], p)
    <2>1. CASE k = 0
      BY <2>1, SumIsWord
    <2>2. CASE k # 0
      <3>1. k \in 1..255 /\ k - 1 \in 0..255
        BY <2>2
      <3>2. e[k - 1] = SumAfter(r, p, k - 1)
        BY <1>1, <3>1
      <3> QED
        BY <2>2, <3>1, <3>2, OneMore
    <2> QED
      BY <2>1, <2>2
  <1>4. [k \in 0..255 |-> SumAfter(r, p, k)] = Round(r, p, e)
    BY <1>3 DEF Round
  <1>5. e = Round(r, p, e)
    BY <1>2, <1>4, Zenon
  <1> QED
    BY <1>5, Zenon DEF e

LEMMA SumsGoRound ==
    ASSUME NEW r \in Word, NEW p \in Word
    PROVE  /\ Sums(r, p)[0] = r
           /\ \A k \in 1..255 : Sums(r, p)[k] = addd(Sums(r, p)[k - 1], p)
  <1>1. \E s : s = Round(r, p, s)
    BY EndsGoRound, Zenon
  <1>2. Sums(r, p) = Round(r, p, Sums(r, p))
    BY <1>1, Zenon DEF Sums
  <1> DEFINE s == Sums(r, p)
  <1>3. s[0] = Round(r, p, s)[0] /\ \A k \in 1..255 : s[k] = Round(r, p, s)[k]
    BY <1>2, Zenon
  <1> HIDE DEF s
  <1>4. /\ Round(r, p, s)[0] = r
        /\ \A k \in 1..255 : Round(r, p, s)[k] = addd(s[k - 1], p)
    BY DEF Round
  <1>5. s[0] = r /\ \A k \in 1..255 : s[k] = addd(s[k - 1], p)
    BY <1>3, <1>4, Zenon
  <1> QED
    BY <1>5, Zenon DEF s

\* By the first round that would be wrong.
LEMMA SumsAreEnds ==
    ASSUME NEW r \in Word, NEW p \in Word, NEW n \in 0..255
    PROVE  Sums(r, p)[n] = SumAfter(r, p, n)
  <1> DEFINE s == Sums(r, p)
             wrong == {k \in 0..255 : s[k] # SumAfter(r, p, k)}
  <1>1. s[0] = r /\ \A k \in 1..255 : s[k] = addd(s[k - 1], p)
    BY SumsGoRound, ZenonT(30)
  <1> HIDE DEF s
  <1>2. s[0] = SumAfter(r, p, 0)
    BY <1>1, SumIsWord
  <1>3. ASSUME NEW k \in 1..255, s[k - 1] = SumAfter(r, p, k - 1)
        PROVE  s[k] = SumAfter(r, p, k)
    BY <1>1, <1>3, OneMore
  <1>4. wrong = {}
    <2> SUFFICES ASSUME wrong # {} PROVE FALSE
      OBVIOUS
    <2>1. wrong \in SUBSET Nat
      OBVIOUS
    <2>2. PICK k \in wrong : \A j \in wrong : k <= j
      <3> HIDE DEF wrong
      <3> QED
        BY <2>1, LeastOf
    <2>3. k \in 0..255 /\ s[k] # SumAfter(r, p, k)
      OBVIOUS
    <2>4. k \in 1..255
      BY <1>2, <2>3
    <2>5. k - 1 \in 0..255 /\ k - 1 \notin wrong
      <3>1. k - 1 \in 0..255 /\ ~(k <= k - 1)
        BY <2>4
      <3> HIDE DEF wrong
      <3> QED
        BY <2>2, <3>1
    <2>6. s[k - 1] = SumAfter(r, p, k - 1)
      BY <2>5
    <2> HIDE DEF wrong
    <2> QED
      BY <1>3, <2>3, <2>4, <2>6
  <1>5. s[n] = SumAfter(r, p, n)
    BY <1>4
  <1> QED
    BY <1>5 DEF s

\* fatValidDisk's loop, over any number of FATs of any size.
LEMMA RootIsBehindTheFATs ==
    ASSUME NEW boot \in Boots, NEW v
    PROVE  /\ RootDir(boot, v) \in LSNs
           /\ Value(RootDir(boot, v)) =
                 IF v = "valid" THEN SumAfter(boot.reserved, boot.perFat, boot.fats)
                                ELSE 0
  <1> DEFINE r == boot.reserved
             p == boot.perFat
  <1>1. r \in Word /\ p \in Word /\ boot.fats \in 0..255
    BY DEF Boots, Byte
  <1>2. RootDir(boot, v) = IF v = "valid" THEN WordLSN(Sums(r, p)[boot.fats])
                                          ELSE clearLSN
    BY DEF RootDir, Sums, Round
  <1>3. Sums(r, p)[boot.fats] = SumAfter(r, p, boot.fats)
    BY <1>1, SumsAreEnds
  <1>4. SumAfter(r, p, boot.fats) \in Word
    BY <1>1, SumIsWord
  <1> HIDE DEF r, p
  <1>5. RootDir(boot, v) = IF v = "valid" THEN WordLSN(SumAfter(r, p, boot.fats))
                                          ELSE clearLSN
    BY <1>2, <1>3
  <1> QED
    BY <1>4, <1>5, WordValue, ClearIsZero DEF r, p

(***************************************************************************)
(* Blocks, the buffer and the card.                                        *)
(***************************************************************************)
Units32 == [block : Blocks, at : 1..Units]

LEMMA Bounds == Units \in Nat \ {0} /\ MaxSwaps \in Nat /\ Positions \subseteq Nat
  BY DiskAssumption

LEMMA BlocksAre ==
    ASSUME NEW b
    PROVE  b \in Blocks <=> \/ \E d \in Disks : \E n \in DOMAIN d : b = d[n]
                            \/ b = NoBlock \/ b = ZeroBlock
  <1>1. \A d : b \in {d[n] : n \in DOMAIN d} <=> \E n \in DOMAIN d : b = d[n]
    OBVIOUS
  <1>2. b \in Held <=> \E d \in Disks : b \in {d[n] : n \in DOMAIN d}
    BY DEF Held
  <1>3. b \in Blocks <=> b \in Held \/ b = NoBlock \/ b = ZeroBlock
    BY DEF Blocks
  <1> QED
    BY <1>1, <1>2, <1>3

LEMMA BlockTypes ==
    ASSUME NEW b \in Blocks
    PROVE  b.boot \in Boots
  <1>1. NoBlock.boot \in Boots /\ ZeroBlock.boot \in Boots
    BY DEF NoBlock, ZeroBlock, Boots, Word, Byte
  <1>2. CASE \E d \in Disks : \E n \in DOMAIN d : b = d[n]
    BY <1>2, DiskAssumption
  <1> QED
    BY <1>1, <1>2, BlocksAre

LEMMA HeldIsBlock ==
    ASSUME card \in CardTypes, NEW n \in DOMAIN card.holds
    PROVE  card.holds[n] \in Blocks
  <1>1. card.holds \in Disks
    BY DEF CardTypes
  <1> QED
    BY <1>1, BlocksAre

LEMMA UnitTypes ==
    ASSUME NEW b \in Blocks, NEW i \in 1..Units
    PROVE  Unit(b, i) \in Units32 /\ Unit(b, i).block = b
  BY DEF Unit, Units32

LEMMA ClearedBuffer == Whole(ZeroBlock) \in [1..Units -> Units32]
  <1>1. ZeroBlock \in Blocks
    BY BlocksAre
  <1> QED
    BY <1>1, UnitTypes DEF Whole

\* A command leaves in its place the card there is, with nothing to give.
LEMMA CommandLeaves ==
    ASSUME card \in CardTypes, CardOK, NEW c \in {"diag", "set", "read"},
           card' = Command(c)
    PROVE  /\ card' \in CardTypes /\ CardOK'
           /\ card'.present = card.present /\ ~card'.drq
  <1>1. CASE card.present /\ ~card.busy
    <2>1. card' = [card EXCEPT !.busy = TRUE, !.drq = FALSE, !.command = c]
      BY <1>1 DEF Command
    <2> QED
      BY <1>1, <2>1 DEF CardTypes, CardOK
  <1>2. CASE ~(card.present /\ ~card.busy)
    <2>1. card' = card
      BY <1>2 DEF Command
    <2> QED
      BY <1>2, <2>1 DEF CardOK
  <1> QED
    BY <1>1, <1>2

(***************************************************************************)
(* Every step keeps the invariant.                                         *)
(***************************************************************************)
Hardware ==
    /\ card \in CardTypes
    /\ bus \in {"ones", "zeros"} /\ ram7 \in BOOLEAN
    /\ swaps \in 0..MaxSwaps
    /\ trouble \subseteq {"moved", "refused", "notReady"}
Control == pc \in Places /\ caller \in Callers /\ pos \in 0..Units /\ verdict \in Verdicts
Buffer == blockBuff \in [1..Units -> Units32]
Directory == currentDir \in LSNs /\ dirBlock \in LSNs /\ currentDirEnt \in 1..Units

LEMMA TypeParts == TypeOK <=> Hardware /\ Control /\ Buffer /\ Directory
  BY DEF TypeOK, Hardware, Control, Buffer, Directory, Units32

LEMMA InitEstablishes == Init => DiskInv
  <1> SUFFICES ASSUME Init PROVE DiskInv
    OBVIOUS
  <1>1. /\ pc = "prompt" /\ caller = "disk" /\ pos = 0 /\ verdict = "notFAT"
        /\ got = <<>>
    BY DEF Init
  <1>2. /\ currentDir = clearLSN /\ dirBlock = clearLSN /\ currentDirEnt = 1
        /\ blockBuff = Whole(ZeroBlock)
    BY DEF Init
  <1>3. /\ bus \in {"ones", "zeros"} /\ ram7 \in BOOLEAN /\ swaps = 0 /\ trouble = {}
        /\ \E d \in Disks : card = Card(d)
    BY DEF Init
  <1>4. card \in CardTypes /\ CardOK
    BY <1>3 DEF Card, CardTypes, CardOK
  <1>5. TypeOK
    <2>1. Hardware
      BY <1>3, <1>4, Bounds DEF Hardware
    <2>2. Control
      BY <1>1, Bounds DEF Control, Places, Callers, Verdicts
    <2>3. Buffer
      BY <1>2, ClearedBuffer DEF Buffer
    <2>4. Directory
      BY <1>2, Bounds, ClearIsZero DEF Directory
    <2> QED
      BY <2>1, <2>2, <2>3, <2>4, TypeParts
  <1>6. ReadInv
    BY <1>1 DEF ReadInv
  <1>7. First
    BY <1>1 DEF First
  <1>8. DirIsThisDisks
    BY <1>1 DEF DirIsThisDisks
  <1> QED
    BY <1>4, <1>5, <1>6, <1>7, <1>8 DEF DiskInv

\* The commands.
LEMMA CommandKeeps == ASSUME DiskInv, DiskFn \/ LoadFn PROVE DiskInv'
  <1>1. Hardware /\ Control /\ Buffer /\ Directory /\ CardOK /\ card \in CardTypes
    BY TypeParts DEF DiskInv, Hardware
  <1>2. card.present \in BOOLEAN
    BY <1>1 DEF CardTypes
  <1>3. /\ card' \in CardTypes /\ CardOK'
        /\ card'.present = card.present /\ ~card'.drq
    BY <1>1, CommandLeaves DEF DiskFn, LoadFn, StartRead
  <1>4. /\ UNCHANGED <<bus, ram7, swaps, blockBuff, dirBlock, currentDirEnt, verdict>>
        /\ currentDir' \in {currentDir, clearLSN}
        /\ got' = <<>>
        /\ \/ pc' = "diagWait" /\ caller' = "disk" /\ pos' = pos
           \/ pc' = "transfer" /\ caller' = "load" /\ pos' = 0
    BY DEF DiskFn, LoadFn, StartRead, env
  <1>5. /\ trouble' \subseteq {"moved", "notReady"}
        /\ ~card.present => "moved" \in trouble'
    BY DEF DiskFn, LoadFn
  <1>6. TypeOK'
    <2>1. Hardware'
      BY <1>1, <1>3, <1>4, <1>5 DEF Hardware
    <2>2. Control'
      BY <1>1, <1>4, Bounds DEF Control, Places, Callers
    <2>3. Buffer' /\ Directory'
      BY <1>1, <1>4, ClearIsZero DEF Buffer, Directory
    <2> QED
      BY <2>1, <2>2, <2>3 DEF TypeOK, Hardware, Control, Buffer, Directory, Units32
  <1>7. ReadInv'
    BY <1>2, <1>3, <1>4, <1>5, Bounds DEF ReadInv, Unmoved
  <1>8. First'
    BY <1>4 DEF First
  <1>9. DirIsThisDisks'
    BY <1>4 DEF DirIsThisDisks
  <1> QED
    BY <1>3, <1>6, <1>7, <1>8, <1>9 DEF DiskInv

\* Behind the diagnostic: 8-bit transfers, and the boot block.
LEMMA InitialisingKeeps == ASSUME DiskInv, SetFeatures \/ ReadBoot PROVE DiskInv'
  <1>1. Hardware /\ Control /\ Buffer /\ Directory /\ CardOK /\ card \in CardTypes
    BY TypeParts DEF DiskInv, Hardware
  <1>2. ReadInv /\ First /\ DirIsThisDisks
    BY DEF DiskInv
  <1>3. /\ card' \in CardTypes /\ CardOK'
        /\ card'.present = card.present /\ ~card'.drq
    BY <1>1, CommandLeaves DEF SetFeatures, ReadBoot, StartRead
  <1>4. /\ UNCHANGED <<bus, ram7, swaps, trouble, blockBuff, dirBlock,
                       currentDirEnt, verdict, got>>
        /\ currentDir' \in {currentDir, clearLSN}
        /\ \/ pc = "diagWait" /\ pc' = "setWait" /\ caller' = caller /\ pos' = pos
           \/ pc = "setWait" /\ pc' = "transfer" /\ caller' = "disk" /\ pos' = 0
    BY DEF SetFeatures, ReadBoot, StartRead, env, reading, fat
  <1>5. got = <<>> /\ caller = "disk"
    BY <1>2, <1>4 DEF First
  <1>6. TypeOK'
    <2>1. Hardware'
      BY <1>1, <1>3, <1>4 DEF Hardware
    <2>2. Control'
      BY <1>1, <1>4, Bounds DEF Control, Places, Callers
    <2>3. Buffer' /\ Directory'
      BY <1>1, <1>4, ClearIsZero DEF Buffer, Directory
    <2> QED
      BY <2>1, <2>2, <2>3 DEF TypeOK, Hardware, Control, Buffer, Directory, Units32
  <1>7. ReadInv'
    BY <1>2, <1>3, <1>4, Bounds DEF ReadInv, Unmoved
  <1>8. First'
    BY <1>4, <1>5 DEF First
  <1>9. DirIsThisDisks'
    BY <1>4, <1>5 DEF DirIsThisDisks
  <1> QED
    BY <1>3, <1>6, <1>7, <1>8, <1>9 DEF DiskInv

LEMMA Parts ==
    ASSUME DiskInv
    PROVE  /\ Hardware /\ Control /\ Buffer /\ Directory
           /\ CardOK /\ card \in CardTypes /\ ReadInv /\ First /\ DirIsThisDisks
  BY TypeParts DEF DiskInv, Hardware

LEMMA AllParts ==
    ASSUME Hardware', Control', Buffer', Directory', CardOK', ReadInv', First',
           DirIsThisDisks'
    PROVE  DiskInv'
  BY DEF DiskInv, TypeOK, Hardware, Control, Buffer, Directory, Units32

LEMMA DirKept ==
    ASSUME DirIsThisDisks, UNCHANGED <<got, currentDir>>, Unmoved' => Unmoved
    PROVE  DirIsThisDisks'
  BY DEF DirIsThisDisks, Unmoved

\* What the card does by itself: a read that is done begins at the beginning.
LEMMA CardDoneKeeps == ASSUME DiskInv, CardDone PROVE DiskInv'
  <1>1. /\ Hardware /\ Control /\ Buffer /\ Directory
        /\ CardOK /\ card \in CardTypes /\ ReadInv /\ First /\ DirIsThisDisks
    BY Parts
  <1>2. /\ UNCHANGED <<bus, ram7, swaps, pc, caller, pos, blockBuff, got, currentDir,
                       dirBlock, currentDirEnt, verdict>>
        /\ trouble' \in {trouble, trouble \cup {"refused"}}
    BY ZenonT(30) DEF CardDone, Refuse, env, reading, fat
  <1>3. /\ card' \in CardTypes /\ card'.present /\ ~card'.busy
        /\ card'.drq => card'.next = 1 /\ card'.lsn \in DOMAIN card'.holds
    <2>1. card.present /\ card.busy /\ ~card.drq
      BY <1>1, ZenonT(30) DEF CardDone, CardOK
    <2>2. CASE \E p \in Positions : card' = [card EXCEPT !.busy = FALSE, !.lsn = p]
      BY <1>1, <2>1, <2>2, Bounds DEF CardTypes
    <2>3. CASE card' = [card EXCEPT !.busy = FALSE, !.wide = FALSE]
      BY <1>1, <2>1, <2>3 DEF CardTypes
    <2>4. CASE /\ card.lsn \in DOMAIN card.holds
               /\ card' = [card EXCEPT !.busy = FALSE, !.drq = TRUE, !.next = 1]
      <3> DEFINE first == 1
      <3>a. first \in Nat \ {0} /\ TRUE \in BOOLEAN /\ FALSE \in BOOLEAN
        OBVIOUS
      <3>b. card' = [card EXCEPT !.busy = FALSE, !.drq = TRUE, !.next = first]
        BY <2>4
      <3>1. card' \in CardTypes
        <4> HIDE DEF first
        <4> QED
          BY <1>1, <3>a, <3>b DEF CardTypes
      <3>2. card'.present /\ ~card'.busy /\ card'.next = 1
        BY <1>1, <2>1, <2>4 DEF CardTypes
      <3>3. card'.lsn = card.lsn /\ card'.holds = card.holds
        BY <1>1, <2>4 DEF CardTypes
      <3> QED
        BY <2>4, <3>1, <3>2, <3>3
    <2>5. CASE card' = [card EXCEPT !.busy = FALSE]
      BY <1>1, <2>1, <2>5 DEF CardTypes
    <2> QED
      BY <2>2, <2>3, <2>4, <2>5, ZenonT(30) DEF CardDone, Refuse
  <1>4. card.busy /\ (Unmoved' <=> Unmoved)
    BY <1>2, ZenonT(30) DEF CardDone, Unmoved
  <1>5. Hardware'
    BY <1>1, <1>2, <1>3 DEF Hardware
  <1>6. Control' /\ Buffer' /\ Directory'
    BY <1>1, <1>2 DEF Control, Buffer, Directory
  <1>7. CardOK'
    BY <1>3, Bounds DEF CardOK
  <1>8. ReadInv'
    BY <1>1, <1>2, <1>3, <1>4 DEF ReadInv, Step
  <1>9. First' /\ DirIsThisDisks'
    BY <1>1, <1>2, <1>4, DirKept DEF First
  <1> QED
    BY <1>5, <1>6, <1>7, <1>8, <1>9, AllParts

\* A card that is moved.
LEMMA MoveKeeps == ASSUME DiskInv, PullOut \/ PutIn PROVE DiskInv'
  <1>1. /\ Hardware /\ Control /\ Buffer /\ Directory
        /\ CardOK /\ card \in CardTypes /\ ReadInv /\ First
    BY Parts
  <1>2. /\ UNCHANGED <<bus, ram7, pc, caller, pos, blockBuff, got, currentDir, dirBlock,
                       currentDirEnt, verdict>>
        /\ trouble' = trouble \cup {"moved"} /\ swaps < MaxSwaps /\ swaps' = swaps + 1
    BY DEF PullOut, PutIn, reading, fat
  <1>3. card' \in CardTypes /\ CardOK'
    <2>1. CASE card' = [card EXCEPT !.present = FALSE, !.busy = FALSE, !.drq = FALSE]
      BY <1>1, <2>1 DEF CardTypes, CardOK
    <2>2. CASE \E d \in Disks : card' = Card(d)
      BY <2>2 DEF Card, CardTypes, CardOK
    <2> QED
      BY <2>1, <2>2 DEF PullOut, PutIn
  <1>4. ~Unmoved'
    BY <1>2 DEF Unmoved
  <1>5. Hardware'
    BY <1>1, <1>2, <1>3, Bounds DEF Hardware
  <1>6. Control' /\ Buffer' /\ Directory'
    BY <1>1, <1>2 DEF Control, Buffer, Directory
  <1>7. ReadInv'
    BY <1>1, <1>2, <1>4 DEF ReadInv
  <1>8. First'
    BY <1>1, <1>2 DEF First
  <1>9. DirIsThisDisks'
    BY <1>4 DEF DirIsThisDisks, Unmoved
  <1> QED
    BY <1>3, <1>5, <1>6, <1>7, <1>8, <1>9, AllParts

\* A round of cfReadBuff: card and buffer go on together; a card at 16 bits runs
\* out of data before the buffer is full.
LEMMA TransferKeeps == ASSUME DiskInv, Transfer PROVE DiskInv'
  <1>1. /\ Hardware /\ Control /\ Buffer /\ Directory
        /\ CardOK /\ card \in CardTypes /\ ReadInv /\ First /\ DirIsThisDisks
    BY Parts
  <1>2. /\ UNCHANGED <<bus, ram7, swaps, trouble, caller, got, currentDir, dirBlock,
                       currentDirEnt, verdict>>
        /\ pc = "transfer" /\ Drq
        /\ blockBuff' = [blockBuff EXCEPT ![pos + 1] = Incoming]
        /\ pos' = pos + 1
        /\ pc' = IF pos + 1 = Units THEN "read" ELSE "transfer"
        /\ card' = IF card.present THEN After(card) ELSE card
    BY DEF Transfer, env, fat
  <1>3. pos \in Nat /\ pos < Units /\ pos + 1 \in 1..Units
    BY <1>1, <1>2, Bounds DEF Control, ReadInv
  <1>4. Incoming \in Units32
    <2>1. CASE card.present
      <3>1. card.drq /\ card.lsn \in DOMAIN card.holds /\ card.next \in 1..Units
        BY <1>1, <1>2, <2>1 DEF Drq, CardOK
      <3>2. card.holds[card.lsn] \in Blocks
        BY <1>1, <3>1, HeldIsBlock
      <3> QED
        BY <2>1, <3>1, <3>2, UnitTypes DEF Incoming
    <2>2. CASE ~card.present
      BY <1>3, <2>2, BlocksAre, UnitTypes DEF Incoming
    <2> QED
      BY <2>1, <2>2
  <1>5. Buffer' /\ blockBuff'[pos + 1] = Incoming
        /\ \A i \in 1..pos : blockBuff'[i] = blockBuff[i]
    BY <1>1, <1>2, <1>3, <1>4 DEF Buffer
  <1>6. /\ card' \in CardTypes /\ CardOK'
        /\ UNCHANGED <<card.present, card.holds, card.lsn, card.wide, card.busy>>
        /\ card.present => /\ card'.next = card.next + (IF card.wide THEN 2 ELSE 1)
                           /\ card'.drq <=> card'.next <= Units
    <2>1. CASE card.present
      <3> DEFINE n == card.next + (IF card.wide THEN 2 ELSE 1)
      <3>1. card' = [card EXCEPT !.next = n, !.drq = n <= Units]
        BY <1>2, <2>1 DEF After
      <3>2. card.drq /\ card.lsn \in DOMAIN card.holds /\ card.next \in 1..Units
        BY <1>1, <1>2, <2>1 DEF Drq, CardOK
      <3>3. n \in 2..Units + 2
        BY <1>1, <3>2, Bounds
      <3> HIDE DEF n
      <3> DEFINE more == n <= Units
      <3>a. more \in BOOLEAN /\ n \in Nat \ {0}
        BY <3>3
      <3>b. card' = [card EXCEPT !.next = n, !.drq = more]
        BY <3>1
      <3> HIDE DEF more
      <3>c. card' \in CardTypes
        BY <1>1, <3>a, <3>b DEF CardTypes
      <3>d. card'.next = n /\ card'.drq = more
        BY <1>1, <3>b DEF CardTypes
      <3>e. UNCHANGED <<card.present, card.holds, card.lsn, card.wide, card.busy>>
        BY <1>1, <3>b DEF CardTypes
      <3>4. /\ card' \in CardTypes /\ card'.next = n /\ (card'.drq <=> n <= Units)
            /\ UNCHANGED <<card.present, card.holds, card.lsn, card.wide, card.busy>>
        BY <3>c, <3>d, <3>e DEF more
      <3>5. CardOK'
        BY <1>1, <2>1, <3>2, <3>3, <3>4, Bounds DEF CardOK
      <3> QED
        BY <3>4, <3>5 DEF n
    <2>2. CASE ~card.present
      BY <1>1, <1>2, <2>2 DEF CardOK
    <2> QED
      BY <2>1, <2>2
  <1>7. ReadInv'
    <2> SUFFICES ASSUME Unmoved' PROVE ReadInv'
      BY <1>2, <1>3, Bounds DEF ReadInv
    <2>1. Unmoved /\ card.present /\ card.drq /\ ~card.busy
      BY <1>1, <1>2 DEF Unmoved, ReadInv, Drq, CardOK
    <2>2. /\ card.next = Step(pos + 1) /\ card.next \in 1..Units
          /\ \A i \in 1..pos : blockBuff[i] = Unit(card.holds[card.lsn], Step(i))
      BY <1>1, <1>2, <2>1 DEF ReadInv, CardOK
    <2>3. Incoming = Unit(card.holds[card.lsn], Step(pos + 1))
      BY <2>1, <2>2 DEF Incoming
    <2>4. \A i \in 1..pos + 1 :
              blockBuff'[i] = Unit(card.holds[card.lsn], Step(i))
      <3> TAKE i \in 1..pos + 1
      <3>1. CASE i = pos + 1
        BY <1>5, <2>3, <3>1
      <3>2. CASE i # pos + 1
        BY <1>3, <1>5, <2>2, <3>2
      <3> QED
        BY <3>1, <3>2
    <2>5. CASE pc' = "transfer"
      <3>1. pos' < Units /\ pos' = pos + 1
        BY <1>2, <1>3, <2>5, Bounds
      <3>2. card'.next = (IF card.wide THEN 2 * (pos + 2) - 1 ELSE pos + 2)
        BY <1>3, <1>6, <2>1, <2>2 DEF Step
      <3> QED
        BY <1>3, <1>6, <2>1, <2>4, <2>5, <3>1, <3>2 DEF ReadInv, Step
    <2>6. CASE pc' = "read"
      <3>1. pos + 1 = Units
        BY <1>2, <2>6
      <3>2. \A i \in 1..Units : Step(i) = i
        BY <1>3, <2>2, <3>1 DEF Step
      <3>3. blockBuff' = [i \in 1..Units |-> blockBuff'[i]]
        BY <1>5 DEF Buffer
      <3>4. blockBuff' = Whole(card.holds[card.lsn])
        BY <2>4, <3>1, <3>2, <3>3 DEF Whole
      <3> QED
        BY <1>6, <2>1, <2>6, <3>4 DEF ReadInv
    <2> QED
      BY <1>2, <2>5, <2>6
  <1>8. Hardware' /\ Directory'
    BY <1>1, <1>2, <1>6 DEF Hardware, Directory
  <1>9. Control'
    BY <1>1, <1>2, <1>3, Bounds DEF Control, Places
  <1>10. First' /\ DirIsThisDisks'
    BY <1>1, <1>2, DirKept DEF First, Unmoved
  <1> QED
    BY <1>5, <1>6, <1>7, <1>8, <1>9, <1>10, AllParts

\* fatValidDisk on a block that has been read: of a card that was not moved the
\* signature at its end is of the same block as its parts at the beginning.
LEMMA BootBlockRead ==
    ASSUME DiskInv, pc = "read"
    PROVE  /\ blockBuff[1].block \in Blocks /\ Verdict \in Verdicts
           /\ RootDir(BootParts, Verdict) \in LSNs
           /\ Unmoved =>
                LET boot == blockBuff[1].block.boot
                IN  Value(RootDir(BootParts, Verdict)) =
                      IF boot.signature /\ boot.size512
                      THEN (boot.reserved + boot.fats * boot.perFat) % 65536 ELSE 0
  <1> DEFINE boot == blockBuff[1].block.boot
  <1>1. /\ Buffer /\ ReadInv
    BY Parts
  <1>2. 1 \in 1..Units /\ Units \in 1..Units
    BY Bounds
  <1>3. blockBuff[1].block \in Blocks
    BY <1>1, <1>2 DEF Buffer, Units32
  <1>4. boot \in Boots
    BY <1>3, BlockTypes
  <1>5. Verdict \in Verdicts
    BY DEF Verdict, Verdicts
  <1>6. RootDir(boot, Verdict) \in LSNs
    BY <1>4, RootIsBehindTheFATs
  <1>7. ASSUME Unmoved
        PROVE  Value(RootDir(boot, Verdict)) =
                  IF boot.signature /\ boot.size512
                  THEN (boot.reserved + boot.fats * boot.perFat) % 65536 ELSE 0
    <2>1. blockBuff = Whole(card.holds[card.lsn])
      BY <1>1, <1>7 DEF ReadInv
    <2>2. blockBuff[Units].block = blockBuff[1].block
      BY <1>2, <2>1 DEF Whole, Unit
    <2>3. Signature <=> boot.signature
      BY <2>2 DEF Signature
    <2>4. Verdict = "valid" <=> boot.signature /\ boot.size512
      BY <2>3, Zenon DEF Verdict, BootParts
    <2>5. Value(RootDir(boot, Verdict)) =
            IF Verdict = "valid"
               THEN SumAfter(boot.reserved, boot.perFat, boot.fats) ELSE 0
      BY <1>4, RootIsBehindTheFATs
    <2> QED
      BY <2>4, <2>5 DEF SumAfter
  <1> QED
    BY <1>3, <1>5, <1>6, <1>7 DEF BootParts

LEMMA OneRead ==
    ASSUME NEW b \in Blocks
    PROVE  /\ Append(<<>>, b) \in Seq(Blocks) /\ Append(<<>>, b) # <<>>
           /\ Append(<<>>, b)[1] = b
  OBVIOUS

LEMMA MoreRead ==
    ASSUME NEW s \in Seq(Blocks), s # <<>>, NEW b \in Blocks
    PROVE  /\ Append(s, b) \in Seq(Blocks) /\ Append(s, b) # <<>>
           /\ Append(s, b)[1] = s[1]
  OBVIOUS

\* The first block that is read says where the directory is.
LEMMA BootBlockKeeps == ASSUME DiskInv, LoadAnswer \/ Rewind PROVE DiskInv'
  <1>1. /\ Hardware /\ Control /\ Buffer /\ Directory
        /\ CardOK /\ card \in CardTypes /\ ReadInv /\ First
    BY Parts
  <1>2. /\ UNCHANGED <<bus, ram7, swaps, trouble, blockBuff>>
        /\ pc = "read" /\ caller \in {"disk", "load"}
        /\ verdict' = Verdict
        /\ currentDir' = RootDir(BootParts, Verdict)
        /\ dirBlock' \in {dirBlock, currentDir'} /\ currentDirEnt' \in {1, currentDirEnt}
        /\ got' = Append(got, blockBuff[1].block)
        /\ \/ pc' = "prompt" /\ UNCHANGED <<card, caller, pos>>
           \/ /\ pc' = "transfer" /\ caller' = "rewind" /\ pos' = 0
              /\ card' = Command("read")
    BY DEF LoadAnswer, Rewind, StartRead, env
  <1>3. got = <<>>
    BY <1>1, <1>2 DEF First
  <1>4. /\ blockBuff[1].block \in Blocks /\ Verdict \in Verdicts
        /\ RootDir(BootParts, Verdict) \in LSNs
    BY <1>2, BootBlockRead
  <1>5. got' \in Seq(Blocks) /\ got' # <<>> /\ got'[1] = blockBuff[1].block
    BY <1>2, <1>3, <1>4, OneRead
  <1>6. /\ card' \in CardTypes /\ CardOK' /\ card'.present = card.present
        /\ pc' = "transfer" => ~card'.drq
    <2>1. CASE UNCHANGED card /\ pc' = "prompt"
      BY <1>1, <2>1 DEF CardOK
    <2>2. CASE card' = Command("read")
      BY <1>1, <2>2, CommandLeaves
    <2> QED
      BY <1>2, <2>1, <2>2
  <1>7. Hardware'
    BY <1>1, <1>2, <1>6 DEF Hardware
  <1>8. Control'
    BY <1>1, <1>2, <1>4, Bounds DEF Control, Places, Callers
  <1>9. Buffer' /\ Directory'
    BY <1>1, <1>2, <1>4, Bounds DEF Buffer, Directory
  <1>10. ReadInv'
    BY <1>1, <1>2, <1>6, Bounds DEF ReadInv, Unmoved
  <1>11. First'
    BY <1>2, <1>5 DEF First
  <1>12. DirIsThisDisks'
    <2>1. Unmoved' <=> Unmoved
      BY <1>2 DEF Unmoved
    <2> QED
      BY <1>2, <1>5, <2>1, BootBlockRead DEF DirIsThisDisks, Unmoved
  <1> QED
    BY <1>6, <1>7, <1>8, <1>9, <1>10, <1>11, <1>12, AllParts

\* Directory blocks follow it, and are listed.
LEMMA ListKeeps ==
    ASSUME DiskInv, Rewound \/ NextBlock \/ ListBoot \/ ListNext
    PROVE  DiskInv'
  <1>1. /\ Hardware /\ Control /\ Buffer /\ Directory
        /\ CardOK /\ card \in CardTypes /\ ReadInv /\ First /\ DirIsThisDisks
    BY Parts
  <1>2. /\ UNCHANGED <<card, bus, ram7, swaps, caller, pos, blockBuff, currentDir,
                       dirBlock, verdict, trouble>>
        /\ pc' \in {"prompt", "list"}
        /\ \/ pc = "read" /\ caller \in {"rewind", "next"}
              /\ got' = Append(got, blockBuff[1].block)
           \/ pc = "list" /\ UNCHANGED got
    BY DEF Rewound, NextBlock, ListBoot, ListNext, GoOn, env, reading, fat
  <1>3. currentDirEnt' \in 1..Units
    BY <1>1, Bounds DEF Directory, Rewound, NextBlock, ListBoot, ListNext, fat
  <1>4. got # <<>> /\ got \in Seq(Blocks)
    BY <1>1, <1>2 DEF First
  <1>5. blockBuff[1].block \in Blocks
    BY <1>1, Bounds DEF Buffer, Units32
  <1>6. got' \in Seq(Blocks) /\ got' # <<>> /\ got'[1] = got[1]
    BY <1>2, <1>4, <1>5, MoreRead
  <1>7. Hardware' /\ CardOK'
    BY <1>1, <1>2 DEF Hardware, CardOK
  <1>8. Control'
    BY <1>1, <1>2 DEF Control, Places
  <1>9. Buffer' /\ Directory'
    BY <1>1, <1>2, <1>3 DEF Buffer, Directory
  <1>10. ReadInv'
    BY <1>1, <1>2 DEF ReadInv, Unmoved
  <1>11. First'
    BY <1>2, <1>6 DEF First
  <1>12. DirIsThisDisks'
    BY <1>1, <1>2, <1>4, <1>6 DEF DirIsThisDisks
  <1> QED
    BY <1>7, <1>8, <1>9, <1>10, <1>11, <1>12, AllParts

LEMMA ListLastKeeps == ASSUME DiskInv, ListLast PROVE DiskInv'
  <1>1. /\ Hardware /\ Control /\ Buffer /\ Directory
        /\ CardOK /\ card \in CardTypes /\ ReadInv /\ First /\ DirIsThisDisks
    BY Parts
  <1>2. /\ UNCHANGED <<bus, ram7, swaps, trouble, blockBuff, got, currentDir,
                       currentDirEnt, verdict>>
        /\ pc = "list" /\ pc' = "transfer" /\ caller' = "next" /\ pos' = 0
        /\ card' = Command("read") /\ dirBlock' = incLSN(dirBlock)
    BY DEF ListLast, StartRead, env
  <1>3. /\ card' \in CardTypes /\ CardOK' /\ card'.present = card.present
        /\ ~card'.drq
    BY <1>1, <1>2, CommandLeaves
  <1>4. Hardware'
    BY <1>1, <1>2, <1>3 DEF Hardware
  <1>5. Control'
    BY <1>1, <1>2, Bounds DEF Control, Places, Callers
  <1>6. Buffer' /\ Directory'
    BY <1>1, <1>2, IncLSNAddsOne DEF Buffer, Directory
  <1>7. ReadInv'
    BY <1>1, <1>2, <1>3, Bounds DEF ReadInv, Unmoved
  <1>8. First'
    BY <1>1, <1>2 DEF First
  <1>9. DirIsThisDisks'
    BY <1>1, <1>2, DirKept DEF Unmoved
  <1> QED
    BY <1>3, <1>4, <1>5, <1>6, <1>7, <1>8, <1>9, AllParts

LEMMA RestKeeps == ASSUME DiskInv, Poke \/ Reset \/ UNCHANGED vars PROVE DiskInv'
  <1>1. /\ Hardware /\ Control /\ Buffer /\ Directory
        /\ CardOK /\ card \in CardTypes /\ ReadInv /\ First /\ DirIsThisDisks
    BY Parts
  <1>2. CASE Poke \/ UNCHANGED vars
    <2>1. /\ UNCHANGED <<card, bus, swaps, pc, caller, pos, blockBuff, got, currentDir,
                         dirBlock, currentDirEnt, verdict, trouble>>
          /\ ram7' \in {ram7, ~ram7}
      BY <1>2 DEF Poke, vars, env, reading, fat
    <2>2. Hardware'
      BY <1>1, <2>1 DEF Hardware
    <2>3. Control' /\ Buffer' /\ Directory' /\ CardOK' /\ First'
      BY <1>1, <2>1 DEF Control, Buffer, Directory, CardOK, First
    <2>4. ReadInv'
      BY <1>1, <2>1 DEF ReadInv, Unmoved, Step
    <2>5. DirIsThisDisks'
      BY <1>1, <2>1, DirKept DEF Unmoved
    <2> QED
      BY <2>2, <2>3, <2>4, <2>5, AllParts
  <1>3. CASE Reset
    <2>1. /\ pc' = "prompt" /\ caller' = "disk" /\ pos' = 0 /\ got' = <<>>
      BY <1>3 DEF Reset
    <2>2. /\ verdict' = "notFAT" /\ trouble' = {} /\ blockBuff' = Whole(ZeroBlock)
          /\ currentDir' = clearLSN /\ dirBlock' = clearLSN /\ currentDirEnt' = 1
          /\ UNCHANGED <<card, bus, ram7, swaps>>
      BY <1>3 DEF Reset, env
    <2>3. Hardware' /\ CardOK'
      BY <1>1, <2>2 DEF Hardware, CardOK
    <2>4. Control'
      BY <2>1, <2>2, Bounds DEF Control, Places, Callers, Verdicts
    <2>5. Buffer' /\ Directory'
      BY <2>2, Bounds, ClearedBuffer, ClearIsZero DEF Buffer, Directory
    <2>6. ReadInv' /\ First' /\ DirIsThisDisks'
      BY <2>1 DEF ReadInv, First, DirIsThisDisks
    <2> QED
      BY <2>3, <2>4, <2>5, <2>6, AllParts
  <1> QED
    BY <1>2, <1>3

LEMMA NextKeeps == DiskInv /\ [Next]_vars => DiskInv'
  <1> SUFFICES ASSUME DiskInv, [Next]_vars PROVE DiskInv'
    OBVIOUS
  <1> QED
    BY CommandKeeps, InitialisingKeeps, CardDoneKeeps, MoveKeeps, TransferKeeps,
       BootBlockKeeps, ListKeeps, ListLastKeeps, RestKeeps
    DEF Next, Firmware, Socket

LEMMA Invariance == Spec => []DiskInv
  BY InitEstablishes, NextKeeps, PTL DEF Spec

(***************************************************************************)
(* The theorems.                                                           *)
(***************************************************************************)
\* Variables keep their types: no entry is looked for outside the buffer, and an LSN
\* is four bytes, whatever the cards hold (fat16.asm, cf_io.asm).
THEOREM TypeCorrect == Spec => []TypeOK
  <1>1. DiskInv => TypeOK
    BY DEF DiskInv
  <1> QED
    BY <1>1, Invariance, PTL

\* A read that returns has the whole block the card is at, unless the card was moved
\* meanwhile: for any cards, refusals, resets and number of blocks (cf_io.asm:128-150).
THEOREM ReadsAreWhole == Spec => []ReadIsWhole
  <1>1. DiskInv => ReadIsWhole
    BY DEF DiskInv, ReadInv, Unmoved, ReadIsWhole
  <1> QED
    BY <1>1, Invariance, PTL

\* The root directory is where the disk just read says it is, for any number of FATs
\* of any size, and never where an earlier disk had it (fat16.asm:46-110).
THEOREM DirectoryIsThisDisks == Spec => []DirIsThisDisks
  <1>1. DiskInv => DirIsThisDisks
    BY DEF DiskInv
  <1> QED
    BY <1>1, Invariance, PTL

-----------------------------------------------------------------------------
(* The listing.                                                            *)

(***************************************************************************)
(* Where the entries are.                                                  *)
(***************************************************************************)
LEMMA Division ==
    ASSUME NEW u \in Nat \ {0}, NEW k \in Nat, NEW r \in Nat, r < u
    PROVE  (u * k + r) \div u = k /\ (u * k + r) % u = r
  <1> DEFINE x == u * k + r
             q == x \div u
             m == x % u
  <1>1. x \in Nat
    OBVIOUS
  <1>2. q \in Nat /\ m \in Nat /\ m < u /\ x = u * q + m
    <2> HIDE DEF x
    <2> QED
      BY <1>1
  <1>3. u * q + m = u * k + r
    BY <1>2
  <1> HIDE DEF x, q, m
  <1>4. ~(q > k)
    <2> SUFFICES ASSUME q > k PROVE FALSE
      OBVIOUS
    <2>1. PICK d \in Nat : q = k + 1 + d
      <3>1. q - k - 1 \in Nat /\ q = k + 1 + (q - k - 1)
        BY <1>2
      <3> QED
        BY <3>1
    <2>2. u * q = u * k + u + u * d
      BY <2>1
    <2>3. u * d \in Nat /\ u * k \in Nat
      OBVIOUS
    <2> QED
      BY <1>2, <1>3, <2>2, <2>3
  <1>5. ~(k > q)
    <2> SUFFICES ASSUME k > q PROVE FALSE
      OBVIOUS
    <2>1. PICK d \in Nat : k = q + 1 + d
      <3>1. k - q - 1 \in Nat /\ k = q + 1 + (k - q - 1)
        BY <1>2
      <3> QED
        BY <3>1
    <2>2. u * k = u * q + u + u * d
      BY <1>2, <2>1
    <2>3. u * d \in Nat /\ u * q \in Nat
      BY <1>2
    <2> QED
      BY <1>2, <1>3, <2>2, <2>3
  <1>6. q = k
    BY <1>2, <1>4, <1>5
  <1>7. m = r
    BY <1>2, <1>3, <1>6
  <1> QED
    BY <1>6, <1>7 DEF q, m, x

LEMMA EntryIs ==
    ASSUME NEW g, NEW k \in Nat, NEW e \in 1..Units
    PROVE  EntryAt(g, Units * k + e) = g[k + 2].entries[e]
  <1>1. Units \in Nat \ {0} /\ e - 1 \in Nat /\ e - 1 < Units
    BY Bounds
  <1>2. (Units * k + (e - 1)) \div Units = k /\ (Units * k + (e - 1)) % Units = e - 1
    BY <1>1, Division
  <1>3. (Units * k + e) - 1 = Units * k + (e - 1) /\ (e - 1) + 1 = e
    BY <1>1
  <1> QED
    BY <1>2, <1>3, Zenon DEF EntryAt

LEMMA WhereIs ==
    ASSUME NEW m \in Nat, NEW n \in Nat \ {0}, n <= Units * m
    PROVE  \E k \in Nat, e \in 1..Units : k < m /\ n = Units * k + e
  <1> DEFINE x == n - 1
             q == x \div Units
             r == x % Units
  <1>1. Units \in Nat \ {0} /\ x \in Nat /\ n = x + 1
    BY Bounds
  <1>2. q \in Nat /\ r \in Nat /\ r < Units /\ x = Units * q + r
    <2> HIDE DEF x
    <2> QED
      BY <1>1
  <1> HIDE DEF x, q, r
  <1>3. q < m
    <2> SUFFICES ASSUME ~(q < m) PROVE FALSE
      OBVIOUS
    <2>1. PICK d \in Nat : q = m + d
      <3>1. q - m \in Nat /\ q = m + (q - m)
        BY <1>2
      <3> QED
        BY <3>1
    <2>2. Units * q = Units * m + Units * d
      BY <1>1, <2>1
    <2>3. Units * d \in Nat /\ Units * m \in Nat
      BY <1>1
    <2> QED
      BY <1>1, <1>2, <2>2, <2>3
  <1>4. r + 1 \in 1..Units /\ n = Units * q + (r + 1)
    BY <1>1, <1>2
  <1> QED
    BY <1>2, <1>3, <1>4

\* A block more does not change the entries there were.
LEMMA EntryKept ==
    ASSUME NEW g \in Seq(Blocks), g # <<>>, NEW b \in Blocks,
           NEW n \in Nat \ {0}, n <= Entries(g)
    PROVE  EntryAt(Append(g, b), n) = EntryAt(g, n)
  <1>1. Len(g) \in Nat \ {0} /\ Len(g) - 1 \in Nat
    OBVIOUS
  <1>2. PICK k \in Nat, e \in 1..Units : k < Len(g) - 1 /\ n = Units * k + e
    BY <1>1, WhereIs DEF Entries
  <1>3. EntryAt(g, n) = g[k + 2].entries[e] /\ EntryAt(Append(g, b), n) = Append(g, b)[k + 2].entries[e]
    BY <1>2, EntryIs
  <1>4. k + 2 \in 1..Len(g)
    BY <1>1, <1>2
  <1>5. Append(g, b)[k + 2] = g[k + 2]
    BY <1>4
  <1> QED
    BY <1>3, <1>5

LEMMA EntriesAre ==
    ASSUME NEW g \in Seq(Blocks), g # <<>>, NEW b \in Blocks
    PROVE  /\ Entries(g) \in Nat /\ Entries(g) = Units * (Len(g) - 1)
           /\ Entries(Append(g, b)) = Units * (Len(g) - 1) + Units
           /\ Entries(Append(g, b)) \in Nat
           /\ Len(Append(g, b)) = Len(g) + 1
           /\ Append(g, b)[Len(g) + 1] = b
  <1>1. Len(g) - 1 \in Nat /\ Len(Append(g, b)) = Len(g) + 1 /\ Units \in Nat
    BY Bounds
  <1>2. Units * (Len(g) - 1) \in Nat /\ Units * ((Len(g) - 1) + 1) = Units * (Len(g) - 1) + Units
    BY <1>1
  <1>3. (Len(g) + 1) - 1 = (Len(g) - 1) + 1
    BY <1>1
  <1>4. Append(g, b)[Len(g) + 1] = b
    OBVIOUS
  <1> QED
    BY <1>1, <1>2, <1>3, <1>4 DEF Entries

LEMMA ListingKept ==
    ASSUME NEW g \in Seq(Blocks), g # <<>>, NEW b \in Blocks,
           NEW n \in Nat, n <= Entries(g)
    PROVE  /\ \A i \in 1..n : EntryAt(Append(g, b), i) = EntryAt(g, i)
           /\ Reaches(Append(g, b), n) <=> Reaches(g, n)
           /\ Visible(Append(g, b), n) = Visible(g, n)
  <1>1. Entries(g) \in Nat
    BY EntriesAre
  <1>2. \A i \in 1..n : EntryAt(Append(g, b), i) = EntryAt(g, i)
    <2> TAKE i \in 1..n
    <2>1. i \in Nat \ {0} /\ i <= Entries(g)
      BY <1>1
    <2> QED
      BY <2>1, EntryKept
  <1>3. \A i \in 1..n : Over(Append(g, b), i) <=> Over(g, i)
    <2> TAKE i \in 1..n
    <2>1. EntryAt(Append(g, b), i) = EntryAt(g, i)
      BY <1>2
    <2>2. i > 1 => EntryAt(Append(g, b), i - 1) = EntryAt(g, i - 1)
      <3>1. i > 1 => i - 1 \in 1..n
        OBVIOUS
      <3> QED
        BY <1>2, <3>1
    <2> QED
      BY <2>1, <2>2 DEF Over
  <1>4. \A i \in 0..n : Reaches(Append(g, b), i) <=> Reaches(g, i)
    <2> TAKE i \in 0..n
    <2>1. 1..i \subseteq 1..n
      OBVIOUS
    <2> QED
      BY <1>3, <2>1, Zenon DEF Reaches
  <1>5. n \in 0..n /\ 1..n \subseteq 0..n
    OBVIOUS
  <1>6. Visible(Append(g, b), n) = Visible(g, n)
    <2>1. \A i \in 1..n : /\ Reaches(Append(g, b), i) <=> Reaches(g, i)
                          /\ EntryAt(Append(g, b), i) = EntryAt(g, i)
      BY <1>2, <1>4, <1>5
    <2> QED
      BY <2>1, Zenon DEF Visible
  <1> QED
    BY <1>2, <1>4, <1>5, <1>6

LEMMA CompleteKept ==
    ASSUME NEW g \in Seq(Blocks), g # <<>>, NEW b \in Blocks, NEW listed,
           NEW n \in Nat, n <= Entries(g), Complete(listed, g, n)
    PROVE  Complete(listed, Append(g, b), n)
  <1>1. Visible(Append(g, b), n) = Visible(g, n)
    BY ListingKept
  <1>2. ASSUME NEW i \in Visible(g, n)
        PROVE  /\ Visible(Append(g, b), i) = Visible(g, i)
               /\ EntryAt(Append(g, b), i) = EntryAt(g, i)
    <2>1. i \in 1..n
      BY DEF Visible
    <2>2. i \in Nat /\ i <= Entries(g)
      BY <2>1, EntriesAre
    <2>3. Visible(Append(g, b), i) = Visible(g, i)
      BY <2>2, ListingKept
    <2>4. EntryAt(Append(g, b), i) = EntryAt(g, i)
      BY <2>1, ListingKept
    <2> QED
      BY <2>3, <2>4
  <1> QED
    BY <1>1, <1>2, Zenon DEF Complete

(***************************************************************************)
(* One entry more.                                                         *)
(***************************************************************************)
LEMMA ReachesMore ==
    ASSUME NEW g, NEW n \in Nat
    PROVE  /\ Reaches(g, n + 1) <=> Reaches(g, n) /\ ~Over(g, n + 1)
           /\ Reaches(g, 0) /\ Reaches(g, 1)
  <1>1. 1..(n + 1) = (1..n) \cup {n + 1} /\ 1..0 = {} /\ 1..1 = {1}
    OBVIOUS
  <1>2. ~Over(g, 1)
    BY DEF Over
  <1> QED
    BY <1>1, <1>2, Zenon DEF Reaches

LEMMA VisibleMore ==
    ASSUME NEW g, NEW n \in Nat
    PROVE  /\ Visible(g, 0) = {}
           /\ Reaches(g, n + 1) /\ EntryAt(g, n + 1) \notin Hidden =>
                 Visible(g, n + 1) = Visible(g, n) \cup {n + 1}
           /\ ~(Reaches(g, n + 1) /\ EntryAt(g, n + 1) \notin Hidden) =>
                 Visible(g, n + 1) = Visible(g, n)
           /\ n + 1 \notin Visible(g, n)
           /\ IsFiniteSet(Visible(g, n)) /\ Cardinality(Visible(g, n)) \in Nat
  <1>1. 1..(n + 1) = (1..n) \cup {n + 1} /\ 1..0 = {} /\ n + 1 \notin 1..n
    OBVIOUS
  <1>2. \A i : i \in Visible(g, n + 1) <=>
                  i \in 1..(n + 1) /\ Reaches(g, i) /\ EntryAt(g, i) \notin Hidden
    BY Zenon DEF Visible
  <1>3. \A i : i \in Visible(g, n) <=>
                  i \in 1..n /\ Reaches(g, i) /\ EntryAt(g, i) \notin Hidden
    BY Zenon DEF Visible
  <1>4. Reaches(g, n + 1) /\ EntryAt(g, n + 1) \notin Hidden =>
                 Visible(g, n + 1) = Visible(g, n) \cup {n + 1}
    BY <1>1, <1>2, <1>3, Zenon
  <1>5. ~(Reaches(g, n + 1) /\ EntryAt(g, n + 1) \notin Hidden) =>
                 Visible(g, n + 1) = Visible(g, n)
    BY <1>1, <1>2, <1>3, Zenon
  <1>6. IsFiniteSet(Visible(g, n)) /\ Cardinality(Visible(g, n)) \in Nat
    <2>1. IsFiniteSet(1..n)
      BY FS_Interval
    <2>2. Visible(g, n) \in SUBSET (1..n)
      BY <1>3, Zenon
    <2>3. IsFiniteSet(Visible(g, n))
      BY <2>1, <2>2, FS_Subset
    <2> QED
      BY <2>3, FS_CardinalityType
  <1>7. Visible(g, 0) = {}
    BY <1>1, Zenon DEF Visible
  <1> QED
    BY <1>1, <1>3, <1>4, <1>5, <1>6, <1>7, Zenon

\* Behind the last entry there is nothing more to see.
LEMMA NothingMore ==
    ASSUME NEW g, NEW n \in Nat, ~Reaches(g, n + 1), NEW m \in Nat, n <= m
    PROVE  Visible(g, m) = Visible(g, n)
  <1>1. \A i \in 1..m : i > n => ~Reaches(g, i)
    <2> TAKE i \in 1..m
    <2>1. i > n => 1..(n + 1) \subseteq 1..i
      OBVIOUS
    <2> QED
      BY <2>1, Zenon DEF Reaches
  <1>2. 1..n \subseteq 1..m /\ \A i \in 1..m : i <= n <=> i \in 1..n
    OBVIOUS
  <1>3. \A i \in 1..m : ~(i > n) => i <= n
    OBVIOUS
  <1> QED
    BY <1>1, <1>2, <1>3, Zenon DEF Visible

LEMMA CompleteToTheEnd ==
    ASSUME NEW g, NEW n \in Nat, NEW listed, Complete(listed, g, n), ~Reaches(g, n + 1),
           NEW m \in Nat, n <= m
    PROVE  Complete(listed, g, m)
  BY NothingMore, Zenon DEF Complete

\* What fatPrintDirEnt prints.
WithEntry(listed, e) == IF e \in Hidden THEN listed ELSE Append(listed, e)

LEMMA CompleteMore ==
    ASSUME NEW g, NEW n \in Nat, NEW listed \in Seq(Kinds), Complete(listed, g, n),
           Reaches(g, n + 1), EntryAt(g, n + 1) \in Kinds
    PROVE  /\ Complete(WithEntry(listed, EntryAt(g, n + 1)), g, n + 1)
           /\ WithEntry(listed, EntryAt(g, n + 1)) \in Seq(Kinds)
  <1> DEFINE e == EntryAt(g, n + 1)
             old == Visible(g, n)
             new == Visible(g, n + 1)
  <1>1. IsFiniteSet(old) /\ Cardinality(old) \in Nat /\ n + 1 \notin old
    BY VisibleMore
  <1>2. /\ Len(listed) = Cardinality(old)
        /\ \A i \in old : listed[Cardinality(Visible(g, i))] = EntryAt(g, i)
    BY Zenon DEF Complete
  <1>3. CASE e \in Hidden
    <2>1. new = old
      BY <1>3, VisibleMore
    <2>2. Complete(listed, g, n + 1)
      BY <1>2, <2>1, Zenon DEF Complete
    <2> QED
      BY <1>3, <2>2 DEF WithEntry
  <1>4. CASE e \notin Hidden
    <2>1. new = old \cup {n + 1}
      BY <1>4, VisibleMore
    <2>2. Cardinality(new) = Cardinality(old) + 1
      <3> HIDE DEF old, new
      <3> QED
        BY <1>1, <2>1, FS_AddElement
    <2>3. \A i \in old : Cardinality(Visible(g, i)) \in 1..Len(listed)
      <3> SUFFICES ASSUME NEW i \in old PROVE Cardinality(Visible(g, i)) \in 1..Len(listed)
        OBVIOUS
      <3>1. i \in 1..n /\ Reaches(g, i) /\ EntryAt(g, i) \notin Hidden
        BY DEF Visible
      <3>2. i \in Nat /\ i # 0 /\ 1..i \subseteq 1..n /\ i \in 1..i
        BY <3>1
      <3>3. Visible(g, i) \subseteq old /\ i \in Visible(g, i)
        BY <3>1, <3>2, Zenon DEF Visible
      <3>4. IsFiniteSet(Visible(g, i)) /\ Cardinality(Visible(g, i)) \in Nat
        BY <3>2, VisibleMore
      <3>5. Cardinality(Visible(g, i)) <= Cardinality(old)
        <4> HIDE DEF old
        <4> QED
          BY <1>1, <3>3, FS_Subset
      <3>6. Cardinality(Visible(g, i)) # 0
        BY <3>3, <3>4, FS_EmptySet
      <3> HIDE DEF old
      <3> QED
        BY <1>1, <1>2, <3>4, <3>5, <3>6
    <2> DEFINE longer == Append(listed, e)
    <2>4. /\ longer \in Seq(Kinds) /\ Len(longer) = Len(listed) + 1
          /\ longer[Len(listed) + 1] = e
          /\ \A k \in 1..Len(listed) : longer[k] = listed[k]
      <3> HIDE DEF e
      <3>1. e \in Kinds
        BY DEF e
      <3> QED
        BY <3>1
    <2>5. ASSUME NEW i \in new PROVE longer[Cardinality(Visible(g, i))] = EntryAt(g, i)
      <3>1. CASE i = n + 1
        BY <1>2, <2>2, <2>4, <3>1
      <3>2. CASE i # n + 1
        <4>1. i \in old
          BY <2>1, <3>2, Zenon
        <4> QED
          BY <1>2, <2>3, <2>4, <4>1, Zenon
      <3> QED
        BY <3>1, <3>2
    <2>6. Len(longer) = Cardinality(new)
      BY <1>2, <2>2, <2>4
    <2>7. Complete(longer, g, n + 1)
      BY <2>5, <2>6, Zenon DEF Complete
    <2> QED
      BY <1>4, <2>4, <2>7, Zenon DEF WithEntry
  <1> QED
    BY <1>3, <1>4

(***************************************************************************)
(* The invariant of a listing: what has been printed is complete up to the *)
(* entry the command is at, and that entry is one of the directory.        *)
(***************************************************************************)
Here == Units * (Len(got) - 2) + currentDirEnt

ListInv ==
    /\ printed \in Seq(Kinds)
    /\ got = <<>> => printed = <<>>
    /\ pc \in {"transfer", "read"} /\ caller = "rewind" =>
          Len(got) = 1 /\ printed = <<>> /\ currentDirEnt = 1
    /\ pc \in {"transfer", "read"} /\ caller = "next" => Len(got) >= 2
    /\ pc = "list" => Len(got) >= 2
    /\ pc \in {"transfer", "read"} /\ caller = "next" /\ Unmoved =>
          /\ Complete(printed, got, Entries(got)) /\ Reaches(got, Entries(got))
          /\ EntryAt(got, Entries(got)) # "boot"
    /\ pc = "list" /\ Unmoved =>
          /\ blockBuff = Whole(got[Len(got)])
          /\ Complete(printed, got, Here - 1) /\ Reaches(got, Here)

\* From fatRewindDir on the command is over if bit 3 of address 7 is set.
RamClear ==
    pc = "list" \/ (pc \in {"transfer", "read"} /\ caller = "next") => ~ram7

\* What is promised when the command is over.
ListingDone ==
    Complete(printed, got, Entries(got)) /\ Ended(got, Entries(got))

LEMMA BlockEntries ==
    ASSUME NEW b \in Blocks, NEW i \in 1..Units
    PROVE  b.entries[i] \in Kinds
  <1>1. NoBlock.entries[i] = "label" /\ ZeroBlock.entries[i] = "end"
    BY DEF NoBlock, ZeroBlock
  <1>2. CASE \E d \in Disks : \E n \in DOMAIN d : b = d[n]
    BY <1>2, DiskAssumption
  <1> QED
    BY <1>1, <1>2, BlocksAre DEF Kinds

LEMMA BufferEntries ==
    ASSUME Buffer, NEW i \in 1..Units
    PROVE  Entry(i) \in Kinds
  <1>1. blockBuff[i] \in Units32
    BY DEF Buffer
  <1>2. blockBuff[i].block \in Blocks /\ blockBuff[i].at \in 1..Units
    BY <1>1 DEF Units32
  <1> QED
    BY <1>2, BlockEntries DEF Entry

\* The entries in the buffer are those of the block it is.
LEMMA WholeEntries ==
    ASSUME NEW b, NEW i \in 1..Units, blockBuff = Whole(b)
    PROVE  Entry(i) = b.entries[i] /\ blockBuff[i].block = b
  BY DEF Entry, Whole, Unit

LEMMA HereIs ==
    ASSUME got \in Seq(Blocks), Len(got) >= 2, currentDirEnt \in 1..Units
    PROVE  /\ Here \in Nat \ {0} /\ Here - 1 \in Nat /\ Here <= Entries(got)
           /\ (currentDirEnt = Units => Here = Entries(got))
           /\ Entries(got) \in Nat \ {0}
           /\ EntryAt(got, Here) = got[Len(got)].entries[currentDirEnt]
  <1> DEFINE k == Len(got) - 2
             x == Units * k
             e == currentDirEnt
  <1>1. k \in Nat /\ Units \in Nat \ {0} /\ e \in 1..Units /\ Len(got) - 1 = k + 1
        /\ k + 2 = Len(got)
    BY Bounds
  <1>2. EntryAt(got, Units * k + e) = got[k + 2].entries[e]
    BY <1>1, EntryIs
  <1>3. x \in Nat /\ Entries(got) = x + Units
    <2> HIDE DEF k
    <2>1. Units * (k + 1) = Units * k + Units /\ Units * k \in Nat
      BY <1>1
    <2> QED
      BY <1>1, <2>1 DEF Entries
  <1>4. Here = x + e
    BY DEF Here
  <1> HIDE DEF x
  <1>5. Here \in Nat \ {0} /\ Here - 1 \in Nat /\ Here <= Entries(got)
        /\ (currentDirEnt = Units => Here = Entries(got)) /\ Entries(got) \in Nat \ {0}
    BY <1>1, <1>3, <1>4
  <1>6. EntryAt(got, Here) = got[Len(got)].entries[currentDirEnt]
    BY <1>1, <1>2, <1>4 DEF x
  <1> QED
    BY <1>5, <1>6

\* Showing the entry the command is at.
LEMMA Shown ==
    ASSUME DiskInv, ListInv, pc = "list", ShowEntry
    PROVE  /\ printed' \in Seq(Kinds)
           /\ got \in Seq(Blocks) /\ got # <<>> /\ Len(got) >= 2 /\ currentDirEnt \in 1..Units
           /\ Unmoved => /\ Complete(printed', got, Here) /\ Reaches(got, Here)
                         /\ EntryAt(got, Here) = Entry(currentDirEnt)
                         /\ blockBuff = Whole(got[Len(got)])
  <1> DEFINE e == Entry(currentDirEnt)
  <1>1. got \in Seq(Blocks) /\ got # <<>> /\ currentDirEnt \in 1..Units /\ Buffer
    BY Parts DEF First, Directory
  <1>2. printed \in Seq(Kinds) /\ Len(got) >= 2
    BY DEF ListInv
  <1>3. e \in Kinds
    BY <1>1, BufferEntries
  <1>4. printed' = WithEntry(printed, e)
    BY DEF ShowEntry, WithEntry
  <1>5. printed' \in Seq(Kinds)
    <2> HIDE DEF e
    <2> QED
      BY <1>2, <1>3, <1>4 DEF WithEntry
  <1>6. ASSUME Unmoved
        PROVE  /\ Complete(printed', got, Here) /\ Reaches(got, Here)
               /\ EntryAt(got, Here) = e /\ blockBuff = Whole(got[Len(got)])
    <2>1. /\ blockBuff = Whole(got[Len(got)])
          /\ Complete(printed, got, Here - 1) /\ Reaches(got, Here)
      BY <1>6 DEF ListInv
    <2>2. EntryAt(got, Here) = e
      BY <1>1, <1>2, <2>1, HereIs, WholeEntries, Zenon
    <2> DEFINE n == Here - 1
    <2>3. n \in Nat /\ n + 1 = Here
      BY <1>1, <1>2, HereIs
    <2> HIDE DEF n, e
    <2>4. Complete(WithEntry(printed, EntryAt(got, n + 1)), got, n + 1)
      <3>1. Complete(printed, got, n)
        BY <2>1 DEF n
      <3>2. Reaches(got, n + 1) /\ EntryAt(got, n + 1) \in Kinds
        BY <1>3, <2>1, <2>2, <2>3
      <3> QED
        BY <1>2, <2>3, <3>1, <3>2, CompleteMore
    <2>5. Complete(printed', got, Here)
      BY <1>4, <2>2, <2>3, <2>4
    <2> QED
      BY <2>1, <2>2, <2>5
  <1> QED
    BY <1>1, <1>2, <1>5, <1>6

\* The block that has been read is the one that is now listed.
LEMMA BlockReadIs ==
    ASSUME DiskInv, pc = "read"
    PROVE  /\ blockBuff[1].block \in Blocks
           /\ Unmoved => blockBuff = Whole(blockBuff[1].block)
  <1>1. Buffer /\ ReadInv /\ 1 \in 1..Units
    BY Parts, Bounds
  <1>2. blockBuff[1].block \in Blocks
    BY <1>1 DEF Buffer, Units32
  <1>3. Unmoved => blockBuff = Whole(card.holds[card.lsn])
    BY <1>1 DEF ReadInv
  <1>4. Unmoved => blockBuff = Whole(blockBuff[1].block)
    BY <1>1, <1>3, WholeEntries, Zenon
  <1> QED
    BY <1>2, <1>4

\* The first block of the directory: nothing has been printed, and its first entry is
\* shown whatever it is.
LEMMA RewoundLists == ASSUME DiskInv, ListInv, Rewound PROVE ListInv'
  <1> DEFINE b == blockBuff[1].block
  <1>1. /\ pc = "read" /\ caller = "rewind" /\ got' = Append(got, b)
        /\ pc' = IF ram7 THEN "prompt" ELSE "list"
        /\ UNCHANGED <<caller, blockBuff, currentDirEnt, printed, trouble>>
    BY Zenon DEF Rewound, reading, fat
  <1>2. /\ Len(got) = 1 /\ printed = <<>> /\ currentDirEnt = 1 /\ got # <<>>
        /\ got \in Seq(Blocks) /\ printed \in Seq(Kinds)
    <2>1. First
      BY Parts
    <2> QED
      BY <1>1, <2>1 DEF ListInv, First
  <1>3. b \in Blocks /\ (Unmoved => blockBuff = Whole(b))
    BY <1>1, BlockReadIs
  <1> HIDE DEF b
  <1>4. Len(got') = 2 /\ got'[2] = b /\ got' # <<>>
    <2>1. Append(got, b) # <<>>
      BY <1>2, <1>3, MoreRead
    <2>2. Len(Append(got, b)) = Len(got) + 1 /\ Append(got, b)[Len(got) + 1] = b
      BY <1>2, <1>3, EntriesAre
    <2> QED
      BY <1>1, <1>2, <2>1, <2>2
  <1>5. Here' = 1
    BY <1>1, <1>2, <1>4, Bounds DEF Here
  <1>6. Complete(<<>>, got', 0)
    <2>1. Visible(got', 0) = {}
      BY VisibleMore
    <2>2. Len(<<>>) = 0
      OBVIOUS
    <2> QED
      BY <2>1, <2>2, FS_EmptySet, Zenon DEF Complete
  <1>7. Reaches(got', 1)
    BY ReachesMore
  <1>8. Here' - 1 = 0 /\ (Unmoved' <=> Unmoved)
    BY <1>1, <1>5 DEF Unmoved
  <1>9. pc' = "list" /\ Unmoved' =>
          /\ blockBuff' = Whole(got'[Len(got')])
          /\ Complete(printed', got', Here' - 1) /\ Reaches(got', Here')
    BY <1>1, <1>2, <1>3, <1>4, <1>5, <1>6, <1>7, <1>8
  <1>10. pc' \in {"prompt", "list"}
    BY <1>1
  <1> QED
    BY <1>1, <1>2, <1>4, <1>9, <1>10 DEF ListInv

\* The next block: its first entry ends the directory, or it is the next.
LEMMA NextBlockLists ==
    ASSUME DiskInv, ListInv, NextBlock
    PROVE  ListInv' /\ (pc' = "prompt" /\ ~ram7 /\ Unmoved => ListingDone')
  <1> DEFINE b == blockBuff[1].block
             n == Entries(got)
  <1>1. /\ pc = "read" /\ caller = "next" /\ got' = Append(got, b)
        /\ UNCHANGED <<caller, blockBuff, printed, trouble>>
        /\ pc' \in {"prompt", "list"}
        /\ pc' = "list" => currentDirEnt' = 1 /\ Entry(1) # "end"
        /\ pc' = "prompt" /\ ~ram7 => Entry(1) = "end"
    BY Zenon DEF NextBlock, GoOn
  <1>2. /\ Len(got) >= 2 /\ printed \in Seq(Kinds)
        /\ Unmoved => /\ Complete(printed, got, n) /\ Reaches(got, n)
                      /\ EntryAt(got, n) # "boot"
    BY <1>1 DEF ListInv
  <1>3. got \in Seq(Blocks) /\ got # <<>>
    BY <1>1, Parts DEF First
  <1>4. b \in Blocks /\ (Unmoved => blockBuff = Whole(b))
    BY <1>1, BlockReadIs
  <1> HIDE DEF b
  <1>5. /\ n = Units * (Len(got) - 1) /\ n \in Nat /\ Entries(got') = n + Units
        /\ Len(got') = Len(got) + 1 /\ got'[Len(got) + 1] = b
        /\ got' # <<>> /\ Len(got) \in Nat
    BY <1>1, <1>3, <1>4, EntriesAre, MoreRead
  <1>6. n > 0 /\ Units \in Nat \ {0} /\ Len(got) - 1 \in Nat /\ (Len(got) - 1) + 2 = Len(got) + 1
    <2>1. n # 0
      BY <1>2, <1>3, <1>5, Bounds
    <2> QED
      BY <1>2, <1>5, <2>1, Bounds
  <1> HIDE DEF n
  <1>7. EntryAt(got', n + 1) = b.entries[1]
    <2>1. 1 \in 1..Units
      BY <1>6
    <2>2. EntryAt(got', Units * (Len(got) - 1) + 1) = got'[(Len(got) - 1) + 2].entries[1]
      BY <1>6, <2>1, EntryIs
    <2> QED
      BY <1>5, <1>6, <2>2
  <1>8. ASSUME Unmoved
        PROVE  /\ Complete(printed, got', n) /\ Reaches(got', n)
               /\ EntryAt(got', n) # "boot" /\ EntryAt(got', n + 1) = Entry(1)
    <2>1. n <= Entries(got) /\ n \in 1..n
      BY <1>5, <1>6 DEF n
    <2>2. Complete(printed, got', n)
      BY <1>1, <1>2, <1>3, <1>4, <1>5, <1>8, <2>1, CompleteKept
    <2>3. Reaches(got', n) /\ EntryAt(got', n) = EntryAt(got, n)
      BY <1>1, <1>2, <1>3, <1>4, <1>5, <1>8, <2>1, ListingKept
    <2>4. 1 \in 1..Units
      BY <1>6
    <2>5. Entry(1) = b.entries[1]
      BY <1>4, <1>8, <2>4, WholeEntries
    <2> QED
      BY <1>2, <1>7, <1>8, <2>2, <2>3, <2>5
  <1>9. Over(got', n + 1) <=> EntryAt(got', n + 1) = "end" \/ EntryAt(got', n) = "boot"
    <2>1. n + 1 > 1 /\ (n + 1) - 1 = n
      BY <1>5, <1>6
    <2> QED
      BY <2>1, Zenon DEF Over
  <1>10. Reaches(got', n + 1) <=> Reaches(got', n) /\ ~Over(got', n + 1)
    BY <1>5, ReachesMore
  <1>11. Unmoved' <=> Unmoved
    BY <1>1 DEF Unmoved
  <1>12. ASSUME pc' = "list", Unmoved'
         PROVE  /\ blockBuff' = Whole(got'[Len(got')])
                /\ Complete(printed', got', Here' - 1) /\ Reaches(got', Here')
    <2>1. Here' = n + 1 /\ Here' - 1 = n
      <3>1. Here' = Units * (Len(got') - 2) + 1
        BY <1>1, <1>12 DEF Here
      <3>2. Len(got') - 2 = Len(got) - 1
        BY <1>5
      <3> QED
        BY <1>5, <3>1, <3>2
    <2>2. Complete(printed', got', n)
      BY <1>1, <1>8, <1>11, <1>12
    <2>3. Reaches(got', n + 1)
      BY <1>1, <1>8, <1>9, <1>10, <1>11, <1>12
    <2>4. blockBuff' = Whole(got'[Len(got')])
      BY <1>1, <1>4, <1>5, <1>11, <1>12
    <2> QED
      BY <2>1, <2>2, <2>3, <2>4
  <1>13. ListInv'
    <2>1. Len(got') >= 2
      BY <1>2, <1>5
    <2> QED
      BY <1>1, <1>2, <1>5, <1>12, <2>1 DEF ListInv
  <1>14. ASSUME pc' = "prompt", ~ram7, Unmoved PROVE ListingDone'
    <2>1. Over(got', n + 1)
      BY <1>1, <1>8, <1>9, <1>14
    <2>2. n + 1 \in 1..(n + Units) /\ n <= n + Units /\ n + Units \in Nat
      BY <1>5, <1>6
    <2>3. Complete(printed, got', n + Units)
      BY <1>5, <1>8, <1>10, <1>14, <2>1, <2>2, CompleteToTheEnd
    <2>4. Ended(got', n + Units)
      BY <2>1, <2>2, Zenon DEF Ended
    <2> QED
      BY <1>1, <1>5, <2>3, <2>4 DEF ListingDone
  <1> QED
    BY <1>13, <1>14

\* The boot file is shown, and is the last.
LEMMA ListBootLists ==
    ASSUME DiskInv, ListInv, ListBoot
    PROVE  ListInv' /\ (Unmoved => ListingDone')
  <1>1. /\ pc = "list" /\ Entry(currentDirEnt) = "boot" /\ ShowEntry /\ pc' = "prompt"
        /\ UNCHANGED <<caller, got, trouble, currentDirEnt>>
    BY Zenon DEF ListBoot, reading
  <1>2. /\ printed' \in Seq(Kinds)
        /\ got \in Seq(Blocks) /\ got # <<>> /\ Len(got) >= 2 /\ currentDirEnt \in 1..Units
        /\ Unmoved => Complete(printed', got, Here) /\ EntryAt(got, Here) = "boot"
    BY <1>1, Shown
  <1>3. ListInv'
    BY <1>1, <1>2 DEF ListInv
  <1>4. ASSUME Unmoved PROVE ListingDone'
    <2> DEFINE n == Here
               all == Entries(got)
    <2>1. n \in Nat \ {0} /\ n <= all /\ all \in Nat
      BY <1>2, HereIs
    <2>2. Complete(printed', got, n) /\ EntryAt(got, n) = "boot"
      BY <1>2, <1>4
    <2> HIDE DEF n, all
    <2>3. Over(got, n + 1)
      <3>1. n + 1 > 1 /\ (n + 1) - 1 = n
        BY <2>1
      <3> QED
        BY <2>2, <3>1, Zenon DEF Over
    <2>4. ~Reaches(got, n + 1)
      BY <2>1, <2>3, ReachesMore
    <2>5. Complete(printed', got, all)
      BY <2>1, <2>2, <2>4, CompleteToTheEnd
    <2>6. n \in 1..all
      BY <2>1
    <2>7. Ended(got, all)
      BY <2>2, <2>6, Zenon DEF Ended
    <2> QED
      BY <1>1, <2>5, <2>7 DEF ListingDone, all
  <1> QED
    BY <1>3, <1>4

\* An entry is shown that is not the last of its block: the next ends the directory,
\* or it is the next.
LEMMA ListNextLists ==
    ASSUME DiskInv, ListInv, ListNext
    PROVE  ListInv' /\ (pc' = "prompt" /\ Unmoved => ListingDone')
  <1> DEFINE n == Here
             all == Entries(got)
  <1>1. /\ pc = "list" /\ Entry(currentDirEnt) # "boot" /\ ShowEntry
        /\ currentDirEnt < Units /\ currentDirEnt' = currentDirEnt + 1
        /\ pc' = IF Entry(currentDirEnt + 1) = "end" THEN "prompt" ELSE "list"
        /\ UNCHANGED <<caller, blockBuff, got, trouble>>
    <2>1. /\ pc = "list" /\ Entry(currentDirEnt) # "boot" /\ ShowEntry
          /\ currentDirEnt < Units /\ currentDirEnt' = currentDirEnt + 1
          /\ GoOn(currentDirEnt')
          /\ UNCHANGED <<caller, blockBuff, got, trouble>>
      BY Zenon DEF ListNext, reading
    <2>2. Entry(currentDirEnt') = Entry(currentDirEnt + 1)
      BY <2>1
    <2> QED
      BY <2>1, <2>2, Zenon DEF GoOn
  <1>2. /\ printed' \in Seq(Kinds)
        /\ got \in Seq(Blocks) /\ got # <<>> /\ Len(got) >= 2 /\ currentDirEnt \in 1..Units
        /\ Unmoved => /\ Complete(printed', got, n) /\ Reaches(got, n)
                      /\ EntryAt(got, n) # "boot" /\ blockBuff = Whole(got[Len(got)])
    BY <1>1, Shown
  <1>3. n \in Nat \ {0} /\ all \in Nat /\ Units \in Nat /\ currentDirEnt + 1 \in 1..Units
    BY <1>1, <1>2, HereIs, Bounds
  <1>4. /\ Here' = Units * (Len(got) - 2) + (currentDirEnt + 1)
        /\ n = Units * (Len(got) - 2) + currentDirEnt
        /\ all = Units * (Len(got) - 1)
    BY <1>1 DEF Here, Entries
  <1>5. Here' = n + 1 /\ n + 1 <= all /\ EntryAt(got, n + 1) = got[Len(got)].entries[currentDirEnt + 1]
    <2> DEFINE k == Len(got) - 2
               x == Units * k
    <2>1. k \in Nat /\ Len(got) - 1 = k + 1 /\ k + 2 = Len(got)
      BY <1>2
    <2>2. EntryAt(got, Units * k + (currentDirEnt + 1)) = got[k + 2].entries[currentDirEnt + 1]
      BY <1>3, <2>1, EntryIs
    <2>3. x \in Nat /\ all = x + Units
      <3> HIDE DEF k, all
      <3>1. Units * (k + 1) = Units * k + Units /\ Units * k \in Nat
        BY <1>3, <2>1
      <3> QED
        BY <1>4, <2>1, <3>1
    <2>4. Here' = x + (currentDirEnt + 1) /\ n = x + currentDirEnt
      BY <1>4
    <2>5. EntryAt(got, x + (currentDirEnt + 1)) = got[Len(got)].entries[currentDirEnt + 1]
      BY <2>1, <2>2
    <2> HIDE DEF k, x, n, all
    <2>6. x + (currentDirEnt + 1) = n + 1 /\ n + 1 <= all
      BY <1>2, <1>3, <2>3, <2>4
    <2> QED
      BY <2>4, <2>5, <2>6
  <1> HIDE DEF n, all
  <1>6. Over(got, n + 1) <=> EntryAt(got, n + 1) = "end" \/ EntryAt(got, n) = "boot"
    <2>1. n + 1 > 1 /\ (n + 1) - 1 = n
      BY <1>3
    <2> QED
      BY <2>1, Zenon DEF Over
  <1>7. Reaches(got, n + 1) <=> Reaches(got, n) /\ ~Over(got, n + 1)
    BY <1>3, ReachesMore
  <1>8. Unmoved => EntryAt(got, n + 1) = Entry(currentDirEnt + 1)
    BY <1>2, <1>3, <1>5, WholeEntries
  <1>9. (Unmoved' <=> Unmoved) /\ Here' - 1 = n
    BY <1>1, <1>3, <1>5 DEF Unmoved
  <1>10. ASSUME pc' = "list", Unmoved'
         PROVE  /\ blockBuff' = Whole(got'[Len(got')])
                /\ Complete(printed', got', Here' - 1) /\ Reaches(got', Here')
    <2>1. Reaches(got, n + 1)
      BY <1>1, <1>2, <1>6, <1>7, <1>8, <1>9, <1>10
    <2> QED
      BY <1>1, <1>2, <1>5, <1>9, <1>10, <2>1
  <1>11. ListInv'
    BY <1>1, <1>2, <1>10 DEF ListInv
  <1>12. ASSUME pc' = "prompt", Unmoved PROVE ListingDone'
    <2>1. Over(got, n + 1)
      BY <1>1, <1>6, <1>8, <1>12
    <2>2. n + 1 \in 1..all /\ n <= all /\ n \in Nat
      BY <1>3, <1>5
    <2>3. Complete(printed', got, all)
      BY <1>2, <1>3, <1>7, <1>12, <2>1, <2>2, CompleteToTheEnd
    <2>4. Ended(got, all)
      BY <2>1, <2>2, Zenon DEF Ended
    <2> QED
      BY <1>1, <2>3, <2>4 DEF ListingDone, all
  <1> QED
    BY <1>11, <1>12

\* The last of its block is shown: all that has been read, and it goes on.
LEMMA ListLastLists == ASSUME DiskInv, ListInv, ListLast PROVE ListInv'
  <1>1. /\ pc = "list" /\ Entry(currentDirEnt) # "boot" /\ ShowEntry
        /\ currentDirEnt = Units /\ pc' = "transfer" /\ caller' = "next"
        /\ UNCHANGED <<got, trouble>>
    BY Zenon DEF ListLast, StartRead
  <1>2. /\ printed' \in Seq(Kinds)
        /\ got \in Seq(Blocks) /\ got # <<>> /\ Len(got) >= 2 /\ currentDirEnt \in 1..Units
        /\ Unmoved => /\ Complete(printed', got, Here) /\ Reaches(got, Here)
                      /\ EntryAt(got, Here) # "boot"
    BY <1>1, Shown
  <1>3. Here = Entries(got)
    BY <1>1, <1>2, HereIs
  <1>4. Unmoved' <=> Unmoved
    BY <1>1 DEF Unmoved
  <1> QED
    BY <1>1, <1>2, <1>3, <1>4 DEF ListInv

\* Before there is anything to list.
LEMMA BeforeLists ==
    ASSUME DiskInv, ListInv,
           DiskFn \/ LoadFn \/ SetFeatures \/ ReadBoot \/ LoadAnswer \/ Rewind \/ Reset
    PROVE  ListInv'
  <1>1. First
    BY Parts
  <1>e. <<>> \in Seq(Kinds)
    OBVIOUS
  <1>2. CASE DiskFn \/ LoadFn \/ Reset
    <2>1. /\ got' = <<>> /\ printed' = <<>>
          /\ pc' \in {"prompt", "diagWait"} \/ (pc' = "transfer" /\ caller' = "load")
      BY <1>2 DEF DiskFn, LoadFn, Reset, StartRead
    <2> QED
      BY <1>e, <2>1 DEF ListInv
  <1>3. CASE SetFeatures \/ ReadBoot
    <2>1. /\ UNCHANGED <<got, printed>>
          /\ pc' = "setWait" \/ (pc' = "transfer" /\ caller' = "disk")
      BY <1>3 DEF SetFeatures, ReadBoot, StartRead, reading, fat
    <2> QED
      BY <2>1 DEF ListInv
  <1>4. CASE LoadAnswer \/ Rewind
    <2> DEFINE b == blockBuff[1].block
    <2>1. /\ pc = "read" /\ caller \in {"disk", "load"} /\ got' = Append(got, b)
          /\ UNCHANGED printed
          /\ pc' = "prompt" \/ (pc' = "transfer" /\ caller' = "rewind" /\ currentDirEnt' = 1)
      BY <1>4 DEF LoadAnswer, Rewind, StartRead
    <2>2. got = <<>> /\ b \in Blocks
      BY <1>1, <2>1, BlockReadIs DEF First
    <2> HIDE DEF b
    <2>3. Len(got') = 1 /\ got' # <<>>
      BY <2>1, <2>2
    <2>4. printed = <<>>
      BY <2>2 DEF ListInv
    <2> QED
      BY <1>e, <2>1, <2>3, <2>4 DEF ListInv
  <1> QED
    BY <1>2, <1>3, <1>4

\* While a block is transferred, or the card moves.
LEMMA MeanwhileLists ==
    ASSUME DiskInv, ListInv,
           Transfer \/ CardDone \/ PullOut \/ PutIn \/ Poke \/ UNCHANGED vars
    PROVE  ListInv' /\ (pc # "prompt" => pc' # "prompt")
  <1>1. CASE Transfer
    <2>1. /\ pc = "transfer" /\ pc' \in {"transfer", "read"}
          /\ UNCHANGED <<caller, got, printed, currentDirEnt, trouble>>
      BY <1>1 DEF Transfer, fat
    <2> QED
      BY <2>1 DEF ListInv, Unmoved
  <1>2. CASE CardDone \/ PullOut \/ PutIn \/ Poke \/ UNCHANGED vars
    <2>1. /\ UNCHANGED <<pc, caller, got, printed, currentDirEnt, blockBuff>>
          /\ Unmoved' => Unmoved
      <3>1. CASE CardDone
        BY <3>1, ZenonT(30) DEF CardDone, Refuse, reading, fat, Unmoved
      <3>2. CASE PullOut \/ PutIn
        BY <3>2 DEF PullOut, PutIn, reading, fat, Unmoved
      <3>3. CASE Poke \/ UNCHANGED vars
        BY <3>3 DEF Poke, vars, reading, fat, Unmoved
      <3> QED
        BY <1>2, <3>1, <3>2, <3>3
    <2>2. Here' = Here
      BY <2>1 DEF Here
    <2> QED
      BY <2>1, <2>2 DEF ListInv
  <1> QED
    BY <1>1, <1>2

LEMMA RamStep == ASSUME RamClear, [Next]_vars PROVE RamClear'
  <1>1. CASE DiskFn \/ LoadFn \/ SetFeatures \/ ReadBoot \/ LoadAnswer \/ Rewind \/ Reset
    <2>1. pc' \in {"prompt", "diagWait", "setWait"} \/ (pc' = "transfer" /\ caller' # "next")
      BY <1>1 DEF DiskFn, LoadFn, SetFeatures, ReadBoot, LoadAnswer, Rewind, Reset, StartRead
    <2> QED
      BY <2>1 DEF RamClear
  <1>2. CASE Rewound \/ NextBlock
    BY <1>2 DEF Rewound, NextBlock, RamClear, GoOn, env
  <1>3. CASE ListBoot \/ ListNext
    BY <1>3 DEF ListBoot, ListNext, RamClear, GoOn, env
  <1>4. CASE ListLast
    BY <1>4 DEF ListLast, StartRead, RamClear, env
  <1>5. CASE Transfer
    <2>1. pc = "transfer" /\ UNCHANGED <<caller, ram7>> /\ pc' \in {"transfer", "read"}
      BY <1>5 DEF Transfer, fat, env
    <2> QED
      BY <2>1 DEF RamClear
  <1>6. CASE CardDone
    <2>1. UNCHANGED <<pc, caller, ram7>>
      BY <1>6, ZenonT(30) DEF CardDone, Refuse, env
    <2> QED
      BY <2>1 DEF RamClear
  <1>7. CASE PullOut \/ PutIn \/ Poke \/ UNCHANGED vars
    BY <1>7 DEF PullOut, PutIn, Poke, vars, env, RamClear
  <1> QED
    BY <1>1, <1>2, <1>3, <1>4, <1>5, <1>6, <1>7 DEF Next, Firmware, Socket

LEMMA ListingStep ==
    ASSUME DiskInv, ListInv, RamClear, [Next]_vars
    PROVE  /\ ListInv'
           /\ (pc # "prompt" /\ pc' = "prompt" /\ caller \in {"rewind", "next"}
               /\ Unmoved /\ got' # <<>>) => IF ram7 THEN printed' = <<>> ELSE ListingDone'
  <1>1. CASE Rewound
    <2>1. /\ ~ram7 => pc' # "prompt"
          /\ pc = "read" /\ caller = "rewind" /\ printed' = printed
      BY <1>1 DEF Rewound, fat
    <2>2. printed' = <<>>
      BY <2>1 DEF ListInv
    <2> QED
      BY <1>1, <2>1, <2>2, RewoundLists
  <1>2. CASE NextBlock \/ ListBoot \/ ListNext
    <2>1. ~ram7
      BY <1>2 DEF NextBlock, ListBoot, ListNext, RamClear
    <2> QED
      BY <1>2, <2>1, NextBlockLists, ListBootLists, ListNextLists
  <1>3. CASE ListLast
    <2>1. pc' # "prompt"
      BY <1>3 DEF ListLast, StartRead
    <2> QED
      BY <1>3, <2>1, ListLastLists
  <1>4. CASE DiskFn \/ LoadFn \/ SetFeatures \/ ReadBoot \/ LoadAnswer \/ Rewind \/ Reset
    <2>1. \/ pc = "prompt" \/ pc' # "prompt" \/ got' = <<>> \/ caller = "load"
      BY <1>4 DEF DiskFn, LoadFn, SetFeatures, ReadBoot, LoadAnswer, Rewind, Reset, StartRead
    <2> QED
      BY <1>4, <2>1, BeforeLists
  <1>5. CASE Transfer \/ CardDone \/ PullOut \/ PutIn \/ Poke \/ UNCHANGED vars
    BY <1>5, MeanwhileLists
  <1> QED
    BY <1>1, <1>2, <1>3, <1>4, <1>5 DEF Next, Firmware, Socket

LEMMA ListBegins == Init => ListInv /\ RamClear
  <1>1. <<>> \in Seq(Kinds)
    OBVIOUS
  <1> QED
    BY <1>1 DEF Init, ListInv, RamClear

\* When a listing is over the operator has seen every entry up to the end or the boot
\* file, each once and in order, on any card, of any number of blocks; or, where bit 3
\* of address 7 is set, nothing at all: as long as the card is not moved
\* (fat16.asm:155-190).
THEOREM ListsTheDirectory == Spec => ListingIsDirectory
  <1>1. ASSUME DiskInv, ListInv, RamClear, [Next]_vars
        PROVE  [ (pc # "prompt" /\ pc' = "prompt" /\ caller \in {"rewind", "next"}
                  /\ "moved" \notin trouble /\ got' # <<>>) =>
                     IF ram7 THEN printed' = <<>>
                     ELSE (Complete(printed, got, Entries(got)) /\ Ended(got, Entries(got)))' ]_vars
    BY <1>1, ListingStep DEF ListingDone, Unmoved
  <1>2. DiskInv /\ ListInv /\ RamClear /\ [Next]_vars => ListInv' /\ RamClear'
    BY ListingStep, RamStep
  <1>3. Spec => [](DiskInv /\ ListInv /\ RamClear)
    BY <1>2, InitEstablishes, NextKeeps, ListBegins, PTL DEF Spec
  <1> QED
    BY <1>1, <1>3, PTL DEF Spec, ListingIsDirectory

-----------------------------------------------------------------------------
(* The image on the host.                                                  *)

\* What readBlock() keeps: a block that was read from the image.
Kept(d, current) ==
    current = -1 \/ (current \in Nat /\ Before(current) /\ Place(current) \in DOMAIN d)
Fresh(d, current, buffer) == current # -1 => buffer = d[Place(current)]

HostInv ==
    /\ image.open => image.disk \in Disks \cup {Missing}
    /\ ~image.open => /\ currentBlock = -1 /\ shown = Nothing /\ blockBuffer \in Blocks
                      /\ ~spoilt
    /\ Kept(image.disk, currentBlock)
    /\ ~spoilt => Fresh(image.disk, currentBlock, blockBuffer)
    /\ HostShowsBlock

\* A block that could be read is the one asked for; one that could not leaves
\* what there was, unless a part of it was read.
GoodRead(d, part, block, current, buffer, r) ==
    /\ Kept(d, r.current)
    /\ r.ok => Place(block) \in DOMAIN d
    /\ r.ok /\ (block = current => Fresh(d, current, buffer)) =>
          r.buffer = d[Place(block)] /\ Fresh(d, r.current, r.buffer)
    /\ ~r.ok /\ ~Torn(d, part, block) /\ Fresh(d, current, buffer)
          => Fresh(d, r.current, r.buffer)

LEMMA BlockRead ==
    ASSUME NEW d, NEW part, NEW block \in Nat, NEW current, NEW buffer, Kept(d, current)
    PROVE  GoodRead(d, part, block, current, buffer,
                    readBlock(d, part, block, current, buffer))
  <1>1. block # -1
    OBVIOUS
  <1>2. CASE block = current
    BY <1>1, <1>2 DEF readBlock, GoodRead, Kept, Fresh
  <1>3. CASE block # current /\ Before(block) /\ Place(block) \in DOMAIN d
    BY <1>1, <1>3 DEF readBlock, GoodRead, Kept, Fresh
  <1>4. CASE block # current /\ ~(Before(block) /\ Place(block) \in DOMAIN d)
    BY <1>1, <1>4 DEF readBlock, GoodRead, Kept, Fresh
  <1> QED
    BY <1>2, <1>3, <1>4

\* Up to 2 GB a block is where it is looked for.
LEMMA PlaceIsBlock == ASSUME NEW block \in Nat, block < 4194304 PROVE Place(block) = block
  BY DEF Place

LEMMA HostBegins == HostInit => HostInv
  BY DEF HostInit, HostInv, Closed, Nothing, Kept, Fresh, HostShowsBlock, Blocks

LEMMA ShowBlockKeeps == ASSUME HostInv, NEW block \in Asked, ShowBlock(block) PROVE HostInv'
  <1> DEFINE d == image.disk
             part == image.part
             r == readBlock(d, part, block, currentBlock, blockBuffer)
  <1>1. /\ image.open /\ image' = image /\ layout' = layout
        /\ currentBlock' = r.current /\ blockBuffer' = r.buffer
        /\ spoilt' = IF r.ok THEN spoilt /\ block = currentBlock
                     ELSE spoilt \/ Torn(d, part, block)
        /\ shown' = [what |-> "block", block |-> block, ok |-> r.ok,
                     listed |-> Listing(r.buffer, layout.entries)]
    BY DEF ShowBlock, Shows, Reads
  <1>2. /\ Kept(d, currentBlock) /\ d \in Disks \cup {Missing}
        /\ ~spoilt => Fresh(d, currentBlock, blockBuffer)
    BY <1>1 DEF HostInv
  <1>3. block \in Nat
    BY HostDiskAssumption
  <1> DEFINE good == GoodRead(d, part, block, currentBlock, blockBuffer, r)
  <1>10. good
    BY <1>2, <1>3, BlockRead, Zenon
  <1> HIDE DEF r, d
  <1>4. /\ Kept(d, r.current)
        /\ r.ok => Place(block) \in DOMAIN d
        /\ r.ok /\ (block = currentBlock => Fresh(d, currentBlock, blockBuffer)) =>
              r.buffer = d[Place(block)] /\ Fresh(d, r.current, r.buffer)
        /\ ~r.ok /\ ~Torn(d, part, block) /\ Fresh(d, currentBlock, blockBuffer)
              => Fresh(d, r.current, r.buffer)
    BY <1>10 DEF GoodRead
  <1>5. ~spoilt' => Fresh(d, r.current, r.buffer) /\ (r.ok => r.buffer = d[Place(block)])
    BY <1>1, <1>2, <1>4
  <1>6. /\ shown'.what = "block" /\ shown'.block = block /\ shown'.ok = r.ok
        /\ shown'.listed = Listing(r.buffer, layout.entries)
    BY <1>1
  <1>7. d' = d
    BY <1>1 DEF d
  <1>8. HostShowsBlock'
    BY <1>1, <1>3, <1>4, <1>5, <1>6, <1>7, PlaceIsBlock DEF HostShowsBlock, d
  <1>9. /\ image'.open /\ d' \in Disks \cup {Missing} /\ Kept(d', currentBlock')
        /\ ~spoilt' => Fresh(d', currentBlock', blockBuffer')
    BY <1>1, <1>2, <1>4, <1>5, <1>7
  <1> QED
    BY <1>8, <1>9 DEF HostInv, d

\* The root directory is where the firmware looks for it.
LEMMA RootOfImage ==
    ASSUME NEW boot \in Boots
    PROVE  /\ boot.reserved + boot.fats * boot.perFat \in Nat
           /\ (boot.reserved + boot.fats * boot.perFat) % 65536 = Value(RootDir(boot, "valid"))
  <1>1. Value(RootDir(boot, "valid")) = SumAfter(boot.reserved, boot.perFat, boot.fats)
    BY RootIsBehindTheFATs
  <1>2. boot.reserved \in Nat /\ boot.fats \in Nat /\ boot.perFat \in Nat
    BY DEF Boots, Byte, Word
  <1>3. \A a, b, c \in Nat : a + b * c \in Nat
    BY Z3
  <1> QED
    BY <1>1, <1>2, <1>3 DEF SumAfter

\* What openDisk() looks at as the boot block.
LEMMA BootBlockSeen ==
    ASSUME NEW d \in Disks \cup {Missing}, NEW part, NEW buffer \in Blocks,
           NEW boot, boot = readBlock(d, part, 0, -1, buffer)
    PROVE  /\ boot.buffer \in Blocks /\ (d # Missing => boot.buffer = d[0])
           /\ Kept(d, boot.current) /\ Fresh(d, boot.current, boot.buffer)
  <1>3. Place(0) = 0 /\ Before(0)
    BY PlaceIsBlock DEF Before
  <1>1. CASE d = Missing
    <2>1. 0 \notin DOMAIN d
      BY <1>1 DEF Missing
    <2>2. boot.current = -1 /\ boot.buffer \in {NoBlock, buffer}
      BY <1>3, <2>1 DEF readBlock
    <2> QED
      BY <1>1, <2>2 DEF Kept, Fresh, Blocks
  <1>2. CASE d # Missing
    <2>1. d \in Disks /\ 0 \in DOMAIN d
      BY <1>2, HostDiskAssumption
    <2>2. boot.buffer = d[0] /\ boot.current = 0
      BY <1>3, <2>1 DEF readBlock
    <2> QED
      BY <1>3, <2>1, <2>2, BlocksAre DEF Kept, Fresh
  <1> QED
    BY <1>1, <1>2

\* What openDisk() leaves.
Opened(d, part, boot, root, r, n) ==
    /\ boot = readBlock(d, part, 0, currentBlock, blockBuffer)
    /\ root = boot.buffer.boot.reserved + boot.buffer.boot.fats * boot.buffer.boot.perFat
    /\ r = readBlock(d, part, root, boot.current, boot.buffer)
    /\ IF n = 0 THEN /\ shown' = [what |-> "died"]
                     /\ UNCHANGED <<blockBuffer, currentBlock, spoilt>>
                ELSE Shows("root", r, root, boot.current)

LEMMA OpenDiskKeeps ==
    ASSUME HostInv, NEW d \in Disks \cup {Missing}, NEW part \in BOOLEAN, openDisk(d, part)
    PROVE  HostInv'
  <1>1. /\ ~image.open /\ image' = [disk |-> d, part |-> part, open |-> TRUE]
        /\ currentBlock = -1 /\ blockBuffer \in Blocks
    BY DEF openDisk, HostInv
  <1>2. PICK boot, root, r, n : Opened(d, part, boot, root, r, n)
    BY Zenon DEF openDisk, Opened
  <1>3. image'.disk = d /\ image'.part = part /\ image'.open
    BY <1>1
  <1>4. boot = readBlock(d, part, 0, -1, blockBuffer)
    BY <1>1, <1>2 DEF Opened
  <1>5. /\ boot.buffer \in Blocks /\ (d # Missing => boot.buffer = d[0])
        /\ Kept(d, boot.current) /\ Fresh(d, boot.current, boot.buffer)
    BY <1>1, <1>4, BootBlockSeen
  <1> DEFINE parts == boot.buffer.boot
  <1>6. parts \in Boots
    BY <1>5, BlockTypes
  <1>7. root \in Nat /\ root % 65536 = Value(RootDir(parts, "valid"))
    BY <1>2, <1>6, RootOfImage DEF Opened
  <1>8. GoodRead(d, part, root, boot.current, boot.buffer, r)
    <2>1. r = readBlock(d, part, root, boot.current, boot.buffer)
      BY <1>2 DEF Opened
    <2> QED
      BY <1>5, <1>7, <2>1, BlockRead
  <1>9. /\ Kept(d, r.current)
        /\ r.ok => Place(root) \in DOMAIN d
        /\ r.ok \/ ~Torn(d, part, root) => Fresh(d, r.current, r.buffer)
        /\ r.ok => r.buffer = d[Place(root)]
    BY <1>5, <1>8 DEF GoodRead
  <1>10. CASE n = 0
    <2>1. /\ shown'.what = "died" /\ currentBlock' = -1
      BY <1>1, <1>2, <1>10 DEF Opened
    <2>2. HostShowsBlock'
      BY <2>1 DEF HostShowsBlock
    <2> QED
      BY <1>3, <2>1, <2>2 DEF HostInv, Kept, Fresh
  <1>11. CASE n # 0
    <2>1. /\ currentBlock' = r.current /\ blockBuffer' = r.buffer
          /\ spoilt' = IF r.ok THEN spoilt /\ root = boot.current
                       ELSE spoilt \/ Torn(d, part, root)
          /\ shown' = [what |-> "root", block |-> root, ok |-> r.ok,
                       listed |-> Listing(r.buffer, layout'.entries)]
      <3>1. Shows("root", r, root, boot.current)
        BY <1>2, <1>11 DEF Opened
      <3>2. /\ currentBlock' = r.current /\ blockBuffer' = r.buffer
            /\ spoilt' = IF r.ok THEN spoilt /\ root = boot.current
                         ELSE spoilt \/ Torn(image'.disk, image'.part, root)
            /\ shown' = [what |-> "root", block |-> root, ok |-> r.ok,
                         listed |-> Listing(r.buffer, layout'.entries)]
        BY <3>1, Zenon DEF Shows, Reads
      <3> QED
        BY <1>3, <3>2, Zenon
    <2>2. /\ shown'.what = "root" /\ shown'.block = root /\ shown'.ok = r.ok
          /\ shown'.listed = Listing(r.buffer, layout'.entries)
      BY <2>1
    <2>3. ~spoilt' => Fresh(d, r.current, r.buffer)
      BY <1>9, <2>1
    <2>4. HostShowsBlock'
      <3>1. shown'.ok /\ shown'.block < 4194304 =>
                         /\ shown'.block \in DOMAIN image'.disk
                         /\ blockBuffer' = image'.disk[shown'.block]
                         /\ shown'.listed = Listing(image'.disk[shown'.block], layout'.entries)
        BY <1>3, <1>7, <1>9, <2>1, <2>2, PlaceIsBlock
      <3>2. ASSUME image'.disk # Missing
            PROVE  shown'.block % 65536 = Value(RootDir(image'.disk[0].boot, "valid"))
        BY <1>3, <1>5, <1>7, <2>2, <3>2
      <3> QED
        BY <3>1, <3>2 DEF HostShowsBlock
    <2> QED
      BY <1>3, <1>9, <2>1, <2>3, <2>4 DEF HostInv
  <1> QED
    BY <1>10, <1>11

LEMMA BothNextKeep ==
    HostInv /\ [TheComputer \/ TheHost]_<<vars, host, using>> => HostInv' /\ [Next]_vars
  <1> SUFFICES ASSUME HostInv, [TheComputer \/ TheHost]_<<vars, host, using>>
               PROVE  HostInv' /\ [Next]_vars
    OBVIOUS
  <1>1. CASE TheHost
    <2>1. HostNext /\ UNCHANGED vars
      BY <1>1 DEF TheHost
    <2>2. HostInv'
      BY <2>1, OpenDiskKeeps, ShowBlockKeeps DEF HostNext
    <2> QED
      BY <2>1, <2>2
  <1>2. CASE TheComputer \/ UNCHANGED <<vars, host, using>>
    <2>1. UNCHANGED host /\ [Next]_vars
      BY <1>2, Zenon DEF TheComputer
    <2>2. HostInv'
      BY <2>1 DEF host, HostInv, HostShowsBlock
    <2> QED
      BY <2>1, <2>2
  <1> QED
    BY <1>1, <1>2

\* What fatdisk shows is the block it was asked for, or readBlock() answered that
\* it could not be read, whatever is asked for in whatever order, up to 2 GB and
\* but for a buffer of which a part was overwritten; and the root
\* directory it lists of a valid disk is the firmware's, for any number of FATs of
\* any size, up to the width of the firmware's words (fatdisk.cpp, fat16.asm).
THEOREM HostShowsTheBlock == BothSpec => []HostShowsBlock
  <1>1. BothInit => HostInv
    BY HostBegins DEF BothInit
  <1>2. HostInv => HostShowsBlock
    BY DEF HostInv
  <1> QED
    BY <1>1, <1>2, BothNextKeep, PTL DEF BothSpec

\* The host does not touch the computer: what is proved of the one holds of a run
\* that has both.
THEOREM ComputerIsLeftAlone == BothSpec => Spec
  <1>1. BothInit => Init /\ HostInv
    BY HostBegins DEF BothInit
  <1> QED
    BY <1>1, BothNextKeep, PTL DEF BothSpec, Spec
=============================================================================
