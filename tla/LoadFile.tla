------------------------------ MODULE LoadFile ------------------------------
(***************************************************************************)
(* What a file for the "load" command is: the two text formats that        *)
(* "help" names (Intel hex and Motorola S-records, bobmon/load_cmd.asm:    *)
(* 110, 134), said by the formats' own rules and not by the loader's.      *)
(*                                                                         *)
(* A file t comes with the records it spells: t.text is its bytes,         *)
(* t.format names the format, t.records says where each record begins, of  *)
(* what type it is and which bytes its digits stand for, t.supported       *)
(* whether the command claims to load it and t.image what memory it then   *)
(* stands for.  A place in the file is the position of a character.        *)
(***************************************************************************)
EXTENDS Stdio, Sequences

Eol == {CR, LF}

NoMemory == [a \in {} |-> 0]

\* The types the command's messages and comments claim (load_cmd.asm:293,
\* 334-343), the one that carries data and the one that ends a file.
Supported(t) == IF t.format = "intel" THEN {0, 1} ELSE {0, 1, 5, 9}
DataType(t)  == IF t.format = "intel" THEN 0 ELSE 1
EndType(t)   == IF t.format = "intel" THEN 1 ELSE 9

-----------------------------------------------------------------------------
(* A record.                                                               *)

\* ":" or "S" and a digit, then two digits a byte.
Lead(t) == IF t.format = "intel" THEN 1 ELSE 2
DigitsOf(t, r, i) == r.at + Lead(t) + 2 * (i - 1)
EndOf(t, r) == DigitsOf(t, r, Len(r.bytes) + 1)

DigitChars(d) == IF d < 10 THEN {48 + d} ELSE {55 + d, 87 + d}

Spelled(t, r) ==
    \A i \in 1..Len(r.bytes) :
       /\ DigitsOf(t, r, i) + 1 <= Len(t.text)
       /\ t.text[DigitsOf(t, r, i)] \in DigitChars(r.bytes[i] \div 16)
       /\ t.text[DigitsOf(t, r, i) + 1] \in DigitChars(r.bytes[i] % 16)

\* The sums of its first bytes: 0 to all of them.
Sums(bytes) ==
    LET s[i \in 0..Len(bytes)] == IF i = 0 THEN 0 ELSE s[i - 1] + bytes[i]
    IN  s

\* Both begin with a length and an address; Intel hex goes on with the type,
\* and both end with a checksum.
Address(r) == 256 * r.bytes[2] + r.bytes[3]
FirstData(t) == IF t.format = "intel" THEN 5 ELSE 4
DataCount(t, r) == Len(r.bytes) - FirstData(t)

IntelRecord(t, r) ==
    /\ t.text[r.at] = Colon
    /\ Len(r.bytes) >= 5
    /\ r.bytes[1] = Len(r.bytes) - 5
    /\ r.bytes[4] = r.type
    /\ Sums(r.bytes)[Len(r.bytes)] % 256 = 0

MotoRecord(t, r) ==
    /\ t.text[r.at] \in {83, 115}                       \* 'S' or 's'
    /\ r.type \in 0..9 /\ t.text[r.at + 1] = Zero + r.type
    /\ Len(r.bytes) >= 4
    /\ r.bytes[1] = Len(r.bytes) - 1
    /\ r.type = EndType(t) => Len(r.bytes) = 4
    /\ Sums(r.bytes)[Len(r.bytes)] % 256 = 255

IsRecord(t, r) ==
    /\ r.at \in Nat \ {0} /\ r.type \in Nat
    /\ r.bytes \in Seq(Byte)
    /\ r.at + 1 <= Len(t.text)
    /\ Spelled(t, r)
    /\ IF t.format = "intel" THEN IntelRecord(t, r) ELSE MotoRecord(t, r)

-----------------------------------------------------------------------------
(* A file.                                                                 *)

\* A line that ends at p is followed by one that begins at q.
NextLine(t, p, q) ==
    /\ p <= Len(t.text) /\ q <= Len(t.text)
    /\ \/ t.text[p] \in Eol /\ q = p + 1
       \/ t.text[p] = CR /\ t.text[p + 1] = LF /\ q = p + 2

\* The lines before the first record: none is empty, and none begins as a
\* record does or with Ctrl-C.  (After an empty one the loader skips the next
\* line, whatever it is.)
LineStart(t, p) == p = 1 \/ t.text[p - 1] \in Eol
Title(t) ==
    LET first == t.records[1].at
    IN  /\ LineStart(t, first)
        /\ \A p \in 1..(first - 1) : LineStart(t, p) =>
              \/ t.text[p] \notin {CTRLC, CR, LF, Colon, 83, 115}
              \/ t.text[p] = LF /\ p > 1 /\ t.text[p - 1] = CR

\* Memory m with the first n data bytes of r stored from the address up.
Window(a, n) == {(a + i) % 65536 : i \in 0..(n - 1)}
Overlay(t, r, m, n) ==
    [x \in DOMAIN m \cup Window(Address(r), n) |->
       IF x \in Window(Address(r), n)
       THEN r.bytes[FirstData(t) + ((x - Address(r)) % 65536)]
       ELSE m[x]]

\* What the first records stand for: none to all of them.
Images(t) ==
    LET m[k \in 0..Len(t.records)] ==
           IF k = 0 THEN NoMemory
           ELSE IF t.records[k].type = DataType(t)
                THEN Overlay(t, t.records[k], m[k - 1], DataCount(t, t.records[k]))
                ELSE m[k - 1]
    IN  m

IsFile(t) ==
    LET last == Len(t.records)
    IN  /\ t.text \in Seq(Byte) /\ t.format \in {"intel", "moto"}
        /\ last \in Nat \ {0}
        /\ \A k \in 1..last : IsRecord(t, t.records[k])
        /\ \A k \in 1..(last - 1) :
              /\ t.records[k].type # EndType(t)
              /\ NextLine(t, EndOf(t, t.records[k]), t.records[k + 1].at)
        /\ Title(t)
        /\ t.supported <=>
              \A k \in 1..last : t.records[k].type \in Supported(t)
        /\ t.supported => /\ t.records[last].type = EndType(t)
                          /\ t.image = Images(t)[last]

\* Every S1 record carries something.
HasData(t) ==
    t.format = "moto" =>
       \A k \in 1..Len(t.records) :
          t.records[k].type = DataType(t) => DataCount(t, t.records[k]) > 0
=============================================================================
