------------------------------- MODULE Stdio -------------------------------
(***************************************************************************)
(* What the whole monitor agrees on about characters: the codes of         *)
(* constants.s, the line-end rule of getChar (bobmon/stdio.asm), and the   *)
(* case folding and digit decoding that libX09 puts on top of it.          *)
(*                                                                         *)
(* A character is the byte the UART delivers.  cmpa/blt/bgt compare        *)
(* SIGNED bytes, so a byte of $80 or more lies below every ASCII bound:    *)
(* the ranges below hold for it exactly when the code's branches do.       *)
(***************************************************************************)
EXTENDS Integers

Byte == {n \in Nat : n < 256}
Word == {n \in Nat : n < 65536}

CTRLC == 3
BELL  == 7
BS    == 8
TAB   == 9
LF    == 10
CR    == 13
SPACE == 32
DEL   == 127

Zero  == 48                                  \* '0'
Nine  == 57                                  \* '9'
Colon == 58                                  \* ':'

IsDigit(c) == c \in Zero..Nine
IsUpper(c) == c \in 65..90
IsLower(c) == c \in 97..122

(***************************************************************************)
(* getChar reads another character when it finds a line feed right after a *)
(* carriage return, and turns any other line feed into a carriage return.  *)
(* prev is g.prevChar: the last character getChar RETURNED, so a line feed *)
(* that was turned into a carriage return counts as one.                   *)
(***************************************************************************)
SwallowedNever(prev, raw) == FALSE                  \* a mutant: no such test
Swallowed(prev, raw) == prev = CR /\ raw = LF
Canonical(raw) == IF raw = LF THEN CR ELSE raw

\* getLChar: getChar, with 'A'..'Z' folded to lower case.
LowerCase(c) == IF IsUpper(c) THEN c + 32 ELSE c

\* The value getHexDigit returns for a character that is no digit.
BadDigit == 255

HexDigit(c) ==
    LET l == LowerCase(c)
    IN  IF IsDigit(l) THEN l - Zero
        ELSE IF l \in 97..102 THEN l - 87
        ELSE BadDigit

\* getHexByte shifts the first digit left four places IN A BYTE ...
UpperNibble(c) == (16 * HexDigit(c)) % 256
\* ... and adds the second, leaving the carry of that addition to its caller.
ByteValue(upper, c) == (upper + HexDigit(c)) % 256
ByteCarry(upper, c) == upper + HexDigit(c) > 255

=============================================================================
