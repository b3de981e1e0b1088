------------------------------ MODULE Numbers ------------------------------
(***************************************************************************)
(* Numbers as the monitor writes and reads them: printNum, binToHex,       *)
(* binToBin and binToDec of libX09, strToHex of string_functions.asm.      *)
(*                                                                         *)
(* Text is a sequence of character codes.  The count byte in front of a    *)
(* conversion's buffer is the length of the sequence.                      *)
(***************************************************************************)
EXTENDS Stdio, Sequences

DigitChar(d) == IF d < 10 THEN Zero + d ELSE 87 + d
Minus == 45

(***************************************************************************)
(* Writing.                                                                *)
(***************************************************************************)
\* binToHexDigit and the loop of binToBinDigits: a zero in front is left out.
AppendDigit(text, d) == IF d = 0 /\ text = <<>> THEN text ELSE Append(text, DigitChar(d))

\* n in a radix that is a power of two: its digits from the first of len on.
DigitsOf(n, r, len) ==
    LET rest[k \in 0..len] == IF k = 0 THEN n ELSE rest[k - 1] \div r    \* without k digits
        text[i \in 0..len] ==
            IF i = 0 THEN <<>> ELSE AppendDigit(text[i - 1], rest[len - i] % r)
    IN  text[len]

binToHex(n) == IF n = 0 THEN <<Zero>> ELSE DigitsOf(n, 16, 4)

\* Zero is written as a "z".
binToBin(n) == IF n = 0 THEN <<122>> ELSE DigitsOf(n, 2, 16)

\* Thousands, hundreds, tens and ones of the quotient by ten, each counted by
\* subtraction until there is a borrow.
TenthOf(n) ==
    1000 * (n \div 10000) + 100 * ((n % 10000) \div 1000)
    + 10 * ((n % 1000) \div 100) + (n % 100) \div 10

\* A digit is divided off the number that is left and put before those that were.
Divide(state) ==
    LET q == TenthOf(state.left)
    IN  [left |-> q, text |-> <<DigitChar(state.left - 10 * q)>> \o state.text]

\* The last digit comes first, and none after the first when nothing is left;
\* five are the most there are.
binToDec(n) ==
    LET state[i \in 0..5] ==
            IF i = 0 THEN [left |-> IF n < 32768 THEN n ELSE 65536 - n, text |-> <<>>]
            ELSE IF i > 1 /\ state[i - 1].left = 0 THEN state[i - 1]
            ELSE Divide(state[i - 1])
    IN  IF n < 32768 THEN state[5].text ELSE <<Minus>> \o state[5].text

\* Any radix but 2 and 16 is decimal.
printNum(n, radix) ==
    IF radix = 2 THEN binToBin(n)
    ELSE IF radix = 16 THEN binToHex(n)
    ELSE binToDec(n)

(***************************************************************************)
(* Reading.                                                                *)
(***************************************************************************)
\* charToHex, and BadDigit for its carry.
charToHex(c) == HexDigit(c)

\* A digit is pushed while the value is shifted; where the shift overflows it
\* stays on the stack, and strToHex returns to an address with it in front.
Taken(state, c) ==
    IF state.status # "ok" THEN state
    ELSE IF charToHex(c) = BadDigit THEN [state EXCEPT !.status = "error"]
    ELSE IF state.value >= 4096 THEN [state EXCEPT !.status = "lost"]
    ELSE [state EXCEPT !.value = 16 * state.value + charToHex(c)]

strToHex(word) ==
    LET read[i \in 0..Len(word)] ==
            IF i = 0 THEN [value |-> 0, status |-> "ok"] ELSE Taken(read[i - 1], word[i])
    IN  read[Len(word)]

(***************************************************************************)
(* What a text says, by the place of each digit.                           *)
(***************************************************************************)
DigitValue(c) == IF IsDigit(c) THEN c - Zero ELSE c - 87

ValueIn(text, r) ==
    LET value[i \in 0..Len(text)] ==
            IF i = 0 THEN 0 ELSE r * value[i - 1] + DigitValue(text[i])
    IN  value[Len(text)]

\* The number a text that printNum wrote stands for: the only one, but for the
\* "z", which is 0.
Says(text, n, radix) ==
    /\ 1 <= Len(text) /\ Len(text) <= 17
    /\ IF radix = 2 /\ text = <<122>> THEN n = 0
       ELSE IF radix \in {2, 16}
       THEN /\ n = ValueIn(text, radix)
            /\ text[1] # Zero \/ Len(text) = 1
            /\ \A i \in DOMAIN text : DigitValue(text[i]) \in 0..radix - 1
       ELSE IF text[1] = Minus
       THEN /\ n = 65536 - ValueIn(Tail(text), 10) /\ n >= 32768
            /\ text[2] # Zero
       ELSE /\ n = ValueIn(text, 10) /\ n < 32768
            /\ text[1] # Zero \/ Len(text) = 1
=============================================================================
