-------------------------------- MODULE LSN --------------------------------
(***************************************************************************)
(* Logical sector numbers (libX09 clearLSN, copyLSN, incLSN, shiftLSNL):   *)
(* four bytes in memory, the most significant first.                       *)
(***************************************************************************)
EXTENDS Stdio

LSNs == [1..4 -> Byte]

clearLSN == [i \in 1..4 |-> 0]

\* What the four bytes stand for.
Upper(l) == 256 * l[1] + l[2]
Lower(l) == 256 * l[3] + l[4]
Value(l) == 65536 * Upper(l) + Lower(l)

\* inca from the last byte on, as long as the result is 0.
incLSN(l) ==
    [i \in 1..4 |-> IF \A j \in i + 1..4 : l[j] = 255
                    THEN (l[i] + 1) % 256 ELSE l[i]]

\* The bit that rola takes over from the byte behind.
CarryInto(l, i) == IF i < 4 /\ l[i + 1] >= 128 THEN 1 ELSE 0

shiftLSNL(l) == [i \in 1..4 |-> (2 * l[i] + CarryInto(l, i)) % 256]

\* An LSN whose upper word is 0.
WordLSN(w) == [i \in 1..4 |-> CASE i = 3 -> w \div 256
                                [] i = 4 -> w % 256
                                [] OTHER -> 0]
=============================================================================
