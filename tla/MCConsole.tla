----------------------------- MODULE MCConsole -----------------------------
(***************************************************************************)
(* What is typed at, and written to, the console.                          *)
(***************************************************************************)
EXTENDS Console

\* Up to two characters, and some that make two lines.
Texts == UNION {[1..n -> {65, CR, LF}] : n \in 0..2} \cup
         {<<65, LF, LF>>, <<65, CR, LF, CR, LF>>, <<TAB, 65>>}

\* A letter, a new line's two characters, one that is nothing, and three that move
\* the cursor but not putChar's count.
Letters == {65, CR, LF, DEL, BS, TAB, 228}
=============================================================================
