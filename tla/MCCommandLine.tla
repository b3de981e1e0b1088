--------------------------- MODULE MCCommandLine ---------------------------
(***************************************************************************)
(* Keys and lines for the command loop.                                    *)
(***************************************************************************)
EXTENDS CommandLine

\* Up to four keys and a CR: 'd' (three commands begin so), 'U', SPACE, DEL,
\* LF, a byte with the top bit set.
Keys == {100, 85, SPACE, DEL, LF, 228}
KeyLines == {s \o <<CR>> : s \in UNION {[1..n -> Keys] : n \in 0..4}}

\* Each name in full, with 0 to 5 arguments, ended by CR LF.
Arguments(n) == FlattenSeq([i \in 1..n |-> <<SPACE, 49>>])
FullNames == {cmd_table[i].name \o Arguments(n) \o <<CR, LF>> :
                 i \in DOMAIN cmd_table, n \in 0..5}
\* Each beginning of a name.
Beginnings ==
    UNION {{SubSeq(cmd_table[i].name, 1, n) \o <<LF>> :
              n \in DOMAIN cmd_table[i].name} : i \in DOMAIN cmd_table}
\* Something like a name, and nothing like one.
NoNames == {<<103, 111, 111, TAB, 49, CR>>, <<SPACE, 63, SPACE, CR>>, <<LF, LF>>}

Lines == KeyLines \cup FullNames \cup Beginnings \cup NoNames

\* A program that has not ended its row.
Unfinished == {<<65>>}

\* 80 characters and no end.
LongLine == {[i \in 1..80 |-> 120]}
=============================================================================
