---------------------------- MODULE CommandLine ----------------------------
(***************************************************************************)
(* The monitor's command loop (bobmon/bobmon.asm, from loop to the call of *)
(* a handler): readCommandLine, matchCommand and singleMatch of            *)
(* commands.asm, makeArgs of args.asm, isBlankLine and skipWhite of        *)
(* string_functions.asm.                                                   *)
(*                                                                         *)
(* A step is one character typed (everything readCommandLine does up to    *)
(* its next getLChar), or, after the end of a line, everything from        *)
(* isBlankLine to the handler or the message.  What a handler does is not  *)
(* here.  The terminal shows what putChar sends: its row is modelled so    *)
(* that what the operator sees can be compared with what is stored.        *)
(*                                                                         *)
(* A definition marked "a mutant" is the one that follows it with a slip a *)
(* programmer could make; nothing here uses it.                            *)
(***************************************************************************)
EXTENDS Stdio, SequencesExt

CONSTANTS
    Typings,       \* what an operator may type at a time: sequences of bytes
    Leftovers,     \* texts a program may leave on the row: sequences of bytes
    MaxLine,       \* MAX_LINE, the size of g.commandLine
    Spare,         \* bytes from its end to g.argc
    MaxArgs        \* MAX_ARGS, the number of pointers in g.argv

\* Of the commands dump has most words, three.
ASSUME CommandLineAssumption ==
    /\ Typings \subseteq Seq(Byte)
    /\ Leftovers \subseteq Seq(Byte)
    /\ MaxLine \in Nat \ {0} /\ Spare \in Nat
    /\ MaxArgs \in Nat /\ MaxArgs >= 3

VARIABLES
    typed,         \* characters on their way from the terminal
    prevChar,      \* g.prevChar
    at,            \* "edit" in readCommandLine, "dispatch" after it, or "lost"
    line,          \* g.commandLine up to the EOS (X points at that)
    row, cursor,   \* the terminal's current row, and where it writes next
    argc,          \* g.argc
    argv,          \* g.argv: for each argument the place it starts at
    spill,         \* what makeArgs wrote beyond g.argv, in order
    outcome        \* what became of the last line

lineVars == <<typed, prevChar, at, line, row, cursor>>
argVars == <<argc, argv, spill>>
vars == <<lineVars, argVars, outcome>>

-----------------------------------------------------------------------------
(* The command table.                                                      *)

Command(handler, name, min, max) ==
    [handler |-> handler, name |-> name, min |-> min, max |-> max]

\* Each name is the handler's, without the Fn.
cmd_table == <<
    Command("binaryFn", <<98, 105, 110, 97, 114, 121>>, 0, 0),
    Command("bootFn", <<98, 111, 111, 116>>, 0, 0),
    Command("cpuFn", <<99, 112, 117>>, 0, 0),
    Command("decimalFn", <<100, 101, 99, 105, 109, 97, 108>>, 0, 0),
    Command("diskFn", <<100, 105, 115, 107>>, 0, 0),
    Command("dumpFn", <<100, 117, 109, 112>>, 0, 2),
    Command("goFn", <<103, 111>>, 0, 1),
    Command("hexadecimalFn",
            <<104, 101, 120, 97, 100, 101, 99, 105, 109, 97, 108>>, 0, 0),
    Command("loadFn", <<108, 111, 97, 100>>, 0, 1),
    Command("radixFn", <<114, 97, 100, 105, 120>>, 0, 1),
    Command("registersFn",
            <<114, 101, 103, 105, 115, 116, 101, 114, 115>>, 0, 0),
    Command("unassembleFn",
            <<117, 110, 97, 115, 115, 101, 109, 98, 108, 101>>, 0, 1),
    Command("windowFn", <<119, 105, 110, 100, 111, 119>>, 0, 1),
    Command("zobFn", <<122, 111, 98>>, 0, 0),
    Command("helpFn", <<104, 101, 108, 112>>, 0, 0) >>

handlers == {cmd_table[i].handler : i \in DOMAIN cmd_table}

\* A mutant: the end of the name matches what goes on.
singleMatchOpen(word, name) ==
    \A i \in DOMAIN word : i \in DOMAIN name => word[i] = name[i]

\* singleMatch: the word as far as it goes.  The name's own EOS matches no
\* character of a word.
singleMatch(word, name) ==
    \A i \in DOMAIN word : i \in DOMAIN name /\ word[i] = name[i]

\* matchCommand counts every match and keeps the last.
matches(word) == {i \in DOMAIN cmd_table : singleMatch(word, cmd_table[i].name)}

-----------------------------------------------------------------------------
(* Words.                                                                  *)

White == {SPACE, TAB}
isBlankLine(s) == \A i \in DOMAIN s : s[i] \in White \cup {CR}

\* A mutant: white space is skipped before the first argument only.
Scanned_OneSpace(s, i, state) ==
    IF state.inArg
    THEN [state EXCEPT !.inArg = s[i] \notin White \cup {CR}]
    ELSE IF s[i] \in White /\ state.starts = <<>> THEN state
    ELSE [starts |-> Append(state.starts, i), inArg |-> TRUE]

\* makeArgs at character i: an argument starts where one is not being skipped
\* and the character is not white, and is over at the next SPACE, TAB or CR.
Scanned(s, i, state) ==
    IF state.inArg
    THEN [state EXCEPT !.inArg = s[i] \notin White \cup {CR}]
    ELSE IF s[i] \in White THEN state
    ELSE [starts |-> Append(state.starts, i), inArg |-> TRUE]

\* The places where the arguments start, found in one pass.
makeArgs(s) ==
    LET scan[i \in 0..Len(s)] ==
            IF i = 0 THEN [starts |-> <<>>, inArg |-> FALSE]
            ELSE Scanned(s, i, scan[i - 1])
    IN  scan[Len(s)].starts

\* The argument that starts at place i, as its handler finds it.
ArgAt(s, i) ==
    LET ends == {j \in i..Len(s) : s[j] \in White \cup {CR}}
    IN  SubSeq(s, i, IF ends = {} THEN Len(s) ELSE Min(ends) - 1)

-----------------------------------------------------------------------------
(* The terminal.                                                           *)

prompt == <<62, SPACE>>                                              \* "> "

\* The messages and the handlers end their last row.  A program that go has
\* started ends it or not.
LeftBy(what) == IF what = "goFn" THEN Leftovers \cup {<<>>} ELSE {<<>>}

\* One character of output; putNL's LF follows a CR.
Emit(screen, c) ==
    LET r == screen.row
        n == screen.cursor
    IN  CASE c = CR -> [screen EXCEPT !.cursor = 0]
          [] c = LF -> [screen EXCEPT !.row = <<>>]
          [] c = BS -> [screen EXCEPT !.cursor = IF n = 0 THEN 0 ELSE n - 1]
          [] c = BELL -> screen
          [] OTHER  -> [row |-> SubSeq(r, 1, n) \o <<c>> \o
                                SubSeq(r, n + 2, Len(r)),
                        cursor |-> n + 1]

Screen == [row |-> row, cursor |-> cursor]

\* What the terminal is after what putChar has sent to it.
Put(screen) == row' = screen.row /\ cursor' = screen.cursor

-----------------------------------------------------------------------------
(* readCommandLine.                                                        *)

\* getLChar: what getChar returns, folded to lower case; echo is off here.
Char == LowerCase(Canonical(Head(typed)))

GetLChar ==
    /\ at = "edit" /\ typed # <<>>
    /\ ~Swallowed(prevChar, Head(typed))
    /\ prevChar' = Canonical(Head(typed))
    /\ typed' = Tail(typed)

SwallowLF ==
    /\ at = "edit" /\ typed # <<>>
    /\ Swallowed(prevChar, Head(typed))
    /\ typed' = Tail(typed)
    /\ UNCHANGED <<prevChar, at, line, row, cursor, argVars, outcome>>

\* A mutant: an unsigned comparison.
PrintableUnsigned(c) == c >= SPACE /\ c # DEL

\* blt is a signed comparison: a byte of $80 or more is not printable.
Printable(c) == c >= SPACE /\ c < DEL

\* Globals are placed downwards from $7FFF (bobmon.lnk:5), each module's below
\* those of the one linked before it: behind g.commandLine are the disk's
\* g.blockBuff and g.LSN (cf_io.asm:24), g.cpuType and g.ramEnd, which nothing
\* in the loop reads, and then g.argc.
Room == MaxLine + Spare

\* The line and its EOS go wherever X points: no length is looked at.  A line
\* that reaches g.argc and g.argv is overwritten while makeArgs reads it, and
\* nothing is said of what comes of that.
rclPrintable ==
    /\ GetLChar
    /\ Printable(Char)
    /\ Put(Emit(Screen, Char))
    /\ line' = Append(line, Char)
    /\ at' = IF Len(line') < Room THEN "edit" ELSE "lost"
    /\ UNCHANGED <<argVars, outcome>>

\* A mutant: the terminal rubs out where there is nothing to delete.
rclDeleteAlways ==
    /\ GetLChar
    /\ Char = DEL
    /\ line' = IF line = <<>> THEN line ELSE Front(line)
    /\ Put(Emit(Emit(Emit(Screen, BS), SPACE), BS))
    /\ UNCHANGED <<at, argVars, outcome>>

rclDelete ==
    /\ GetLChar
    /\ Char = DEL
    /\ IF line = <<>> THEN UNCHANGED <<line, row, cursor>>
       ELSE /\ line' = Front(line)
            /\ Put(Emit(Emit(Emit(Screen, BS), SPACE), BS))
    /\ UNCHANGED <<at, argVars, outcome>>

rclNonPrintable ==
    /\ GetLChar
    /\ ~Printable(Char) /\ Char \notin {CR, DEL}
    /\ Put(Emit(Screen, BELL))
    /\ UNCHANGED <<at, line, argVars, outcome>>

rclEOL ==
    /\ GetLChar
    /\ Char = CR
    /\ Put(Emit(Emit(Screen, CR), LF))
    /\ at' = "dispatch"
    /\ UNCHANGED <<line, argVars, outcome>>

-----------------------------------------------------------------------------
(* The rest of the loop.                                                   *)

\* Back at loop: the prompt, behind what is on the row, and an empty line.
NewLine(left) ==
    /\ at' = "edit" /\ line' = <<>>
    /\ row' = left \o prompt /\ cursor' = Len(left \o prompt)
    /\ UNCHANGED <<typed, prevChar>>

BlankLine ==
    /\ at = "dispatch" /\ isBlankLine(line)
    /\ outcome' = "blank"
    /\ NewLine(<<>>)
    /\ UNCHANGED argVars

\* The verdict on a line of n words of which these commands match the first.
Verdict(found, n) ==
    IF found = {} THEN "unknown"
    ELSE IF Cardinality(found) > 1 THEN "ambiguous"
    ELSE IF n - 1 < cmd_table[Max(found)].min THEN "too few"
    ELSE IF n - 1 > cmd_table[Max(found)].max THEN "too many"
    ELSE cmd_table[Max(found)].handler

RunCommand ==
    /\ at = "dispatch" /\ ~isBlankLine(line)
    /\ LET starts == makeArgs(line)
           inArgv == Min({MaxArgs, Len(starts)})
       IN  /\ argc' = Len(starts)
           /\ argv' = SubSeq(starts, 1, inArgv)
           /\ spill' = SubSeq(starts, inArgv + 1, Len(starts))
           /\ outcome' = Verdict(matches(ArgAt(line, starts[1])), Len(starts))
    /\ \E left \in LeftBy(outcome') : NewLine(left)

Operator ==
    /\ at = "edit" /\ typed = <<>>
    /\ typed' \in Typings
    /\ UNCHANGED <<prevChar, at, line, row, cursor, argVars, outcome>>

Init ==
    /\ typed = <<>> /\ prevChar = 0
    /\ at = "edit" /\ line = <<>>
    /\ row = prompt /\ cursor = Len(prompt)
    /\ argc = 0 /\ argv = <<>> /\ spill = <<>>
    /\ outcome = "blank"

Firmware == \/ SwallowLF \/ rclPrintable \/ rclDelete \/ rclNonPrintable
            \/ rclEOL \/ BlankLine \/ RunCommand

Next == Firmware \/ Operator

Spec == Init /\ [][Next]_vars

-----------------------------------------------------------------------------
(* Properties.                                                             *)

Outcomes == {"blank", "unknown", "ambiguous", "too few", "too many"} \cup
            handlers

TypeOK ==
    /\ typed \in Seq(Byte) /\ prevChar \in Byte \ {LF}
    /\ at \in {"edit", "dispatch", "lost"}
    /\ line \in Seq(SPACE..DEL - 1)
    /\ row \in Seq(Byte) /\ cursor \in 0..Len(row)
    /\ argc \in Nat
    /\ argv \in Seq(Nat \ {0}) /\ Len(argv) <= MaxArgs
    /\ spill \in Seq(Nat \ {0})

\* What the operator sees after the prompt, wherever on the row that came, is
\* what is stored, and the cursor is behind it: a deletion takes away exactly
\* what it rubs out, and never the prompt or what is left of it
\* (commands.asm:244-262).
ScreenShowsLine ==
    at = "edit" =>
        \E left \in Leftovers \cup {<<>>} :
            /\ cursor = Len(left \o prompt \o line)
            /\ SubSeq(row, 1, cursor) = left \o prompt \o line
            /\ \A i \in cursor + 1..Len(row) : row[i] = SPACE

\* The words of a line, by what a word is and not by how makeArgs looks for
\* it: the places where something that is not white follows something that is.
WordStarts(s) ==
    {i \in DOMAIN s : s[i] \notin White /\ (i = 1 \/ s[i - 1] \in White)}

\* The places are those of S, in order.
InOrder(places, S) ==
    /\ {places[i] : i \in DOMAIN places} = S
    /\ \A i, j \in DOMAIN places : i < j => places[i] < places[j]

\* The one command whose name begins with the first word, if there is one.
Meant(s) ==
    LET word == ArgAt(s, Min(WordStarts(s)))
    IN  {i \in DOMAIN cmd_table :
            \E rest \in {SubSeq(cmd_table[i].name, Len(word) + 1,
                                Len(cmd_table[i].name))} :
                cmd_table[i].name = word \o rest}

\* A handler is called exactly for a line whose first word is the beginning
\* of one command's name and of no other, with a number of arguments that
\* command takes; every other line is answered with the message for it
\* (bobmon.asm:133-185).
DispatchIsLookup ==
    [][ at = "dispatch" =>
          outcome' =
            IF WordStarts(line) = {} THEN "blank"
            ELSE IF Meant(line) = {} THEN "unknown"
            ELSE IF \E i, j \in Meant(line) : i # j THEN "ambiguous"
            ELSE LET c == cmd_table[CHOOSE i \in Meant(line) : TRUE]
                     n == Cardinality(WordStarts(line)) - 1
                 IN  IF n < c.min THEN "too few"
                     ELSE IF n > c.max THEN "too many" ELSE c.handler ]_vars

\* The handler of a command finds its arguments: argc of them, argv pointing
\* at the words of the line in their order (args.asm:20-28).  A line may have
\* more words than g.argv has room for, but then no handler is called.
ArgumentsAreWords ==
    [][ (at = "dispatch" /\ outcome' # "blank") =>
          /\ argc' = Cardinality(WordStarts(line))
          /\ InOrder(argv' \o spill', WordStarts(line))
          /\ outcome' \in handlers => spill' = <<>> ]_vars

\* "A: buffer size" (commands.asm:212): a line and its EOS stay in the buffer.
LineFits == Len(line) < MaxLine
=============================================================================
