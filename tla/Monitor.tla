------------------------------ MODULE Monitor ------------------------------
(***************************************************************************)
(* What the command loop's handlers do (bobmon/*_cmd*.asm), start-up and   *)
(* the exit of a program (bobmon.asm), and the system calls of a program   *)
(* (syscalls.asm): the monitor from one prompt to the next, on top of      *)
(* CommandLine.                                                            *)
(*                                                                         *)
(* While pc is "loop" CommandLine goes on.  A handler is a step, or one    *)
(* for each of its rounds; a system call is a step of the processor, which *)
(* pushes the frame, one of its function, and one of rti.  The prompt      *)
(* that CommandLine shows with the dispatch comes after the handler.       *)
(*                                                                         *)
(* The stack is what is on it above the loop: return addresses, bytes and  *)
(* frames.  An rts that does not find a return address goes nobody knows   *)
(* where: pc is "lost", and only reset brings the monitor back.            *)
(*                                                                         *)
(* A definition marked "a mutant" is the one that follows it with a slip a *)
(* programmer could make; nothing here uses it.                            *)
(***************************************************************************)
EXTENDS CommandLine, Numbers

CONSTANTS
    MonitorLines,   \* what an operator types: lines
    MaxLines,       \* bound: lines typed
    ProgramsAt,     \* where in memory programs begin
    Registers,      \* what a program may have in its registers
    MaxCalls,       \* bound: system calls of a program
    Received,       \* what getChar may return to it, or to load
    handle_reset,   \* its address
    lineAt,         \* the address of g.commandLine
    LengthAt(_)     \* bytes of the instruction at an address

ASSUME MonitorAssumption ==
    /\ MonitorLines \subseteq Seq(Byte) /\ MaxLines \in Nat
    /\ ProgramsAt \subseteq Word
    /\ Registers \subseteq [A : Byte, B : Byte, X : Word, Y : Word, U : Word]
    /\ MaxCalls \in Nat /\ Received \subseteq Byte \ {LF} /\ Received # {}
    /\ handle_reset \in Word /\ lineAt \in Word

Topmost == 65535
Memory == 0..Topmost

\* The line's buffer is in memory, and all of memory can be disassembled.
ASSUME MemoryAssumption ==
    /\ lineAt + Room <= 65536
    /\ \A a \in Memory : LengthAt(a) \in 1..5

VARIABLES
    pc,                   \* where the processor is
    stack,
    args,                 \* the words argv points at
    memoryAddress, linesPerPage, radix, unassembleAddress,    \* as g.*
    saved,                \* g.regA to g.regS
    round, y,             \* B and Y in the loops of dump and unassemble
    shown,                \* what the command has printed: addresses, or numbers
    function,             \* the system call asked for
    regs,                 \* the registers of the program
    calls, pushes,        \* the system calls it has made, the bytes on its stack
    lines,                \* lines typed
    called,               \* history: the settings when the handler was called
    before,               \* history: the registers at the last system call
    failed                \* history: the registers at the last exit with an error

settings == <<memoryAddress, linesPerPage, radix, unassembleAddress>>
program == <<regs, function, calls, pushes, before>>
loops == <<round, y, shown>>
monitor == <<pc, stack, args, settings, saved, loops, program, lines, called, failed>>

Return(to) == [what |-> "return", to |-> to]
Left(c) == [what |-> "byte", byte |-> c]

system_stack == 512
NoRegisters == [A |-> 0, B |-> 0, X |-> 0, Y |-> 0, U |-> 0]
WithStack(r, s) == [A |-> r.A, B |-> r.B, X |-> r.X, Y |-> r.Y, U |-> r.U, S |-> s]
NoneSaved == WithStack(NoRegisters, 0)
NoFunction == 255

\* rts.
Rts(s) ==
    IF s # <<>> /\ Last(s).what = "return"
    THEN pc' = Last(s).to /\ stack' = Front(s)
    ELSE pc' = "lost" /\ stack' = s

(***************************************************************************)
(* Start-up: handle_reset, initBSS, initVars.  The console is there; what  *)
(* initDevices prints is left out.                                         *)
(***************************************************************************)
NoProgram ==
    /\ regs' = NoRegisters /\ before' = NoRegisters
    /\ function' = NoFunction /\ calls' = 0 /\ pushes' = 0

MonitorInit ==
    /\ Init
    /\ pc = "loop" /\ stack = <<>> /\ args = <<>>
    /\ memoryAddress = handle_reset /\ linesPerPage = 16 /\ radix = 16
    /\ unassembleAddress = 0
    /\ saved = NoneSaved /\ failed = NoneSaved
    /\ round = 0 /\ y = 0 /\ shown = <<>>
    /\ regs = NoRegisters /\ before = NoRegisters
    /\ function = NoFunction /\ calls = 0 /\ pushes = 0
    /\ lines = 0
    /\ called = settings

\* initBSS: all globals are 0, and the command line empty.
initBSS ==
    /\ unassembleAddress' = 0 /\ saved' = NoneSaved
    /\ prevChar' = 0 /\ line' = <<>>
    /\ argc' = 0 /\ argv' = <<>> /\ spill' = <<>> /\ args' = <<>>

initVars == linesPerPage' = 16 /\ radix' = 16 /\ memoryAddress' = handle_reset

Restart ==
    /\ pc' = "loop" /\ stack' = <<>>
    /\ initBSS /\ initVars
    /\ at' = "edit" /\ row' = prompt /\ cursor' = Len(prompt) /\ outcome' = "blank"
    /\ round' = 0 /\ y' = 0 /\ shown' = <<>>
    /\ NoProgram
    /\ failed' = NoneSaved /\ called' = settings'
    /\ UNCHANGED <<typed, lines>>

\* The button, unless keys are being pressed; or a program that begins there.
Reset ==
    /\ at = "edit" /\ typed = <<>>
    /\ Restart

(***************************************************************************)
(* A line, and what becomes of it.                                         *)
(***************************************************************************)
TypeLine ==
    /\ pc = "loop" /\ at = "edit" /\ typed = <<>>
    /\ lines < MaxLines /\ lines' = lines + 1
    /\ typed' \in MonitorLines
    /\ shown' = <<>>
    /\ UNCHANGED <<prevChar, at, line, row, cursor, argVars, outcome, pc, stack, args,
                   settings, saved, round, y, program, called, failed>>

Edit ==
    /\ pc = "loop"
    /\ SwallowLF \/ rclPrintable \/ rclDelete \/ rclNonPrintable \/ rclEOL \/ BlankLine
    /\ UNCHANGED monitor

\* Behind g.argv are g.memoryAddress and g.linesPerPage: a sixth word's address
\* goes to the one, the upper byte of a seventh's to the other.
Spilt(starts, n) == lineAt + starts[n] - 1

Dispatch ==
    /\ pc = "loop"
    /\ RunCommand
    /\ args' = [n \in 1..argc' |-> ArgAt(line, (argv' \o spill')[n])]
    /\ memoryAddress' = IF spill' # <<>> THEN Spilt(spill', 1) ELSE memoryAddress
    /\ linesPerPage' = IF Len(spill') > 1 THEN Spilt(spill', 2) \div 256 ELSE linesPerPage
    /\ UNCHANGED <<radix, unassembleAddress>>
    /\ IF outcome' \in handlers
       THEN pc' = outcome' /\ stack' = <<Return("loop")>>
       ELSE pc' = "loop" /\ stack' = <<>>
    /\ called' = settings' /\ shown' = <<>>
    /\ UNCHANGED <<saved, round, y, program, lines, failed>>

\* The parts of CommandLine's state that handlers have nothing to do with.
Handling == UNCHANGED <<lineVars, argVars, outcome, args, lines, called>>
SettingsKept == UNCHANGED settings
Nothing == UNCHANGED <<saved, program, failed>>

(***************************************************************************)
(* Handlers that do one thing and return.  zobFn reads from addresses for  *)
(* ever: pc stays where it is.                                             *)
(***************************************************************************)
radixOf == [binaryFn |-> 2, decimalFn |-> 10, hexadecimalFn |-> 16]

SetRadix ==
    /\ pc \in DOMAIN radixOf
    /\ radix' = radixOf[pc]
    /\ Rts(stack)
    /\ UNCHANGED <<memoryAddress, linesPerPage, unassembleAddress, loops>>
    /\ Handling /\ Nothing

\* Handlers that only print.
Prints ==
    /\ pc \in {"bootFn", "helpFn", "radixFn"}
    /\ Rts(stack)
    /\ UNCHANGED loops
    /\ Handling /\ SettingsKept /\ Nothing

\* getChar keeps what it returns, whoever calls it.
Getting(c) ==
    /\ prevChar' = c
    /\ UNCHANGED <<typed, at, line, row, cursor, argVars, outcome, args, lines, called>>

\* What Disk and Loader are about.  disk may wait for its card for ever, load for
\* a character; load has read some when it returns, or none.
DiskOrLoad ==
    /\ \/ pc = "diskFn" /\ Handling
       \/ pc = "loadFn" /\ \E c \in Received \cup {prevChar} : Getting(c)
    /\ Rts(stack)
    /\ UNCHANGED loops
    /\ SettingsKept /\ Nothing

\* D is pushed to be compared with, and never pulled.
cpuFn ==
    /\ pc = "cpuFn"
    /\ Rts(stack \o <<Left("B"), Left("A")>>)
    /\ UNCHANGED loops
    /\ Handling /\ SettingsKept /\ Nothing

Arg(n) == strToHex(args[n])
\* A return of strToHex, or of what called it after it reported an error.
RtsAfter(n) == Rts(IF n.status = "lost" THEN Append(stack, Left("B")) ELSE stack)

\* A mutant: the upper byte is not looked at.
FitsByte_Low(n) == n.status = "ok"
FitsByte(n) == n.status = "ok" /\ n.value < 256

windowFn ==
    /\ pc = "windowFn"
    /\ \/ argc # 2 /\ linesPerPage' = linesPerPage /\ Rts(stack)
       \/ argc = 2 /\ FitsByte(Arg(2)) /\ linesPerPage' = Arg(2).value % 256 /\ Rts(stack)
       \/ argc = 2 /\ ~FitsByte(Arg(2)) /\ linesPerPage' = linesPerPage /\ RtsAfter(Arg(2))
    /\ UNCHANGED <<memoryAddress, radix, unassembleAddress, loops>>
    /\ Handling /\ Nothing

(***************************************************************************)
(* dump: the number of lines is kept before the address is looked at.      *)
(***************************************************************************)
CountGiven == argc = 3
AddressGiven == argc \in {2, 3}
Page == IF CountGiven THEN Arg(3).value % 256 ELSE linesPerPage

ddBadCount ==
    /\ CountGiven /\ ~FitsByte(Arg(3))
    /\ UNCHANGED <<memoryAddress, linesPerPage, round>>
    /\ RtsAfter(Arg(3))

ddBadAddress ==
    /\ CountGiven => FitsByte(Arg(3))
    /\ AddressGiven /\ Arg(2).status # "ok"
    /\ linesPerPage' = Page
    /\ UNCHANGED <<memoryAddress, round>>
    /\ RtsAfter(Arg(2))

ddGo ==
    /\ CountGiven => FitsByte(Arg(3))
    /\ AddressGiven => Arg(2).status = "ok"
    /\ memoryAddress' = IF AddressGiven THEN Arg(2).value ELSE memoryAddress
    /\ linesPerPage' = Page /\ round' = Page
    /\ pc' = "ddProceed" /\ stack' = stack

dumpFn ==
    /\ pc = "dumpFn"
    /\ ddBadCount \/ ddBadAddress \/ ddGo
    /\ UNCHANGED <<radix, unassembleAddress, y, shown>>
    /\ Handling /\ Nothing

\* decb, bne: the round after 0 is 255.
Down(b) == (b + 255) % 256

EndOfRounds(at_) ==
    /\ round' = Down(round)
    /\ IF Down(round) = 0 THEN Rts(stack) ELSE pc' = at_ /\ stack' = stack

\* dumpSixteen: one line; it takes the address from memory, and leaves D, X, Y.
ddProceed ==
    /\ pc = "ddProceed"
    /\ shown' = Append(shown, memoryAddress)
    /\ memoryAddress' = (memoryAddress + 16) % 65536
    /\ EndOfRounds("ddProceed")
    /\ UNCHANGED <<linesPerPage, radix, unassembleAddress, y>>
    /\ Handling /\ Nothing

(***************************************************************************)
(* unassemble: the address is kept in Y, and stored at the end.            *)
(***************************************************************************)
unassembleFn ==
    /\ pc = "unassembleFn"
    /\ \/ /\ argc = 2 => Arg(2).status = "ok"
          /\ unassembleAddress' = IF argc = 2 THEN Arg(2).value ELSE unassembleAddress
          /\ y' = unassembleAddress' /\ round' = linesPerPage
          /\ pc' = "duNext" /\ stack' = stack
       \/ /\ argc = 2 /\ Arg(2).status # "ok"
          /\ UNCHANGED <<unassembleAddress, y, round>>
          /\ RtsAfter(Arg(2))
    /\ UNCHANGED <<memoryAddress, linesPerPage, radix, shown>>
    /\ Handling /\ Nothing

duNext ==
    /\ pc = "duNext"
    /\ shown' = Append(shown, y)
    /\ y' = (y + LengthAt(y)) % 65536
    /\ EndOfRounds("duNext")
    /\ unassembleAddress' = IF pc' = "duNext" THEN unassembleAddress ELSE y'
    /\ UNCHANGED <<memoryAddress, linesPerPage, radix>>
    /\ Handling /\ Nothing

(***************************************************************************)
(* go, and the program.                                                    *)
(***************************************************************************)
\* jsr [,x]: what is at an address without a program is anybody's guess.
PlaceAt(a) == IF a \in ProgramsAt THEN "program"
              ELSE IF a = handle_reset THEN "handle_reset" ELSE "lost"

goFn ==
    /\ pc = "goFn"
    /\ \/ /\ argc = 2 => Arg(2).status = "ok"
          /\ memoryAddress' = IF argc = 2 THEN Arg(2).value ELSE memoryAddress
          /\ pc' = PlaceAt(memoryAddress')
          /\ stack' = Append(stack, Return("dgDone"))
       \/ /\ argc = 2 /\ Arg(2).status # "ok"
          /\ memoryAddress' = memoryAddress
          /\ RtsAfter(Arg(2))
    /\ UNCHANGED <<linesPerPage, radix, unassembleAddress, loops>>
    /\ Handling /\ Nothing

dgDone ==
    /\ pc = "dgDone"
    /\ Rts(stack)
    /\ NoProgram
    /\ UNCHANGED <<loops, saved, failed>>
    /\ Handling /\ SettingsKept

RestartByGo == pc = "handle_reset" /\ Restart

\* A program may leave bytes on the stack, if it does not mean to return.
ProgramPushes ==
    /\ pc = "program" /\ pushes = 0
    /\ stack' = Append(stack, Left("program"))
    /\ pushes' = 1
    /\ UNCHANGED <<pc, loops, regs, function, calls, before, saved, failed>>
    /\ Handling /\ SettingsKept

ProgramReturns ==
    /\ pc = "program" /\ pushes = 0
    /\ Rts(stack)
    /\ UNCHANGED loops
    /\ Handling /\ SettingsKept /\ Nothing

(***************************************************************************)
(* System calls.                                                           *)
(***************************************************************************)
scTerminate == 8
SWITable == <<"sysGetChar", "sysPutChar", "sysPutStr", "sysPutNLStr", "sysPut2Hex",
              "sysPut4Hex", "sysPutNL", "sysPutSpace", "sysTerminate">>
SWIMax == Len(SWITable)

\* swi: all registers are pushed, and the address of the byte behind it.
Swi(fn, r) ==
    /\ pc = "program" /\ (calls < MaxCalls \/ fn = scTerminate)
    /\ regs' = r /\ before' = r /\ function' = fn
    /\ calls' = IF calls < MaxCalls THEN calls + 1 ELSE calls
    /\ stack' = Append(stack, [what |-> "frame", regs |-> r, to |-> "function"])
    /\ pc' = "handle_swi"
    /\ UNCHANGED <<pushes, loops, saved, failed>>
    /\ Handling /\ SettingsKept

Frame == stack[Len(stack)]
FrameBecomes(f) == stack' = [stack EXCEPT ![Len(stack)] = f]

\* A mutant: one that does not exist returns at once.
Skipped_Valid(fn, f) == IF fn < SWIMax THEN [f EXCEPT !.to = "next"] ELSE f

\* The return address is moved past the function's byte first of all.
Skipped(fn, f) == [f EXCEPT !.to = "next"]

\* A function that is none, below 0 as a signed byte or above, does nothing.
handle_swi ==
    /\ pc = "handle_swi"
    /\ FrameBecomes(Skipped(function, Frame))
    /\ pc' = IF function < SWIMax THEN SWITable[function + 1] ELSE "rti"
    /\ UNCHANGED loops
    /\ Handling /\ SettingsKept /\ Nothing

\* The character without its parity; a CR is an LF for the program.
StripParity(c) == IF c % 128 = CR THEN LF ELSE c % 128

sysGetChar ==
    /\ pc = "sysGetChar"
    /\ \E c \in Received :
         FrameBecomes([Frame EXCEPT !.regs.A = StripParity(c)]) /\ Getting(c)
    /\ pc' = "rti"
    /\ UNCHANGED loops
    /\ SettingsKept /\ Nothing

sysPut ==
    /\ pc \in {SWITable[n] : n \in 2..8}
    /\ pc' = "rti" /\ stack' = stack
    /\ UNCHANGED loops
    /\ Handling /\ SettingsKept /\ Nothing

sysTerminate ==
    /\ pc = "sysTerminate"
    /\ FrameBecomes([Frame EXCEPT !.to = "appTerminated"])
    /\ pc' = "rti"
    /\ UNCHANGED loops
    /\ Handling /\ SettingsKept /\ Nothing

rti ==
    /\ pc = "rti"
    /\ regs' = Frame.regs
    /\ pc' = CASE Frame.to = "next" -> "program"
               [] Frame.to = "appTerminated" -> "appTerminated"
               [] OTHER -> "lost"
    /\ stack' = Front(stack)
    /\ UNCHANGED <<function, calls, pushes, before, loops, saved, failed>>
    /\ Handling /\ SettingsKept

(***************************************************************************)
(* The end of a program.                                                   *)
(***************************************************************************)
\* A number that printNum is given; what it makes of it is text(shown[n]).
Shown(reg, n) == [reg |-> reg, number |-> n]
text(item) == printNum(item.number, radix)

\* The code is tested in B, and printed from D.
terminatedOK ==
    /\ pc = "appTerminated" /\ regs.B = 0
    /\ pc' = "loop" /\ stack' = <<>>
    /\ NoProgram
    /\ UNCHANGED <<loops, saved, failed>>
    /\ Handling /\ SettingsKept

\* A mutant: B is kept for A.
Saved_Swapped(r) == WithStack([r EXCEPT !.A = r.B], system_stack)

\* g.regA to g.regS; the stack has been set to its beginning before.
Saved(r) == WithStack(r, system_stack)

terminatedWithError ==
    /\ pc = "appTerminated" /\ regs.B # 0
    /\ shown' = <<Shown("code", 256 * regs.A + regs.B)>>
    /\ saved' = Saved(regs)
    /\ failed' = WithStack(before, system_stack)
    /\ pc' = "registersFn" /\ stack' = <<Return("loop")>>
    /\ NoProgram
    /\ UNCHANGED <<round, y>>
    /\ Handling /\ SettingsKept

\* The registers command, and the report of an error.
registersFn ==
    /\ pc = "registersFn"
    /\ shown' = shown \o <<Shown("A", saved.A), Shown("B", saved.B), Shown("X", saved.X),
                           Shown("Y", saved.Y), Shown("U", saved.U), Shown("S", saved.S)>>
    /\ Rts(stack)
    /\ UNCHANGED <<round, y>>
    /\ Handling /\ SettingsKept /\ Nothing

Handlers ==
    \/ SetRadix \/ Prints \/ cpuFn \/ windowFn \/ dumpFn \/ ddProceed
    \/ unassembleFn \/ duNext \/ goFn \/ dgDone \/ RestartByGo
    \/ handle_swi \/ sysGetChar \/ sysPut \/ sysTerminate \/ rti
    \/ terminatedOK \/ terminatedWithError \/ registersFn
Terminates == \E r \in Registers : Swi(scTerminate, r)
Program ==
    \/ \E fn \in 0..SWIMax \cup {128}, r \in Registers : Swi(fn, r)
    \/ ProgramPushes \/ ProgramReturns

MonitorNext == TypeLine \/ Edit \/ Dispatch \/ Handlers \/ DiskOrLoad \/ Program \/ Reset

\* The processor goes on; a program comes to its end, and so does the wait of one
\* for a key.  Nothing is assumed of DiskOrLoad.
Progress ==
    /\ WF_<<vars, monitor>>(Handlers)
    /\ WF_<<vars, monitor>>(ProgramReturns \/ Terminates)

MonitorSpec == MonitorInit /\ [][MonitorNext]_<<vars, monitor>> /\ Progress

-----------------------------------------------------------------------------
(* Properties.                                                             *)

Places == {"loop", "lost", "ddProceed", "duNext", "dgDone", "handle_reset", "program",
           "handle_swi", "rti", "appTerminated"}
          \cup handlers \cup {SWITable[n] : n \in 1..SWIMax}

MonitorTypeOK ==
    /\ TypeOK
    /\ pc \in Places
    /\ args \in Seq(Seq(SPACE..DEL - 1))
    /\ memoryAddress \in Word /\ linesPerPage \in Byte /\ radix \in {2, 10, 16}
    /\ unassembleAddress \in Word /\ round \in Byte /\ y \in Word
    /\ \A n \in DOMAIN stack : stack[n].what \in {"return", "byte", "frame"}
    /\ regs \in [A : Byte, B : Byte, X : Word, Y : Word, U : Word]
    /\ saved \in [A : Byte, B : Byte, X : Word, Y : Word, U : Word, S : Word]
    /\ function \in Byte /\ calls \in 0..MaxCalls /\ pushes \in 0..1
    /\ lines \in 0..MaxLines

\* What a word says in hexadecimal, by the places of its digits.
IsHex(w) == \A n \in DOMAIN w : HexDigit(w[n]) # BadDigit
HexValue(w) ==
    LET value[i \in 0..Len(w)] ==
            IF i = 0 THEN 0 ELSE 16 * value[i - 1] + HexDigit(w[i])
    IN  value[Len(w)]

Addresses(from, n) == [k \in 1..n |-> (from + 16 * (k - 1)) % 65536]
PageOf(n) == IF n = 0 THEN 256 ELSE n

\* The address behind the instruction at one.
Behind(a) == (a + LengthAt(a)) % 65536

\* The settings when a command has returned, and the addresses it has shown, are
\* what its arguments ask for; it makes a complaint and leaves them alone if it
\* does not understand one.  A dump goes on where the one before ended, over the
\* top of memory too, and a disassembly, which shows one instruction behind the
\* other, does so; a page of 0 lines has 256; of dump's arguments the count
\* counts even if the address is none (dump_cmd.asm:33-72, unassemble_cmd.asm).
Done(was, now) ==
    LET given(n) == argc >= n
        good(n) == IsHex(args[n])
        number(n) == HexValue(args[n])
        same == now = was
    IN  CASE outcome = "windowFn" ->
               IF given(2) /\ good(2) /\ number(2) < 256
               THEN now = [was EXCEPT ![2] = number(2)] ELSE same
          [] outcome = "dumpFn" ->
               IF given(3) /\ ~(good(3) /\ number(3) < 256) THEN same /\ shown' = <<>>
               ELSE LET page == IF given(3) THEN number(3) ELSE was[2]
                        from == IF given(2) THEN number(2) ELSE was[1]
                    IN  IF given(2) /\ ~good(2)
                        THEN now = [was EXCEPT ![2] = page] /\ shown' = <<>>
                        ELSE /\ shown' = Addresses(from, PageOf(page))
                             /\ now = [was EXCEPT ![1] = (from + 16 * PageOf(page)) % 65536,
                                                  ![2] = page]
          [] outcome = "unassembleFn" ->
               IF given(2) /\ ~good(2) THEN same /\ shown' = <<>>
               ELSE /\ Len(shown') = PageOf(was[2])
                    /\ shown'[1] = IF given(2) THEN number(2) ELSE was[4]
                    /\ \A k \in 2..Len(shown') : shown'[k] = Behind(shown'[k - 1])
                    /\ now = [was EXCEPT ![4] = Behind(Last(shown'))]
          [] outcome = "goFn" ->
               IF given(2) /\ good(2) THEN now = [was EXCEPT ![1] = number(2)] ELSE same
          [] outcome \in DOMAIN radixOf -> now = [was EXCEPT ![3] = radixOf[outcome]]
          [] OTHER -> same

\* Commands do what they are asked to; a line that is none changes a setting only
\* if it has more words than g.argv has room for (args.asm:43).
CommandsDoAsAsked ==
    [][ /\ (pc # "loop" /\ pc' = "loop" /\ outcome' = outcome) => Done(called, settings')
        /\ (pc = "loop" /\ settings' # settings /\ outcome' # "blank") => argc' > MaxArgs
      ]_<<vars, monitor>>

\* A program finds its registers after a system call as they were, but for the
\* character it asked for; and what is reported of one that failed, or printed by
\* the registers command at any later time and in any radix, are the registers it
\* had at its end, with its code (syscalls.asm, bobmon.asm:78-97, printNum.asm).
RegistersSurvive ==
    /\ pc = "program" =>
         \E c \in Received :
            regs = IF function = 0 THEN [before EXCEPT !.A = StripParity(c)] ELSE before
    /\ \A n \in DOMAIN shown :
         (outcome \in {"registersFn", "goFn"}) =>
            Says(text(shown[n]),
                 IF shown[n].reg = "code" THEN 256 * failed.A + failed.B
                 ELSE failed[shown[n].reg], radix)

\* A command after which nobody promises a prompt: cpu, whose return goes wrong,
\* zob, which has no end, disk and load, which may wait for ever, a number of more
\* than 16 bits, and a jump to what is no program.
TooLong(w) == \E n \in DOMAIN w : IsHex(SubSeq(w, 1, n)) /\ HexValue(SubSeq(w, 1, n)) > 65535
Sound ==
    /\ outcome \notin {"cpuFn", "zobFn", "diskFn", "loadFn"}
    /\ \A n \in 2..Len(args) : ~TooLong(args[n])
    /\ outcome = "goFn" =>
         IF argc = 1 THEN called[1] \in ProgramsAt \cup {handle_reset}
         ELSE IsHex(args[2]) => HexValue(args[2]) \in ProgramsAt \cup {handle_reset}

\* Every other command comes back to the prompt, programs that end by a return or
\* a call with whatever is on the stack included.
PromptComesBack == (pc # "loop" /\ Sound) ~> pc = "loop"
=============================================================================
