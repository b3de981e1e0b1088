# A model of BobMon

BobMon is the monitor ROM of a home-brew 6809/6309 computer. `src/bobmon/` is
the monitor, `src/libX09/` the assembler library it is linked with, `src/utils/`
host programs that look at disk images, and `src/stdlib/` the library of the
CMOC C compiler, for programs that run under Disk BASIC, OS-9 or nothing at all.
This directory holds TLA+ models of it, TLC configurations that check them on
small instances, and proofs that TLAPS checks for every instance. Line numbers
below are those of the sources the models were written from.

    tlc -config loader.cfg MCLoader          # one of the twelve runs
    tlapm LoaderProofs.tla                   # one of the eight modules of proofs

`PROJECT.json` lists the components, the runs, the hazards, the disagreements
found between code and comments, and for each definition of a model the source
lines it stands for.

## 1. The system

On the board there are no interrupts and no threads: one program runs, and it
polls. What runs at the same time as it is hardware: a terminal behind an
mc6850, which sends whenever it likes and receives when it can, and a CF card
with timing of its own. Besides these the actors are the operator, the program
loaded last, which calls the monitor through `swi`, and whatever earlier
commands have left in the globals (`g.*`, one structure in `sysdefs.s`). Nothing
survives a reset.

The CMOC library runs in other places: its Disk BASIC files above the sector
reader of a ROM, its floppy driver beside a controller, an NMI and a 60 Hz
interrupt, its heap beside the other processes of OS-9.

| Component | Sources | State it keeps | Operations | Talks to | Modelled |
|---|---|---|---|---|---|
| load command | `load_cmd.asm`, `libX09/getHex*.asm`, `skipLine.asm`, `getLChar.asm` | `g.load*`, `g.upperNibble`, registers, memory | `loadFn`, `loadiHexRecord`, `loadMotoRecord` and the digit readers | console, memory | Loader, LoadFile |
| command loop | `bobmon.asm` from `loop`, `commands.asm`, `args.asm`, `string_functions.asm` | `g.commandLine`, `g.argc`, `g.argv` | `readCommandLine`, `isBlankLine`, `makeArgs`, `matchCommand`, dispatch | console, handlers | CommandLine |
| command handlers | `go_cmd.asm`, `dump_cmd.asm`, `window_cmd.asm`, `registers_cmd.asm`, ... | `g.memoryAddress`, `g.linesPerPage`, `g.radix`, the saved registers, the stack | one per command, `strToHex` | command loop, memory | Monitor, Numbers |
| start-up and exit | `bobmon.asm` up to `loop` and `appTerminated`, `devices.*` | all of `g`, the stack | `handle_reset`, `initVars`, `appTerminated` | devices, system calls | Monitor |
| system calls | `syscalls.asm` | the interrupt frame | `swi` dispatch, nine functions, terminate | the program, console | Monitor |
| console | `stdio.asm`, `mc6850.asm` | `g.prevChar`, `g.echo`, `g.currentColumn`, the device registers | `getChar`, `putChar`, `serialGetChar`, `serialPutChar` | mc6850, everything above | Console, Channel |
| disk | `cf_io.asm`, `fat16.asm`, `disk_cmd.asm`, `libX09/*LSN*.asm` | `g.currentDir`, `g.dirBlock`, `g.currentDirEnt`, `g.blockBuff`, the card | `diskFn`, `cfInit`, `cfSetLSN`, `cfRead`, `fatValidDisk`, `fatRewindDir`, `fatNextDirEnt`, `fatPrintDirEnt` | CF card, console | Disk, LSN |
| library | the rest of `libX09/` | none, or `g.currentColumn` | `printNum`, `binTo*`, output | console | Numbers, in part |
| host utilities | `src/utils/` | one cached block | `readBlock`, `openDisk`, `listDirectory`, `dumpBlock` | image file | HostDisk |
| Disk BASIC files | `stdlib/disk.c` | descriptors, one granule table, `fatUpToDate`, the current drive | `openfile`, `read`, `seek`, `rewind`, `getFileLength`, ... | DSKCON, the program | DecbFormat, DecbFile, ReadableFile |
| floppy driver | `stdlib/dskcon-standalone.c`, `readDECBFile.c` | `DC*`, the drive register and its image, `RDYTMR`, `NMIFLG`, the controller | `dskcon_processSector`, NMI and IRQ routines, `readDECBFile` | 1793, drives, timer | Dskcon, SectorDevice, ReadDECBFile |
| OS-9 heap | `stdlib/os9-sbrk*.c` | the end of data, what is free, the maximum found | `sbrk`, `sbrkmax` | F$Mem | Heap |
| sorting, `strtok` | `stdlib/qsort.c`, `bsearch.c`, `strtok.c`, `strspn.c`, `strcspn.c` | the array; a static pointer | `qsort`, `bsearch`, `strtok` | the program | Sorting, Tokens |
| disassembler, tests, ASSIST09, rest of the CMOC library, hardware | | | | | no, see section 7 |

What is hard about each, and what makes it right:

* **Load command.** Bytes go to memory before the checksum that covers them is
  seen. The line loses or alters characters without notice, since nobody reads
  the UART's error flags. Digit errors are told by the carry of an addition,
  and a record's status by whatever is left in A. The state lives in globals
  that outlast a load. Right is: an undisturbed file arrives exactly; a
  disturbed one never leaves a wrong byte without a complaint; a record stores
  only where its header says; the operator can always get the prompt back.
* **Command loop.** What the operator sees and what is stored are edited
  separately; comparisons are of signed bytes; neither the line nor `argv` is
  checked for room; a command may be cut short to any unambiguous beginning.
  Right is: the screen is the line, the arguments are the words, and a command
  runs exactly when the table says so.
* **Handlers, programs, system calls.** Each handler must leave the stack as it
  found it; settings outlive the command that made them, and a sixth word of a
  line overwrites one; loops count down before they test; a `swi` frame is
  changed in place; what a failed program leaves is handed on through six
  places before it is printed. Right is: settings and output are what was asked
  for, a program's registers survive, and the prompt comes back.
* **Console.** The device goes on between any two accesses; the line-end rule
  depends on the last character returned, by whichever caller; echo and output
  share the transmitter; the column is a copy of the cursor's. Right is: it
  behaves as an ordered channel that only loses by overrun.
* **Disk.** A card that refuses, is absent, is slow, is swapped or still in the
  middle of what it did before a reset; registers loaded from the wrong place;
  state of an earlier disk; a listing that ends where the code thinks it does.
  Right is: a read that returns has one whole block; the directory is this
  disk's; a listing that is over was complete; with a good card the prompt comes
  back.
* **Host utilities.** A failed read, and the block number that still claims the
  old contents. Right is: what is shown is the block that was asked for.
* **Disk BASIC files.** One granule table for all drives; a sector that cannot
  be read in the middle of a call; positions at the end of a sector and of a
  file. Right is: a file open for reading is a sequence of bytes with a
  position, and a failure loses nothing.
* **Floppy driver.** The processor leaves its transfer loop by an NMI only, and
  the interrupt that stops the motor writes the register the driver is about to
  write. Right is: status 0 means the very sector; the motor stays on under a
  command; troubles are made good as often as there are attempts; it comes back.
* **Heap.** A scan that takes memory to see how much there is, beside others who
  do the same, in addresses that wrap. Right is: no byte is handed out twice or
  taken away, and the maximum is the maximum.
* **Sorting, `strtok`.** Unsigned bounds around a pivot; state between calls.

The whole list, each hazard at its line with the properties that would catch
it, is in `PROJECT.json`.

## 2. The modules

    Stdio -+- Channel
           |     |  (refined by)
           +- Console ------ ConsoleProofs            MCConsole
           +- LoadFile - Loader ---- LoaderProofs     MCLoader
           +- CommandLine -+                          MCCommandLine
           |               |
           +- Numbers -----+- Monitor - MonitorProofs MCMonitor

    LSN --- Disk --- HostDisk --- DiskProofs          MCDisk, MCHostDisk

    ReadableFile
         |  (refined by)
    DecbFormat -+- DecbFile --+
         |      |  Heap ------+- Library -- LibraryProofs    MCLibrary
         |      |  Tokens ----+
         |      |  Sorting ---+------------ SortingProofs
         |      |
         |      +- ReadDECBFile ----------- FloppyProofs     MCFloppy
         | Dskcon -+      |  (refines)
         |           SectorDevice
         +- DecbProofs   (the chains: under LibraryProofs and FloppyProofs)

**Stdio** is what all of the monitor agrees on about characters: the codes of
`constants.s`, `getChar`'s line-end rule (`Swallowed`, `Canonical`), the folding
of `getLChar`, and the arithmetic of `getHexDigit` and `getHexByte` as it is: a
bad digit is $FF, the first digit is shifted in a byte, the error is the carry.
It has no state.

**Loader** is the `load` command. Between two characters the firmware runs
alone, so a step is: one `getChar` returns and the code runs up to the next.
`pc` names the `getChar` it is waiting in, `half` which of `getHexByte`'s two
digits it is. Globals keep their names (`loadLength` is `g.loadLength`); `hi`,
`count` and `ptr` are the registers a loop lives in; `mem` is what this load
has stored, `said` the set of its messages. There is an action for each place
of the code a character can come to; an error path is a disjunct of the action
that takes it. `Fail` prints the error and then `Loaded ok.`, since `dlError`
runs into `dlDone`; `MotoReturn` acts on A as `loadMoto` does, and A is passed
to it as each path leaves it. The environment loses a character (`LineLoses`),
alters one (`LineAlters`) and presses keys (`PressKey`), wherever the loader
waits. `load <file>` (`LoadDisk`) prints and reads nothing, as in the code;
what `fatValidDisk` answers is a free choice. `total`, `sent`, `loads` and
`faults` are history: no action of the firmware depends on them but the count
of commands, which is bounded.

**LoadFile** says what a file for the command is, by the rules of the two formats
and not by what the loader does with them: where each record begins, how its
digits spell its bytes, what its length, its type and its checksum must be, what
comes between two records, which types the command claims to support, and what
memory the whole stands for (`Images`). A load sends such a file, `sent`, and the
properties compare what was stored with it. The lines before the first record may be
anything but empty, a record, or a Ctrl-C (`Title`).

**CommandLine** is the loop from `loop` to the call of a handler. A step is one
key, or all that happens between the end of a line and the handler. `row` and
`cursor` are the terminal's current row, made by interpreting every character
the firmware sends, BS SPACE BS and BELL included. `cmd_table` has the real
names and limits. `makeArgs` is the code's single pass; `argv` takes the first
`MAX_ARGS` places and `spill` what is written behind it. The prompt comes behind
what is on the row: the messages and the other handlers end theirs, a program
that `go` started may have left a text (`Leftovers`). A line may outgrow its
buffer. Globals are placed downwards from $7FFF (bobmon.lnk:5), the modules in the
order they are linked, so what it runs over is the disk's block buffer
(cf_io.asm:24) and three small globals that the loop does not read: 519 bytes
(`Spare`), after which it is `g.argc` and `g.argv` themselves. From there on `at` is
`"lost"`, and nothing further is claimed.

**Console** has a finer grain: a step is one access to a device register with
the code behind it, or one event in the device (`Arrive`, `Transmit`), or one
call by the program above. An arriving character is dropped if the last has not
been read, as the mc6850 does on overrun.

**Channel** is what users of the console are promised: typed characters may be
lost, and are never reordered, repeated or made up; each line ends in one CR;
output is shown once and in order; with echo on, input is shown where the
program got it. `Console!IsChannel` says that Console implements it, with what
is in flight mapped like this: what is coming is the receive register and then
the terminal's text; what is shown is the screen, then the transmit register,
then A if `putChar` is still polling. Arrival, polling and transmission are
stutters; reading the data register is `Skip` or `Give`; `putChar` is `Show` as
soon as it is called.

**Numbers** is `printNum` with the three conversions behind it, and `strToHex`,
as functions of a word: leading zeros are left out digit by digit, decimal is
signed, a zero in binary is the letter z, and a fifth hexadecimal digit is the
way out that leaves a byte on the stack.

**Monitor** extends CommandLine by what comes behind the dispatch: `pc` is "loop"
while CommandLine goes on, and the name of the handler after that. A handler is
one step, or one for each round of its loop (`ddProceed`, `duNext`). A
program is run by `go` and may make system calls: the processor pushes a frame
(`Swi`), `handle_swi` changes its return address and goes to a function of the
table (`sysGetChar`, `sysPut`, `sysTerminate`), and `rti` takes the frame off. The
program ends by an rts, by a call that terminates it, with bytes of its own pushed or not. The
stack is what is on it above the command loop: return addresses, bytes and
frames. An rts that finds something else goes nobody knows where: `pc` is
"lost", and only the reset button goes on from there. `cpuFn`, which pushes D
and never pulls it, and `strToHex` on overflow end so. `shown` is what was
printed, a register or an address with the number; its text is `printNum`'s in
the radix of that moment. A sixth and a seventh word of a line go where the code
puts them, to `g.memoryAddress` and the upper byte of `g.linesPerPage`.
`load` and `disk` are a return here, as they have modules of their own; they may
wait for ever in those, so nothing is assumed of this return (`DiskOrLoad`). A
program that reads a CR leaves it in `g.prevChar`, and the LF behind it is swallowed
at the prompt. MCMonitor
composes the whole with the command loop alone under longer lines: a behaviour
is one or the other.

**LSN** is the library's sector numbers: four bytes, the most significant first,
and `incLSN`'s carry and `shiftLSNL`'s bit as the byte loops have them.

**Disk** is the `disk` command with the FAT16 reader and the card driver under
it, and `load <file>` where it uses them. The card is an actor of its own: it is
busy for a while after each command and then done (`CardDone`), asserts DRQ for
a read, may refuse, and may be pulled out and put in (`PullOut`, `PutIn`) at any
moment. A step of the firmware is one successful poll with the code behind it;
`pc` names the loop that polls, `caller` what `cfRead` returns to. A block is
`Units` directory entries, each transferred in one step where the code takes 32
bytes, and a block remembers for each entry which block it came from and where
from in it. Of a boot record there is what `fatValidDisk` looks at. What is
peculiar to the code is kept: nothing waits for BUSY before or during a
transfer, the answer to "8-bit transfers" is not looked at (a card that refused
gives every other byte), `cfSetLSN` never reaches the card, `cfRead`'s result
is a bit of the RAM (`ram7`), the first entry is printed whatever it is, and a
disk that is not valid is listed. Reset clears the globals and tells the card
nothing. `printed`, `got`, `trouble` and `swaps` are history.

**HostDisk** is class `fatdisk` on the host, over the same disks as the firmware: the
one-block cache, a last block of an image that is there in part, the place of a
block as the product of 32 bits that it is, and the calls of
`diskinfo` in any order. That it shows the directory the firmware lists is a
property over both modules.

**ReadableFile** is what a program may expect of files that are open for reading:
bytes, a position, reads that deliver what is there and move on, and no promise
for a file whose disk is not the one in memory. **DecbFormat** is a Disk BASIC
disk as the code takes it to be: granule chains, the directory, the entry that
ends it. **DecbFile** is `disk.c`: a call is a step, `read` one for each round. Any
sector may fail, and disks are changed at any time; a program may have the table
read again (`dropFAT`). A failed assertion and a walk
of a chain without end are places of their own. `doubt` is history: why a file is
not what it should be ("stale", the table is another disk's; "behind", a seek went
behind the last sector). `DecbFile!FileContract` says that it implements
ReadableFile for every file without doubt.

**Heap** is `sbrk` in a step and `sbrkmax` in one for each request to OS-9, with
other processes between. Addresses wrap. **Sorting** is `qsort_work` on a stack of
frames, a step for each comparison of `qsort_partition`, for each pivot put in its
place and each return, and `bsearch` a comparison at a time; **Tokens** is `strtok` with its static
pointer and the NULs it writes. **Library** is a program that uses one of the four.

**Dskcon** is the floppy driver: the processor, the controller with its drives
(external), and the interrupt run at once; a step of the processor is what it does
between two accesses to what the others see. The hardware may time out, fail, lose
data, or have its heads elsewhere (`Trouble`). **ReadDECBFile** is the function of
that name on top of it, and a program that calls the driver itself.
**SectorDevice** is the promise: status 0 means that the sector asked for was read
or written, and nothing changes but a sector being written.
`ReadDECBFile!SectorPromise` says that the driver with all around it implements
that.

A definition marked "a mutant" is the definition behind it with a slip that is
easy to make in the code. No module uses it. Each checked property has one that
breaks it, which shows that the property says something about the code.

## 3. What is checked

| Run | Instance | Distinct states | Properties |
|---|---|---|---|
| `loader` | 10 files, 1 load, at most 1 fault | 129,218 | `TypeOK`, `RecordInStep`, `FaithfulLoad`, `NeverStarves`, `WrongBytesAreReported`, `DepositsStayInRecord` |
| `loader_recovers` | 2 files, 2 loads, 1 fault in each, keys | 50,716 | `FaithfulLoad`, `Recovers` |
| `line` | short lines, all names with 0 to 5 arguments, all beginnings; 19 lines with handlers, three at a time, 1 system call | 975,992 | `MonitorTypeOK`, `ScreenShowsLine`, `ArgumentsAreWords`, `DispatchIsLookup`, `CommandsDoAsAsked`, `RegistersSurvive`, `PromptComesBack` |
| `console` | 16 texts, 7 characters to write, 2 written | 1,272,331 | `TypeOK`, `ColumnIsTheCursors`, `EveryLineEnds`, `IsChannel`, `Answers` |
| `disk` | 7 cards, 2 moves of a card, 3 blocks read; or an image on a host | 285,908 | `TypeOK`, `ReadIsWhole`, `DirIsThisDisks`, `HostShowsBlock`, `ListingIsDirectory`, `Returns` |
| `library` | 2 disks, 2 drives, 1 descriptor, 1 change; a heap of 32 bytes; arrays of 4; strings of 4 | 131,309 | `LibraryTypeOK`, `DiesInDoubt`, `HeapSafe`, `MaxIsMost`, `SortsAndFinds`, `TokensAreWords`, `FileContract`, `CallsReturn` |
| `floppy` | 2 drives, 3 attempts, 3 troubles in each request | 254,461 | `TypeOK`, `MotorAtSpeed`, `Tolerates`, `FileDelivered`, `SectorPromise`, `CallsEnd` |
| `loader_badsum` | 2 files, 1 fault | violation | `BadChecksumStops` |
| `loader_count3` | an S1 record without data | violation | `EveryDepositStaysInRecord` |
| `line_long` | 80 characters | violation | `LineFits` |
| `disk_lsn` | 7 cards, never moved | violation | `ReadsWhatWasSet` |
| `disk_invalid` | 7 cards, never moved | violation | `ListsOnlyValidDisks` |

What they show:

* **`FaithfulLoad`.** A file of either format, with CR, LF or CR LF, in upper
  or lower case, with a title before it, with empty records, records across
  the top of memory, and S0, S5 and S9 records, arrives exactly and without a
  complaint. What a file stands for is given by MCLoader with the text, from the
  same data, and TLC checks it against LoadFile's rules. Types the
  command does not support (Intel type 4, S2) are complained about. The same
  holds after an earlier load that failed at any point, so nothing a load
  needs is left over from the one before. It is proved for every file (section 5).
* **`WrongBytesAreReported`.** With one character lost or replaced by any digit,
  `G`, `:`, `S`, CR, LF or Ctrl-C, at any point, no byte outside the file's
  image is stored without a message. The one exception is the type digit of an
  S-record, which the format's checksum does not cover. It does not say that
  the bytes are not stored: they are, before the checksum is seen.
* **`RecordInStep`, `DepositsStayInRecord`.** The
  running checksum is the sum of all the bytes read, at every wait; a data
  record is accepted only if they add up; pointer and counter of a data loop
  are in step with the header; nothing is stored outside the header's window.
  These hold whatever arrives, and are proved (section 5).
* **`NeverStarves`.** As long as the loader reads an undisturbed file there is
  something left for it, so a complete file ends its load by itself. Proved as well.
* **`Recovers`.** After any single fault an operator who goes on pressing CR and
  Ctrl-C in turn gets the prompt back. One of the two alone is not enough: CR
  ends a line that is being skipped, Ctrl-C is seen only where a record may
  start.
* **`ScreenShowsLine`.** After the prompt, wherever on the row a program left the
  cursor, the terminal shows the stored line, and the cursor is behind it: DEL takes
  away exactly what it rubs out.
* **`ArgumentsAreWords`, `DispatchIsLookup`.** `makeArgs` finds the words, by a
  definition of a word that does not scan; a handler is called exactly for a
  line whose first word begins one command's name and no other, with a number of
  arguments it takes; and a handler that is called has all its arguments in
  `argv` (`spill` is empty), although `makeArgs` checks nothing.
* **`CommandsDoAsAsked`.** Between one prompt and the next the settings change as
  the command says and not otherwise; dump shows the lines that were asked for, at
  addresses that follow one another over the top of memory; unassemble shows as many
  instructions as asked, each at the address behind the one before, and goes on
  behind the last of them the next time. A line that is no command changes a
  setting only by its sixth word. Proved.
* **`RegistersSurvive`.** After a system call a program has its registers as they
  were, but for the character it asked for; what is reported of one that failed,
  and printed by `reg` then or after other commands, is what it ended with.
* **`PromptComesBack`.** Commands come back: programs that return, that terminate
  with bytes pushed, and that are run again included. The exceptions are in its
  condition `Sound`: `cpu` and numbers that overflow in `strToHex`, whose return goes
  wrong; `zob`, which has no end; `disk` and `load`, which may wait for a card or a
  character (`Returns` and `Recovers` say when they come back); and a jump to where
  there is no program.
* **`IsChannel`.** See above. It fails if the driver polls the wrong bit.
* **`ColumnIsTheCursors`.** `g.currentColumn` is where the terminal's cursor is as
  long as the row, since its CR, holds plain text only; and after a row that does
  not, it is right again with the next CR. The terminal is one that moves on a TAB and
  on bytes of $80 and more, which `putChar` does not count, and back on a BS, which it
  takes for nothing (stdio.asm:83-89): after any of them, typed while echo is on or
  printed, the count is wrong up to the next CR.
* **`EveryLineEnds`.** One CR for each CR, LF or CR LF that was typed, unless
  two LFs follow each other (section 6).
* **`Answers`.** `putChar` ends; a character that has come is taken by a program
  that waits for one.
* **`ReadIsWhole`.** A read that returns has the whole of one block, in order,
  unless the card was moved meanwhile: not half of one from a card at 16 bits
  (that read never returns), and not the rest of one that a reset cut off.
* **`DirIsThisDisks`.** The root directory's number is the one of the disk just
  read, 0 if that is not valid, with FAT counts of 0 and a carry into the upper
  byte; never an earlier disk's.
* **`ListingIsDirectory`.** When a listing ends it has shown every entry up to
  the end or the boot file once, in order, across blocks, and has met one of the
  two; where the bit of RAM that stands for the result of a read is set (`ram7`) it
  has shown nothing, not even a part. Proved, for any number of blocks. It is stated
  for a card that stays in, and takes the block that the card gave for the
  next one: that this is not the block asked for is `disk_lsn`.
* **`Returns`.** With a card that is in, ready and refuses nothing, and a
  directory that has an end, the prompt comes back. Each of these conditions is
  needed: the driver has no time-out.
* **`HostShowsBlock`.** A call shows the block it asked for or was told that it could
  not be read (which it does not look at), and the directory listed is the one the
  firmware lists. Two things are excluded: a buffer over which part of a block was
  read, until a block has been read whole, and blocks behind 2 GB, where
  `blockNum*BLOCK_SIZE` overflows (fatdisk.cpp:182) and another block, or none, is read
  and kept under the wrong number.
* **`FileContract`.** The files of `disk.c` are readable files: reads deliver the
  bytes in order, short only at the end or when the disk fails, and a failed read
  or seek keeps the position at what was delivered.
* **`DiesInDoubt`.** An assertion fails, or a walk does not end, only with another
  disk's table in memory or after a seek behind the end of a full last sector. The
  two are what a user of the library has to know; nothing else kills the program.
* **`HeapSafe`, `MaxIsMost`.** What `sbrk` handed out is the program's, once,
  whatever other processes and `sbrkmax` do; what `sbrkmax` answers is the most
  there is, to the byte. Both but for an end beyond the address space.
* **`SortsAndFinds`, `TokensAreWords`.** Against definitions that do not sort or
  scan; the stack of `qsort` never has more frames than there are elements.
* **`SectorPromise`, `MotorAtSpeed`, `Tolerates`.** The driver is a sector device
  under any timing of NMI, interrupt and controller; the motor is never turned
  off under a command; fewer troubles than attempts are made good, a restore that
  timed out included, which is taken for a good one.
* **`FileDelivered`.** `readDECBFile` returns 0 with the file, sector by sector, and
  "not found" only if it is not there.
* **`CallsReturn`, `CallsEnd`.** Reads, scans and requests come back; the motor is
  turned off some time after.

### Bounds, and why they are enough

* *Files* (`Transmissions`): two or three records each. The loader keeps
  nothing from one record to the next but what a record sets first, which
  `FaithfulLoad` over a second record and a second load confirms; every branch
  of the code is reached by the ten files and their faults. The proofs are for every
  file.
* *Faults* (`MaxFaults` = 1): the claim is about one; a checksum does not detect
  two. The proofs need no such bound.
* *Noise*: the characters that the code tells apart, and all sixteen digits, so
  that a carry and a checksum of any kind happen. In `loader_recovers` it is
  five of them, as the values of bytes do not matter there.
* *Loads* (`MaxLoads` = 2): a load, and a load after it.
* *Keys* (`Typings`): four and a CR. Editing depends on whether the line is empty, and
  `makeArgs` on the character before. Six keys stand for the classes the code
  has: letter, upper case, white, DEL, line end, negative byte; TAB is in a line
  of its own.
* `MaxLine`, `MaxArgs` and `Spare` are the real 80, 5 and 519 (512 and 4 bytes in
  cf_io.asm:23-26, 3 in bobmon.asm:47-48). *Leftovers*: a row that is ended, and one
  that is not.
* *Cards*: valid with two FATs, with one and a carry, with none; the wrong sector
  size; no signature; the boot file, hidden entries and an end in each place; a
  card whose directory has no end; and one of two blocks.
* *Entries* (`Units` = 3): a first, a middle and a last one. *Blocks*
  (`MaxBlocks` = 3): the boot block, a directory block and the one behind it.
  *Moves* (`MaxSwaps` = 2): a card out, another in. *Blocks asked for* on the host
  (`Asked`): those an image has and the one behind it, the first whose place in bytes
  is negative in 32 bits, and one whose place is that of block 1.
* *Writes* (`MaxShown` = 2 before the program stops writing; echo goes on): the
  hazard is between one character and the next.
* *Lines* (`MaxLines` = 3, `MonitorLines`): set a thing, use it, use it again; the
  lines have each handler with and without its arguments, good and bad ones, 0
  and more lines than a byte, the top of memory, and seven words: the lower byte
  of the seventh pointer is at $7FFF, which is nobody's. *System calls* (`MaxCalls` =
  1) of a program: a call leaves nothing to the next but the registers, which
  begin in three sets, with the values printing distinguishes (0, a negative
  number, full width).
* *Disk BASIC disks*: sectors of 2 bytes, granules of 2 sectors, so that a read
  crosses a byte, a sector and a granule; chains over both sides of the directory
  track, files that end within and at the end of a sector, an empty one, erased
  entries, a directory with and without an end. `Fds` is one descriptor: two share
  nothing but the table, which a change of drive or disk (`MaxSwaps`) upsets more.
* *Heap*: 32 bytes in pages of 2 with a large step of 8, as $100 and $2000 in
  $10000: limits at, between and behind the steps, requests across the wrap.
* *Arrays* (`MaxElements` = 4 over 3 keys): every one, with equal keys and a pivot at
  either end. *Strings*: every one of up to 4, delimiters in turn.
* *Floppies* (`Retries` = 3, `MaxTroubles` = 3): one trouble less than, and as many
  as, there are attempts; the code's 5 only makes more of the same. Sectors of a
  track are 4, heads begin on track 18, so that the driver seeks in both directions.
  `MotorTime` = 2 ticks: before, at and after the last one. `MaxSectors` = 4: the
  longest file of the instance.

### Fairness

`loader_recovers` assumes weak fairness of the firmware (it polls without end
and has no other work) and of the operator's keys (the claim is about an
operator who goes on). `console` assumes weak fairness of the driver and of the
device's transmitter. `disk` assumes weak fairness of the firmware, which polls
without end, and of the card finishing what it has begun; nothing of resets or of
moves. `line` assumes weak fairness of the handlers, which have
nothing to wait for, and of the program's end (`ProgramReturns` or `Terminates`
together: a program that never ends holds the machine, as it should, and a key
that a system call waits for is a handler's step: it is pressed). Nothing is assumed
there of `disk` and `load`. `library` assumes
that a call that is under way goes on (`ReadStep`, `ScanStep`). `floppy` assumes it of
the processor, of `readDECBFile`, of the controller, whose commands end or are timed
out by the code's own counters, and of the 60 Hz timer; nothing of the program.

Nothing is assumed of arrival: a program may wait for a character for ever, which
is why `console` does not check for deadlock. A failed assertion ends a program in
`library`, the loader runs stop at the bound on load commands, the disk runs where
a card is waited for that does not answer; `line` and `floppy` check for deadlock.

## 4. Why the loader comes first

It is the largest piece of the monitor's own logic, the one that writes all over
memory, and the one exposed to an unreliable line. The command loop and the
console are what it and all other commands stand on.

## 5. What is proved

All proofs are for every value of the constants, under the assumptions the
modules name, which TLC evaluates on every run that uses them. Most say only that
characters are bytes and bounds are numbers. Those that say more:

* `LoaderAssumption`: what is sent as a file is one, as LoadFile defines it; one the
  command does not claim is marked so. `LoadsFaithfully` and `LoadsToTheEnd` assume in
  their statements that every S1 record has data.
* `HostDiskAssumption`: an image has a boot block. `HeapAssumption` and
  `PagesAssumption`: OS-9 gives memory in pages, and the large step, the ends and
  the address space are whole numbers of them.
* `DecbAssumption`: the disks have the shape of the format. `ChainsAssumption`: the
  granules of a file are in use. `ChainsEndAssumption`, for `disk.c` only: the
  files of a disk end; a chain that runs in a circle hangs `computeFileLength` by
  itself, and the claim is about what the code adds to that.
* `ReadDECBFileAssumption`: a track is two granules and the directory is on one; a
  program of its own accord writes anywhere but there; a file has no more sectors than
  a disk (`MaxSectors`).
* `SortingAssumption`: keys are integers whose difference the comparator can tell.
* `CommandLineAssumption`: `argv` has room for three words, the most a command of the
  table has; the code's has five. `MonitorAssumption` and `MemoryAssumption`: there is
  something to be received, the line's buffer is in memory, and an instruction is one to
  five bytes long.

**LoaderProofs** holds for every set of files, with any number of records, any noise,
any number of loads and of faults, with and without an operator.

| Theorem | Says |
|---|---|
| `TypeCorrect` | widths of all variables; a digit reader is never left half way at a place that reads a character; echo is on exactly while a load is going on |
| `XsumIsTheSum` | at every wait `g.loadXsum` is the sum of the record's bytes modulo 256 (less the byte in B in the middle of an address) |
| `AcceptedRecordsAddUp` | a data record goes past its checksum only if its bytes add up to 0, or $FF for an S-record |
| `LoopsStayInStep` | pointer and counter of both data loops agree with the header |
| `RecordsStayInStep` | the three together, `RecordInStep` |
| `NoStrayDeposit` | a data record stores only inside the window its header gives, if that is not empty |
| `LoadsFaithfully` | an undisturbed load stores exactly what the file stands for, with no complaint, or complains of one the command does not claim (`FaithfulLoad`) |
| `LoadsToTheEnd` | the loader never waits for more than such a file has (`NeverStarves`) |

The argument is the inductive invariant
`IInv == TypeOK /\ XsumTracks /\ ChecksumHolds /\ LoopInStep`. None but
`XsumTracks` with its types could be proved alone: the type of `count` needs
`LoopInStep`, as the Intel loop counts down without a borrow and stays a word
only because it is entered with a count of at least 1; and `ChecksumHolds` needs
`XsumTracks`, as the code compares with the running checksum and not with the
sum. Each action keeps `IInv` by a lemma of its own. Lemmas on the helpers come
first: ranges of `HexDigit`, `ByteValue` and the complements, that the
complement closes the sum, that stepping the pointer and the counter together
keeps them in step modulo 2^16, and what `Finish`, `MotoReturn` and `Deposit`
leave. `NextKeepsIInv` puts them together. `NoStrayDeposit` follows from `IInv`
and from the fact that only the two data actions change memory.

The condition of `NoStrayDeposit`, that an S1 record's count be more than 3, is
not for convenience: without it the claim is false, as `loader_count3` shows. It is
the same for `HasData` in the next two.

`LoadsFaithfully` and `LoadsToTheEnd` follow from `FileInv`, which says where in
its file an undisturbed load is: in the lines before the first record (`InTitle`), or
in a record (`Reading`), or past a record of a type the command does not claim, with
the complaint made (`Complaining`). `At` is the place of the next character, counted by
what is left on the wire. In a record, `InByte` says which byte and which of its digits
comes next, that the first digit is in `g.upperNibble`, and that `total` is the sum of
the bytes before; `InIntel` and `InMoto` say for each place of the code what is stored
so far (`Image`, the records before; `Overlay`, the first bytes of this one) and what
of the header is remembered. IInv gives the rest: from the sum the checksum that the
code has calculated, from the counter how many bytes are stored. The lemmas, in their
order:

* *The functions LoadFile defines step by step exist and are what they say*
  (`SumsAre`, `ImagesAre`): by the least place where the function that is built so far
  could not go on (`Recursion`). `OverlayGrows`: the next byte at the next address is
  the next overlay, across the top of memory too.
* *A digit* (`DigitIs`, `Nibbles`, `FirstDigitRead`, `ByteRead`): two digits of a byte,
  in either case, read as that byte, with no carry.
* *The records of a file*: the last is the one that ends it (`GoesOn`, `EndsHere`), and
  the two ways a line can end (`LineEnds`).
* *The place in the file*: `ByteFollows` is what the byte just read is and which comes
  next, `LastSum` that the checksum at the end is the one the code expects. Then each
  action has its lemma (`IHexLengthFollows`, `MotoChecksumFollows`, ...): after it the
  load is at the next place, in the next record, or over with the image in memory.
* `ProgressGoesOn` puts them together, `MoreToCome` says that at each of these places
  there is something on the wire, so that an operator's key never comes into a file.

The finding in this is the rule on title lines, which the proof needs: after an
empty line the loader skips the next one whole, even if it is a record (section 6).

**ConsoleProofs**: `TypeCorrect`, and `ConsoleIsAChannel`, the refinement of Channel,
for whatever is typed and written and however much. The invariant `ConsoleInv` adds
to the types that a character the driver has polled for is still there (`Polled`):
without it a read of the data register could give an old character. Lemmas on
sequences first (what removing the second of a queue does: the overrun); then
`ChannelActions` says Channel's actions in the console's terms, and each action of
Console is one of them or a stutter. `Arrive` with a full receive register is
`Lose` of the second of what is coming. `LinesEnd` (`EveryLineEnds`) needs `LastRead`,
that the last character returned tells how the one read last was typed: then the
three counts grow together or not at all. `ColumnIsRight` (`ColumnIsTheCursors`) is an
invariant by itself, once it is known what one more character does to the row that
is shown (`RowGoesOn`: it is a CR, or plain and the row was) and to the cursor on it
(`CursorMoves`); that the terminal's rule and `putChar`'s agree is needed of plain
characters only.

**DiskProofs**: `TypeCorrect`, `ReadsAreWhole` (`ReadIsWhole`) and
`DirectoryIsThisDisks` (`DirIsThisDisks`), for any cards, of any number of blocks
and with any FATs, however often they are moved, and whatever they refuse. `DiskInv`
adds three things to them. `CardOK`: a busy card has nothing to give, and one that
has something is at a block it holds. `ReadInv`: card and buffer are at the same
place of the same block; a card at 16 bits runs out before the buffer is full, so
that such a read does not return with half a block. `First`: what a command reads
first is the boot block. The loop that adds up the FATs is a recursive function; it
is shown to exist by its closed form, and to be that form by the first round at
which it would not be (the naturals are well-founded), which needs no induction over
a predicate. Of the sum `WordLSN` and the lemmas on LSN make a sector number. Those
are, for all 2^32 sector numbers, `IncLSNAddsOne` (`incLSN` adds one whatever carries,
and takes the largest number to 0), with a case for each length of the carry, and
`ShiftLSNLDoubles` (`shiftLSNL` doubles, and loses only the topmost bit).

`ListsTheDirectory` (`ListingIsDirectory`) counts the entries through all blocks that
were got. `ListInv` says that those before the present one have been shown, each where
its turn is (`Complete`), that the present one is not behind the directory's end
(`Reaches`), and that the buffer holds the block that was got last; while a further block is being read, that
this is so up to the end of the blocks there are. `RamClear`, beside it, is that nothing
of a directory is got or printed while `ram7` is set. What it takes are two facts about
counting: one more entry that is to be seen is shown one place further, and a block
that is added at the end changes none of the entries before it.

`HostShowsTheBlock` (`HostShowsBlock`) is about the image on the host, of any size,
with any part of a block behind its end. `HostInv` adds `Kept` and `Fresh`: the number
that is kept has a place in the image, and unless part of a block was read over it the
buffer is the block of that place; `BlockRead` says what `readBlock` makes of them, and
`PlaceIsBlock` that up to 2 GB the place is the number.
`ComputerIsLeftAlone` says that the disk command beside it is `Spec` still.

**MonitorProofs** is about the command loop, the numbers and the monitor as a whole,
for whatever is typed, for any size of the buffer, and for any programs, registers and
number of system calls.

* *The command loop*: `ScreenIsTheLine` (`ScreenShowsLine`): `LineInv` says of the row
  and the line, character by character, what the property says of sequences, for the
  text a program left and the prompt together (`ShowsBehind`), and that
  the cursor is within the row: a terminal that writes behind its row would show
  nothing there. `WrittenIs` is what the terminal does with one character,
  `LetterShown` and `RubbedOut` what the editor makes of it; the end of a line and the
  prompt after it follow from that. `ArgumentsAreTheWords` (`ArgumentsAreWords`) and
  `CommandsAreLookedUp` (`DispatchIsLookup`) are about what is done with the line. The
  pass of `makeArgs` is a recursive function; `ScannedTo` says what it knows at each
  place, and that it exists and says so at every place is again shown from the least
  place where it would not (`HasScan`). So the arguments are the words
  (`MakeArgsFinds`); `singleMatch` accepts the beginnings of a name
  (`MatchIsBeginning`); and a handler is called with three words at most
  (`HandlersTakeThree`), which is what keeps the arguments within `argv`.
* *Numbers*: `PrintNumSays`, that what `printNum` writes says the number, for every
  word and every radix. `Recursion` is once more that a function that goes on from the
  place before exists. In a radix that is a power of two the digits that are written
  and the number without them always make the number (`DigitsAre`, `DigitsSay`), and
  what is left out are zeros (`NoneLeft`). In decimal `TenthIs` is the arithmetic of
  the division by subtraction, and `DividesOnce` that a round moves a digit from the
  number to the text and changes nothing of what the two say; five rounds leave nothing
  of a number up to 32,768 (`RoundsEnd`), which is what a negative one needs.
* *The monitor*: `MonitorTypeCorrect` (`MonitorTypeOK`) and `RegistersAreKept`
  (`RegistersSurvive`) need to know what is on the stack at every place, or `rti` could
  take a return address for a frame and an rts a frame for an address. `MonitorInv` has
  eight parts: `LinePart`, the command loop with its line inside the buffer;
  `ArgPart`, `SettingsPart` and `CountPart`, the types; `StackPart`, what is under a
  handler (`Base`), what is under a program (`Beneath`), and the frame on top of it
  while a call is handled (`Framed`: its registers are those before the call, until
  the function has put its result in, and its return address is the program's but for
  a call that terminates it); `CommandPart`, which command led here; `RegisterPart`,
  that the registers are `Kept`, whoever has them at the moment; `ReportPart`, that
  the last error is what will be printed. Each action has a lemma (`SwiKeeps`, `CallIsMade`,
  `RtiKeeps`, ...). The types of what dump and unassemble go through follow from
  `RoundsGoDown` and the assumption on `LengthAt`.
* *The two together*: `MonitorKeepsTheLoop`, that `ScreenShowsLine`,
  `ArgumentsAreWords` and `DispatchIsLookup` hold of the whole monitor and not of the
  command loop alone: where `pc` is not the loop the editor is at the start of a
  line (`Elsewhere`), so nothing comes between the end of a line and its dispatch.
* *What commands do*: `CommandsAreDone` (`CommandsDoAsAsked`). The property compares
  the settings at the call with those at the return, so `AskedInv` carries in between
  what has been done so far: of dump, that n lines have been shown, the address is
  behind them and as many rounds are left as the page has lines less n (`Dumped`,
  `RoundOf`: 0 stands for 256 at the start, and ends it); of unassemble, that each
  instruction begins behind the one before and Y is behind the last
  (`OneBehindTheOther`); of go, that the address is set before the program runs, and a
  program changes no setting. `HexIsRead`, that what `strToHex` makes of a word is its
  value or an error, and never both, ties the settings to the words.
  The handlers test whether argc is 2, the property whether a second word was given;
  that these agree is `ArgumentsAreTaken`: none is called with more words than it takes.

**LibraryProofs** is about the heap, `strtok` and the files of `disk.c`, and about a
program that uses the library.

* *The heap*: `HeapTypeCorrect`, `HeapIsSafe` (`HeapSafe`) and `MaxIsTheMost`
  (`MaxIsMost`), for every size of the address space, of the steps and of the limits.
  `HeapSafe` is not inductive: `HeapInv` adds `Sound`, that what was handed out, what
  is handed out next, the end the library knows of and the end OS-9 knows of follow
  one another, and that a scan only looks behind the end it began with. `MaxIsMost`
  needs `Exact` as well: all of these are page ends, and a scan that nobody disturbed
  goes back from the limit itself. Both are claimed until an end beyond the address
  space is asked for.
* *`strtok`*: `StrtokFindsWords` (`TokensAreWords`) for every string and any
  delimiters, changing from call to call. `TokensInv` adds `Scan`: a scan goes on just
  behind the last word, in a part of the string that is untouched. The loops of
  `strspn` and `strcspn` are a least element, so that the proof is of order and not of
  recursion.
* *The files*: `FilesTypeCorrect`, `DiesOnlyInDoubt` (`DiesInDoubt`) and
  `KeepsThePromise` (`FileContract`, the refinement of ReadableFile), for any disks and
  sizes of sectors and granules, any number of descriptors, of changes of disks and
  of sectors that cannot be read. `FilesInv` adds to the types what a descriptor
  `Knows` (its chain ends, and unless the file is in doubt the table in memory is its
  disk's and its length and content are the file's) and that the offset is `Within`
  its sector; `Survives` says so of every open file as long as the program runs, and
  what is in doubt once it does not. The refinement adds `Sited`, where the sector
  buffer and the reader are in the bytes of the file, and `Gathered`, that a read has
  collected the bytes from where it began up to the position. Its heart is arithmetic:
  that sector k of the content is the sector of the chain the descriptor is at
  (`ByteIs`, `NextSectorIs`, `PositionIs`), and that stretches of a sequence join
  (`StretchesJoin`). Each operation then has a lemma that says what it keeps and which
  step of ReadableFile it is (`KeptOpenfile`, `KeptSeek`, `KeptReadFetches`, ...); a
  round of `read` that goes on is a stutter.
* *The whole*: `PartsOfTheLibrary`, that a program which uses one of the four parts
  behaves as the specification of each, so that all this holds of it;
  `LibraryTypeCorrect` (`LibraryTypeOK`).

**DecbProofs** has the lemmas on chains of granules that LibraryProofs and FloppyProofs
share: `After` is a recursive function of the number of steps, and is shown to exist,
and to be what it says (`AfterFollows`), from the least number at which it would not.

**SortingProofs**: `SortsAndSearches` (`SortsAndFinds`) for arrays of any size and
any integer keys. `SortInv` says what each frame has done (`FrameOK`: `Sifted` while it
partitions, `Parted` from then on, `Ordered` to the left of the pivot when it is done
there), that the frames are parts of one another (`StackOK`), each at least one element
smaller, which bounds the stack, and that the top one's part is sorted (`TopOK`). What
is swapped in an inner part leaves the outer ones parted, since its elements stay in
it (`WaitingKept`): this is why there is no induction over the recursion. For
`bsearch`, that what was put aside is below the key, or above it (`SearchOK`).

**FloppyProofs**: `MotorStaysOn` (`MotorAtSpeed`), `DskconIsADevice` (`SectorPromise`, a
refinement), `FloppyTypes` (`TypeOK`), `ToleratesTroubles` (`Tolerates`) and
`DeliversFile` (`FileDelivered`), for any drives, disks, heads, requests, number of
attempts and of troubles. `DriverInv` has five parts: `Records`, the types that
matter; `NmiAwaited`, at which places of the processor an NMI may still come;
`MotorInv`, that the timer is 0 while a request is under way and the image of the
drive register is not outdated; `Controller`, what each place knows of the
controller; `Outcome`, what the status means at the place where it is decided.
The refinement has a lemma for each step; all but those that set the status or
write a sector are stutters or `Work`. The types need `Geometry`, that nothing is
asked for that a disk does not have, and `Reading`, that what `readDECBFile` goes on at
is a granule in use. `Tolerates` is drawn from books that are kept: at every
attempt that failed, or is about to fail (the head is not where it is thought to be,
an error is on its way), one trouble was spent on it and no other (`Owed`).
`FileDelivered` needs `Delivering`: what was passed over in the directory is not
what is looked for, and what was read is the first sectors of the file whose chain
leads to the granule the reader is at (`Begun`).

Only model-checked are, of the invariants and action properties,
`WrongBytesAreReported`, which is a claim about the files of the
instance and false of files in general: an S1 record at a low address whose count of
`21` loses its `2` is read as one of 16 bytes, each a digit late, and an 8-bit checksum
accepts one in 256 of those; and the liveness properties (`Recovers`,
`PromptComesBack`, `Answers`, `Returns`, `CallsReturn`, `CallsEnd`). Liveness under fairness, `ENABLED`, induction over data with a
predicate as parameter, and `RECURSIVE` operators are outside what these provers do
here; no module declares a `RECURSIVE` operator.

## 6. Where code and comments disagree

Five have a run whose counterexample shows them:

* `loader_badsum`: `loadMotoRecord` "returns: A: 0=Error" (load_cmd.asm:305).
  After a bad checksum A holds the calculated checksum (424-427), so the load
  goes on as a rule, ends as if it were complete when that is 2, and fails only
  when it is 0.
* `loader_count3`: "count included address and xsum" (load_cmd.asm:393). The
  loop stores before it counts (397-409): a count of 3 stores the checksum and
  what follows, with 65,535 more bytes to come.
* `line_long`: "A: buffer size" (commands.asm:212). The size is neither passed
  nor looked at; a line of 80 characters writes its EOS, and a longer one itself, over
  the disk's block buffer, and after 519 bytes over `g.argc`. The loop goes on: the
  disk command reads its blocks anew.
* `disk_lsn`: "X - address of LSN (4 bytes)" (cf_io.asm:189). `ldy CFBase` (199)
  loads what the card's first registers hold, not their address: the number is
  written elsewhere, and "need to read the next" (fat16.asm:166) reads the same
  sector again.
* `disk_invalid`: "do we have a valid FAT16 disk in drive 0?" (disk_cmd.asm:43).
  Whatever the answer, the directory is rewound and listed (67).

Others are in the models as the code has them, without a run of their own:

* Every failure of a load but Ctrl-C ends with "Loaded ok." as well
  (load_cmd.asm:141, 73): `Fail`, `LoadDisk`.
* "Gobble the rest of the line" (load_cmd.asm:99): if the character just read is the
  end of the line, it is the next line that is gobbled (100-103). A file whose first line
  is empty loses its first record, and with an Intel record nothing tells: `Title`.
* "press Ctrl-C to abort" (load_cmd.asm:153): Ctrl-C is seen where a record may
  start (89, 117, 132), not inside one nor while a line is skipped. This is why
  `Recovers` has CR in it.
* "Unexpected character" (load_cmd.asm:463) is reported by carry, which a bad
  second digit does not give if the first digit is 0: the byte $FF is stored,
  and left to the checksum.
* "Badly formatted End of File record." (load_cmd.asm:288) is never printed: the
  comparison of an Intel end record's checksum is not used (235-245).
* "up to MAX_ARGS" (args.asm:25): pointers to a sixth and a seventh argument go to
  `g.memoryAddress` and `g.linesPerPage` (`spill`) before the number of
  arguments is looked at.
* "ignore it (if it follows a CR)" (stdio.asm:32-34): an LF that was converted
  counts as a CR, so of two LFs the second is ignored: `LineFeedTwice`.
* "1=No device" (fat16.asm:46): `fatValidDisk` has no path to it. Without a card
  `cfWait` or `cfReadBuff` waits for ever, or what the empty bus reads as is
  taken for a block.
* "A - 0 on no error" (cf_io.asm:101): `cfReadBuff` leaves 0 in Y, so the status
  tested (114) is address 7 (`ram7`).
* "1=No more entries" (fat16.asm:155): the first entry of a directory is printed
  without a look at whether it is there (`Rewound`).
* "The device won't accept any other commands until DIAG has been run"
  (cf_io.asm:44): `load <file>` does not call `cfInit` (`LoadFn`).
* A program's exit code: `hello.asm` passes it in A (hello.asm:9), `appTerminated`
  tests B (bobmon.asm:94) and prints D (96).
* `binToBin` writes "z" for 0 (binToBin.asm:32): `binToBin` in Numbers.
* A dump whose address is bad keeps the count that came with it (dump_cmd.asm:55).
  A count, or window, of 0 is 256 lines (dump_cmd.asm:70): `EndOfRounds`.
* `cpuFn` pushes D and never pulls it (cpu_cmd.asm:36), and `strToHex` leaves a
  byte on the stack when a number is too long (string_functions.asm:135): their
  rts takes something else for an address. `pc` is "lost".
* "the maximum number of bytes still allocatable" (cmoc.h:371): near the top of
  memory the end asked for wraps to a low address, which OS-9 grants by taking
  memory away (os9-sbrkmax.c:32-34): `wrapped`.
* `seek` clamps to the length of a file (disk.c:248-254) and, if that fills its
  last sector, leaves a descriptor whose next read asks for a sector behind it, or
  fails an assertion (287).
* One granule table serves all drives (disk.c:164): after `setDefaultDriveNo`, or a
  change of disk, files are followed through another disk's chains until
  `initdisk`.
* A sector of the directory that cannot be read is "not found" to `openfile`
  (disk.c, `findDirEntry`).
* An operation 0 whose restore times out reports success
  (dskcon-standalone.c:153); `readDECBFile` leaves the motor on unless the
  caller's interrupt goes on calling `dskcon_irqService`.
* `diskinfo` divides by the sector size of a boot block it has not looked at, and
  its "a+" creates an image that is not there (fatdisk.cpp).

## 7. What is not modelled

* **disasm.asm, disasm_tables.s** are third-party and format text from tables; of
  an instruction only its length is known (`LengthAt`).
* **assist09/** is vendored: Motorola's monitor. **test/cftest.asm** is an adapted
  third-party test.
* **stdlib/**, the rest: arithmetic, conversions and string functions without state
  between calls, graphics and keyboard of the CoCo, the C run-time in assembly.
* **utils/decbinfo** reads a file once from front to back, prints it and keeps
  nothing.
* **Hardware/, Glue Logic/** are schematics and an unfinished decoder.
* Memory is plain RAM: a store of the loader (load_cmd.asm:216, 404) may hit the
  monitor's own globals below $7FFF, the stack at $0200, or the ROM, which keeps
  what it has. The claims on what is stored are about files that stay clear of those.
* In `openfile` the directory and the granule table are read in one step. A disk changed
  between the two leaves a file of one disk with the table of another: the state
  "stale" that a disk changed between two calls leaves too. A program that keeps files
  open when it has the table read again (`dropFAT`) is not modelled: if the disk is
  another, its files are as much in doubt as those of a disk that was changed.
* `readDECBFile` returns the size in a word (readDECBFile.c:265): of a file of more than
  65,535 bytes, which has no place in memory, it is what is left of it. The model has the
  sectors and the bytes of the last one.
* In what is modelled: the wording of messages (but which are printed), the
  `DEBUGGING` listing, the instruction-level order of writes to variables that
  nobody else can see, and time. In Console, `serialInit`, which resets the
  device once at start-up, and the status calls nothing uses. In Disk, `cfWrite`,
  `cfInfo`, `fatDumpInfo` and `fatPackFileName`, which no command calls; the
  wording of the boot file's message; and where the stray write of `cfSetLSN`
  goes: it is taken to hit nothing that the model has.
* In Monitor, what the device probes print at start-up, and `quickMemCheck`, which
  is never called; where a wrong rts goes. In the library, `strToLSN` and `putLSN`,
  and `padToCol`: called at exactly its target column it would write 256
  characters, but no caller gets there (the columns of `help` are at most 21 or
  behind 24, those of `unassemble` at most 16).
* Chains that are cycles on the disk itself: `disk.c` meets one only through another
  disk's table, and to `readDECBFile` a file has at most `MaxSectors`. In Dskcon, write
  precompensation and density, and `readDECBFile` called while the program has
  already initialised the driver.

## 8. The plan

What was planned first, and is done: the loader; the command loop and the
console; the disk command; the monitor with its handlers and system calls; the
numbers; the host's cache; and of the CMOC library what keeps state between
calls. What would come next:

1. **Loader with CommandLine**: what is left of a file after a load is typed at
   the prompt and may be a command. Property: no line of a load that ended well
   runs as a command.
2. `padToCol`, `strToLSN` and `fatPackFileName`, against the arithmetic, once
   something calls them with more than they can take.
