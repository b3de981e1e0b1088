-------------------------------- MODULE Disk --------------------------------
(***************************************************************************)
(* The "disk" command (bobmon/disk_cmd.asm) with the FAT16 reader it calls *)
(* (fat16.asm) and the driver of the CF card below that (cf_io.asm); also  *)
(* what "load <filename>" does with them.                                  *)
(*                                                                         *)
(* The card is an actor: it takes its time over a command, may refuse it,  *)
(* and may be pulled out or put in at any moment.  The firmware polls.  A  *)
(* step of the firmware is one successful poll with the code that runs up  *)
(* to the next; the 32 bytes of a directory entry are transferred in one   *)
(* step, and a block is a few of them.                                     *)
(*                                                                         *)
(* A definition marked "a mutant" is the one that follows it with a slip a *)
(* programmer could make; nothing here uses it.                            *)
(***************************************************************************)
EXTENDS LSN, SequencesExt

CONSTANTS
    Disks,         \* what a card may hold: functions from 0..n to blocks
    Units,         \* how many directory entries a block has (16)
    Positions,     \* what the diagnostic may leave in the card's LSN registers
    MaxBlocks,     \* bound: blocks a command reads
    MaxSwaps       \* bound: cards put in or pulled out

Kinds == {"end", "long", "label", "file", "boot"}

Boots == [signature : BOOLEAN, size512 : BOOLEAN,
          reserved : Word, fats : Byte, perFat : Word]

ASSUME DiskAssumption ==
    /\ Units \in Nat \ {0}
    /\ \A d \in Disks : \A n \in DOMAIN d :
          /\ d[n].boot \in Boots
          /\ d[n].entries \in [1..Units -> Kinds]
    /\ Positions \subseteq Nat
    /\ MaxBlocks \in Nat /\ MaxSwaps \in Nat

VARIABLES
    card,          \* what is in the socket: see Card
    bus,           \* what an empty socket reads as: "ones" or "zeros"
    ram7,          \* bit 3 of the byte at address 7, which is not a variable
    pc,            \* where the firmware is: see Places
    caller,        \* what cfRead returns to
    pos,           \* how far cfReadBuff has come (register X)
    blockBuff,     \* g.blockBuff, by entries
    currentDir,    \* g.currentDir
    dirBlock,      \* g.dirBlock
    currentDirEnt, \* g.currentDirEnt, the number of an entry
    verdict,       \* what fatValidDisk answered
    printed,       \* history: what the command has listed
    got,           \* history: the blocks it has read
    trouble,       \* history: what has gone wrong with the card meanwhile
    swaps          \* history: cards put in or pulled out

env == <<bus, ram7, swaps>>
fat == <<currentDir, dirBlock, currentDirEnt, verdict, printed>>
reading == <<pos, blockBuff, got>>
vars == <<card, env, pc, caller, reading, fat, trouble>>

Places == {"prompt", "diagWait", "setWait", "transfer", "read", "list"}
Callers == {"disk", "load", "rewind", "next"}
Verdicts == {"valid", "incompatible", "notFAT"}

-----------------------------------------------------------------------------
(* The card.                                                               *)

\* A block of nothing: all ones have the volume label's bit set.
NoBlock ==
    [boot |-> [signature |-> FALSE, size512 |-> FALSE,
               reserved |-> 65535, fats |-> 255, perFat |-> 65535],
     entries |-> [i \in 1..Units |-> "label"]]

\* A block of zeros: what initBSS leaves in the buffer.
ZeroBlock ==
    [boot |-> [signature |-> FALSE, size512 |-> FALSE,
               reserved |-> 0, fats |-> 0, perFat |-> 0],
     entries |-> [i \in 1..Units |-> "end"]]

Unit(b, i) == [block |-> b, at |-> i]
Whole(b) == [i \in 1..Units |-> Unit(b, i)]

Card(d) ==
    [present |-> TRUE, holds |-> d, busy |-> TRUE, drq |-> FALSE,
     command |-> "power", wide |-> TRUE, lsn |-> 0, next |-> 1]

Busy == IF card.present THEN card.busy ELSE bus = "ones"
Drq  == IF card.present THEN card.drq ELSE bus = "ones"

\* A card takes no command while it is busy, and no card takes none.
Command(c) ==
    IF card.present /\ ~card.busy
    THEN [card EXCEPT !.busy = TRUE, !.drq = FALSE, !.command = c]
    ELSE card

Refuse ==
    /\ card' = [card EXCEPT !.busy = FALSE]
    /\ trouble' = trouble \cup {"refused"}

\* The diagnostic sets the LSN registers; the firmware sets but the topmost four
\* bits, to 0 (cfInit).  A card transfers 16 bits until it is told otherwise.
CardDone ==
    /\ card.present /\ card.busy
    /\ \/ /\ card.command \in {"power", "diag"}
          /\ \E p \in Positions :
                card' = [card EXCEPT !.busy = FALSE, !.lsn = p]
          /\ UNCHANGED trouble
       \/ /\ card.command = "set"
          /\ card' = [card EXCEPT !.busy = FALSE, !.wide = FALSE]
          /\ UNCHANGED trouble
       \/ /\ card.command = "read" /\ card.lsn \in DOMAIN card.holds
          /\ card' = [card EXCEPT !.busy = FALSE, !.drq = TRUE, !.next = 1]
          /\ UNCHANGED trouble
       \/ card.command \in {"set", "read"} /\ Refuse
    /\ UNCHANGED <<env, pc, caller, reading, fat>>

PullOut ==
    /\ card.present /\ swaps < MaxSwaps
    /\ card' = [card EXCEPT !.present = FALSE, !.busy = FALSE, !.drq = FALSE]
    /\ trouble' = trouble \cup {"moved"}
    /\ swaps' = swaps + 1
    /\ UNCHANGED <<bus, ram7, pc, caller, reading, fat>>

PutIn ==
    /\ ~card.present /\ swaps < MaxSwaps
    /\ \E d \in Disks : card' = Card(d)
    /\ trouble' = trouble \cup {"moved"}
    /\ swaps' = swaps + 1
    /\ UNCHANGED <<bus, ram7, pc, caller, reading, fat>>

\* Between two commands anything may be stored at address 7.
Poke ==
    /\ pc = "prompt"
    /\ ram7' = ~ram7
    /\ UNCHANGED <<card, bus, swaps, pc, caller, reading, fat, trouble>>

-----------------------------------------------------------------------------
(* cfInit and cfRead.                                                      *)

\* diskFn; an empty socket is trouble from the start.
DiskFn ==
    /\ pc = "prompt"
    /\ card' = Command("diag")
    /\ pc' = "diagWait" /\ caller' = "disk"
    /\ printed' = <<>> /\ got' = <<>>
    /\ trouble' = IF card.present THEN {} ELSE {"moved"}
    /\ UNCHANGED <<env, pos, blockBuff, currentDir, dirBlock, currentDirEnt,
                   verdict>>

\* Neither the result of the diagnostic nor the answer to "8-bit transfers" is
\* looked at.
SetFeatures ==
    /\ pc = "diagWait" /\ ~Busy
    /\ card' = Command("set")
    /\ pc' = "setWait"
    /\ UNCHANGED <<env, caller, reading, fat, trouble>>

\* cfRead for a caller: the command, and the buffer from its start.
StartRead(c) ==
    /\ card' = Command("read")
    /\ pc' = "transfer" /\ caller' = c
    /\ pos' = 0

\* fatValidDisk clears its LSNs and reads, wherever the card is.
ReadBoot ==
    /\ pc = "setWait" /\ ~Busy
    /\ StartRead("disk")
    /\ currentDir' = clearLSN
    /\ UNCHANGED <<env, blockBuff, got, dirBlock, currentDirEnt, verdict,
                   printed, trouble>>

\* "load <filename>" does the same without cfInit.
LoadFn ==
    /\ pc = "prompt"
    /\ StartRead("load")
    /\ currentDir' = clearLSN
    /\ printed' = <<>> /\ got' = <<>>
    /\ trouble' = IF ~card.present THEN {"moved"}
                  ELSE IF card.busy \/ card.wide THEN {"notReady"} ELSE {}
    /\ UNCHANGED <<env, blockBuff, dirBlock, currentDirEnt, verdict>>

\* What the data register gives; a 16-bit transfer gives every other byte.
Incoming ==
    IF ~card.present THEN Unit(NoBlock, pos + 1)
    ELSE Unit(card.holds[card.lsn], card.next)

After(c) ==
    LET n == c.next + (IF c.wide THEN 2 ELSE 1)
    IN  [c EXCEPT !.next = n, !.drq = n <= Units]

\* A mutant: the loop ends one round early.
TransferShort ==
    /\ pc = "transfer" /\ Drq
    /\ blockBuff' = [blockBuff EXCEPT ![pos + 1] = Incoming]
    /\ pos' = pos + 1
    /\ card' = IF card.present THEN After(card) ELSE card
    /\ pc' = IF pos' >= Units - 1 THEN "read" ELSE "transfer"
    /\ UNCHANGED <<env, caller, got, fat, trouble>>

\* cfReadBuff waits for DRQ alone: not for the end of BUSY, and not for ERR.
Transfer ==
    /\ pc = "transfer" /\ Drq
    /\ blockBuff' = [blockBuff EXCEPT ![pos + 1] = Incoming]
    /\ pos' = pos + 1
    /\ card' = IF card.present THEN After(card) ELSE card
    /\ pc' = IF pos' = Units THEN "read" ELSE "transfer"
    /\ UNCHANGED <<env, caller, got, fat, trouble>>

-----------------------------------------------------------------------------
(* fatValidDisk.                                                           *)

\* The block in the buffer, by its parts: the signature is at its end.
Signature == blockBuff[Units].block.boot.signature
BootParts == blockBuff[1].block.boot
Entry(i) == blockBuff[i].block.entries[blockBuff[i].at]

Verdict ==
    IF ~Signature THEN "notFAT"
    ELSE IF ~BootParts.size512 THEN "incompatible" ELSE "valid"

addd(a, b) == (a + b) % 65536

\* A mutant: the LSN is left as an earlier disk has it.
RootDirKept(boot, v) ==
    LET sum[k \in 0..255] ==
            IF k = 0 THEN boot.reserved ELSE addd(sum[k - 1], boot.perFat)
    IN  IF v = "valid" THEN WordLSN(sum[boot.fats]) ELSE dirBlock

\* The FATs are added up in 16 bits.  A count of 0 runs through all 65536
\* rounds, which add nothing.
RootDir(boot, v) ==
    LET sum[k \in 0..255] ==
            IF k = 0 THEN boot.reserved ELSE addd(sum[k - 1], boot.perFat)
    IN  IF v = "valid" THEN WordLSN(sum[boot.fats]) ELSE clearLSN

\* The load command: a message, and nothing else.
LoadAnswer ==
    /\ pc = "read" /\ caller = "load"
    /\ verdict' = Verdict
    /\ currentDir' = RootDir(BootParts, Verdict)
    /\ got' = Append(got, blockBuff[1].block)
    /\ pc' = "prompt"
    /\ UNCHANGED <<card, env, caller, pos, blockBuff, dirBlock, currentDirEnt,
                   printed, trouble>>

\* The disk command: a message, and on to fatRewindDir whatever it was.
\* cfSetLSN takes the CONTENTS of the card's first two registers for their
\* address: what it writes goes somewhere else (taken to hit nothing of this).
Rewind ==
    /\ pc = "read" /\ caller = "disk"
    /\ verdict' = Verdict
    /\ currentDir' = RootDir(BootParts, Verdict)
    /\ got' = Append(got, blockBuff[1].block)
    /\ dirBlock' = currentDir'
    /\ currentDirEnt' = 1
    /\ StartRead("rewind")
    /\ UNCHANGED <<env, blockBuff, printed, trouble>>

-----------------------------------------------------------------------------
(* The directory.                                                          *)

\* cfReadBuff has left 0 in Y, so cfRead takes bit 3 of address 7 for DRQ.
Rewound ==
    /\ pc = "read" /\ caller = "rewind"
    /\ got' = Append(got, blockBuff[1].block)
    /\ pc' = IF ram7 THEN "prompt" ELSE "list"
    /\ UNCHANGED <<card, env, caller, pos, blockBuff, fat, trouble>>

\* Where fatNextDirEnt's look at the first byte leads.
GoOn(e) == pc' = IF Entry(e) = "end" THEN "prompt" ELSE "list"

NextBlock ==
    /\ pc = "read" /\ caller = "next"
    /\ got' = Append(got, blockBuff[1].block)
    /\ IF ram7 THEN pc' = "prompt" /\ UNCHANGED currentDirEnt
       ELSE currentDirEnt' = 1 /\ GoOn(1)
    /\ UNCHANGED <<card, env, caller, pos, blockBuff, currentDir, dirBlock,
                   verdict, printed, trouble>>

Hidden == {"long", "label"}
ShowEntry ==
    printed' = IF Entry(currentDirEnt) \in Hidden THEN printed
               ELSE Append(printed, Entry(currentDirEnt))

\* fatPrintDirEnt, and the boot file ends the listing.
ListBoot ==
    /\ pc = "list" /\ Entry(currentDirEnt) = "boot"
    /\ ShowEntry
    /\ pc' = "prompt"
    /\ UNCHANGED <<card, env, caller, reading, currentDir, dirBlock,
                   currentDirEnt, verdict, trouble>>

\* A mutant: the end of the block is looked for one entry too late.
ListNextTooFar ==
    /\ pc = "list" /\ Entry(currentDirEnt) # "boot"
    /\ ShowEntry
    /\ currentDirEnt' = currentDirEnt + 1
    /\ pc' = IF currentDirEnt' <= Units /\ Entry(currentDirEnt') = "end"
             THEN "prompt" ELSE "list"
    /\ UNCHANGED <<card, env, caller, reading, currentDir, dirBlock, verdict,
                   trouble>>

\* A mutant: the first byte of the next entry is not looked at.
ListNextNoEnd ==
    /\ pc = "list" /\ Entry(currentDirEnt) # "boot" /\ currentDirEnt < Units
    /\ ShowEntry
    /\ currentDirEnt' = currentDirEnt + 1
    /\ pc' = "list"
    /\ UNCHANGED <<card, env, caller, reading, currentDir, dirBlock, verdict,
                   trouble>>

ListNext ==
    /\ pc = "list" /\ Entry(currentDirEnt) # "boot" /\ currentDirEnt < Units
    /\ ShowEntry
    /\ currentDirEnt' = currentDirEnt + 1
    /\ GoOn(currentDirEnt')
    /\ UNCHANGED <<card, env, caller, reading, currentDir, dirBlock, verdict,
                   trouble>>

\* A mutant: the end of the block is noticed before its last entry is shown.
ListLastUnseen ==
    /\ pc = "list" /\ Entry(currentDirEnt) # "boot" /\ currentDirEnt = Units
    /\ Len(got) < MaxBlocks
    /\ dirBlock' = incLSN(dirBlock)
    /\ StartRead("next")
    /\ UNCHANGED <<env, blockBuff, got, currentDir, currentDirEnt, verdict,
                   printed, trouble>>

\* The last entry of the block: the next block, and cfSetLSN again.
ListLast ==
    /\ pc = "list" /\ Entry(currentDirEnt) # "boot" /\ currentDirEnt = Units
    /\ Len(got) < MaxBlocks
    /\ ShowEntry
    /\ dirBlock' = incLSN(dirBlock)
    /\ StartRead("next")
    /\ UNCHANGED <<env, blockBuff, got, currentDir, currentDirEnt, verdict,
                   trouble>>

\* The reset button (handle_reset, initBSS): the card is not told.
Reset ==
    /\ pc # "prompt"
    /\ pc' = "prompt" /\ caller' = "disk" /\ pos' = 0
    /\ blockBuff' = Whole(ZeroBlock)
    /\ currentDir' = clearLSN /\ dirBlock' = clearLSN /\ currentDirEnt' = 1
    /\ verdict' = "notFAT" /\ printed' = <<>> /\ got' = <<>>
    /\ trouble' = {}
    /\ UNCHANGED <<card, env>>

-----------------------------------------------------------------------------
Init ==
    /\ \E d \in Disks : card = Card(d)
    /\ bus \in {"ones", "zeros"} /\ ram7 \in BOOLEAN /\ swaps = 0
    /\ pc = "prompt" /\ caller = "disk" /\ pos = 0
    /\ blockBuff = Whole(ZeroBlock)
    /\ currentDir = clearLSN /\ dirBlock = clearLSN /\ currentDirEnt = 1
    /\ verdict = "notFAT" /\ printed = <<>> /\ got = <<>>
    /\ trouble = {}

\* Everything the firmware does without being asked.
Firmware == \/ SetFeatures \/ ReadBoot \/ Transfer \/ LoadAnswer \/ Rewind
            \/ Rewound \/ NextBlock \/ ListBoot \/ ListNext \/ ListLast

Socket == CardDone \/ PullOut \/ PutIn

Next == DiskFn \/ LoadFn \/ Firmware \/ Socket \/ Poke \/ Reset

Spec == Init /\ [][Next]_vars

\* The firmware polls without end, and a card finishes what it has begun.
FairSpec == Spec /\ WF_vars(Firmware) /\ WF_vars(CardDone)

-----------------------------------------------------------------------------
(* Properties.                                                             *)

Held == UNION {{d[n] : n \in DOMAIN d} : d \in Disks}
Blocks == Held \cup {NoBlock, ZeroBlock}
CardTypes ==
    [present : BOOLEAN, holds : Disks, busy : BOOLEAN, drq : BOOLEAN,
     command : {"power", "diag", "set", "read"}, wide : BOOLEAN,
     lsn : Nat, next : Nat \ {0}]

\* The type invariant: in particular no entry is looked for outside the buffer.
TypeOK ==
    /\ card \in CardTypes
    /\ bus \in {"ones", "zeros"} /\ ram7 \in BOOLEAN
    /\ swaps \in 0..MaxSwaps
    /\ pc \in Places /\ caller \in Callers
    /\ pos \in 0..Units
    /\ blockBuff \in [1..Units -> [block : Blocks, at : 1..Units]]
    /\ currentDir \in LSNs /\ dirBlock \in LSNs
    /\ currentDirEnt \in 1..Units
    /\ verdict \in Verdicts
    /\ trouble \subseteq {"moved", "refused", "notReady"}

\* A read that returns has the whole block the card is at, in its order, even
\* after a card has refused 8-bit transfers or been reset in the middle of
\* one -- unless it was pulled out meanwhile (cf_io.asm:128-150).
ReadIsWhole ==
    (pc = "read" /\ "moved" \notin trouble) =>
        blockBuff = Whole(card.holds[card.lsn])

\* The root directory is where the disk just read says it is, and block 0 if
\* that is not a valid one: never where an earlier disk had it.
DirIsThisDisks ==
    (got # <<>> /\ "moved" \notin trouble) =>
        LET boot == got[1].boot
        IN  Value(currentDir) =
              IF boot.signature /\ boot.size512
              THEN (boot.reserved + boot.fats * boot.perFat) % 65536 ELSE 0

\* The directory as far as it has been read: its entries are numbered from 1, one
\* block after the other, behind the boot block.
Entries(blocks) == Units * (Len(blocks) - 1)
EntryAt(blocks, n) ==
    blocks[((n - 1) \div Units) + 2].entries[((n - 1) % Units) + 1]

\* Entry n is none of the directory any more: an end, or behind the boot file.  That
\* the first is looked at for what it is, not whether it is there, is the code's.
Over(blocks, n) ==
    n > 1 /\ (EntryAt(blocks, n) = "end" \/ EntryAt(blocks, n - 1) = "boot")
Reaches(blocks, n) == \A i \in 1..n : ~Over(blocks, i)

\* The entries up to n an operator is to see.
Visible(blocks, n) ==
    {i \in 1..n : Reaches(blocks, i) /\ EntryAt(blocks, i) \notin Hidden}

\* As many are listed as are to be seen, and each where its turn is.
Complete(listed, blocks, n) ==
    /\ Len(listed) = Cardinality(Visible(blocks, n))
    /\ \A i \in Visible(blocks, n) :
          listed[Cardinality(Visible(blocks, i))] = EntryAt(blocks, i)

\* What ended it: the end or the boot file is among them.
Ended(blocks, n) ==
    \E i \in 1..n : Over(blocks, i) \/ EntryAt(blocks, i) = "boot"

\* When a listing is over the operator has seen every entry up to the end or
\* the boot file, each once and in order, across the blocks of the directory, and
\* there is one or the other (fat16.asm:155-190); or bit 3 of address 7 was set, and
\* there is no part of a directory that could be taken for a whole one: nothing.
ListingIsDirectory ==
    [][ (pc # "prompt" /\ pc' = "prompt" /\ caller \in {"rewind", "next"}
         /\ "moved" \notin trouble /\ got' # <<>>) =>
            IF ram7 THEN printed' = <<>>
            ELSE (Complete(printed, got, Entries(got)) /\ Ended(got, Entries(got)))' ]_vars

\* Somewhere in every block the card may be at there is an end.
HasEnd == \A p \in Positions \cap DOMAIN card.holds :
              \E i \in 1..Units : card.holds[p].entries[i] \in {"end", "boot"}

\* With a card that stays in, is ready and refuses nothing, and a directory
\* that has an end, the prompt comes back.
Returns ==
    (pc # "prompt" /\ trouble = {} /\ HasEnd)
        ~> (pc = "prompt" \/ trouble # {})

-----------------------------------------------------------------------------
(* What comments say, and the code does not do.                            *)

\* "We've hit the end of that block, need to read the next" (fat16.asm:166)
\* and "X - address of LSN" (cf_io.asm:189): the block read is the one whose
\* LSN was set.
ReadsWhatWasSet ==
    (pc = "read" /\ caller \in {"rewind", "next"} /\ trouble = {}) =>
        card.lsn = Value(dirBlock)

\* "do we have a valid FAT16 disk in drive 0?" (disk_cmd.asm:43): only then is
\* there something to list.
ListsOnlyValidDisks == printed # <<>> => verdict = "valid"
=============================================================================
