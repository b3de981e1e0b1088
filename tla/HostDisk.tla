------------------------------ MODULE HostDisk ------------------------------
(***************************************************************************)
(* fatdisk, the class that reads an image of a disk on the host for        *)
(* diskinfo (utils/fatdisk.cpp, diskinfo.cpp): openDisk(), which lists the *)
(* root directory, and after it listDirectory(), dumpBlock(), dumpInfo()   *)
(* in any order.  All read through readBlock(), which keeps one block; and *)
(* none looks at whether it could be read.                                 *)
(*                                                                         *)
(* An image is one of the disks the firmware reads.  Its last block may be *)
(* there in part.                                                          *)
(***************************************************************************)
EXTENDS Disk

CONSTANTS Asked,    \* blocks asked for
          Sizes     \* entries of a block, by a boot block that does not say 512 bytes

\* An image has a boot block: one without any is Missing, below.
ASSUME HostDiskAssumption ==
    /\ Asked \subseteq Nat /\ Sizes \subseteq Nat
    /\ \A d \in Disks : 0 \in DOMAIN d

VARIABLES image,         \* the disk, and whether it ends in a part of a block
          blockBuffer,   \* a block, or what it is a mixture with
          currentBlock,
          layout,        \* where the root directory is, and the entries of a block
          shown,         \* the last call: its block, the entries it listed
          spoilt         \* history: part of a block was read over the one in the buffer

host == <<image, blockBuffer, currentBlock, layout, shown, spoilt>>

Closed == [disk |-> CHOOSE d \in Disks : TRUE, part |-> FALSE, open |-> FALSE]
Nothing == [what |-> "nothing"]
\* Where there is no image, openDisk() makes one of no blocks.
Missing == [n \in {} |-> ZeroBlock]

\* Memory that was not written to is taken to be one of the blocks there are.
HostInit ==
    /\ image = Closed
    /\ blockBuffer \in {NoBlock, ZeroBlock}
    /\ currentBlock = -1
    /\ layout = [root |-> 0, entries |-> 0]
    /\ shown = Nothing
    /\ spoilt = FALSE

\* The file is put at blockNum * BLOCK_SIZE, an int of 32 bits: which block that
\* is, unless it is negative, where there is none.
Place(block) == block % 8388608
Before(block) == Place(block) < 4194304
Torn(d, part, block) == part /\ Before(block) /\ Place(block) = Cardinality(DOMAIN d)

\* A mutant: the block is taken to be in the buffer before it has been read.
readBlock_Early(d, part, block, current, buffer) ==
    IF block = current THEN [ok |-> TRUE, current |-> block, buffer |-> buffer]
    ELSE IF Before(block) /\ Place(block) \in DOMAIN d
    THEN [ok |-> TRUE, current |-> block, buffer |-> d[Place(block)]]
    ELSE [ok |-> FALSE, current |-> block, buffer |-> buffer]
\* A block that is in the buffer is not read again.  Where the image ends in a
\* part of the block, that much of the buffer is overwritten, and currentBlock
\* stays.
readBlock(d, part, block, current, buffer) ==
    IF block = current THEN [ok |-> TRUE, current |-> current, buffer |-> buffer]
    ELSE IF Before(block) /\ Place(block) \in DOMAIN d
    THEN [ok |-> TRUE, current |-> block, buffer |-> d[Place(block)]]
    ELSE [ok |-> FALSE, current |-> current,
          buffer |-> IF Torn(d, part, block) THEN NoBlock ELSE buffer]

\* A block that is read whole makes the buffer good again; one that is found in
\* the buffer does not.
Reads(r, block, current) ==
    /\ currentBlock' = r.current /\ blockBuffer' = r.buffer
    /\ spoilt' = IF r.ok THEN spoilt /\ block = current
                 ELSE spoilt \/ Torn(image'.disk, image'.part, block)

\* listDirectory(), of what is then in the buffer: up to the end, and no more
\* than the boot block says.  What it shows from behind the buffer is left out.
Listing(block, entries) ==
    LET stops == {i \in 1..Units : block.entries[i] = "end"} \cup {entries + 1, Units + 1}
    IN  SelectSeq(SubSeq(block.entries, 1, Min(stops) - 1), LAMBDA e : e \notin Hidden)

Shows(what, r, block, current) ==
    /\ Reads(r, block, current)
    /\ shown' = [what |-> what, block |-> block, ok |-> r.ok,
                 listed |-> Listing(r.buffer, layout'.entries)]

\* The boot block is looked at whether it is one or not, and whether it could be
\* read or not; then the root directory is listed.  A size of 0 bytes is divided
\* by, and the program dies.
openDisk(d, part) ==
    LET boot == readBlock(d, part, 0, currentBlock, blockBuffer)
        parts == boot.buffer.boot
        root == parts.reserved + parts.fats * parts.perFat
    IN  /\ ~image.open
        /\ image' = [disk |-> d, part |-> part, open |-> TRUE]
        /\ \E n \in (IF parts.size512 THEN {Units} ELSE Sizes) :
              /\ layout' = [root |-> root, entries |-> n]
              /\ IF n = 0
                 THEN /\ shown' = [what |-> "died"]
                      /\ UNCHANGED <<blockBuffer, currentBlock, spoilt>>
                 ELSE Shows("root", readBlock(d, part, root, boot.current, boot.buffer),
                            root, boot.current)

\* listDirectory(), dumpBlock(); dumpInfo() is one of block 0.
ShowBlock(block) ==
    /\ image.open /\ shown.what # "died"
    /\ UNCHANGED <<image, layout>>
    /\ Shows("block", readBlock(image.disk, image.part, block, currentBlock, blockBuffer),
             block, currentBlock)

HostNext ==
    \/ \E d \in Disks \cup {Missing}, part \in BOOLEAN : openDisk(d, part)
    \/ \E block \in Asked : ShowBlock(block)

(***************************************************************************)
(* The computer, or the host: they share the disks, not their state.       *)
(***************************************************************************)
VARIABLE using

TheComputer == using = "computer" /\ Next /\ UNCHANGED <<host, using>>
TheHost == using = "host" /\ HostNext /\ UNCHANGED <<vars, using>>

BothInit ==
    /\ Init /\ HostInit
    /\ using \in {"computer", "host"}
    /\ using = "host" => bus = "ones" /\ ~ram7
    /\ using = "computer" => blockBuffer = ZeroBlock
BothSpec ==
    /\ BothInit /\ [][TheComputer \/ TheHost]_<<vars, host, using>>
    /\ WF_vars(Firmware) /\ WF_vars(CardDone)

-----------------------------------------------------------------------------
\* What a call shows is the block it asked for, or readBlock() answered that it
\* could not be read (which no call looks at): of blocks up to 2 GB, and unless
\* a part of a block was read over the one in the buffer and no block since.  And
\* of a valid disk the directory that is listed is the one the firmware lists, up
\* to the width of its words (fatdisk.cpp:31-41, 176-194; fat16.asm).
HostShowsBlock ==
    (shown.what \in {"root", "block"} /\ ~spoilt) =>
        /\ shown.ok /\ shown.block < 4194304 =>
                       /\ shown.block \in DOMAIN image.disk
                       /\ blockBuffer = image.disk[shown.block]
                       /\ shown.listed = Listing(image.disk[shown.block], layout.entries)
        /\ (shown.what = "root" /\ image.disk # Missing) =>
              LET boot == image.disk[0].boot
              IN  boot.signature /\ boot.size512 =>
                     shown.block % 65536 = Value(RootDir(boot, "valid"))
=============================================================================
