------------------------------- MODULE MCDisk -------------------------------
(***************************************************************************)
(* Cards for the disk command.                                             *)
(***************************************************************************)
EXTENDS Disk

Boot(signature, size512, reserved, fats, perFat) ==
    [signature |-> signature, size512 |-> size512,
     reserved |-> reserved, fats |-> fats, perFat |-> perFat]

\* Two FATs; one FAT and a carry into the upper byte; a count of none.
Valid   == Boot(TRUE, TRUE, 1, 2, 3)
OneFat  == Boot(TRUE, TRUE, 255, 1, 256)
NoFats  == Boot(TRUE, TRUE, 4, 0, 9)
OddSize == Boot(TRUE, FALSE, 1, 2, 3)
NotFat  == Boot(FALSE, FALSE, 7, 7, 7)

Block(boot, entries) == [boot |-> boot, entries |-> entries]
Single(boot, entries) == <<Block(boot, entries)>>
Numbered(blocks) == [n \in 0..Len(blocks) - 1 |-> blocks[n + 1]]

\* One block each, and one with its root directory where the boot block says.
SomeDisks == {Numbered(s) : s \in
    {Single(Valid, <<"label", "file", "end">>),
     Single(Valid, <<"file", "boot", "file">>),
     Single(NoFats, <<"end", "long", "file">>),
     Single(OneFat, <<"file", "label", "file">>),
     Single(OddSize, <<"end", "end", "end">>),
     Single(NotFat, <<"long", "file", "end">>),
     <<Block(Boot(TRUE, TRUE, 0, 1, 1), <<"label", "file", "label">>),
       Block(NotFat, <<"file", "file", "end">>)>>}}

\* What the registers may hold afterwards.
Places01 == {0, 1}
=============================================================================
