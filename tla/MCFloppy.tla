------------------------------ MODULE MCFloppy ------------------------------
(***************************************************************************)
(* Disks, requests and heads for the floppy disks.                         *)
(***************************************************************************)
EXTENDS ReadDECBFile

F(name, firstGran, last) == [kind |-> "file", name |-> name, firstGran |-> firstGran,
                             numBytesLastSector |-> last]
Erased == [kind |-> "erased"]
End    == [kind |-> "end"]

Table(chains) ==
    [g \in 0..67 |-> IF \E c \in chains : c[1] = g
                     THEN (CHOOSE c \in chains : c[1] = g)[2] ELSE 255]

SomeNames == {"LONG", "EMPTY"}

\* A file over both sides of the directory track, and one behind the end of the
\* directory; an empty file, in a directory without an end.
DiskOne == [id |-> 1,
            fat |-> Table({<<33, 34>>, <<34, 193>>, <<1, 193>>}),
            dir |-> <<<<Erased, F("LONG", 33, 1)>>, <<End, F("EMPTY", 1, 1)>>>>]
DiskTwo == [id |-> 2,
            fat |-> Table({<<67, 193>>}),
            dir |-> <<<<Erased, F("EMPTY", 67, 0)>>, <<Erased, Erased>>>>]

SomeInserted == {[n \in {0, 1} |-> IF n = 0 THEN DiskOne ELSE DiskTwo]}
SomeDisks == {DiskOne, DiskTwo}

\* The head is moved, a sector of the file and another are written.
Req(op, drive, track, sector) ==
    [op |-> op, drive |-> drive, track |-> track, sector |-> sector]
SomeRequests == {Req("restore", 0, 0, 1), Req("write", 0, 18, 1), Req("write", 1, 0, 2),
                 Req("other", 1, 0, 1)}
=============================================================================
