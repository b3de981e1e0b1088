----------------------------- MODULE DecbFormat -----------------------------
(***************************************************************************)
(* A Disk BASIC disk, as the code that reads one takes it to be: 35 tracks *)
(* of 18 sectors; track 17 has the granule table (FAT) in sector 2 and the *)
(* directory from sector 3 on; the other 34 tracks are 68 granules of nine *)
(* sectors.  A FAT byte names the next granule of a file, or is $C0 plus   *)
(* the number of sectors used in the last one, or is $FF for a free one.   *)
(*                                                                         *)
(* The sizes of a sector, a granule and a directory sector are parameters; *)
(* the numbers the code compares with are the code's.  A byte of the disk  *)
(* is the place it comes from, so that one place is never taken for        *)
(* another.                                                                *)
(***************************************************************************)
EXTENDS Integers, SequencesExt

CONSTANTS
    SectorBytes,   \* bytes of a sector (256)
    GranSectors,   \* sectors of a granule (9)
    DirSectors,    \* sectors of the directory (16)
    DirEntries,    \* entries of a directory sector (8)
    Names,         \* the names a directory may hold
    DecbDisks      \* the disks there are

MAX_NUM_GRANULES == 68
GRANULE_SIZE == GranSectors * SectorBytes
Granules == 0..MAX_NUM_GRANULES - 1
EndOfFile == 255
Free == 255

\* What a FAT byte may be on a disk that Disk BASIC wrote.
FatBytes == Granules \cup (193..192 + GranSectors) \cup {Free}
Fats == [Granules -> FatBytes]

Entries == [kind : {"file"}, name : Names, firstGran : Granules,
            numBytesLastSector : 0..SectorBytes]
           \cup [kind : {"erased", "end"}]

DirectoryTrack == 17
ASSUME DecbAssumption ==
    /\ SectorBytes \in Nat \ {0} /\ SectorBytes <= 256
    /\ GranSectors \in 1..9 /\ DirSectors \in Nat \ {0}
    /\ DirEntries \in Nat \ {0}
    /\ \A d \in DecbDisks :
          /\ d.fat \in Fats
          /\ d.dir \in [1..DirSectors -> [1..DirEntries -> Entries]]

\* The granules of a file are in use: the first, and each that follows one.
ASSUME ChainsAssumption ==
    \A d \in DecbDisks :
        /\ \A s \in 1..DirSectors, i \in 1..DirEntries :
              d.dir[s][i].kind = "file" => d.fat[d.dir[s][i].firstGran] # Free
        /\ \A g \in Granules : d.fat[g] \in Granules => d.fat[d.fat[g]] # Free

\* The bytes of a sector of disk d.
Sector(d, place) == [i \in 1..SectorBytes |-> <<d.id, place, i>>]

(***************************************************************************)
(* What a file is: said of the disk, without the code's way of finding it. *)
(***************************************************************************)
\* The FAT byte n steps after granule g.
After(fat, g, n) ==
    LET at[m \in 0..n] == IF m = 0 THEN g
                          ELSE LET before == at[m - 1]
                               IN  IF before \in Granules THEN fat[before] ELSE EndOfFile
    IN  at[n]

\* How many steps it is from granule g to the one after the last, at most all.
Steps(fat, g) ==
    CHOOSE n \in 0..MAX_NUM_GRANULES :
        /\ n = MAX_NUM_GRANULES \/ After(fat, g, n) \notin Granules
        /\ \A m \in 0..n - 1 : After(fat, g, m) \in Granules

\* Where the first sector of a granule is.
PlaceOf(g) == <<g \div 2 + (IF g < 34 THEN 0 ELSE 1),
                (g % 2) * GranSectors + 1>>

LengthOf(d, e) ==
    LET n == Steps(d.fat, e.firstGran)
        used == After(d.fat, e.firstGran, n) - 192
    IN  (n - 1) * GRANULE_SIZE + (used - 1) * SectorBytes + e.numBytesLastSector

ContentOf(d, e) ==
    [i \in 1..LengthOf(d, e) |->
        LET place == PlaceOf(After(d.fat, e.firstGran, (i - 1) \div GRANULE_SIZE))
            within == (i - 1) % GRANULE_SIZE
        IN  <<d.id, <<place[1], place[2] + within \div SectorBytes>>,
              (within % SectorBytes) + 1>>]

\* The directory is read sector by sector, up to the mark of its end.
Slots == (1..DirSectors) \X (1..DirEntries)
Precedes(p, q) == p[1] < q[1] \/ (p[1] = q[1] /\ p[2] < q[2])
EntryAt(d, p) == d.dir[p[1]][p[2]]

\* Where there are entries of that name, and the first of them.
Named(d, name) ==
    {p \in Slots : /\ EntryAt(d, p).kind = "file" /\ EntryAt(d, p).name = name
                   /\ \A q \in Slots : EntryAt(d, q).kind = "end" => Precedes(p, q)}
FirstNamed(d, name) ==
    EntryAt(d, CHOOSE p \in Named(d, name) : \A q \in Named(d, name) : p = q \/ Precedes(p, q))
=============================================================================
