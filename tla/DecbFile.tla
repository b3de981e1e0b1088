------------------------------ MODULE DecbFile ------------------------------
(***************************************************************************)
(* The files of a Disk BASIC disk as a CMOC program reads them             *)
(* (stdlib/disk.c): initdisk, setDefaultDriveNo, openfile, rewind, seek,   *)
(* read, getFileLength.  DSKCON, the sector reader of the Disk BASIC ROM,  *)
(* is below: any of its reads may fail.  A disk may be changed for another *)
(* at any time, by hand or by a program that writes its sectors.           *)
(*                                                                         *)
(* The library is not re-entered, so a call is one step; only read() is    *)
(* a step for each round of its loop.  (A disk changed within openfile()   *)
(* leaves a file of one disk and the table of another, as one changed      *)
(* between two calls does.)  A failed assertion, and a loop that never     *)
(* ends, are places of their own: "aborted" and "hung".                    *)
(*                                                                         *)
(* A definition marked "a mutant" is the one that follows it with a slip a *)
(* programmer could make; nothing here uses it.                            *)
(***************************************************************************)
EXTENDS DecbFormat

CONSTANTS
    Drives,        \* the drives used, of 0..3
    Fds,           \* the file descriptors of the program
    Filenames,     \* what it passes to openfile: sequences of characters
    NameLength,    \* characters of a name (8)
    ExtLength,     \* characters of an extension (3)
    ReadSizes,     \* how many bytes it asks for
    SeekTo,        \* positions it seeks
    Inserted,      \* the disks that may be in the drives at first
    MaxSwaps,      \* bound: disks changed for another
    MaxOffset      \* bound: how far a program reads, where a file has no end

ASSUME DecbFileAssumption ==
    /\ Drives \subseteq 0..3 /\ 0 \in Drives
    /\ NameLength \in Nat \ {0} /\ ExtLength \in Nat
    /\ Inserted \subseteq [Drives -> DecbDisks]
    /\ ReadSizes \subseteq Nat \ {0}
    /\ SeekTo \subseteq Nat /\ MaxSwaps \in Nat /\ MaxOffset \in Nat

VARIABLES
    disk,          \* the disk in each drive
    curDriveNo,
    fatBuffer,     \* what the program's buffer for the table holds, or NoBuffer
    fatUpToDate,
    fd,            \* the FileDesc structures
    pc,            \* "program", in "read", "aborted" or "hung"
    job,           \* the arguments and the progress of read()
    swaps,         \* history: how often a disk was changed
    content,       \* history: for each descriptor, the file it was opened on
    doubt,         \* history: why it cannot be trusted
    answer         \* history: what the last call answered

decb == <<curDriveNo, fatBuffer, fatUpToDate>>
ghosts == <<content, doubt, answer>>
world == <<disk, swaps>>
vars == <<world, decb, fd, pc, job, ghosts>>

NoBuffer == [g \in {} |-> 0]
Zeros == [g \in Granules |-> 0]

(***************************************************************************)
(* Names.                                                                  *)
(***************************************************************************)
Upper(c) == IF c = "a" THEN "A" ELSE IF c = "b" THEN "B" ELSE c
toupper(s) == [i \in DOMAIN s |-> Upper(s[i])]

Cut(s, n) == SubSeq(s, 1, IF Len(s) < n THEN Len(s) ELSE n)
Padded(s, n) == s \o [i \in 1..n - Len(s) |-> " "]
Dots(s) == {i \in DOMAIN s : s[i] = "."}
FirstDot(s) ==
    IF Dots(s) = {} THEN Len(s) + 1 ELSE CHOOSE i \in Dots(s) : \A j \in Dots(s) : i <= j

\* What precedes the first period, and what follows it; both cut and padded.
normalizeFilename(src) ==
    Padded(toupper(Cut(SubSeq(src, 1, FirstDot(src) - 1), NameLength)), NameLength)
    \o Padded(toupper(Cut(SubSeq(src, FirstDot(src) + 1, Len(src)), ExtLength)), ExtLength)

\* The first entry of that name, where there is one.
findDirEntry(d, name) == FirstNamed(d, name)

(***************************************************************************)
(* The granule table.                                                      *)
(***************************************************************************)
\* updateFAT, where it succeeds: the table read once, or read now.
Cached(drive) == IF fatUpToDate THEN fatBuffer ELSE disk[drive].fat
updateFAT(drive) ==
    /\ fatBuffer # NoBuffer
    /\ fatBuffer' = Cached(drive)
    /\ fatUpToDate' = TRUE

granuleToTrack(g) ==
    <<IF g \div 2 >= 17 THEN g \div 2 + 1 ELSE g \div 2,
      IF g % 2 > 0 THEN GranSectors ELSE 0>>

\* The loop of computeFileLength: it ends at an entry above $C0, if at all.
WalkEnds(table, g) == After(table, g, Steps(table, g)) > 192

\* The chain of a file ends, on the disk it is on.
ASSUME ChainsEndAssumption ==
    \A d \in DecbDisks, s \in 1..DirSectors, i \in 1..DirEntries :
        d.dir[s][i].kind = "file" => WalkEnds(d.fat, d.dir[s][i].firstGran)

computeFileLength(table, g, last) ==
    LET n == Steps(table, g)
    IN  (n - 1) * GRANULE_SIZE + (After(table, g, n) - 193) * SectorBytes + last

getGranuleLength(table, g, last) ==
    IF table[g] > 192 + GranSectors THEN 0
    ELSE IF table[g] >= 193 THEN (table[g] - 193) * SectorBytes + last
    ELSE GRANULE_SIZE

(***************************************************************************)
(* Where a file may be read wrongly: the table in memory is not the one of *)
(* the disk it is on; or seek() stopped at the end of a file whose last    *)
(* sector is full, behind that sector.                                     *)
(***************************************************************************)
Doubts == {"none", "stale", "behind", "closed"}
Stale(d, table) == IF table = d.fat THEN "none" ELSE "stale"
Trusted(f) == doubt[f] = "none"
Open(f) == doubt[f] # "closed"

NoFile == [drive |-> 0, firstGran |-> 0, numBytesLastSector |-> 0, length |-> 0,
           curGran |-> 0, curSec |-> 0, curGranLen |-> 0, offset |-> 0, secOffset |-> 0,
           curSector |-> <<>>, curSectorAvailBytes |-> 0]
NoJob == [fd |-> CHOOSE f \in Fds : TRUE, left |-> 0, bytes |-> <<>>, from |-> 0, asked |-> 0]
NoAnswer == [op |-> "none"]

Init ==
    /\ disk \in Inserted
    /\ curDriveNo = 0
    /\ fatBuffer = NoBuffer
    /\ fatUpToDate = FALSE
    /\ fd = [f \in Fds |-> NoFile]
    /\ pc = "program"
    /\ job = NoJob
    /\ swaps = 0
    /\ content = [f \in Fds |-> <<>>]
    /\ doubt = [f \in Fds |-> "closed"]
    /\ answer = [f \in Fds |-> NoAnswer]

(***************************************************************************)
(* Calls.                                                                  *)
(***************************************************************************)
\* The buffer is the program's, of zeros, or the one in use.  fatUpToDate stays
\* as it is, so that another buffer is taken for the table.
initdisk(newFATBuffer) ==
    /\ pc = "program"
    /\ fatBuffer' = newFATBuffer
    /\ doubt' = [f \in Fds |-> IF Open(f) /\ newFATBuffer # disk[fd[f].drive].fat
                               THEN "stale" ELSE doubt[f]]
    /\ UNCHANGED <<world, curDriveNo, fatUpToDate, fd, pc, job, content, answer>>

\* fatUpToDate = FALSE, by which a program has the table read again: of the disk
\* that is in the drive, or of another drive.  The files it has open were of the
\* table before; it gives them up.
dropFAT ==
    /\ pc = "program"
    /\ fatUpToDate' = FALSE
    /\ fd' = [f \in Fds |-> NoFile]
    /\ content' = [f \in Fds |-> <<>>]
    /\ doubt' = [f \in Fds |-> "closed"]
    /\ answer' = [f \in Fds |-> NoAnswer]
    /\ UNCHANGED <<world, curDriveNo, fatBuffer, pc, job>>

setDefaultDriveNo(no) ==
    /\ pc = "program"
    /\ curDriveNo' = no
    /\ UNCHANGED <<world, fatBuffer, fatUpToDate, fd, pc, job, ghosts>>

\* What rewind() sets of a descriptor.
AtStart(file, table) ==
    [file EXCEPT !.curGran = file.firstGran, !.curSec = 1, !.offset = 0, !.secOffset = 0,
                 !.curGranLen = getGranuleLength(table, file.firstGran, file.numBytesLastSector),
                 !.curSectorAvailBytes = 0]

\* The directory is searched, the table read unless it is in memory, then the
\* length computed, or never: a table of zeros has no end.  A read that fails,
\* or no such name, leaves everything as it was.
openfile(f, filename) ==
    LET d == disk[curDriveNo]
        name == normalizeFilename(filename)
        entry == findDirEntry(d, name)
        table == Cached(curDriveNo)
        opened == [fd[f] EXCEPT
                     !.drive = curDriveNo, !.firstGran = entry.firstGran,
                     !.numBytesLastSector = entry.numBytesLastSector,
                     !.length = computeFileLength(table, entry.firstGran,
                                                  entry.numBytesLastSector)]
    IN  /\ pc = "program" /\ Named(d, name) # {}
        /\ updateFAT(curDriveNo)
        /\ IF ~WalkEnds(table, entry.firstGran)
           THEN /\ pc' = "hung"
                /\ doubt' = [doubt EXCEPT ![f] = Stale(d, table)]
                /\ UNCHANGED <<fd, content, answer>>
           ELSE /\ fd' = [fd EXCEPT ![f] = AtStart(opened, table)]
                /\ content' = [content EXCEPT ![f] = ContentOf(d, entry)]
                /\ doubt' = [doubt EXCEPT ![f] = Stale(d, table)]
                /\ answer' = [answer EXCEPT ![f] = [op |-> "open"]]
                /\ UNCHANGED pc
        /\ UNCHANGED <<world, curDriveNo, job>>

\* A file that stopped behind its last sector is trusted again.
Placed(f) == [doubt EXCEPT ![f] = IF @ = "behind" THEN "none" ELSE @]

rewind(f) ==
    /\ pc = "program" /\ Open(f)
    /\ fd' = [fd EXCEPT ![f] = AtStart(@, fatBuffer)]
    /\ doubt' = Placed(f)
    /\ answer' = [answer EXCEPT ![f] = [op |-> "rewind"]]
    /\ UNCHANGED <<world, decb, pc, job, content>>

getFileLength(f) ==
    /\ pc = "program" /\ Open(f)
    /\ IF ~WalkEnds(fatBuffer, fd[f].firstGran)
       THEN pc' = "hung" /\ UNCHANGED answer
       ELSE /\ answer' = [answer EXCEPT ![f] =
                  [op |-> "length", length |->
                     computeFileLength(fatBuffer, fd[f].firstGran, fd[f].numBytesLastSector)]]
            /\ UNCHANGED pc
    /\ UNCHANGED <<world, decb, fd, job, content, doubt>>

(***************************************************************************)
(* seek(): the position is clamped to the length, the granule found by     *)
(* walking the table, where an assertion stops it at the last granule.     *)
(***************************************************************************)
Clamped(file, newPos) == IF newPos > file.length THEN file.length ELSE newPos

\* A mutant: the offset in the granule is taken for the one in the sector.
AtPosition_NoMask(file, newPos) ==
    LET granIndex == newPos \div GRANULE_SIZE
        offsetInLastGranule == newPos % GRANULE_SIZE
        gran == After(fatBuffer, file.firstGran, granIndex)
    IN  [file EXCEPT !.curGran = gran,
                     !.curSec = offsetInLastGranule \div SectorBytes + 1,
                     !.curGranLen = getGranuleLength(fatBuffer, gran, file.numBytesLastSector),
                     !.secOffset = offsetInLastGranule,
                     !.curSectorAvailBytes = 0,
                     !.offset = newPos]
AtPosition(file, newPos) ==
    LET granIndex == newPos \div GRANULE_SIZE
        offsetInLastGranule == newPos % GRANULE_SIZE
        gran == After(fatBuffer, file.firstGran, granIndex)
    IN  [file EXCEPT !.curGran = gran,
                     !.curSec = offsetInLastGranule \div SectorBytes + 1,
                     !.curGranLen = getGranuleLength(fatBuffer, gran, file.numBytesLastSector),
                     !.secOffset = offsetInLastGranule % SectorBytes,
                     !.curSectorAvailBytes = 0,
                     !.offset = newPos]

\* Behind the last sector: there is nothing there, but a sector is read.
Behind(file) ==
    /\ fatBuffer[file.curGran] >= 193
    /\ file.curSec > fatBuffer[file.curGran] - 192

\* A file that fills its last granule ends where no granule is.
Filled(file) == file.length > 0 /\ file.length % GRANULE_SIZE = 0

seek(f, newPos) ==
    LET to == Clamped(fd[f], newPos)
        file == AtPosition(fd[f], to)
    IN  /\ pc = "program" /\ Open(f)
        /\ IF After(fatBuffer, fd[f].firstGran, to \div GRANULE_SIZE) \notin Granules
           THEN pc' = "aborted" /\ UNCHANGED <<fd, answer>>
                /\ doubt' = [doubt EXCEPT ![f] =
                                IF @ # "stale" /\ Filled(fd[f]) /\ to = fd[f].length
                                THEN "behind" ELSE @]
           ELSE /\ fd' = [fd EXCEPT ![f] = file]
                /\ answer' = [answer EXCEPT ![f] = [op |-> "seek", at |-> newPos]]
                /\ doubt' = [doubt EXCEPT ![f] =
                                IF @ = "stale" THEN @ ELSE
                                IF Behind(file) THEN "behind" ELSE "none"]
                /\ UNCHANGED pc
        /\ UNCHANGED <<world, decb, job, content>>

(***************************************************************************)
(* read(): deliver what the sector buffer holds, then fetch a sector, and  *)
(* again, until the request is filled, the file ends or the disk fails.    *)
(***************************************************************************)
\* A mutant: no sector but one that was begun holds anything.
getCurrentlyAvailableBytes_None(file) ==
    IF file.secOffset = 0 THEN 0 ELSE file.curSectorAvailBytes - file.secOffset
getCurrentlyAvailableBytes(file) ==
    IF file.curSectorAvailBytes = 0 THEN 0
    ELSE file.curSectorAvailBytes - file.secOffset

\* A mutant: a used-up sector is not declared empty.
advanceOffset_Keeps(file, n) ==
    [file EXCEPT !.offset = @ + n, !.secOffset = @ + n]
advanceOffset(file, n) ==
    LET used == file.secOffset + n >= file.curSectorAvailBytes
    IN  [file EXCEPT !.offset = @ + n,
                     !.secOffset = IF used THEN 0 ELSE @ + n,
                     !.curSectorAvailBytes = IF used THEN 0 ELSE @]

isLastSectorOfFile(file) ==
    fatBuffer[file.curGran] >= 193 /\ file.curSec = fatBuffer[file.curGran] - 192

\* Where dskcon() is sent, and whether it takes it: it checks its arguments.
PlaceToRead(file) ==
    LET at == granuleToTrack(file.curGran)
    IN  <<at[1], at[2] + file.curSec>>
dskcon(place) == place[1] < 35 /\ place[2] # 0 /\ place[2] <= 2 * GranSectors

\* A mutant: the next granule is begun where the last one ended.
Advanced_NoReset(file) ==
    LET g == fatBuffer[file.curGran]
        sectors == IF g >= 193 THEN g - 192 ELSE GranSectors
    IN  IF file.curSec + 1 <= sectors THEN [file EXCEPT !.curSec = @ + 1]
        ELSE IF g >= 193 THEN [file EXCEPT !.curSec = @ + 1, !.curGran = EndOfFile]
        ELSE [file EXCEPT !.curGran = g]
Advanced(file) ==
    LET g == fatBuffer[file.curGran]
        sectors == IF g >= 193 THEN g - 192 ELSE GranSectors
    IN  IF file.curSec + 1 <= sectors THEN [file EXCEPT !.curSec = @ + 1]
        ELSE IF g >= 193 THEN [file EXCEPT !.curSec = @ + 1, !.curGran = EndOfFile]
        ELSE [file EXCEPT !.curSec = 1, !.curGran = g]

\* getNextSector, where the sector could be read.
WithSector(file) ==
    Advanced([file EXCEPT
        !.curSector = Sector(disk[file.drive], PlaceToRead(file)),
        !.curSectorAvailBytes =
            IF isLastSectorOfFile(file) THEN file.numBytesLastSector ELSE SectorBytes])

\* The next n bytes of the sector buffer.
Delivered(file, n) == SubSeq(file.curSector, file.secOffset + 1, file.secOffset + n)

read(f, numBytesRequested) ==
    /\ pc = "program" /\ Open(f) /\ fd[f].offset < MaxOffset
    /\ pc' = "read"
    /\ job' = [fd |-> f, left |-> numBytesRequested, bytes |-> <<>>,
               from |-> fd[f].offset, asked |-> numBytesRequested]
    /\ answer' = [answer EXCEPT ![f] = NoAnswer]
    /\ UNCHANGED <<world, decb, fd, content, doubt>>

Return(bytes, failed) ==
    /\ pc' = "program"
    /\ job' = [NoJob EXCEPT !.fd = job.fd]
    /\ answer' = [answer EXCEPT ![job.fd] =
                    [op |-> "read", asked |-> job.asked, bytes |-> bytes, failed |-> failed]]

\* The last round: the buffer holds enough.
ReadFills ==
    LET file == fd[job.fd]
    IN  /\ pc = "read"
        /\ getCurrentlyAvailableBytes(file) >= job.left
        /\ fd' = [fd EXCEPT ![job.fd] = advanceOffset(file, job.left)]
        /\ Return(job.bytes \o Delivered(file, job.left), FALSE)
        /\ UNCHANGED <<world, decb, content, doubt>>

\* Another round: what the buffer holds is delivered first.
Emptied(file) ==
    IF getCurrentlyAvailableBytes(file) > 0
    THEN advanceOffset(file, getCurrentlyAvailableBytes(file)) ELSE file
ReadGoesOn ==
    /\ pc = "read"
    /\ getCurrentlyAvailableBytes(fd[job.fd]) \in 0..job.left - 1
Collected ==
    job.bytes \o Delivered(fd[job.fd], getCurrentlyAvailableBytes(fd[job.fd]))

ReadEnds ==
    LET file == Emptied(fd[job.fd])
    IN  /\ ReadGoesOn
        /\ file.curGran = EndOfFile
        /\ fd' = [fd EXCEPT ![job.fd] = file]
        /\ Return(Collected, FALSE)
        /\ UNCHANGED <<world, decb, content, doubt>>

\* DSKCON fails, or is not even called.
ReadFails ==
    LET file == Emptied(fd[job.fd])
    IN  /\ ReadGoesOn
        /\ file.curGran # EndOfFile
        /\ fd' = [fd EXCEPT ![job.fd] = file]
        /\ Return(Collected, TRUE)
        /\ UNCHANGED <<world, decb, content, doubt>>

ReadFetches ==
    LET file == Emptied(fd[job.fd])
    IN  /\ ReadGoesOn
        /\ file.curGran # EndOfFile
        /\ dskcon(PlaceToRead(file))
        /\ fd' = [fd EXCEPT ![job.fd] = WithSector(file)]
        /\ job' = [job EXCEPT !.left = @ - getCurrentlyAvailableBytes(fd[job.fd]),
                              !.bytes = Collected]
        /\ UNCHANGED <<world, decb, pc, ghosts>>

(***************************************************************************)
(* The world: a disk is changed.                                           *)
(***************************************************************************)
ChangeDisk(drive, d) ==
    /\ pc \in {"program", "read"}
    /\ d # disk[drive] /\ swaps < MaxSwaps
    /\ swaps' = swaps + 1
    /\ disk' = [disk EXCEPT ![drive] = d]
    /\ doubt' = [f \in Fds |-> IF Open(f) /\ fd[f].drive = drive THEN "stale" ELSE doubt[f]]
    /\ UNCHANGED <<decb, fd, pc, job, content, answer>>

Call ==
    \/ initdisk(Zeros)
    \/ dropFAT
    \/ \E no \in Drives : setDefaultDriveNo(no)
    \/ \E f \in Fds :
          \/ \E filename \in Filenames : openfile(f, filename)
          \/ rewind(f)
          \/ getFileLength(f)
          \/ \E newPos \in SeekTo : seek(f, newPos)
          \/ \E n \in ReadSizes : read(f, n)
ReadStep == ReadFills \/ ReadEnds \/ ReadFails \/ ReadFetches
Next == Call \/ ReadStep \/ \E drive \in Drives, d \in DecbDisks : ChangeDisk(drive, d)

Spec == Init /\ [][Next]_vars
\* The processor goes on with a call it has begun.
FairSpec == Spec /\ WF_vars(ReadStep)

(***************************************************************************)
(* Properties.                                                             *)
(***************************************************************************)
\* The descriptors hold what struct FileDesc says they do (disk.h:59-72), and
\* the ghosts what they should.
TypeOK ==
    /\ disk \in [Drives -> DecbDisks]
    /\ curDriveNo \in Drives
    /\ fatBuffer \in {NoBuffer, Zeros} \cup {d.fat : d \in DecbDisks}
    /\ fatUpToDate => fatBuffer # NoBuffer
    /\ fatUpToDate \in BOOLEAN
    /\ pc \in {"program", "read", "aborted", "hung"}
    /\ \A f \in Fds :
          /\ fd[f].drive \in Drives /\ fd[f].firstGran \in Granules
          /\ fd[f].numBytesLastSector \in 0..SectorBytes
          /\ fd[f].curGran \in Granules \cup {EndOfFile}
          /\ fd[f].secOffset \in 0..SectorBytes
          /\ fd[f].curSectorAvailBytes \in 0..SectorBytes
    /\ doubt \in [Fds -> Doubts]

\* The program dies of a failed assertion, or of a walk without end, only where
\* the table is not the disk's, or where seek() went to the end of a file that
\* fills its last sector: a legal place, to which seek() itself clamps
\* (disk.c:248-254).  The assertions of getCurrentlyAvailableBytes and
\* advanceOffset hold even with the wrong table.
DiesInDoubt ==
    /\ pc = "aborted" => \E f \in Fds : doubt[f] \in {"stale", "behind"}
    /\ pc = "hung" => \E f \in Fds : doubt[f] = "stale"
    /\ \A f \in Fds : fd[f].curSectorAvailBytes # 0
                         => fd[f].secOffset <= fd[f].curSectorAvailBytes

\* The promise.  A call to read() counts when it returns.
Files == INSTANCE ReadableFile WITH
    pos <- [f \in Fds |-> IF pc = "read" /\ job.fd = f THEN job.from ELSE fd[f].offset],
    trusted <- [f \in Fds |-> Trusted(f)]

\* openfile, rewind, seek, read and getFileLength keep the promise of a file
\* open for reading: reads deliver its bytes in order from the position, short
\* only at the end or when the disk fails, and a failed read loses nothing.
FileContract == Files!Spec

\* A read returns, even with the wrong table in memory.
ReadReturns == (pc = "read") ~> (pc # "read")
=============================================================================
