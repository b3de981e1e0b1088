---------------------------- MODULE ReadDECBFile ----------------------------
(***************************************************************************)
(* readDECBFile(): a file of a Disk BASIC disk is read whole, without Disk *)
(* BASIC (stdlib/readDECBFile.c), on top of dskcon-standalone; and a       *)
(* program that uses dskcon-standalone itself, as its header says.         *)
(*                                                                         *)
(* A sector is the place it comes from; what is in it follows from the     *)
(* disk in the drive.  A step of readDECBFile() is what it does between    *)
(* two sectors.                                                            *)
(***************************************************************************)
EXTENDS DecbFormat, Dskcon

CONSTANTS
    Inserted,      \* the disks that may be in the drives
    Filenames,     \* what readDECBFile() is asked for
    Requests,      \* what a program asks of dskcon_processSector() itself
    MaxSectors     \* bound: sectors of a file, no more than of a disk

ASSUME ReadDECBFileAssumption ==
    /\ Inserted \subseteq [FloppyDrives -> DecbDisks]
    /\ Requests \subseteq [op : Ops, drive : FloppyDrives, track : 0..34,
                           sector : 1..TrackSectors]
    /\ \A r \in Requests : r.op = "write" => r.track # DirectoryTrack
    /\ TrackSectors = 2 * GranSectors /\ 2 + DirSectors <= TrackSectors
    /\ 0 \in FloppyDrives
    /\ Filenames \subseteq Names /\ Names # {}
    /\ MaxSectors \in 0..MAX_NUM_GRANULES * GranSectors

VARIABLES
    disk,          \* the disk in each drive
    task,          \* what the sector that is read is for: see Tasks
    file,          \* the FileDesc, the name, and the numbers the functions keep
    table,         \* workBuffer, where it is the granule table
    dest,          \* what was read to dest: sectors
    result         \* what readDECBFile() returned for what: err and *sizePtr

reader == <<disk, task, file, table, dest, result>>
vars == <<dskconVars, reader>>

Tasks == {"program", "directory", "table", "file"}
NoFile == [drive |-> 0, name |-> CHOOSE n \in Names : TRUE, curGran |-> 0, curSec |-> 0, last |-> 0]
NoResult == [err |-> 255]
NoTable == [g \in {} |-> 0]

Init ==
    /\ DskconInit
    /\ disk \in Inserted
    /\ task = "program" /\ file = NoFile /\ table = NoTable
    /\ dest = <<>> /\ result = NoResult

(***************************************************************************)
(* A program that uses dskcon-standalone: dskcon_init(), with interrupts   *)
(* masked, an IRQ service routine that calls dskcon_irqService(), and      *)
(* dskcon_shutdown().                                                      *)
(***************************************************************************)
\* What processSector leaves alone.
Drivers == <<DCSTA, DR0TRK, DRGRAM, DSKREG, upToSpeed, restoring, image, lines,
             fdc, head, changed, troubles>>
Idle == at = "idle" /\ task = "program"

dskcon_init ==
    /\ Idle /\ nmi = "other"
    /\ Cleared
    /\ DC' = [op |-> "restore", drive |-> 0, track |-> 0, sector |-> 0]
    /\ RDYTMR' = 0
    /\ irq' = "dskcon" /\ masked' = FALSE
    /\ result' = NoResult /\ dest' = <<>>
    /\ UNCHANGED <<DSKREG, upToSpeed, cpu, fdc, drives, past, disk, task, file, table>>

dskcon_shutdown ==
    /\ Idle /\ nmi = "dskcon"
    /\ nmi' = "other" /\ irq' = "other"
    /\ UNCHANGED <<ram, motor, cpu, NMIFLG, masked, fdc, drives, past, reader>>

Request(r) ==
    /\ Idle /\ nmi = "dskcon"
    /\ processSector(r.op, r.drive, r.track, r.sector)
    /\ UNCHANGED <<Drivers, reader>>

(***************************************************************************)
(* readDECBFile().                                                         *)
(***************************************************************************)
readDiskSector(drive, place) == processSector("read", drive, place[1], place[2])

readDECBFile(drive, name) ==
    /\ Idle /\ nmi = "other"
    /\ Cleared /\ irq' = "dskcon" /\ masked' = FALSE
    /\ DC' = [op |-> "read", drive |-> drive, track |-> DirectoryTrack, sector |-> 3]
    /\ at' = "load" /\ tries' = Retries /\ RDYTMR' = 0
    /\ buffer' = Torn /\ lost' = (head[drive] # 0)
    /\ task' = "directory"
    /\ file' = [NoFile EXCEPT !.drive = drive, !.name = name]
    /\ dest' = <<>> /\ result' = NoResult
    /\ UNCHANGED <<DSKREG, upToSpeed, restoring, image, fdc, head, changed, troubles,
                   disk, table>>

\* Both vectors are restored.  Interrupts stay masked, and nobody counts the
\* motor's timer any more.
Return(err, size) ==
    /\ nmi' = "other" /\ irq' = "other" /\ masked' = TRUE
    /\ task' = "program" /\ file' = NoFile /\ table' = NoTable
    /\ result' = [err |-> err, size |-> size, drive |-> file.drive, name |-> file.name]
    /\ UNCHANGED <<ram, motor, cpu, NMIFLG, fdc, drives, past, disk>>

Read(what) == at = "idle" /\ task = what /\ DCSTA = {}
Fails ==
    /\ at = "idle" /\ task # "program" /\ DCSTA # {}
    /\ Return(CASE task = "directory" -> 1 [] task = "table" -> 3 [] task = "file" -> 4, 0)
    /\ UNCHANGED dest

(***************************************************************************)
(* findDirEntry.                                                           *)
(***************************************************************************)
\* The sector in the buffer.
DirSector == disk[buffer[1]].dir[buffer[3] - 2]
Ends == {i \in DOMAIN DirSector : DirSector[i].kind = "end"}
Matches == {i \in DOMAIN DirSector :
               /\ DirSector[i].kind = "file" /\ DirSector[i].name = file.name
               /\ \A j \in Ends : i < j}

DirFound ==
    LET entry == DirSector[CHOOSE i \in Matches : \A j \in Matches : i <= j]
    IN  /\ Read("directory") /\ Matches # {}
        /\ file' = [file EXCEPT !.curGran = entry.firstGran, !.curSec = 1,
                                !.last = entry.numBytesLastSector]
        /\ readDiskSector(file.drive, <<DirectoryTrack, 2>>)
        /\ task' = "table"
        /\ UNCHANGED <<Drivers, disk, table, dest, result>>

DirNext ==
    /\ Read("directory") /\ Matches = {} /\ Ends = {} /\ DC.sector < 2 + DirSectors
    /\ readDiskSector(file.drive, <<DirectoryTrack, DC.sector + 1>>)
    /\ UNCHANGED <<Drivers, reader>>

NotFound ==
    /\ Read("directory") /\ Matches = {}
    /\ Ends # {} \/ DC.sector = 2 + DirSectors
    /\ Return(2, 0)
    /\ UNCHANGED dest

(***************************************************************************)
(* openDECBFile, getNextDECBSector.                                        *)
(***************************************************************************)
granuleToTrack(g) ==
    <<IF g \div 2 >= 17 THEN g \div 2 + 1 ELSE g \div 2,
      IF g % 2 > 0 THEN GranSectors ELSE 0>>
PlaceToRead(f) ==
    LET where == granuleToTrack(f.curGran)
    IN  <<where[1], where[2] + f.curSec>>

\* At the end there is a size; else there is another sector to read.
GoOn(f, fat, read) ==
    /\ dest' = read
    /\ IF f.curGran = EndOfFile
       THEN Return(0, IF read = <<>> THEN 0
                      ELSE Len(read) * SectorBytes - SectorBytes + f.last)
       ELSE /\ Len(read) < MaxSectors
            /\ readDiskSector(f.drive, PlaceToRead(f))
            /\ file' = f /\ table' = fat /\ task' = "file"
            /\ UNCHANGED <<Drivers, disk, result>>

TableRead ==
    LET fat == disk[buffer[1]].fat
        empty == fat[file.curGran] = 193 /\ file.last = 0
    IN  /\ Read("table")
        /\ GoOn(IF empty THEN [file EXCEPT !.curGran = EndOfFile] ELSE file, fat, <<>>)

\* A mutant: the next granule is begun where the last one ended.
Advanced_NoReset(f) ==
    LET g == table[f.curGran]
        numSectorsCurGran == IF g >= 193 THEN g - 192 ELSE GranSectors
    IN  IF f.curSec < numSectorsCurGran THEN [f EXCEPT !.curSec = @ + 1]
        ELSE IF g >= 193 THEN [f EXCEPT !.curSec = @ + 1, !.curGran = EndOfFile]
        ELSE [f EXCEPT !.curGran = g]
Advanced(f) ==
    LET g == table[f.curGran]
        numSectorsCurGran == IF g >= 193 THEN g - 192 ELSE GranSectors
    IN  IF f.curSec < numSectorsCurGran THEN [f EXCEPT !.curSec = @ + 1]
        ELSE IF g >= 193 THEN [f EXCEPT !.curSec = @ + 1, !.curGran = EndOfFile]
        ELSE [f EXCEPT !.curSec = 1, !.curGran = g]

SectorRead ==
    /\ Read("file")
    /\ GoOn(Advanced(file), table, Append(dest, buffer))

Reader == Fails \/ DirFound \/ DirNext \/ NotFound \/ TableRead \/ SectorRead

Program ==
    \/ dskcon_init \/ dskcon_shutdown
    \/ \E r \in Requests : Request(r)
    \/ \E d \in FloppyDrives, name \in Filenames : readDECBFile(d, name)

DriverRuns == Driver /\ UNCHANGED reader
FdcRuns == Fdc /\ UNCHANGED reader
TimerRuns == Tick /\ UNCHANGED reader

Next ==
    \/ Program \/ Reader
    \/ DriverRuns \/ FdcRuns \/ TimerRuns

Spec == Init /\ [][Next]_vars

(***************************************************************************)
(* The processor goes on; a controller ends the command it has begun, even *)
(* in the middle of a sector; interrupts are served.                       *)
(***************************************************************************)
FairSpec ==
    /\ Spec
    /\ WF_vars(DriverRuns) /\ WF_vars(Reader)
    /\ WF_vars(FdcRuns) /\ WF_vars(TimerRuns)

(***************************************************************************)
(* Properties.                                                             *)
(***************************************************************************)
TypeOK ==
    /\ DC \in [op : Ops, drive : FloppyDrives, track : 0..34, sector : 0..TrackSectors]
    /\ at \in Places /\ tries \in 0..Retries
    /\ RDYTMR \in 0..MotorTime
    /\ DRGRAM.drives \subseteq FloppyDrives /\ DSKREG.drives \subseteq FloppyDrives
    /\ DR0TRK \in [FloppyDrives -> 0..34]
    /\ head \in [FloppyDrives -> 0..LastTrack]
    /\ fdc.busy => at \in {"restoring", "seeking", "wait", "moving", "giveup"}
    /\ NMIFLG <=> at \in {"wait", "moving", "giveup"}
    /\ troubles \in 0..MaxTroubles
    /\ task \in Tasks /\ result.err \in {0, 1, 2, 3, 4, 255}
    /\ file.curGran \in Granules \cup {EndOfFile}

Nothing == [op |-> "none"]
Same(place) == place
Device == INSTANCE SectorDevice WITH
    Original <- Same,
    asked <- IF at = "idle" THEN Nothing ELSE [op |-> DC.op, place |-> Place],
    status <- DCSTA

\* Whatever the drive, the disk and the controller do, and wherever the heads
\* are: status 0 means the very sector asked for, and only a sector that is
\* being written ever changes (dskcon-standalone.h:68-80).
SectorPromise == Device!Spec

\* While a command is carried out the motor is on, the disk turns as it should
\* and the drive asked for is the one selected: the interrupt that turns the
\* motors off never comes between (dskcon-standalone.c:89-107, 275-289).
MotorAtSpeed ==
    at \in Places \ {"idle", "load", "select"} =>
        /\ DSKREG = [drives |-> {DC.drive}, motor |-> TRUE] /\ DRGRAM = DSKREG
        /\ upToSpeed

\* A request is given up only after as many troubles as there are attempts, of
\* which the head being elsewhere is one: fewer are made good, also when a
\* restore that timed out is taken for a good one.
Tolerates ==
    (at = "check" /\ DCSTA # {} /\ tries = 1) =>
        \/ troubles + (IF lost THEN 1 ELSE 0) >= Retries
        \/ DC.op = "write" /\ DC.drive \in Protected

\* How many sectors a file has, and where they are.
SectorsOf(d, e) ==
    LET n == Steps(d.fat, e.firstGran)
        used == After(d.fat, e.firstGran, n) - 192
    IN  IF used = 1 /\ n = 1 /\ e.numBytesLastSector = 0 THEN 0
        ELSE (n - 1) * GranSectors + used
PlaceIn(d, e, i) ==
    LET first == PlaceOf(After(d.fat, e.firstGran, (i - 1) \div GranSectors))
    IN  <<first[1], first[2] + ((i - 1) % GranSectors)>>
SectorIn(drive, e, i) ==
    At(<<drive, PlaceIn(disk[drive], e, i)[1], PlaceIn(disk[drive], e, i)[2]>>)

\* readDECBFile() returns 0 with the whole file, sector by sector, and its
\* size; and 2 only where there is no such file (coco.h:435-461).
FileDelivered ==
    result.err # 255 =>
        LET d == disk[result.drive]
            e == FirstNamed(d, result.name)
        IN  /\ result.err = 2 => Named(d, result.name) = {}
            /\ result.err = 0 =>
                  /\ Named(d, result.name) # {}
                  /\ dest = [i \in 1..SectorsOf(d, e) |-> SectorIn(result.drive, e, i)]
                  /\ result.size = LengthOf(d, e)

\* A request, and a call of readDECBFile(), returns; the motor is turned off
\* some time after, if dskcon_irqService() is called.
CallsEnd ==
    /\ ~Idle ~> Idle
    /\ (Idle /\ RDYTMR > 0 /\ irq = "dskcon") ~> (~DSKREG.motor \/ ~Idle \/ irq = "other")
=============================================================================
