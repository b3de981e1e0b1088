---------------------------- MODULE FloppyProofs ----------------------------
(***************************************************************************)
(* For any drives, disks, heads, requests and troubles: a command is only  *)
(* carried out on a disk that turns (MotorAtSpeed), and dskcon-standalone, *)
(* with the controller, the interrupts and whoever calls it, implements a  *)
(* SectorDevice (SectorPromise).                                           *)
(*                                                                         *)
(* Neither is inductive.  MotorAtSpeed needs that the timer is 0 as long   *)
(* as a request is under way, and that the image the driver holds is not   *)
(* outdated.  SectorPromise needs what each place of the processor knows   *)
(* of the controller.                                                      *)
(*                                                                         *)
(* As long as there are fewer troubles than attempts a request succeeds    *)
(* (Tolerates): every attempt that fails has used one up.  readDECBFile()  *)
(* delivers the whole file (FileDelivered): what it has read is the        *)
(* beginning of it, and the sector it asks for next the one behind.        *)
(***************************************************************************)
EXTENDS ReadDECBFile, DecbProofs, SequenceTheorems

Transfer == {"wait", "moving", "giveup"}
Waiting == {"restoring", "seeking"} \cup Transfer
AfterSelect == Places \ {"idle", "load", "select"}

\* DC and the controller's registers are records.
Records ==
    /\ DC = [op |-> DC.op, drive |-> DC.drive, track |-> DC.track, sector |-> DC.sector]
    /\ DC.op \in Ops
    /\ fdc = [command |-> fdc.command, busy |-> fdc.busy, drq |-> fdc.drq,
              track |-> fdc.track, status |-> fdc.status]
    /\ at \in Places

\* An NMI is awaited exactly while a sector is.
NmiAwaited == NMIFLG \in BOOLEAN /\ (NMIFLG <=> at \in Transfer)

MotorInv ==
    /\ at # "idle" => RDYTMR = 0
    /\ at = "select" => image = DRGRAM
    /\ DRGRAM.motor => upToSpeed
    /\ at \in AfterSelect =>
          /\ DSKREG = [drives |-> {DC.drive}, motor |-> TRUE] /\ DRGRAM = DSKREG
          /\ upToSpeed

\* The controller works only for a processor that waits for it, and at what
\* that waits for; before a transfer it has been told the track.
Controller ==
    /\ fdc.busy => at \in Waiting
    /\ at = "restoring" /\ fdc.busy => fdc.command = "restore"
    /\ at = "seeking" /\ fdc.busy => fdc.command = "seek"
    /\ at = "seeking" /\ ~fdc.busy => fdc.track = DC.track
    /\ at \in {"head", "arm", "seeking"} \cup Transfer \cup {"ended"} => DC.op \in {"read", "write"}
    /\ at \in {"arm"} \cup Transfer => fdc.track = DC.track
    /\ at \in Transfer => fdc.busy /\ fdc.command = DC.op
    /\ at = "moving" => fdc.drq
    /\ at \in Transfer /\ fdc.drq => head[DC.drive] = DC.track

\* What the caller is promised for status 0.
Kept ==
    /\ DC.op = "read" => buffer = At(Place)
    /\ DC.op = "write" => At(Place) = Data

\* Status 0 is only on its way to the caller with the promise kept; a restore
\* that is not a retry is what was asked for.
Outcome ==
    /\ at = "ended" => fdc.status \subseteq StatusKept /\ (fdc.status = {} => Kept)
    /\ at = "check" => (DCSTA = {} => Kept)
    /\ restoring \in {"command", "retry"}
    /\ at \in {"restore", "restoring"} /\ restoring = "command" => DC.op = "restore"

DriverInv == Records /\ NmiAwaited /\ MotorInv /\ Controller /\ Outcome

-----------------------------------------------------------------------------
\* What a program, or readDECBFile() between two sectors, does to the driver:
\* nothing while a request is under way, and at most begin another.
Between ==
    /\ at = "idle"
    /\ UNCHANGED <<changed, fdc>>
    /\ DRGRAM' \in {DRGRAM, Off} /\ UNCHANGED upToSpeed
    /\ NMIFLG' \in {NMIFLG, FALSE} /\ UNCHANGED restoring
    /\ DC' = [op |-> DC'.op, drive |-> DC'.drive, track |-> DC'.track, sector |-> DC'.sector]
    /\ DC'.op \in Ops
    /\ at' = "idle" \/ (at' = "load" /\ RDYTMR' = 0)

LEMMA Begins ==
    ASSUME at = "idle", NEW op \in Ops, NEW drive, NEW track, NEW sector,
           processSector(op, drive, track, sector),
           UNCHANGED <<DRGRAM, upToSpeed, NMIFLG, restoring, fdc, changed>>
    PROVE  Between
  <1>1. DC' = [op |-> op, drive |-> drive, track |-> track, sector |-> sector]
        /\ at' = "load" /\ RDYTMR' = 0
    BY DEF processSector
  <1>2. /\ DC'.op = op /\ DC'.drive = drive /\ DC'.track = track /\ DC'.sector = sector
    BY <1>1
  <1> QED
    BY <1>1, <1>2 DEF Between

LEMMA Rests ==
    ASSUME at = "idle", Records, UNCHANGED <<DC, DRGRAM, upToSpeed, NMIFLG, restoring, fdc, changed, at>>
    PROVE  Between
  BY DEF Between, Records

LEMMA CallerBetween == Records /\ (Program \/ Reader) => Between
  <1> SUFFICES ASSUME Records, Program \/ Reader
               PROVE  Between
    OBVIOUS
  <1>read. "read" \in Ops /\ "restore" \in Ops
    BY DEF Ops
  <1>1. CASE dskcon_init
    <2>1. DC' = [op |-> "restore", drive |-> 0, track |-> 0, sector |-> 0]
      BY <1>1 DEF dskcon_init
    <2>2. DC'.op = "restore" /\ DC'.drive = 0 /\ DC'.track = 0 /\ DC'.sector = 0
      BY <2>1
    <2> QED
      BY <1>1, <1>read, <2>1, <2>2 DEF dskcon_init, Idle, Cleared, cpu, drives, Between
  <1>2. CASE dskcon_shutdown
    <2>1. at = "idle" /\ UNCHANGED <<DC, DRGRAM, upToSpeed, NMIFLG, restoring, fdc, changed, at>>
      BY <1>2 DEF dskcon_shutdown, Idle, ram, motor, cpu, drives
    <2> QED
      BY <2>1, Rests
  <1>3. ASSUME NEW r \in Requests, Request(r)
        PROVE  Between
    <2>1. /\ at = "idle" /\ processSector(r.op, r.drive, r.track, r.sector)
          /\ UNCHANGED <<DRGRAM, upToSpeed, NMIFLG, restoring, fdc, changed>>
      BY <1>3 DEF Request, Idle, Drivers, lines
    <2>2. r.op \in Ops
      BY ReadDECBFileAssumption
    <2> QED
      BY <2>1, <2>2, Begins
  <1>4. ASSUME NEW d \in FloppyDrives, NEW name \in Filenames, readDECBFile(d, name)
        PROVE  Between
    <2>1. DC' = [op |-> "read", drive |-> d, track |-> DirectoryTrack, sector |-> 3]
      BY <1>4 DEF readDECBFile
    <2>2. DC'.op = "read" /\ DC'.drive = d /\ DC'.track = DirectoryTrack /\ DC'.sector = 3
      BY <2>1
    <2> QED
      BY <1>4, <1>read, <2>1, <2>2 DEF readDECBFile, Idle, Cleared, Between
  <1>return. ASSUME at = "idle", NEW err, NEW size, Return(err, size)
             PROVE  Between
    <2>1. UNCHANGED <<DC, DRGRAM, upToSpeed, NMIFLG, restoring, fdc, changed, at>>
      BY <1>return DEF Return, ram, motor, cpu, drives
    <2> QED
      BY <1>return, <2>1, Rests
  <1>reads. ASSUME at = "idle", NEW drive, NEW place, readDiskSector(drive, place),
                   UNCHANGED Drivers
            PROVE  Between
    <2>1. processSector("read", drive, place[1], place[2])
      BY <1>reads DEF readDiskSector
    <2>2. UNCHANGED <<DRGRAM, upToSpeed, NMIFLG, restoring, fdc, changed>>
      BY <1>reads DEF Drivers, lines
    <2> QED
      BY <1>read, <1>reads, <2>1, <2>2, Begins
  <1>goes. ASSUME at = "idle", NEW f, NEW fat, NEW read, GoOn(f, fat, read)
           PROVE  Between
    <2>1. CASE f.curGran = EndOfFile
      BY <1>goes, <1>return, <2>1 DEF GoOn
    <2>2. CASE f.curGran # EndOfFile
      BY <1>goes, <1>reads, <2>2 DEF GoOn
    <2> QED
      BY <2>1, <2>2
  <1>5. CASE Fails
    BY <1>5, <1>return DEF Fails
  <1>6. CASE DirFound
    BY <1>6, <1>reads DEF DirFound, Read
  <1>7. CASE DirNext
    BY <1>7, <1>reads DEF DirNext, Read
  <1>8. CASE NotFound
    BY <1>8, <1>return DEF NotFound, Read
  <1>9. CASE TableRead
    BY <1>9, <1>goes DEF TableRead, Read
  <1>10. CASE SectorRead
    BY <1>10, <1>goes DEF SectorRead, Read
  <1> QED
    BY <1>1, <1>2, <1>3, <1>4, <1>5, <1>6, <1>7, <1>8, <1>9, <1>10 DEF Program, Reader

-----------------------------------------------------------------------------
LEMMA InitInv == Init => DriverInv
  <1> SUFFICES ASSUME Init PROVE DriverInv
    OBVIOUS
  <1>1. at = "idle" /\ NMIFLG = FALSE /\ DRGRAM.motor = FALSE
    BY DEF Init, DskconInit, Off
  <1>2. /\ DC = [op |-> "other", drive |-> 0, track |-> 0, sector |-> 0]
        /\ fdc = [command |-> "none", busy |-> FALSE, drq |-> FALSE, track |-> 0, status |-> {}]
    BY DEF Init, DskconInit
  <1>3. Records
    BY <1>1, <1>2 DEF Records, Ops, Places
  <1>4. MotorInv /\ NmiAwaited /\ Outcome
    BY <1>1 DEF Init, DskconInit, MotorInv, NmiAwaited, Outcome, AfterSelect, Transfer
  <1>5. Controller
    BY <1>1, <1>2 DEF Controller, Transfer
  <1> QED
    BY <1>3, <1>4, <1>5 DEF DriverInv

LEMMA CallerInv == DriverInv /\ Between => DriverInv'
  <1> SUFFICES ASSUME DriverInv, Between PROVE DriverInv'
    OBVIOUS
  <1>1. at' \in {"idle", "load"} /\ UNCHANGED fdc /\ ~fdc.busy /\ NMIFLG' = FALSE
    BY DEF Between, DriverInv, NmiAwaited, Controller, Transfer, Waiting
  <1>2. Records'
    BY <1>1 DEF Between, DriverInv, Records, Places
  <1>3. NmiAwaited'
    BY <1>1 DEF NmiAwaited, Transfer
  <1>4. MotorInv'
    <2>1. DRGRAM'.motor => upToSpeed'
      BY DEF Between, DriverInv, MotorInv, Off
    <2> QED
      BY <1>1, <2>1 DEF Between, MotorInv, AfterSelect
  <1>5. Controller' /\ Outcome'
    BY <1>1 DEF Between, DriverInv, Controller, Outcome, Transfer, Waiting
  <1> QED
    BY <1>2, <1>3, <1>4, <1>5 DEF DriverInv

LEMMA TickInv == DriverInv /\ Tick => DriverInv'
  BY DEF Tick, ram, cpu, lines, drives, Off,
         DriverInv, Records, NmiAwaited, MotorInv, Controller, Outcome, Kept, Place, At,
         Transfer, Waiting, AfterSelect

\* A restore has ended, or the driver takes it for ended: the command is begun
\* again, or the request is over, with a status that nothing was promised for.
LEMMA RestoredInv ==
    ASSUME DriverInv, at = "restoring", NEW status, Restored(status),
           UNCHANGED <<DC, restoring, image, NMIFLG, changed, buffer>>,
           ~fdc'.busy,
           fdc' = [command |-> fdc'.command, busy |-> fdc'.busy, drq |-> fdc'.drq,
                   track |-> fdc'.track, status |-> fdc'.status]
    PROVE  DriverInv'
  <1>1. /\ DCSTA' = status
        /\ \/ at' = "load" /\ RDYTMR' = 0
           \/ at' = "check" /\ UNCHANGED RDYTMR /\ (restoring # "retry" \/ status # {})
        /\ UNCHANGED <<DRGRAM, DSKREG, upToSpeed>>
    BY DEF Restored
  <1>2. Records'
    BY <1>1 DEF DriverInv, Records, Places
  <1>3. NmiAwaited'
    BY <1>1 DEF DriverInv, NmiAwaited, Transfer
  <1>4. MotorInv'
    BY <1>1 DEF DriverInv, MotorInv, AfterSelect, Places
  <1>5. Controller'
    BY <1>1 DEF Controller, Transfer
  <1>6. Outcome'
    <2>1. ASSUME at' = "check", DCSTA' = {} PROVE Kept'
      <3>1. restoring # "retry"
        BY <1>1, <2>1
      <3>2. DC.op = "restore"
        BY <3>1 DEF DriverInv, Outcome
      <3> QED
        BY <3>2 DEF Kept
    <2> QED
      BY <1>1, <2>1 DEF DriverInv, Outcome
  <1> QED
    BY <1>2, <1>3, <1>4, <1>5, <1>6 DEF DriverInv

LEMMA DriverStepInv == DriverInv /\ Driver => DriverInv'
  <1> SUFFICES ASSUME DriverInv, Driver
               PROVE  DriverInv'
    OBVIOUS
  <1>1. CASE LoadImage
    BY <1>1 DEF LoadImage, ram, motor, lines, drives,
       DriverInv, Records, NmiAwaited, MotorInv, Controller, Outcome, Kept, Place, At,
       Ops, Places, Transfer, Waiting, AfterSelect
  <1>2. CASE Select
    BY <1>2 DEF Select, Selected, drives, motor, ram, lines,
       DriverInv, Records, NmiAwaited, MotorInv, Controller, Outcome, Kept, Place, At,
       Ops, Places, Transfer, Waiting, AfterSelect
  <1>3. CASE Begin
    BY <1>3 DEF Begin, motor, lines, drives,
       DriverInv, Records, NmiAwaited, MotorInv, Controller, Outcome, Kept, Place, At,
       Ops, Places, Transfer, Waiting, AfterSelect
  <1>4. CASE NotReady
    BY <1>4 DEF NotReady, motor, lines, drives,
       DriverInv, Records, NmiAwaited, MotorInv, Controller, Outcome, Kept, Place, At,
       Ops, Places, Transfer, Waiting, AfterSelect
  <1>5. CASE Restore
    BY <1>5 DEF Restore, Issue, motor, lines, drives,
       DriverInv, Records, NmiAwaited, MotorInv, Controller, Outcome, Kept, Place, At,
       Ops, Places, Transfer, Waiting, AfterSelect
  <1>6. CASE RestoreEnds
    <2>1. /\ at = "restoring"
          /\ UNCHANGED <<DC, restoring, image, NMIFLG, changed, buffer>>
          /\ ~fdc'.busy
          /\ fdc' = [command |-> fdc'.command, busy |-> fdc'.busy, drq |-> fdc'.drq,
                     track |-> fdc'.track, status |-> fdc'.status]
      BY <1>6 DEF RestoreEnds, StatusRead, lines, drives, DriverInv, Records
    <2> QED
      BY <1>6, <2>1, RestoredInv DEF RestoreEnds
  <1>7. CASE RestoreTimesOut
    <2>1. /\ at = "restoring"
          /\ UNCHANGED <<DC, restoring, image, NMIFLG, changed, buffer>>
          /\ ~fdc'.busy
          /\ fdc' = [command |-> fdc'.command, busy |-> fdc'.busy, drq |-> fdc'.drq,
                     track |-> fdc'.track, status |-> fdc'.status]
      BY <1>7 DEF RestoreTimesOut, Ready, drives, lines, DriverInv, Records
    <2> QED
      BY <1>7, <2>1, RestoredInv DEF RestoreTimesOut
  <1>8. CASE FindTrack
    BY <1>8 DEF FindTrack, motor, lines, drives,
       DriverInv, Records, NmiAwaited, MotorInv, Controller, Outcome, Kept, Place, At,
       Ops, Places, Transfer, Waiting, AfterSelect
  <1>9. CASE SeekEnds
    BY <1>9 DEF SeekEnds, StatusRead, motor, lines, drives,
       DriverInv, Records, NmiAwaited, MotorInv, Controller, Outcome, Kept, Place, At,
       Ops, Places, Transfer, Waiting, AfterSelect
  <1>10. CASE SeekTimesOut
    <2>1. /\ at = "seeking" /\ at' = "check" /\ DCSTA' = {"notready"} /\ fdc' = Ready
          /\ UNCHANGED <<DC, DR0TRK, tries, restoring, image, changed, buffer>>
          /\ UNCHANGED <<RDYTMR, DRGRAM, DSKREG, upToSpeed, NMIFLG, masked, nmi, irq>>
      BY <1>10 DEF SeekTimesOut, motor, lines
    <2> QED
      BY <2>1 DEF Ready,
         DriverInv, Records, NmiAwaited, MotorInv, Controller, Outcome, Kept, Place, At,
         Ops, Places, Transfer, Waiting, AfterSelect
  <1>11. CASE Arm
    BY <1>11 DEF Arm, Issue, ram, motor, drives,
       DriverInv, Records, NmiAwaited, MotorInv, Controller, Outcome, Kept, Place, At,
       Ops, Places, Transfer, Waiting, AfterSelect
  <1>12. CASE Move
    BY <1>12 DEF Move, ram, motor, lines,
       DriverInv, Records, NmiAwaited, MotorInv, Controller, Outcome, Kept, Place, At,
       Ops, Places, Transfer, Waiting, AfterSelect
  <1>13. CASE DrqTimesOut
    BY <1>13 DEF DrqTimesOut, drives, ram, motor, lines,
       DriverInv, Records, NmiAwaited, MotorInv, Controller, Outcome, Kept, Place, At,
       Ops, Places, Transfer, Waiting, AfterSelect
  <1>14. CASE GiveUp
    BY <1>14 DEF GiveUp, Ready, motor, drives,
       DriverInv, Records, NmiAwaited, MotorInv, Controller, Outcome, Kept, Place, At,
       Ops, Places, Transfer, Waiting, AfterSelect
  <1>15. CASE Complete
    BY <1>15 DEF Complete, StatusRead, motor, drives,
       DriverInv, Records, NmiAwaited, MotorInv, Controller, Outcome, Kept, Place, At,
       Ops, Places, Transfer, Waiting, AfterSelect, StatusKept
  <1>16. CASE Exit
    BY <1>16 DEF Exit, ram, lines, drives,
       DriverInv, Records, NmiAwaited, MotorInv, Controller, Outcome, Kept, Place, At,
       Ops, Places, Transfer, Waiting, AfterSelect
  <1>17. CASE Retry
    BY <1>17 DEF Retry, ram, motor, lines, drives,
       DriverInv, Records, NmiAwaited, MotorInv, Controller, Outcome, Kept, Place, At,
       Ops, Places, Transfer, Waiting, AfterSelect
  <1> QED
    BY <1>1, <1>2, <1>3, <1>4, <1>5, <1>6, <1>7, <1>8, <1>9, <1>10,
       <1>11, <1>12, <1>13, <1>14, <1>15, <1>16, <1>17 DEF Driver

-----------------------------------------------------------------------------
\* The end of a transfer, with a status that shows an error or a promise kept.
LEMMA TransferEnds ==
    ASSUME DriverInv, at \in Transfer, NEW status, NEW track, Done(status, track),
           status \subseteq StatusKept, status = {} => Kept'
    PROVE  DriverInv'
  <1>1. /\ fdc' = [Ready EXCEPT !.status = status, !.track = track]
        /\ NMIFLG /\ at' = "ended" /\ NMIFLG' = FALSE
        /\ UNCHANGED <<DC, RDYTMR, DRGRAM, DSKREG, upToSpeed, restoring, image>>
    BY DEF Done, DriverInv, NmiAwaited, ram, motor
  <1>2. Records' /\ fdc'.status = status /\ ~fdc'.busy
    BY <1>1 DEF DriverInv, Records, Ready, Places
  <1>3. NmiAwaited'
    BY <1>1 DEF NmiAwaited, Transfer
  <1>4. MotorInv'
    BY <1>1 DEF DriverInv, MotorInv, AfterSelect, Places, Transfer
  <1>5. Controller'
    BY <1>1, <1>2 DEF DriverInv, Controller, Transfer
  <1>6. Outcome'
    BY <1>1, <1>2 DEF DriverInv, Outcome
  <1> QED
    BY <1>2, <1>3, <1>4, <1>5, <1>6 DEF DriverInv

\* The end of a movement of the head, which the processor sees in the status.
LEMMA MovementEnds ==
    ASSUME DriverInv, at \notin Transfer, NEW status, NEW track, Done(status, track),
           at = "restoring" \/ (at = "seeking" /\ track = DC.track)
    PROVE  DriverInv'
  <1>1. /\ fdc' = [Ready EXCEPT !.status = status, !.track = track]
        /\ UNCHANGED <<DC, DCSTA, RDYTMR, DRGRAM, DSKREG, upToSpeed, restoring, image, at, NMIFLG>>
    BY DEF Done, DriverInv, NmiAwaited, ram, motor
  <1>2. Records' /\ fdc'.track = track /\ ~fdc'.busy
    BY <1>1 DEF DriverInv, Records, Ready
  <1> QED
    BY <1>1, <1>2 DEF DriverInv, NmiAwaited, MotorInv, Controller, Outcome, Transfer

\* The drive that the controller sees is the one asked for, and what it does is
\* what the processor waits for.
LEMMA Served ==
    ASSUME DriverInv, NEW d \in DSKREG.drives, fdc.busy
    PROVE  /\ d = DC.drive
           /\ \/ at \in Transfer /\ DC.op \in {"read", "write"} /\ fdc.command = DC.op
              \/ at = "restoring" /\ fdc.command = "restore"
              \/ at = "seeking" /\ fdc.command = "seek"
  <1>1. at \in Waiting
    BY DEF DriverInv, Controller
  <1>2. DSKREG = [drives |-> {DC.drive}, motor |-> TRUE]
    BY <1>1 DEF DriverInv, MotorInv, AfterSelect, Places, Waiting, Transfer
  <1>3. d = DC.drive
    BY <1>2
  <1> QED
    BY <1>1, <1>3 DEF DriverInv, Controller, Waiting

\* What the processor moves: sectors to where the caller wants them.
LEMMA Transferred ==
    ASSUME DriverInv, NEW d \in DSKREG.drives, FdcTransfers(d)
    PROVE  /\ DC.op = "read" => UNCHANGED changed
           /\ DC.op = "write" => \E content : changed' = ChangedAt(Place, content)
           /\ DriverInv'
  <1>1. /\ fdc.busy /\ fdc.drq /\ at \in {"moving", "giveup"} /\ at \in Transfer
        /\ UNCHANGED head
    BY DEF FdcTransfers, Transfer
  <1>2. /\ d = DC.drive /\ DC.op \in {"read", "write"} /\ fdc.command = DC.op
    BY <1>1, Served DEF Transfer
  <1>3. <<d, head[d], DC.sector>> = Place
    BY <1>1, <1>2 DEF DriverInv, Controller, Place
  <1> DEFINE Into(content) ==
                IF fdc.command = "read"
                THEN buffer' = content /\ UNCHANGED changed
                ELSE changed' = ChangedAt(Place, content) /\ UNCHANGED buffer
  <1>4. PICK content, status, track :
            /\ Into(content)
            /\ Done(status, track)
            /\ status = {} => content = (IF fdc.command = "read" THEN At(Place) ELSE Data)
            /\ status \subseteq StatusKept
    <2>1. CASE /\ Into(IF fdc.command = "read" THEN At(Place) ELSE Data)
               /\ Done({}, fdc.track)
      BY <2>1
    <2>2. CASE /\ Into(Torn)
               /\ \/ Done({"crc"}, fdc.track) \/ Done({"fault"}, fdc.track)
                  \/ Done({"lost"}, fdc.track)
      BY <2>2 DEF StatusKept
    <2> QED
      BY <1>3, <2>1, <2>2 DEF FdcTransfers
  <1>5. UNCHANGED DC
    BY <1>4 DEF Done, ram
  <1>6. CASE DC.op = "read"
    <2>1. buffer' = content /\ UNCHANGED changed
      BY <1>2, <1>4, <1>6
    <2>2. status = {} => Kept'
      BY <1>2, <1>4, <1>5, <1>6, <2>1 DEF Kept, At, Place
    <2> QED
      BY <1>1, <1>4, <1>6, <2>1, <2>2, TransferEnds
  <1>7. CASE DC.op = "write"
    <2>1. changed' = ChangedAt(Place, content)
      BY <1>2, <1>4, <1>7
    <2>2. Place \in DOMAIN changed' /\ changed'[Place] = content
      BY <2>1 DEF ChangedAt
    <2>3. Place' = Place
      BY <1>5 DEF Place
    <2>4. status = {} => Kept'
      BY <1>2, <1>4, <1>5, <1>7, <2>2, <2>3 DEF Kept, At
    <2> QED
      BY <1>1, <1>4, <1>7, <2>1, <2>4, TransferEnds
  <1> QED
    BY <1>2, <1>6, <1>7

LEMMA FdcInv == DriverInv /\ Fdc => DriverInv'
  <1> SUFFICES ASSUME DriverInv, NEW d \in DSKREG.drives,
                      FdcRestores(d) \/ FdcSeeks(d) \/ FdcFinds(d) \/ FdcRefuses(d)
                      \/ FdcTransfers(d)
               PROVE  DriverInv'
    BY DEF Fdc
  <1>1. CASE FdcRestores(d)
    <2>1. fdc.busy /\ fdc.command = "restore" /\ \E status : Done(status, 0)
      BY <1>1 DEF FdcRestores
    <2>2. at = "restoring" /\ at \notin Transfer
      BY <2>1, Served DEF Transfer
    <2> QED
      BY <2>1, <2>2, MovementEnds
  <1>2. CASE FdcSeeks(d)
    <2>1. fdc.busy /\ fdc.command = "seek" /\ \E status : Done(status, DC.track)
      BY <1>2 DEF FdcSeeks
    <2>2. at = "seeking" /\ at \notin Transfer
      BY <2>1, Served DEF Transfer
    <2> QED
      BY <2>1, <2>2, MovementEnds
  <1>3. CASE FdcFinds(d)
    <2>1. /\ fdc.busy /\ fdc.command \in {"read", "write"} /\ head[d] = fdc.track
          /\ fdc' = [fdc EXCEPT !.drq = TRUE]
          /\ UNCHANGED <<DC, DCSTA, RDYTMR, DRGRAM, DSKREG, upToSpeed, at, restoring, image,
                         NMIFLG, head, changed, buffer>>
      BY <1>3 DEF FdcFinds, Found, ram, motor, cpu, lines, drives
    <2>2. d = DC.drive /\ at \in Transfer
      BY <2>1, Served
    <2>3. Records' /\ fdc'.busy = fdc.busy /\ fdc'.command = fdc.command
          /\ fdc'.track = fdc.track /\ fdc'.drq
      BY <2>1 DEF DriverInv, Records
    <2>4. NmiAwaited' /\ MotorInv'
      BY <2>1 DEF DriverInv, NmiAwaited, MotorInv
    <2>5. Controller'
      BY <2>1, <2>2, <2>3 DEF DriverInv, Controller, Transfer
    <2>6. Outcome'
      BY <2>1, <2>2 DEF DriverInv, Outcome, Transfer
    <2> QED
      BY <2>3, <2>4, <2>5, <2>6 DEF DriverInv
  <1>4. CASE FdcRefuses(d)
    <2>1. fdc.busy /\ fdc.command \in {"read", "write"}
          /\ \E status \in {{"protected"}, {"seek"}} : Done(status, fdc.track)
      BY <1>4 DEF FdcRefuses
    <2>2. at \in Transfer
      BY <2>1, Served
    <2> QED
      BY <2>1, <2>2, TransferEnds DEF StatusKept
  <1>5. CASE FdcTransfers(d)
    BY <1>5, Transferred
  <1> QED
    BY <1>1, <1>2, <1>3, <1>4, <1>5

-----------------------------------------------------------------------------
LEMMA NextInv == DriverInv /\ [Next]_vars => DriverInv'
  <1> SUFFICES ASSUME DriverInv, [Next]_vars
               PROVE  DriverInv'
    OBVIOUS
  <1>1. CASE Program \/ Reader
    BY <1>1, CallerBetween, CallerInv DEF DriverInv
  <1>2. CASE DriverRuns \/ FdcRuns \/ TimerRuns
    BY <1>2, DriverStepInv, FdcInv, TickInv DEF DriverRuns, FdcRuns, TimerRuns
  <1>3. CASE UNCHANGED vars
    BY <1>3 DEF vars, dskconVars, ram, motor, cpu, lines, drives, past,
       DriverInv, Records, NmiAwaited, MotorInv, Controller, Outcome, Kept, Place, At
  <1> QED
    BY <1>1, <1>2, <1>3 DEF Next

LEMMA DriverInv_Always == Spec => []DriverInv
  BY InitInv, NextInv, PTL DEF Spec

\* The interrupt that turns the motors off never comes between the selection of
\* a drive and the end of a request, whenever it comes, and whatever goes wrong
\* (dskcon-standalone.c:89-107, 275-289).
THEOREM MotorStaysOn == Spec => []MotorAtSpeed
  <1>1. DriverInv => MotorAtSpeed
    BY DEF DriverInv, MotorInv, MotorAtSpeed, AfterSelect
  <1> QED
    BY <1>1, DriverInv_Always, PTL

-----------------------------------------------------------------------------
(* Every step is one of the device, or nothing to it.                      *)

LEMMA CallerIsDevice == Between => Device!Next
  <1> SUFFICES ASSUME Between PROVE Device!Next
    OBVIOUS
  <1>1. CASE at' = "idle"
    <2> QED
      BY <1>1 DEF Between, Device!Next, Device!Rest, Nothing
  <1>2. CASE at' = "load"
    BY <1>2 DEF Between, Device!Next, Device!Ask, Nothing, Ops
  <1> QED
    BY <1>1, <1>2 DEF Between

\* A step within a request that writes nothing.
LEMMA Works ==
    ASSUME DriverInv, at # "idle", at' # "idle", UNCHANGED <<DC, changed>>
    PROVE  Device!Next
  BY DEF Device!Next, Device!Work, DriverInv, Records, Ops, Place

LEMMA DriverIsDevice == DriverInv /\ Driver => Device!Next
  <1> SUFFICES ASSUME DriverInv, Driver
               PROVE  Device!Next
    OBVIOUS
  <1>1. CASE Exit
    <2>1. /\ at = "check" /\ at' = "idle"
          /\ UNCHANGED <<DC, DCSTA, changed, buffer>>
      BY <1>1 DEF Exit, ram, drives
    <2>2. DCSTA = {} => Kept
      BY <2>1 DEF DriverInv, Outcome
    <2>3. DC.op # "none"
      BY DEF DriverInv, Records, Ops
    <2> QED
      BY <2>1, <2>2, <2>3 DEF Device!Next, Device!Answer, Device!Holds, Nothing, Same,
         Kept, At, Place
  <1>2. CASE Driver /\ ~Exit
    <2>1. at # "idle" /\ at' # "idle" /\ UNCHANGED <<DC, changed>>
      BY <1>2 DEF Driver, LoadImage, Select, Begin, NotReady, Restore, RestoreEnds,
         RestoreTimesOut, FindTrack, SeekEnds, SeekTimesOut, Arm, Move, DrqTimesOut, GiveUp,
         Complete, Retry, Restored, ram, drives
    <2> QED
      BY <2>1, Works
  <1> QED
    BY <1>1, <1>2

LEMMA FdcIsDevice == DriverInv /\ Fdc => Device!Next
  <1> SUFFICES ASSUME DriverInv, NEW d \in DSKREG.drives,
                      FdcRestores(d) \/ FdcSeeks(d) \/ FdcFinds(d) \/ FdcRefuses(d)
                      \/ FdcTransfers(d)
               PROVE  Device!Next
    BY DEF Fdc
  <1>1. fdc.busy /\ at \in Waiting /\ at # "idle"
    BY DEF FdcRestores, FdcSeeks, FdcFinds, FdcRefuses, FdcTransfers, DriverInv, Controller,
       Waiting, Transfer
  <1>2. at' # "idle" /\ UNCHANGED DC
    BY <1>1 DEF FdcRestores, FdcSeeks, FdcFinds, FdcRefuses, FdcTransfers, Done, ram, cpu
  <1>3. CASE ~FdcTransfers(d)
    <2>1. UNCHANGED changed
      BY <1>3 DEF FdcRestores, FdcSeeks, FdcFinds, FdcRefuses, drives
    <2> QED
      BY <1>1, <1>2, <2>1, Works
  <1>4. CASE FdcTransfers(d)
    <2>1. CASE UNCHANGED changed
      BY <1>1, <1>2, <2>1, Works
    <2>2. CASE \E content : DC.op = "write" /\ changed' = ChangedAt(Place, content)
      <3>1. PICK content : DC.op = "write" /\ changed' = ChangedAt(Place, content)
        BY <2>2
      <3>2. Place \in DOMAIN changed' /\ changed'[Place] = content
        BY <3>1 DEF ChangedAt
      <3>3. Place' = Place
        BY <1>2 DEF Place
      <3> QED
        BY <1>1, <1>2, <3>1, <3>2, <3>3 DEF Device!Next, Device!Work, ChangedAt
    <2>3. DC.op \in {"read", "write"}
      BY <1>1, <1>4, Served DEF FdcTransfers, Transfer
    <2> QED
      BY <1>4, <2>1, <2>2, <2>3, Transferred
  <1> QED
    BY <1>3, <1>4

LEMMA NextIsDevice == DriverInv /\ [Next]_vars => [Device!Next]_Device!vars
  <1> SUFFICES ASSUME DriverInv, [Next]_vars
               PROVE  Device!Next \/ UNCHANGED Device!vars
    OBVIOUS
  <1>1. CASE Program \/ Reader
    BY <1>1, CallerBetween, CallerIsDevice DEF DriverInv
  <1>2. CASE DriverRuns \/ FdcRuns
    BY <1>2, DriverIsDevice, FdcIsDevice DEF DriverRuns, FdcRuns
  <1>3. CASE TimerRuns
    <2>1. UNCHANGED <<DC, DCSTA, at, buffer, changed>>
      BY <1>3 DEF TimerRuns, Tick, ram, cpu, drives
    <2> QED
      BY <2>1 DEF Device!vars, Place
  <1>4. CASE UNCHANGED vars
    BY <1>4 DEF vars, dskconVars, ram, cpu, drives, Device!vars, Place
  <1> QED
    BY <1>1, <1>2, <1>3, <1>4 DEF Next

\* dskcon-standalone is a sector device: status 0 means the very sector asked
\* for, exactly, and nothing else is ever written, wherever the heads are and
\* whatever the controller does (dskcon-standalone.h:68-80).
THEOREM DskconIsADevice == Spec => SectorPromise
  <1>1. Init => Device!Init
    BY DEF Init, DskconInit, Device!Init, Nothing
  <1> QED
    BY <1>1, NextIsDevice, DriverInv_Always, PTL DEF Spec, SectorPromise, Device!Spec

-----------------------------------------------------------------------------
(* Where the heads and the requests are: the types that the rest needs.    *)

GeometryOf(op, drive, track, sector) ==
    /\ op \in Ops /\ drive \in FloppyDrives /\ track \in 0..34 /\ sector \in 0..TrackSectors
    /\ op \in {"read", "write"} => sector # 0
    /\ op = "write" => track # DirectoryTrack

\* No request is for a place the disk does not have, or writes to the directory.
Geometry ==
    /\ DC \in [op : Ops, drive : FloppyDrives, track : 0..34, sector : 0..TrackSectors]
    /\ GeometryOf(DC.op, DC.drive, DC.track, DC.sector)
    /\ tries \in 0..Retries /\ (at # "idle" => tries # 0)
    /\ RDYTMR \in 0..MotorTime
    /\ DRGRAM.drives \subseteq FloppyDrives /\ DSKREG.drives \subseteq FloppyDrives
    /\ DR0TRK \in [FloppyDrives -> 0..34]
    /\ head \in [FloppyDrives -> 0..LastTrack]
    /\ fdc.track \in 0..34
    /\ troubles \in 0..MaxTroubles
    /\ \A p \in DOMAIN changed : p[2] # DirectoryTrack

\* A request begins, or none does; nothing moves.
Asks ==
    /\ at = "idle"
    /\ UNCHANGED <<changed, fdc, head, DSKREG, troubles>>
    /\ DRGRAM' \in {DRGRAM, Off} /\ RDYTMR' \in {RDYTMR, 0}
    /\ DR0TRK' \in {DR0TRK, [d \in FloppyDrives |-> 0]}
    /\ DC' = [op |-> DC'.op, drive |-> DC'.drive, track |-> DC'.track, sector |-> DC'.sector]
    /\ GeometryOf(DC'.op, DC'.drive, DC'.track, DC'.sector)
    /\ \/ at' = "idle" /\ UNCHANGED tries
       \/ /\ at' = "load" /\ tries' = Retries
          /\ lost' = (head[DC'.drive] # DR0TRK'[DC'.drive])

LEMMA AsksGeometry == ASSUME Geometry, Asks PROVE Geometry'
  <1>1. DC' \in [op : Ops, drive : FloppyDrives, track : 0..34, sector : 0..TrackSectors]
    BY DEF Asks, GeometryOf
  <1>2. [d \in FloppyDrives |-> 0] \in [FloppyDrives -> 0..34]
    OBVIOUS
  <1>3. Retries \in Nat \ {0} /\ MotorTime \in Nat \ {0}
    BY DskconAssumption
  <1>4. DR0TRK' \in [FloppyDrives -> 0..34]
    BY <1>2 DEF Asks, Geometry
  <1>5. tries' \in 0..Retries /\ (at' # "idle" => tries' # 0) /\ RDYTMR' \in 0..MotorTime
    BY <1>3 DEF Asks, Geometry
  <1>6. DRGRAM'.drives \subseteq FloppyDrives
    BY DEF Asks, Geometry, Off
  <1> QED
    BY <1>1, <1>4, <1>5, <1>6 DEF Asks, Geometry

LEMMA TickGeometry == ASSUME Geometry, Tick PROVE Geometry'
  <1>1. RDYTMR' \in 0..MotorTime
    BY DskconAssumption DEF Tick, Geometry
  <1> QED
    BY <1>1 DEF Tick, Geometry, ram, cpu, drives, past, Off

LEMMA TroubleTypes ==
    ASSUME Geometry, Trouble \/ NoTrouble
    PROVE  troubles' \in 0..MaxTroubles
  BY DskconAssumption DEF Geometry, Trouble, NoTrouble

\* A head stops at the ends of its way.
LEMMA Stops ==
    ASSUME NEW from \in Int, NEW to \in Int, NEW track \in Int
    PROVE  Stop(from + to - track) \in 0..LastTrack
  BY DEF Stop, LastTrack

\* A seek ends on a track of the drive.
LEMMA SteppedTypes ==
    ASSUME NEW d, head[d] \in 0..LastTrack, DC.track \in 0..34, fdc.track \in 0..34
    PROVE  Stepped(d) \in 0..LastTrack
  <1>1. head[d] \in Int /\ DC.track \in Int /\ fdc.track \in Int
    BY DEF LastTrack
  <1>2. Stop(head[d] + DC.track - fdc.track) \in 0..LastTrack
    BY <1>1, Stops
  <1> QED
    BY <1>2 DEF Stepped

LEMMA DriverGeometry == ASSUME DriverInv, Geometry, Driver PROVE Geometry'
  <1> USE DskconAssumption
  <1>0. /\ DC.drive \in FloppyDrives /\ DC.track \in 0..34
        /\ DR0TRK[DC.drive] \in 0..34 /\ head[DC.drive] \in 0..LastTrack
        /\ fdc = [command |-> fdc.command, busy |-> fdc.busy, drq |-> fdc.drq,
                  track |-> fdc.track, status |-> fdc.status]
    BY DEF Geometry, GeometryOf, DriverInv, Records
  <1>1. CASE LoadImage \/ Begin
    BY <1>0, <1>1 DEF Geometry, LoadImage, Begin, ram, motor, lines, drives, past
  <1>10. CASE Arm \/ Complete \/ GiveUp
    BY <1>0, <1>10 DEF Geometry, Arm, Complete, GiveUp,
       ram, motor, lines, drives, past, Issue, Ready, StatusRead
  <1>11. CASE Move
    BY <1>0, <1>11 DEF Geometry, Move, ram, motor, lines, past
  <1>12. CASE Retry
    <2>1. tries' \in 0..Retries /\ tries' # 0
      BY <1>12 DEF Retry, Geometry
    <2> QED
      BY <1>0, <1>12, <2>1 DEF Geometry, Retry, ram, motor, lines, drives, past
  <1>2. CASE Select
    BY <1>0, <1>2 DEF Geometry, Select, Selected, ram, drives, past
  <1>3. CASE NotReady \/ DrqTimesOut
    <2>1. troubles' \in 0..MaxTroubles
      BY <1>3, TroubleTypes DEF NotReady, DrqTimesOut
    <2> QED
      BY <1>0, <1>3, <2>1 DEF Geometry, NotReady, DrqTimesOut,
         ram, motor, cpu, lines, drives, past, Ready
  <1>13. CASE SeekTimesOut
    <2>1. troubles' \in 0..MaxTroubles
      BY <1>13, TroubleTypes DEF SeekTimesOut
    <2>2. head' \in [FloppyDrives -> 0..LastTrack]
      <3>1. PICK d \in DSKREG.drives, steps \in BOOLEAN :
               head' = IF steps THEN [head EXCEPT ![d] = Stepped(d)] ELSE head
        BY <1>13 DEF SeekTimesOut
      <3>2. /\ fdc.busy /\ d \in DSKREG.drives /\ DC.drive \in FloppyDrives
            /\ head \in [FloppyDrives -> 0..LastTrack] /\ DC.track \in 0..34
            /\ fdc.track \in 0..34
        BY <1>13 DEF SeekTimesOut, Geometry, GeometryOf
      <3>3. d = DC.drive
        BY <3>2, Served
      <3>4. Stepped(d) \in 0..LastTrack
        BY <3>2, <3>3, SteppedTypes
      <3> QED
        BY <3>1, <3>2, <3>4
    <2> QED
      BY <1>0, <1>13, <2>1, <2>2 DEF Geometry, SeekTimesOut, motor, lines, Ready
  <1>4. CASE Restore
    BY <1>0, <1>4 DEF Geometry, Restore, Issue, motor, drives, past
  <1>5. CASE RestoreEnds
    BY <1>0, <1>5 DEF Geometry, RestoreEnds, Restored, StatusRead, drives, past
  <1>6. CASE RestoreTimesOut
    <2>1. troubles' \in 0..MaxTroubles
      BY <1>6, TroubleTypes DEF RestoreTimesOut
    <2>2. head' \in [FloppyDrives -> 0..LastTrack]
      BY <1>0, <1>6 DEF Geometry, RestoreTimesOut, LastTrack
    <2> QED
      BY <1>0, <1>6, <2>1, <2>2 DEF Geometry, RestoreTimesOut, Restored, Ready
  <1>7. CASE FindTrack
    BY <1>0, <1>7 DEF Geometry, FindTrack, motor, drives, past
  <1>8. CASE SeekEnds
    BY <1>0, <1>8 DEF Geometry, SeekEnds, StatusRead, motor, drives, past
  <1>9. CASE Exit
    BY <1>0, <1>9 DEF Geometry, Exit, ram, drives
  <1> QED
    BY <1>1, <1>2, <1>3, <1>4, <1>5, <1>6, <1>7, <1>8, <1>9, <1>10, <1>11, <1>12,
       <1>13
    DEF Driver

\* What a command of the controller leaves alone when it ends.
LEMMA DoneLeaves ==
    ASSUME DriverInv, Geometry, NEW status, NEW track \in 0..34, Done(status, track)
    PROVE  /\ fdc'.track \in 0..34 /\ fdc'.status = status /\ ~fdc'.busy /\ ~fdc'.drq
           /\ at' = IF NMIFLG THEN "ended" ELSE at
           /\ UNCHANGED <<ram, motor, tries, restoring, image, lost, DC, DCSTA, DR0TRK>>
  BY DEF Done, Ready, DriverInv, Records, ram

LEMMA FdcGeometry == ASSUME DriverInv, Geometry, Fdc PROVE Geometry'
  <1> SUFFICES ASSUME NEW d \in DSKREG.drives,
                      FdcRestores(d) \/ FdcSeeks(d) \/ FdcFinds(d) \/ FdcRefuses(d)
                      \/ FdcTransfers(d)
               PROVE  Geometry'
    BY DEF Fdc
  <1>0. /\ d \in FloppyDrives /\ fdc.track \in 0..34 /\ DC.track \in 0..34 /\ 0 \in 0..34
        /\ fdc.busy /\ at # "idle" /\ d = DC.drive /\ head[d] \in 0..LastTrack
    <2>1. fdc.busy /\ at \in Waiting /\ at # "idle"
      BY DEF FdcRestores, FdcSeeks, FdcFinds, FdcRefuses, FdcTransfers, DriverInv, Controller,
         Waiting, Transfer
    <2>2. d = DC.drive
      BY <2>1, Served
    <2> QED
      BY <2>1, <2>2 DEF Geometry, GeometryOf
  <1>1. CASE ~FdcFinds(d)
    <2>1. PICK track \in 0..34 : \E status : Done(status, track)
      <3>1. CASE FdcRestores(d)
        BY <1>0, <3>1 DEF FdcRestores
      <3>2. CASE FdcSeeks(d)
        BY <1>0, <3>2 DEF FdcSeeks
      <3>3. CASE FdcRefuses(d)
        BY <1>0, <3>3 DEF FdcRefuses
      <3>4. CASE FdcTransfers(d)
        BY <1>0, <3>4 DEF FdcTransfers
      <3> QED
        BY <1>1, <3>1, <3>2, <3>3, <3>4
    <2>2. /\ fdc'.track \in 0..34
          /\ UNCHANGED <<DC, DR0TRK, RDYTMR, DRGRAM, DSKREG, tries>>
      BY <2>1, DoneLeaves DEF motor
    <2>3. troubles' \in 0..MaxTroubles
      <3>1. Trouble \/ NoTrouble
        BY <1>1 DEF FdcRestores, FdcSeeks, FdcRefuses, FdcTransfers
      <3> QED
        BY <3>1, TroubleTypes
    <2>4. head' \in [FloppyDrives -> 0..LastTrack]
      <3>1. CASE FdcSeeks(d)
        <4>1. head' = [head EXCEPT ![d] = Stepped(d)]
          BY <3>1 DEF FdcSeeks
        <4>2. Stepped(d) \in 0..LastTrack
          BY <1>0, SteppedTypes
        <4> QED
          BY <4>1, <4>2 DEF Geometry
      <3>2. CASE ~FdcSeeks(d)
        <4>1. head' = head \/ head' = [head EXCEPT ![d] = 0]
          BY <1>1, <3>2 DEF FdcRestores, FdcRefuses, FdcTransfers, drives
        <4>2. 0 \in 0..LastTrack
          BY DEF LastTrack
        <4> QED
          BY <4>1, <4>2 DEF Geometry
      <3> QED
        BY <3>1, <3>2
    <2>5. \A p \in DOMAIN changed' : p[2] # DirectoryTrack
      <3>1. CASE FdcTransfers(d)
        <4>1. DC.op \in {"read", "write"}
          BY <1>0, <3>1, Served DEF FdcTransfers, Transfer
        <4>2. CASE UNCHANGED changed
          BY <4>2 DEF Geometry
        <4>3. CASE DC.op = "write" /\ \E content : changed' = ChangedAt(Place, content)
          <5>1. Place[2] # DirectoryTrack /\ DOMAIN changed' = DOMAIN changed \cup {Place}
            BY <4>3 DEF Geometry, GeometryOf, Place, ChangedAt
          <5> QED
            BY <5>1 DEF Geometry
        <4> QED
          BY <3>1, <4>1, <4>2, <4>3, Transferred
      <3>2. CASE ~FdcTransfers(d)
        BY <1>1, <3>2 DEF FdcRestores, FdcSeeks, FdcRefuses, drives, Geometry
      <3> QED
        BY <3>1, <3>2
    <2> QED
      BY <1>0, <2>2, <2>3, <2>4, <2>5 DEF Geometry
  <1>2. CASE FdcFinds(d)
    <2>1. fdc'.track = fdc.track
      BY <1>2 DEF FdcFinds, DriverInv, Records
    <2> QED
      BY <1>2, <2>1 DEF FdcFinds, Geometry, ram, motor, cpu, drives, past
  <1> QED
    BY <1>1, <1>2

-----------------------------------------------------------------------------
(* What readDECBFile() reads next is there to be read.                     *)

\* A granule that a file goes on at is one in use, and no more of it than it has.
Used(fat, g) == g \in Granules /\ fat[g] \in Granules \cup (193..192 + GranSectors)

Files == [drive : FloppyDrives, name : Names, curGran : Granules \cup {EndOfFile},
          curSec : 0..GranSectors, last : 0..SectorBytes]

\* What the caller keeps has its type.
Kinds ==
    /\ disk \in Inserted /\ task \in Tasks /\ result.err \in {0, 1, 2, 3, 4, 255}
    /\ file \in Files

\* The sector that was asked for is the one that the file goes on at.
Sought ==
    /\ task # "program" =>
          /\ DC.op = "read" /\ DC.drive = file.drive
          /\ at = "idle" /\ DCSTA = {} => buffer = At(Place)
    /\ task = "directory" => DC.track = DirectoryTrack /\ DC.sector \in 3..2 + DirSectors
    /\ task = "table" =>
          /\ DC.track = DirectoryTrack /\ DC.sector = 2
          /\ Used(disk[file.drive].fat, file.curGran) /\ file.curSec = 1
    /\ task = "file" =>
          /\ table = disk[file.drive].fat /\ Used(table, file.curGran)
          /\ file.curSec \in 1..GranSectors
          /\ <<DC.track, DC.sector>> = PlaceToRead(file)

Reading == Kinds /\ Sought

LEMMA DisksAreDisks ==
    ASSUME disk \in Inserted, NEW d \in FloppyDrives
    PROVE  /\ disk[d] \in DecbDisks
           /\ disk[d].fat \in Fats
           /\ disk[d].dir \in [1..DirSectors -> [1..DirEntries -> Entries]]
           /\ \A s \in 1..DirSectors, i \in 1..DirEntries :
                 disk[d].dir[s][i].kind = "file" => disk[d].fat[disk[d].dir[s][i].firstGran] # Free
           /\ \A g \in Granules : disk[d].fat[g] \in Granules => disk[d].fat[disk[d].fat[g]] # Free
  <1>1. disk[d] \in DecbDisks
    BY ReadDECBFileAssumption
  <1> QED
    BY <1>1, DecbAssumption, ChainsAssumption

\* A sector of a granule is one of a track that is not the directory's.
LEMMA PlacesAreThere ==
    ASSUME NEW f, f.curGran \in Granules, f.curSec \in 1..GranSectors
    PROVE  /\ PlaceToRead(f) = <<PlaceToRead(f)[1], PlaceToRead(f)[2]>>
           /\ PlaceToRead(f)[1] \in 0..34 \ {DirectoryTrack}
           /\ PlaceToRead(f)[2] \in 1..TrackSectors
  <1> DEFINE g == f.curGran
  <1>1. g \in 0..67
    BY DEF Granules, MAX_NUM_GRANULES
  <1>2. g \div 2 \in 0..33
    BY <1>1
  <1>3. GranSectors \in 1..9 /\ TrackSectors = 2 * GranSectors
    BY DecbAssumption, ReadDECBFileAssumption
  <1>4. /\ granuleToTrack(g)[1] \in 0..34 \ {DirectoryTrack}
        /\ granuleToTrack(g)[2] \in {0, GranSectors}
    BY <1>2 DEF granuleToTrack, DirectoryTrack
  <1> QED
    BY <1>3, <1>4 DEF PlaceToRead

\* The first granule of a file, and the next, is in use.
LEMMA UsedFirst ==
    ASSUME NEW fat \in Fats, NEW g \in Granules, fat[g] # Free
    PROVE  Used(fat, g)
  BY DEF Used, Fats, FatBytes

LEMMA AdvancedIsUsed ==
    ASSUME NEW f \in Files,
           table \in Fats, Used(table, f.curGran), f.curSec \in 1..GranSectors,
           \A g \in Granules : table[g] \in Granules => table[table[g]] # Free
    PROVE  /\ Advanced(f).drive = f.drive /\ Advanced(f).name = f.name
           /\ Advanced(f).last = f.last
           /\ \/ Advanced(f).curGran = EndOfFile
              \/ /\ Advanced(f) \in Files /\ Used(table, Advanced(f).curGran)
                 /\ Advanced(f).curSec \in 1..GranSectors
  <1> DEFINE g == table[f.curGran]
             numSectorsCurGran == IF g >= 193 THEN g - 192 ELSE GranSectors
  <1>1. GranSectors \in 1..9
    BY DecbAssumption
  <1>2. g \in 0..67 \/ g \in 193..192 + GranSectors
    BY DEF Used, Granules, MAX_NUM_GRANULES
  <1>3. CASE f.curSec < numSectorsCurGran
    <2>1. Advanced(f) = [f EXCEPT !.curSec = f.curSec + 1]
      BY <1>3 DEF Advanced
    <2>2. f.curSec + 1 \in 1..GranSectors
      BY <1>1, <1>2, <1>3
    <2> QED
      BY <1>1, <2>1, <2>2 DEF Files
  <1>4. CASE ~(f.curSec < numSectorsCurGran) /\ g >= 193
    <2>1. Advanced(f) = [f EXCEPT !.curSec = f.curSec + 1, !.curGran = EndOfFile]
      BY <1>4 DEF Advanced
    <2> QED
      BY <2>1 DEF Files
  <1>5. CASE ~(f.curSec < numSectorsCurGran) /\ ~(g >= 193)
    <2>1. Advanced(f) = [f EXCEPT !.curSec = 1, !.curGran = g]
      BY <1>5 DEF Advanced
    <2>2. g \in Granules
      BY <1>1, <1>2, <1>5 DEF Granules, MAX_NUM_GRANULES
    <2>3. Used(table, g)
      BY <2>2, UsedFirst DEF Used
    <2>4. 1 \in 1..GranSectors /\ 1 \in 0..GranSectors
      BY <1>1
    <2>5. Advanced(f) \in Files
      BY <2>1, <2>2, <2>4 DEF Files
    <2>6. /\ Advanced(f).drive = f.drive /\ Advanced(f).name = f.name
          /\ Advanced(f).last = f.last /\ Advanced(f).curGran = g /\ Advanced(f).curSec = 1
      BY <2>1 DEF Files
    <2> HIDE DEF g
    <2> QED
      BY <2>3, <2>4, <2>5, <2>6
  <1> QED
    BY <1>3, <1>4, <1>5

LEMMA BeginsAsks ==
    ASSUME at = "idle", NEW op, NEW drive, NEW track, NEW sector,
           GeometryOf(op, drive, track, sector), processSector(op, drive, track, sector),
           UNCHANGED <<changed, fdc, head, DSKREG, troubles, DRGRAM, DR0TRK>>
    PROVE  /\ Asks /\ at' = "load"
           /\ DC'.op = op /\ DC'.drive = drive /\ DC'.track = track /\ DC'.sector = sector
  <1>1. DC' = [op |-> op, drive |-> drive, track |-> track, sector |-> sector]
    BY DEF processSector
  <1>2. /\ at' = "load" /\ tries' = Retries /\ RDYTMR' = 0
        /\ lost' = (head[drive] # DR0TRK[drive])
    BY DEF processSector
  <1> QED
    BY <1>1, <1>2 DEF Asks

LEMMA RestsAsks ==
    ASSUME at = "idle", DriverInv, Geometry,
           UNCHANGED <<DC, changed, fdc, head, DSKREG, troubles, DRGRAM, RDYTMR, DR0TRK, at, tries>>
    PROVE  Asks
  BY DEF Asks, Geometry, DriverInv, Records

LEMMA NoFileIsOne == NoFile \in Files
  <1>1. (CHOOSE n \in Names : TRUE) \in Names
    BY ReadDECBFileAssumption
  <1>2. 0 \in FloppyDrives /\ 0 \in Granules /\ 0 \in 0..GranSectors /\ 0 \in 0..SectorBytes
    BY ReadDECBFileAssumption, DecbAssumption DEF Granules, MAX_NUM_GRANULES
  <1> QED
    BY <1>1, <1>2 DEF NoFile, Files

\* The end of a call.
LEMMA Returns ==
    ASSUME at = "idle", DriverInv, Geometry, Reading,
           NEW err \in {0, 1, 2, 3, 4}, NEW size, Return(err, size)
    PROVE  Asks /\ Reading'
  <1>1. Asks
    BY RestsAsks DEF Return, ram, motor, cpu, drives, past
  <1>2. result'.err = err
    BY DEF Return
  <1>3. Kinds'
    BY <1>2, NoFileIsOne DEF Return, Reading, Kinds, Tasks
  <1>4. Sought'
    BY DEF Return, Sought
  <1> QED
    BY <1>1, <1>3, <1>4 DEF Reading

\* Another sector is read.
LEMMA ReadsOn ==
    ASSUME at = "idle", DriverInv, Geometry, Reading, NEW place, UNCHANGED <<Drivers, disk, result>>,
           readDiskSector(file.drive, place), place[1] \in 0..34, place[2] \in 1..TrackSectors,
           task' \in Tasks, file' \in Files, file'.drive = file.drive
    PROVE  /\ Asks /\ Kinds' /\ at' = "load"
           /\ DC'.op = "read" /\ DC'.drive = file'.drive
           /\ DC'.track = place[1] /\ DC'.sector = place[2]
  <1>1. GeometryOf("read", file.drive, place[1], place[2])
    <2>1. file.drive \in FloppyDrives
      BY DEF Reading, Kinds, Files
    <2>2. place[2] \in 0..TrackSectors /\ place[2] # 0
      OBVIOUS
    <2> QED
      BY <2>1, <2>2 DEF GeometryOf, Ops
  <1>2. UNCHANGED <<changed, fdc, head, DSKREG, troubles, DRGRAM, DR0TRK>>
    BY DEF Drivers
  <1>3. processSector("read", file.drive, place[1], place[2])
    BY DEF readDiskSector
  <1>4. Kinds'
    BY DEF Reading, Kinds
  <1> QED
    BY <1>1, <1>2, <1>3, <1>4, BeginsAsks

\* The sector that was read is the one of the directory that was asked for.
LEMMA BufferIsPlace ==
    ASSUME at = "idle", Geometry, Reading, task # "program", DCSTA = {},
           DC.track = DirectoryTrack
    PROVE  buffer = <<file.drive, DirectoryTrack, DC.sector>>
  <1>1. Place = <<file.drive, DirectoryTrack, DC.sector>>
    BY DEF Place, Reading, Sought
  <1>2. Place \notin DOMAIN changed
    BY <1>1 DEF Geometry
  <1> QED
    BY <1>1, <1>2 DEF Reading, Sought, At

\* The entry that findDirEntry finds.
LEMMA EntryIsAFile ==
    ASSUME NEW d \in FloppyDrives, disk \in Inserted, NEW s \in 1..DirSectors,
           DirSector = disk[d].dir[s], NEW i \in Matches
    PROVE  /\ DirSector[i].kind = "file" /\ DirSector[i].firstGran \in Granules
           /\ DirSector[i].numBytesLastSector \in 0..SectorBytes
           /\ Used(disk[d].fat, DirSector[i].firstGran)
  <1>1. DirSector \in [1..DirEntries -> Entries]
    BY DisksAreDisks
  <1>2. i \in 1..DirEntries /\ DirSector[i] \in Entries /\ DirSector[i].kind = "file"
    BY <1>1 DEF Matches
  <1>3. DirSector[i] \in [kind : {"file"}, name : Names, firstGran : Granules,
                          numBytesLastSector : 0..SectorBytes]
    BY <1>2 DEF Entries
  <1>4. disk[d].fat \in Fats /\ disk[d].fat[DirSector[i].firstGran] # Free
    BY <1>2, DisksAreDisks
  <1> QED
    BY <1>2, <1>3, <1>4, UsedFirst

LEMMA FirstMatch ==
    ASSUME NEW d \in FloppyDrives, disk \in Inserted, NEW s \in 1..DirSectors,
           DirSector = disk[d].dir[s], Matches # {}
    PROVE  /\ (CHOOSE i \in Matches : \A j \in Matches : i <= j) \in Matches
           /\ \A j \in Matches : (CHOOSE i \in Matches : \A k \in Matches : i <= k) <= j
  <1>1. DirSector \in [1..DirEntries -> Entries]
    BY DisksAreDisks
  <1>2. Matches \in SUBSET Nat
    BY <1>1, DecbAssumption DEF Matches
  <1>3. \E i \in Matches : \A j \in Matches : i <= j
    BY <1>2, LeastOf
  <1> QED
    BY <1>3

LEMMA FoundReads ==
    ASSUME DriverInv, Geometry, Reading, DirFound
    PROVE  Asks /\ Reading'
  <1> DEFINE entry == DirSector[CHOOSE i \in Matches : \A j \in Matches : i <= j]
             s == DC.sector - 2
  <1>1. /\ at = "idle" /\ task = "directory" /\ DCSTA = {} /\ Matches # {}
        /\ file' = [file EXCEPT !.curGran = entry.firstGran, !.curSec = 1,
                                !.last = entry.numBytesLastSector]
        /\ readDiskSector(file.drive, <<DirectoryTrack, 2>>)
        /\ task' = "table"
        /\ UNCHANGED <<Drivers, disk, table, dest, result>>
    BY DEF DirFound, Read
  <1>2. /\ disk \in Inserted /\ file \in Files /\ file.drive \in FloppyDrives
        /\ DC.track = DirectoryTrack /\ DC.sector \in 3..2 + DirSectors
    BY <1>1 DEF Reading, Kinds, Sought, Files
  <1>3. s \in 1..DirSectors
    BY <1>2, DecbAssumption
  <1>4. DirSector = disk[file.drive].dir[s]
    <2>1. buffer = <<file.drive, DirectoryTrack, DC.sector>>
      BY <1>1, <1>2, BufferIsPlace
    <2> QED
      BY <2>1 DEF DirSector
  <1> HIDE DEF s
  <1>5. /\ entry.firstGran \in Granules /\ entry.numBytesLastSector \in 0..SectorBytes
        /\ Used(disk[file.drive].fat, entry.firstGran)
    <2>1. (CHOOSE i \in Matches : \A j \in Matches : i <= j) \in Matches
      BY <1>1, <1>2, <1>3, <1>4, FirstMatch
    <2> QED
      BY <1>2, <1>3, <1>4, <2>1, EntryIsAFile, SMTT(30)
  <1> HIDE DEF entry
  <1>6. /\ file' \in Files /\ file'.drive = file.drive
        /\ file'.curGran = entry.firstGran /\ file'.curSec = 1
    <2>1. 1 \in 0..GranSectors
      BY DecbAssumption
    <2> QED
      BY <1>1, <1>2, <1>5, <2>1 DEF Files
  <1>7. /\ <<DirectoryTrack, 2>>[1] \in 0..34 /\ <<DirectoryTrack, 2>>[2] \in 1..TrackSectors
        /\ task' \in Tasks
    BY <1>1, DecbAssumption, ReadDECBFileAssumption DEF DirectoryTrack, Tasks
  <1>8. /\ Asks /\ Kinds' /\ at' = "load"
        /\ DC'.op = "read" /\ DC'.drive = file'.drive
        /\ DC'.track = DirectoryTrack /\ DC'.sector = 2
    BY <1>1, <1>6, <1>7, ReadsOn
  <1>9. Sought'
    BY <1>1, <1>5, <1>6, <1>8 DEF Sought
  <1> QED
    BY <1>8, <1>9 DEF Reading

LEMMA NextReads ==
    ASSUME DriverInv, Geometry, Reading, DirNext
    PROVE  Asks /\ Reading'
  <1>1. /\ at = "idle" /\ task = "directory" /\ DC.sector < 2 + DirSectors
        /\ readDiskSector(file.drive, <<DirectoryTrack, DC.sector + 1>>)
        /\ UNCHANGED <<Drivers, disk, task, file, table, dest, result>>
    BY DEF DirNext, Read, reader
  <1>2. DC.sector \in 3..2 + DirSectors /\ task' \in Tasks /\ file' \in Files
    BY <1>1 DEF Sought, Reading, Kinds
  <1>3. DC.sector + 1 \in 3..2 + DirSectors
    BY <1>1, <1>2, DecbAssumption
  <1>4. DC.sector + 1 \in 1..TrackSectors
    BY <1>3, DecbAssumption, ReadDECBFileAssumption
  <1>5. /\ Asks /\ Kinds' /\ at' = "load"
        /\ DC'.op = "read" /\ DC'.drive = file'.drive
        /\ DC'.track = DirectoryTrack /\ DC'.sector = DC.sector + 1
    BY <1>1, <1>2, <1>4, ReadsOn DEF DirectoryTrack
  <1>6. Sought'
    BY <1>1, <1>3, <1>5 DEF Sought
  <1> QED
    BY <1>5, <1>6 DEF Reading

LEMMA GoesOnReads ==
    ASSUME DriverInv, Geometry, Reading, at = "idle", NEW f, NEW fat, NEW read,
           GoOn(f, fat, read), fat = disk[file.drive].fat, f.drive = file.drive,
           f.curGran = EndOfFile \/
               (f \in Files /\ Used(fat, f.curGran) /\ f.curSec \in 1..GranSectors)
    PROVE  Asks /\ Reading'
  <1>1. CASE f.curGran = EndOfFile
    BY <1>1, Returns DEF GoOn
  <1>2. CASE f.curGran # EndOfFile
    <2>1. /\ readDiskSector(file.drive, PlaceToRead(f))
          /\ file' = f /\ table' = fat /\ task' = "file"
          /\ UNCHANGED <<Drivers, disk, result>>
      BY <1>2 DEF GoOn
    <2>2. /\ PlaceToRead(f) = <<PlaceToRead(f)[1], PlaceToRead(f)[2]>>
          /\ PlaceToRead(f)[1] \in 0..34 \ {DirectoryTrack}
          /\ PlaceToRead(f)[2] \in 1..TrackSectors
      BY <1>2, PlacesAreThere DEF Used
    <2>3. /\ Asks /\ Kinds' /\ at' = "load"
          /\ DC'.op = "read" /\ DC'.drive = file'.drive
          /\ DC'.track = PlaceToRead(f)[1] /\ DC'.sector = PlaceToRead(f)[2]
      BY <1>2, <2>1, <2>2, ReadsOn DEF Tasks
    <2>4. PlaceToRead(file)' = PlaceToRead(f)
      BY <2>1 DEF PlaceToRead, granuleToTrack
    <2>5. Sought'
      BY <1>2, <2>1, <2>2, <2>3, <2>4 DEF Sought
    <2> QED
      BY <2>3, <2>5 DEF Reading
  <1> QED
    BY <1>1, <1>2

LEMMA TableReads ==
    ASSUME DriverInv, Geometry, Reading, TableRead
    PROVE  Asks /\ Reading'
  <1> DEFINE fat == disk[buffer[1]].fat
             f == IF fat[file.curGran] = 193 /\ file.last = 0
                  THEN [file EXCEPT !.curGran = EndOfFile] ELSE file
  <1>1. at = "idle" /\ task = "table" /\ DCSTA = {} /\ GoOn(f, fat, <<>>)
    BY DEF TableRead, Read
  <1>2. /\ DC.track = DirectoryTrack /\ file \in Files /\ file.curSec = 1
        /\ Used(disk[file.drive].fat, file.curGran)
    BY <1>1 DEF Reading, Kinds, Sought
  <1>3. fat = disk[file.drive].fat
    BY <1>1, <1>2, BufferIsPlace
  <1>4. f.drive = file.drive /\ (f.curGran = EndOfFile \/ f = file)
    BY <1>2 DEF Files
  <1>5. 1 \in 1..GranSectors
    BY DecbAssumption
  <1> HIDE DEF f, fat
  <1> QED
    BY <1>1, <1>2, <1>3, <1>4, <1>5, GoesOnReads

LEMMA SectorReads ==
    ASSUME DriverInv, Geometry, Reading, SectorRead
    PROVE  Asks /\ Reading'
  <1>1. at = "idle" /\ task = "file" /\ GoOn(Advanced(file), table, Append(dest, buffer))
    BY DEF SectorRead, Read
  <1>2. /\ disk \in Inserted /\ file \in Files /\ file.drive \in FloppyDrives
        /\ table = disk[file.drive].fat /\ Used(table, file.curGran)
        /\ file.curSec \in 1..GranSectors
    BY <1>1 DEF Reading, Kinds, Sought, Files
  <1>3. table \in Fats /\ \A g \in Granules : table[g] \in Granules => table[table[g]] # Free
    BY <1>2, DisksAreDisks
  <1>4. /\ Advanced(file).drive = file.drive
        /\ \/ Advanced(file).curGran = EndOfFile
           \/ /\ Advanced(file) \in Files /\ Used(table, Advanced(file).curGran)
              /\ Advanced(file).curSec \in 1..GranSectors
    BY <1>2, <1>3, AdvancedIsUsed
  <1> QED
    BY <1>1, <1>2, <1>4, GoesOnReads

LEMMA ReaderReads ==
    ASSUME DriverInv, Geometry, Reading, Reader
    PROVE  Asks /\ Reading'
  <1>1. CASE Fails
    <2> DEFINE err == CASE task = "directory" -> 1 [] task = "table" -> 3 [] task = "file" -> 4
    <2>1. at = "idle" /\ task # "program" /\ task \in Tasks /\ Return(err, 0)
      BY <1>1 DEF Fails, Reading, Kinds
    <2>2. err \in {0, 1, 2, 3, 4}
      BY <2>1 DEF Tasks
    <2> HIDE DEF err
    <2> QED
      BY <2>1, <2>2, Returns
  <1>2. CASE NotFound
    BY <1>2, Returns DEF NotFound, Read
  <1> QED
    BY <1>1, <1>2, FoundReads, NextReads, TableReads, SectorReads DEF Reader

LEMMA ProgramReads ==
    ASSUME DriverInv, Geometry, Reading, Program
    PROVE  Asks /\ Reading'
  <1>1. CASE dskcon_init
    <2>1. DC' = [op |-> "restore", drive |-> 0, track |-> 0, sector |-> 0]
      BY <1>1 DEF dskcon_init
    <2>2. DC'.op = "restore" /\ DC'.drive = 0 /\ DC'.track = 0 /\ DC'.sector = 0
      BY <2>1
    <2>3. GeometryOf("restore", 0, 0, 0)
      BY ReadDECBFileAssumption, DskconAssumption DEF GeometryOf, Ops
    <2>4. Asks
      BY <1>1, <2>1, <2>2, <2>3 DEF dskcon_init, Idle, Cleared, cpu, drives, past, Asks
    <2>5. Reading'
      BY <1>1 DEF dskcon_init, Idle, NoResult, Reading, Kinds, Sought
    <2> QED
      BY <2>4, <2>5
  <1>2. CASE dskcon_shutdown
    <2>1. Asks
      BY <1>2, RestsAsks DEF dskcon_shutdown, Idle, ram, motor, cpu, drives, past
    <2>2. Reading'
      BY <1>2 DEF dskcon_shutdown, Idle, reader, Reading, Kinds, Sought
    <2> QED
      BY <2>1, <2>2
  <1>3. ASSUME NEW r \in Requests, Request(r)
        PROVE  Asks /\ Reading'
    <2>1. GeometryOf(r.op, r.drive, r.track, r.sector)
      <3>1. r \in [op : Ops, drive : FloppyDrives, track : 0..34, sector : 1..TrackSectors]
            /\ (r.op = "write" => r.track # DirectoryTrack)
        BY ReadDECBFileAssumption
      <3>2. r.sector \in 0..TrackSectors /\ r.sector # 0
        BY <3>1, DskconAssumption
      <3> QED
        BY <3>1, <3>2 DEF GeometryOf
    <2>2. Asks
      BY <1>3, <2>1, BeginsAsks DEF Request, Idle, Drivers
    <2>3. Reading'
      BY <1>3 DEF Request, Idle, reader, Reading, Kinds, Sought
    <2> QED
      BY <2>2, <2>3
  <1>4. ASSUME NEW d \in FloppyDrives, NEW name \in Filenames, readDECBFile(d, name)
        PROVE  Asks /\ Reading'
    <2>1. DC' = [op |-> "read", drive |-> d, track |-> DirectoryTrack, sector |-> 3]
      BY <1>4 DEF readDECBFile
    <2>2. DC'.op = "read" /\ DC'.drive = d /\ DC'.track = DirectoryTrack /\ DC'.sector = 3
      BY <2>1
    <2>3. GeometryOf("read", d, DirectoryTrack, 3)
      BY ReadDECBFileAssumption, DecbAssumption DEF GeometryOf, Ops, DirectoryTrack
    <2>4. DR0TRK'[d] = 0
      BY <1>4 DEF readDECBFile, Cleared
    <2>5. Asks
      BY <1>4, <2>1, <2>2, <2>3, <2>4 DEF readDECBFile, Idle, Cleared, Asks
    <2>6. name \in Names /\ 3 \in 3..2 + DirSectors
      BY ReadDECBFileAssumption, DecbAssumption
    <2>7. file' \in Files /\ file'.drive = d
      BY <1>4, <2>6, NoFileIsOne DEF readDECBFile, Files
    <2>8. Reading'
      BY <1>4, <2>2, <2>6, <2>7 DEF readDECBFile, NoResult, Tasks, Reading, Kinds, Sought
    <2> QED
      BY <2>5, <2>8
  <1> QED
    BY <1>1, <1>2, <1>3, <1>4 DEF Program

LEMMA WorkerReads ==
    ASSUME DriverInv, Reading, DriverRuns \/ FdcRuns \/ TimerRuns
    PROVE  Reading'
  <1>1. UNCHANGED <<DC, reader>>
    <2>1. Driver => UNCHANGED DC
      BY DEF Driver, ram, LoadImage, Select, Begin, NotReady, Restore, RestoreEnds,
         RestoreTimesOut, FindTrack, SeekEnds, SeekTimesOut, Arm, Move, DrqTimesOut, GiveUp,
         Complete, Exit, Retry
    <2>2. Fdc => UNCHANGED DC
      BY DEF Fdc, FdcRestores, FdcSeeks, FdcFinds, FdcRefuses, FdcTransfers, Done, ram
    <2>3. Tick => UNCHANGED DC
      BY DEF Tick, ram
    <2>4. UNCHANGED reader
      BY DEF DriverRuns, FdcRuns, TimerRuns
    <2> QED
      BY <2>1, <2>2, <2>3, <2>4 DEF DriverRuns, FdcRuns, TimerRuns
  <1>2. Kinds'
    BY <1>1 DEF Reading, Kinds, reader
  <1>3. DC.op = "read" /\ at' = "idle" /\ DCSTA' = {} =>
           \/ UNCHANGED <<at, DCSTA, changed, buffer>>
           \/ (buffer = At(Place) /\ UNCHANGED <<changed, buffer>>)
    <2>1. CASE Exit
      BY <2>1 DEF Exit, ram, drives, DriverInv, Outcome, Kept
    <2>2. CASE Driver /\ ~Exit
      BY <2>2 DEF Driver, LoadImage, Select, Begin, NotReady, Restore, RestoreEnds,
         RestoreTimesOut, FindTrack, SeekEnds, SeekTimesOut, Arm, Move, DrqTimesOut, GiveUp,
         Complete, Retry, Restored
    <2>3. ASSUME NEW d \in DSKREG.drives,
                 FdcRestores(d) \/ FdcSeeks(d) \/ FdcFinds(d) \/ FdcRefuses(d)
                 \/ FdcTransfers(d)
          PROVE  at' # "idle"
      <3>1. at # "idle"
        BY <2>3 DEF FdcRestores, FdcSeeks, FdcFinds, FdcRefuses, FdcTransfers, DriverInv,
           Controller, Waiting, Transfer
      <3> QED
        BY <2>3, <3>1 DEF FdcRestores, FdcSeeks, FdcFinds, FdcRefuses, FdcTransfers, Done, cpu
    <2>4. CASE Tick
      BY <2>4 DEF Tick, ram, cpu, drives
    <2> QED
      BY <2>1, <2>2, <2>3, <2>4 DEF DriverRuns, FdcRuns, TimerRuns, Fdc
  <1>4. Place' = Place
    BY <1>1 DEF Place
  <1>5. task # "program" => (at' = "idle" /\ DCSTA' = {} => buffer' = At(Place)')
    BY <1>3, <1>4 DEF Reading, Sought, At
  <1>6. PlaceToRead(file)' = PlaceToRead(file)
    BY <1>1 DEF reader, PlaceToRead, granuleToTrack
  <1>7. Sought'
    BY <1>1, <1>5, <1>6 DEF Reading, Sought, reader
  <1> QED
    BY <1>2, <1>7 DEF Reading

WholeInv == DriverInv /\ Geometry /\ Reading

LEMMA WholeInit == Init => WholeInv
  <1> SUFFICES ASSUME Init PROVE WholeInv
    OBVIOUS
  <1>1. /\ DC = [op |-> "other", drive |-> 0, track |-> 0, sector |-> 0]
        /\ DC.op = "other" /\ DC.drive = 0 /\ DC.track = 0 /\ DC.sector = 0
        /\ fdc.track = 0 /\ at = "idle" /\ tries = 0 /\ RDYTMR = 0 /\ troubles = 0
        /\ DRGRAM.drives = {} /\ DSKREG.drives = {} /\ changed = <<>>
        /\ DR0TRK = [d \in FloppyDrives |-> 0] /\ head \in [FloppyDrives -> HeadsAt]
    BY DEF Init, DskconInit, Off
  <1>2. /\ 0 \in FloppyDrives /\ 0 \in 0..TrackSectors /\ 0 \in 0..Retries /\ 0 \in 0..MotorTime
        /\ 0 \in 0..MaxTroubles /\ 0 \in 0..34 /\ HeadsAt \subseteq 0..LastTrack
    BY DskconAssumption, ReadDECBFileAssumption
  <1>3. DC \in [op : Ops, drive : FloppyDrives, track : 0..34, sector : 0..TrackSectors]
    BY <1>1, <1>2 DEF Ops
  <1>4. GeometryOf(DC.op, DC.drive, DC.track, DC.sector)
    BY <1>1, <1>2 DEF Ops, GeometryOf
  <1>5. /\ DR0TRK \in [FloppyDrives -> 0..34] /\ head \in [FloppyDrives -> 0..LastTrack]
    BY <1>1, <1>2
  <1>6. DOMAIN changed = {}
    BY <1>1
  <1>7. Geometry
    BY <1>1, <1>2, <1>3, <1>4, <1>5, <1>6 DEF Geometry
  <1>8. Reading
    BY NoFileIsOne DEF Init, NoResult, Reading, Kinds, Tasks, Sought
  <1> QED
    BY <1>7, <1>8, InitInv DEF WholeInv

LEMMA WholeNext == WholeInv /\ [Next]_vars => WholeInv'
  <1> SUFFICES ASSUME WholeInv, [Next]_vars
               PROVE  WholeInv'
    OBVIOUS
  <1>0. DriverInv /\ Geometry /\ Reading
    BY DEF WholeInv
  <1>1. CASE Program \/ Reader
    BY <1>0, <1>1, ProgramReads, ReaderReads, AsksGeometry, NextInv DEF WholeInv
  <1>2. CASE DriverRuns \/ FdcRuns \/ TimerRuns
    <2>1. Geometry'
      BY <1>0, <1>2, DriverGeometry, FdcGeometry, TickGeometry DEF DriverRuns, FdcRuns, TimerRuns
    <2> QED
      BY <1>0, <1>2, <2>1, WorkerReads, NextInv DEF WholeInv
  <1>3. CASE UNCHANGED vars
    <2>1. Geometry'
      BY <1>0, <1>3 DEF vars, dskconVars, ram, motor, cpu, drives, past, Geometry
    <2>2. Kinds'
      BY <1>0, <1>3 DEF vars, reader, Reading, Kinds
    <2>3. PlaceToRead(file)' = PlaceToRead(file) /\ At(Place)' = At(Place)
      BY <1>3 DEF vars, dskconVars, ram, drives, reader, PlaceToRead, granuleToTrack, At, Place
    <2>4. Sought'
      BY <1>0, <1>3, <2>3 DEF vars, dskconVars, ram, cpu, drives, reader, Reading, Sought
    <2> QED
      BY <1>0, <2>1, <2>2, <2>4, NextInv DEF Reading, WholeInv
  <1> QED
    BY <1>1, <1>2, <1>3 DEF Next

LEMMA WholeInv_Always == Spec => []WholeInv
  BY WholeInit, WholeNext, PTL DEF Spec

\* Every request, the retry count, the timer, the heads and the granule that a
\* file goes on at are what they can be, whatever goes wrong.
THEOREM FloppyTypes == Spec => []TypeOK
  <1>1. WholeInv => TypeOK
    <2> SUFFICES ASSUME WholeInv PROVE TypeOK
      OBVIOUS
    <2>1. /\ at \in Places /\ (NMIFLG <=> at \in {"wait", "moving", "giveup"})
          /\ fdc.busy => at \in {"restoring", "seeking", "wait", "moving", "giveup"}
      BY DEF WholeInv, DriverInv, Records, NmiAwaited, Controller, Waiting, Transfer
    <2>2. task \in Tasks /\ result.err \in {0, 1, 2, 3, 4, 255}
          /\ file.curGran \in Granules \cup {EndOfFile}
      BY DEF WholeInv, Reading, Kinds, Files
    <2> QED
      BY <2>1, <2>2 DEF WholeInv, Geometry, TypeOK
  <1> QED
    BY <1>1, WholeInv_Always, PTL

-----------------------------------------------------------------------------
(* Why an attempt fails: the books that Tolerates is drawn from.           *)

\* A write to a disk that is protected fails whatever goes right.
Exempt == DC.op = "write" /\ DC.drive \in Protected
\* As many troubles as attempts were used up, and n; the head that began
\* elsewhere is one.
Spent(n) == troubles + (IF lost THEN 1 ELSE 0) >= Retries - tries + n
Astray(track) == head[DC.drive] # track

\* Every attempt that failed had a trouble of its own, and so has one that is
\* about to fail: the head is elsewhere than the driver, or the controller, has
\* it, or there is an error on its way.
Owed ==
    /\ Spent(0)
    /\ at \in {"load", "select", "ready", "head"} /\ Astray(DR0TRK[DC.drive]) => Spent(1)
    /\ at = "restoring" =>
          /\ DR0TRK[DC.drive] = 0
          /\ ~fdc.busy => ~Astray(0) /\ ("seek" \in fdc.status => Spent(1))
    /\ at = "seeking" =>
          IF fdc.busy THEN Astray(fdc.track) => Spent(1)
          ELSE Astray(DC.track) \/ fdc.status # {} => Spent(1)
    /\ at \in {"arm", "wait", "moving"} /\ Astray(DC.track) => Spent(1)
    /\ at = "giveup" => Spent(1)
    /\ at = "ended" /\ fdc.status # {} => Spent(1)
    /\ at = "check" /\ DCSTA # {} => Spent(1)

Accounts ==
    /\ at = "idle" => troubles = 0
    /\ at # "idle" /\ ~Exempt => Owed

LEMMA SpentTypes ==
    ASSUME Geometry
    PROVE  troubles \in Nat /\ tries \in Nat /\ Retries \in Nat /\ (IF lost THEN 1 ELSE 0) \in {0, 1}
  BY DskconAssumption DEF Geometry

LEMMA SpentStays ==
    ASSUME UNCHANGED <<troubles, tries, lost>>
    PROVE  (Spent(0)' <=> Spent(0)) /\ (Spent(1)' <=> Spent(1))
  BY DEF Spent

LEMMA SpentIsMore ==
    ASSUME Geometry, Spent(1)
    PROVE  Spent(0)
  BY SpentTypes DEF Spent

LEMMA TroubleSpends ==
    ASSUME Geometry, Trouble, UNCHANGED <<tries, lost>>, Spent(0)
    PROVE  Spent(0)' /\ Spent(1)'
  BY SpentTypes DEF Spent, Trouble

LEMMA RetrySpends ==
    ASSUME Geometry, tries' = tries - 1, UNCHANGED <<troubles, lost>>, Spent(1)
    PROVE  Spent(0)'
  BY SpentTypes DEF Spent

LEMMA AsksAccounts ==
    ASSUME Geometry, Accounts, Asks
    PROVE  Accounts'
  <1>1. at = "idle" /\ troubles = 0 /\ troubles' = 0 /\ UNCHANGED head
    BY DEF Asks, Accounts
  <1>2. CASE at' = "idle"
    BY <1>1, <1>2 DEF Accounts
  <1>3. CASE at' # "idle"
    <2>1. at' = "load" /\ tries' = Retries /\ lost' = (head[DC'.drive] # DR0TRK'[DC'.drive])
      BY <1>3 DEF Asks
    <2>2. Retries \in Nat
      BY DskconAssumption
    <2>3. Spent(0)' /\ (lost' => Spent(1)')
      BY <1>1, <2>1, <2>2 DEF Spent
    <2>4. Astray(DR0TRK[DC.drive])' <=> lost'
      BY <1>1, <2>1 DEF Astray
    <2> QED
      BY <1>1, <2>1, <2>3, <2>4 DEF Accounts, Owed
  <1> QED
    BY <1>2, <1>3

\* A sector is not found only where the head is elsewhere.
LEMMA NotFoundAstray ==
    ASSUME DriverInv, Geometry, NEW d \in DSKREG.drives, fdc.busy, at \in Transfer, ~Found(d)
    PROVE  Astray(DC.track)
  <1>1. d = DC.drive /\ DC.op \in {"read", "write"} /\ fdc.track = DC.track
    BY Served DEF DriverInv, Controller, Transfer
  <1>2. DSKREG.motor /\ upToSpeed
    BY DEF DriverInv, MotorInv, AfterSelect, Places, Transfer
  <1>3. DC.sector \in 1..TrackSectors
    BY <1>1, DskconAssumption DEF Geometry, GeometryOf
  <1> QED
    BY <1>1, <1>2, <1>3 DEF Found, Astray

LEMMA DriverOwes ==
    ASSUME DriverInv, Geometry, Owed, Driver, ~Exit
    PROVE  Owed'
  <1>0. /\ DR0TRK \in [FloppyDrives -> 0..34] /\ head \in [FloppyDrives -> 0..LastTrack]
        /\ DC.drive \in FloppyDrives /\ DC.track \in 0..34
        /\ fdc = [command |-> fdc.command, busy |-> fdc.busy, drq |-> fdc.drq,
                  track |-> fdc.track, status |-> fdc.status]
    BY DEF Geometry, GeometryOf, DriverInv, Records
  <1>1. CASE LoadImage \/ Select \/ Begin
    <2>1. UNCHANGED <<DC, DR0TRK, head, troubles, tries, lost>>
      BY <1>1 DEF LoadImage, Select, Begin, ram, drives, past
    <2>2. \/ at \in {"load", "select", "ready"} /\ at' \in {"select", "ready", "restore", "head"}
          \/ at' = "check" /\ DCSTA' = {}
      BY <1>1 DEF LoadImage, Select, Begin
    <2> QED
      BY <2>1, <2>2, SpentStays DEF Owed, Astray
  <1>2. CASE NotReady \/ SeekTimesOut
    <2>1. Trouble /\ UNCHANGED <<tries, lost>> /\ at' = "check"
      BY <1>2 DEF NotReady, SeekTimesOut
    <2> QED
      BY <2>1, TroubleSpends DEF Owed
  <1>3. CASE Restore
    <2>1. DR0TRK'[DC'.drive] = 0
      BY <1>0, <1>3 DEF Restore
    <2>2. fdc'.busy /\ at' = "restoring" /\ UNCHANGED <<troubles, tries, lost>>
      BY <1>0, <1>3 DEF Restore, Issue, past
    <2> QED
      BY <2>1, <2>2, SpentStays DEF Owed
  <1>4. CASE RestoreEnds
    <2>1. /\ at = "restoring" /\ ~fdc.busy /\ UNCHANGED <<DC, DR0TRK, head, troubles, tries, lost>>
          /\ Restored(fdc.status \cap {"seek"})
      BY <1>4 DEF RestoreEnds, drives, past
    <2>2. DR0TRK[DC.drive] = 0 /\ ~Astray(0) /\ ("seek" \in fdc.status => Spent(1))
      BY <2>1 DEF Owed
    <2>3. \/ at' = "load" \/ at' = "check"
      BY <2>1 DEF Restored
    <2>4. at' = "check" /\ DCSTA' # {} => "seek" \in fdc.status
      BY <2>1 DEF Restored
    <2> QED
      BY <2>1, <2>2, <2>3, <2>4, SpentStays DEF Owed, Astray
  <1>5. CASE RestoreTimesOut
    <2>1. Trouble /\ UNCHANGED <<tries, lost>> /\ at' \in {"load", "check"}
      BY <1>5 DEF RestoreTimesOut, Restored
    <2> QED
      BY <2>1, TroubleSpends DEF Owed
  <1>6. CASE FindTrack
    <2>1. /\ at = "head" /\ UNCHANGED <<DC, head, troubles, tries, lost>>
          /\ \/ DR0TRK[DC.drive] = DC.track /\ at' = "arm"
             \/ at' = "seeking" /\ fdc'.busy /\ fdc'.track = DR0TRK[DC.drive]
      BY <1>0, <1>6 DEF FindTrack, drives, past
    <2> QED
      BY <2>1, SpentStays DEF Owed, Astray
  <1>7. CASE SeekEnds
    <2>1. /\ at = "seeking" /\ ~fdc.busy /\ UNCHANGED <<DC, head, troubles, tries, lost>>
          /\ \/ at' = "arm"
             \/ at' = "check" /\ fdc.status # {}
      BY <1>7 DEF SeekEnds, drives, past
    <2> QED
      BY <2>1, SpentStays DEF Owed, Astray
  <1>8. CASE Arm \/ Move
    <2>1. /\ at \in {"arm", "wait"} /\ at' \in {"wait", "moving"}
          /\ UNCHANGED <<DC, head, troubles, tries, lost>>
      BY <1>8 DEF Arm, Move, ram, drives, past
    <2> QED
      BY <2>1, SpentStays DEF Owed, Astray
  <1>9. CASE DrqTimesOut
    <2>1. at = "wait" /\ fdc.busy /\ at' = "giveup" /\ UNCHANGED <<tries, lost>>
      BY <1>9 DEF DrqTimesOut
    <2>2. CASE Trouble
      BY <2>1, <2>2, TroubleSpends DEF Owed
    <2>3. CASE ~Trouble
      <3>1. NoTrouble /\ \A d \in DSKREG.drives : ~Found(d)
        BY <1>9, <2>3 DEF DrqTimesOut
      <3>2. DC.drive \in DSKREG.drives
        BY <2>1 DEF DriverInv, MotorInv, AfterSelect, Places
      <3>3. Spent(1)
        BY <2>1, <3>1, <3>2, NotFoundAstray DEF Transfer, Owed
      <3> QED
        BY <2>1, <3>1, <3>3, SpentStays DEF NoTrouble, Owed
    <2> QED
      BY <2>2, <2>3
  <1>10. CASE GiveUp \/ Complete
    <2>1. /\ at' = "check" /\ UNCHANGED <<troubles, tries, lost>>
          /\ at = "giveup" \/ (at = "ended" /\ (DCSTA' # {} => fdc.status # {}))
      BY <1>10 DEF GiveUp, Complete, past
    <2> QED
      BY <2>1, SpentStays DEF Owed
  <1>11. CASE Retry
    <2>1. /\ at = "check" /\ DCSTA # {} /\ at' = "restore" /\ tries' = tries - 1
          /\ UNCHANGED <<troubles, lost>>
      BY <1>11 DEF Retry, past
    <2> QED
      BY <2>1, RetrySpends DEF Owed
  <1> QED
    BY <1>1, <1>2, <1>3, <1>4, <1>5, <1>6, <1>7, <1>8, <1>9, <1>10, <1>11 DEF Driver

LEMMA FdcOwes ==
    ASSUME DriverInv, Geometry, Owed, ~Exempt, Fdc
    PROVE  Owed'
  <1> SUFFICES ASSUME NEW d \in DSKREG.drives,
                      FdcRestores(d) \/ FdcSeeks(d) \/ FdcFinds(d) \/ FdcRefuses(d)
                      \/ FdcTransfers(d)
               PROVE  Owed'
    BY DEF Fdc
  <1>0. /\ d = DC.drive /\ d \in FloppyDrives /\ fdc.busy
        /\ DC.track \in 0..34 /\ fdc.track \in 0..34 /\ head \in [FloppyDrives -> 0..LastTrack]
        /\ \/ at \in Transfer /\ DC.op \in {"read", "write"} /\ fdc.command = DC.op
           \/ at = "restoring" /\ fdc.command = "restore"
           \/ at = "seeking" /\ fdc.command = "seek"
    <2>1. fdc.busy
      BY DEF FdcRestores, FdcSeeks, FdcFinds, FdcRefuses, FdcTransfers
    <2> QED
      BY <2>1, Served DEF Geometry, GeometryOf
  <1>1. CASE FdcRestores(d)
    <2>1. PICK status : /\ Done(status, 0)
                        /\ (NoTrouble /\ status = {}) \/ (Trouble /\ status = {"seek"})
      BY <1>1 DEF FdcRestores
    <2>2. at = "restoring" /\ ~NMIFLG /\ at' = "restoring"
      BY <1>0, <1>1, <2>1 DEF FdcRestores, Transfer, DriverInv, NmiAwaited, Done
    <2>3. /\ fdc'.status = status /\ ~fdc'.busy
          /\ UNCHANGED <<DC, DR0TRK, tries, lost>>
      BY <2>1, DoneLeaves DEF ram
    <2>4. head'[DC.drive] = 0
      BY <1>0, <1>1 DEF FdcRestores
    <2>5. ~Astray(0)' /\ DR0TRK'[DC'.drive] = 0
      BY <2>2, <2>3, <2>4 DEF Astray, Owed
    <2>6. Spent(0)' /\ ("seek" \in fdc'.status => Spent(1)')
      BY <2>1, <2>3, SpentStays, TroubleSpends DEF Owed, NoTrouble
    <2> QED
      BY <2>2, <2>5, <2>6 DEF Owed
  <1>2. CASE FdcSeeks(d)
    <2> DEFINE to == Stepped(d)
    <2>1. PICK status : /\ Done(status, DC.track)
                        /\ \/ NoTrouble /\ status = IF to = DC.track THEN {} ELSE {"seek"}
                           \/ Trouble
      BY <1>2 DEF FdcSeeks
    <2>2. at = "seeking" /\ ~NMIFLG /\ at' = "seeking"
      BY <1>0, <1>2, <2>1 DEF FdcSeeks, Transfer, DriverInv, NmiAwaited, Done
    <2>3. /\ fdc'.status = status /\ ~fdc'.busy /\ UNCHANGED <<DC, tries, lost>>
      BY <1>0, <2>1, DoneLeaves DEF ram
    <2>4. head'[DC.drive] = to
      BY <1>0, <1>2 DEF FdcSeeks
    <2>5. CASE Trouble
      BY <2>2, <2>3, <2>5, TroubleSpends DEF Owed
    <2>6. CASE Astray(fdc.track) /\ NoTrouble
      BY <1>0, <2>2, <2>3, <2>6, SpentStays DEF Owed, NoTrouble
    <2>7. CASE ~Astray(fdc.track) /\ NoTrouble /\ ~Trouble
      <3>1. head[d] = fdc.track
        BY <1>0, <2>7 DEF Astray
      <3>2. to = DC.track
        <4>1. DC.track \in Int /\ fdc.track \in Int
          BY <1>0
        <4>2. fdc.track + DC.track - fdc.track = DC.track
          BY <4>1
        <4>3. Stop(DC.track) = DC.track
          BY <1>0 DEF Stop, LastTrack
        <4> QED
          BY <3>1, <4>2, <4>3 DEF Stepped
      <3>3. status = {} /\ ~Astray(DC.track)'
        BY <2>1, <2>3, <2>4, <2>7, <3>2 DEF Astray
      <3> QED
        BY <2>2, <2>3, <2>7, <3>3, SpentStays DEF Owed, NoTrouble
    <2> QED
      BY <2>1, <2>5, <2>6, <2>7
  <1>3. CASE FdcFinds(d)
    <2>1. at \in Transfer /\ UNCHANGED <<at, DC, head, troubles, tries, lost>>
      BY <1>0, <1>3 DEF FdcFinds, ram, cpu, drives, past
    <2> QED
      BY <2>1, SpentStays DEF Owed, Transfer, Astray
  <1>4. CASE FdcRefuses(d) \/ FdcTransfers(d)
    <2>1. at \in Transfer /\ NMIFLG
      BY <1>0, <1>4 DEF FdcRefuses, FdcTransfers, DriverInv, NmiAwaited
    <2>2. PICK status :
             /\ Done(status, fdc.track)
             /\ \/ NoTrouble /\ (status = {} \/ at = "giveup" \/ ~Found(d))
                \/ Trouble
      <3>1. CASE FdcRefuses(d)
        <4>1. NoTrouble /\ Done({"seek"}, fdc.track) /\ ~Found(d)
          BY <1>0, <3>1 DEF FdcRefuses, Exempt
        <4> QED
          BY <4>1
      <3>2. CASE FdcTransfers(d)
        BY <3>2 DEF FdcTransfers
      <3> QED
        BY <1>4, <3>1, <3>2
    <2>3. /\ fdc'.status = status /\ at' = "ended" /\ UNCHANGED <<tries, lost>>
      BY <1>0, <2>1, <2>2, DoneLeaves
    <2>4. CASE Trouble
      BY <2>3, <2>4, TroubleSpends DEF Owed
    <2>5. CASE NoTrouble /\ ~Trouble
      <3>1. status # {} => Spent(1)
        BY <1>0, <2>1, <2>2, <2>5, NotFoundAstray DEF Owed, Transfer
      <3> QED
        BY <2>3, <2>5, <3>1, SpentStays DEF Owed, NoTrouble
    <2> QED
      BY <2>2, <2>4, <2>5
  <1> QED
    BY <1>1, <1>2, <1>3, <1>4

BooksInv == WholeInv /\ Accounts

LEMMA BooksInit == Init => BooksInv
  BY WholeInit DEF Init, DskconInit, Accounts, BooksInv

LEMMA BooksNext == BooksInv /\ [Next]_vars => BooksInv'
  <1> SUFFICES ASSUME BooksInv, [Next]_vars
               PROVE  Accounts'
    BY WholeNext DEF BooksInv
  <1>0. DriverInv /\ Geometry /\ Reading /\ Accounts
    BY DEF BooksInv, WholeInv
  <1>1. CASE Program \/ Reader
    BY <1>0, <1>1, ProgramReads, ReaderReads, AsksAccounts
  <1>same. ASSUME UNCHANGED <<DC, DR0TRK, DCSTA, at, tries, fdc, head, troubles, lost>>
           PROVE  Accounts'
    BY <1>0, <1>same, SpentStays DEF Accounts, Owed, Astray, Exempt
  <1>2. CASE TimerRuns
    BY <1>2, <1>same DEF TimerRuns, Tick, ram, cpu, drives, past
  <1>3. CASE UNCHANGED vars
    BY <1>3, <1>same DEF vars, dskconVars, ram, cpu, drives, past
  <1>4. CASE Exit
    BY <1>4 DEF Exit, Accounts
  <1>5. CASE (Driver /\ ~Exit) \/ Fdc
    <2>1. at # "idle" /\ at' # "idle" /\ UNCHANGED DC
      <3>1. CASE Driver /\ ~Exit
        BY <3>1 DEF Driver, LoadImage, Select, Begin, NotReady, Restore, RestoreEnds,
           RestoreTimesOut, FindTrack, SeekEnds, SeekTimesOut, Arm, Move, DrqTimesOut, GiveUp,
           Complete, Retry, Restored, ram
      <3>2. CASE Fdc
        <4>1. fdc.busy
          BY <3>2 DEF Fdc, FdcRestores, FdcSeeks, FdcFinds, FdcRefuses, FdcTransfers
        <4>2. at # "idle"
          BY <1>0, <4>1 DEF DriverInv, Controller, Waiting, Transfer
        <4> QED
          BY <3>2, <4>2 DEF Fdc, FdcRestores, FdcSeeks, FdcFinds, FdcRefuses, FdcTransfers,
             Done, cpu, ram
      <3> QED
        BY <1>5, <3>1, <3>2
    <2>2. ~Exempt' => Owed /\ ~Exempt
      BY <1>0, <2>1 DEF Accounts, Exempt
    <2> QED
      BY <1>0, <1>5, <2>1, <2>2, DriverOwes, FdcOwes DEF Accounts
  <1> QED
    BY <1>1, <1>2, <1>3, <1>4, <1>5 DEF Next, DriverRuns, FdcRuns

\* A request is given up only after as many troubles as there are attempts, for
\* any number of attempts: none is blamed twice, and a head that is elsewhere
\* than the driver has it is one (dskcon-standalone.c:87, 128-138).
THEOREM ToleratesTroubles == Spec => []Tolerates
  <1>1. BooksInv => Tolerates
    <2> SUFFICES ASSUME BooksInv, at = "check", DCSTA # {}, tries = 1, ~Exempt
                 PROVE  troubles + (IF lost THEN 1 ELSE 0) >= Retries
      BY DEF Tolerates, Exempt
    <2>1. Spent(1) /\ Geometry
      BY DEF BooksInv, Accounts, Owed, WholeInv
    <2> QED
      BY <2>1, SpentTypes DEF Spent
  <1> QED
    BY <1>1, BooksInit, BooksNext, PTL DEF Spec

-----------------------------------------------------------------------------
(* The file that is delivered.                                             *)

Named0 == Named(disk[file.drive], file.name)
Entry == FirstNamed(disk[file.drive], file.name)

\* What is behind in the directory is not what is looked for, nor its end.
PassedOver(s) ==
    \A p \in Slots : p[1] < s =>
        /\ EntryAt(disk[file.drive], p).kind # "end"
        /\ ~(EntryAt(disk[file.drive], p).kind = "file"
             /\ EntryAt(disk[file.drive], p).name = file.name)

\* These are the first sectors of a file.
FirstSectors(drive, e, read) ==
    Len(read) \in Nat /\ read = [i \in 1..Len(read) |-> SectorIn(drive, e, i)]

\* What was read is the beginning of the file e, and f the place it goes on at.
Begun(f, e, read) ==
    LET fat == disk[f.drive].fat
        k == Len(read) \div GranSectors
    IN  /\ FirstSectors(f.drive, e, read) /\ Len(read) < MaxSectors
        /\ After(fat, e.firstGran, k) = f.curGran
        /\ \A m \in 0..k : After(fat, e.firstGran, m) \in Granules
        /\ f.curSec = (Len(read) % GranSectors) + 1
        /\ fat[f.curGran] >= 193 => f.curSec <= fat[f.curGran] - 192
        /\ ~(fat[e.firstGran] = 193 /\ f.last = 0)

Delivering ==
    /\ task = "directory" => PassedOver(DC.sector - 2)
    /\ task \in {"table", "file"} =>
          /\ Named0 # {} /\ file.last = Entry.numBytesLastSector
          /\ Entry.firstGran \in Granules
    /\ task = "table" => file.curGran = Entry.firstGran
    /\ task = "file" => Begun(file, Entry, dest)
    /\ result.err # 255 => at = "idle" /\ nmi = "other" /\ task = "program"
    /\ FileDelivered

\* What the drive and the timer do is nothing to it: no sector is changed while
\* a file is read, or as long as the result counts.
LEMMA Undisturbed ==
    ASSUME Delivering, UNCHANGED <<DC, reader>>,
           task # "program" \/ result.err # 255 => UNCHANGED changed,
           result.err # 255 => UNCHANGED <<at, nmi>>
    PROVE  Delivering'
  <1>0. UNCHANGED <<disk, task, file, table, dest, result>>
    BY DEF reader
  <1>1. CASE UNCHANGED changed
    BY <1>0, <1>1 DEF Delivering, PassedOver, Named0, Entry, Begun,
       FirstSectors, FileDelivered, SectorIn, At
  <1>2. CASE task = "program" /\ result.err = 255
    BY <1>0, <1>2 DEF Delivering, FileDelivered
  <1> QED
    BY <1>1, <1>2

LEMMA WorkersDeliver ==
    ASSUME DriverInv, Reading, Delivering, DriverRuns \/ FdcRuns \/ TimerRuns
    PROVE  Delivering'
  <1>1. UNCHANGED <<DC, reader>>
    <2>1. Driver => UNCHANGED DC
      BY DEF Driver, ram, LoadImage, Select, Begin, NotReady, Restore, RestoreEnds,
         RestoreTimesOut, FindTrack, SeekEnds, SeekTimesOut, Arm, Move, DrqTimesOut, GiveUp,
         Complete, Exit, Retry
    <2>2. Fdc => UNCHANGED DC
      BY DEF Fdc, FdcRestores, FdcSeeks, FdcFinds, FdcRefuses, FdcTransfers, Done, ram
    <2>3. Tick => UNCHANGED DC
      BY DEF Tick, ram
    <2> QED
      BY <2>1, <2>2, <2>3 DEF DriverRuns, FdcRuns, TimerRuns
  <1>2. CASE Tick
    BY <1>1, <1>2, Undisturbed DEF Tick, cpu, lines, drives
  <1>3. CASE Driver
    <2>1. at # "idle" /\ UNCHANGED changed
      BY <1>3 DEF Driver, LoadImage, Select, Begin, NotReady, Restore, RestoreEnds,
         RestoreTimesOut, FindTrack, SeekEnds, SeekTimesOut, Arm, Move, DrqTimesOut, GiveUp,
         Complete, Exit, Retry, drives
    <2>2. result.err = 255
      BY <2>1 DEF Delivering
    <2> QED
      BY <1>1, <2>1, <2>2, Undisturbed
  <1>4. CASE Fdc
    <2>1. PICK d \in DSKREG.drives : FdcRestores(d) \/ FdcSeeks(d) \/ FdcFinds(d)
                                     \/ FdcRefuses(d) \/ FdcTransfers(d)
      BY <1>4 DEF Fdc
    <2>2. fdc.busy /\ at # "idle"
      BY <2>1 DEF FdcRestores, FdcSeeks, FdcFinds, FdcRefuses, FdcTransfers, DriverInv,
         Controller, Waiting, Transfer
    <2>3. result.err = 255
      BY <2>2 DEF Delivering
    <2>4. DC.op = "read" => UNCHANGED changed
      BY <2>1, Transferred DEF FdcRestores, FdcSeeks, FdcFinds, FdcRefuses, drives
    <2>5. task # "program" => DC.op = "read"
      BY DEF Reading, Sought
    <2> QED
      BY <1>1, <2>3, <2>4, <2>5, Undisturbed
  <1> QED
    BY <1>2, <1>3, <1>4 DEF DriverRuns, FdcRuns, TimerRuns

LEMMA ProgramDelivers ==
    ASSUME Delivering, Program
    PROVE  Delivering'
  <1>1. CASE dskcon_init
    BY <1>1 DEF dskcon_init, Idle, NoResult, Delivering, FileDelivered
  <1>2. CASE dskcon_shutdown
    BY <1>2 DEF dskcon_shutdown, Idle, reader, Delivering, FileDelivered
  <1>3. ASSUME NEW r \in Requests, Request(r)
        PROVE  Delivering'
    BY <1>3 DEF Request, Idle, reader, Delivering, FileDelivered
  <1>4. ASSUME NEW d \in FloppyDrives, NEW name \in Filenames, readDECBFile(d, name)
        PROVE  Delivering'
    <2>1. DC' = [op |-> "read", drive |-> d, track |-> DirectoryTrack, sector |-> 3]
      BY <1>4 DEF readDECBFile
    <2>2. DC'.sector - 2 = 1
      BY <2>1
    <2>3. PassedOver(DC.sector - 2)'
      BY <2>2 DEF PassedOver, Slots
    <2> QED
      BY <1>4, <2>3 DEF readDECBFile, NoResult, Delivering, FileDelivered
  <1> QED
    BY <1>1, <1>2, <1>3, <1>4 DEF Program

\* The sector of the directory in the buffer.
InDirectory(s) ==
    /\ s \in 1..DirSectors
    /\ disk \in Inserted /\ file.drive \in FloppyDrives
    /\ DirSector = disk[file.drive].dir[s]
    /\ DirSector \in [1..DirEntries -> Entries]

LEMMA DirectoryRead ==
    ASSUME Geometry, Reading, Read("directory")
    PROVE  InDirectory(DC.sector - 2)
  <1>1. /\ at = "idle" /\ task # "program" /\ DCSTA = {} /\ disk \in Inserted
        /\ file.drive \in FloppyDrives
        /\ DC.track = DirectoryTrack /\ DC.sector \in 3..2 + DirSectors
    BY DEF Read, Reading, Kinds, Sought, Files
  <1>2. DC.sector - 2 \in 1..DirSectors
    BY <1>1, DecbAssumption
  <1>3. DirSector = disk[file.drive].dir[DC.sector - 2]
    <2>1. buffer = <<file.drive, DirectoryTrack, DC.sector>>
      BY <1>1, BufferIsPlace
    <2> QED
      BY <2>1 DEF DirSector
  <1>4. DirSector \in [1..DirEntries -> Entries]
    BY <1>1, <1>2, <1>3, DisksAreDisks
  <1> QED
    BY <1>1, <1>2, <1>3, <1>4 DEF InDirectory

\* What matches in this sector has the name, and was not listed before.
LEMMA MatchesAreNamed ==
    ASSUME NEW s, InDirectory(s), PassedOver(s), NEW i \in Matches
    PROVE  <<s, i>> \in Named0
  <1>1. i \in 1..DirEntries /\ DirSector[i].kind = "file" /\ DirSector[i].name = file.name
        /\ \A j \in Ends : i < j
    BY DEF Matches, InDirectory
  <1>2. <<s, i>> \in Slots /\ EntryAt(disk[file.drive], <<s, i>>) = DirSector[i]
    BY <1>1 DEF InDirectory, Slots, EntryAt
  <1>3. ASSUME NEW q \in Slots, EntryAt(disk[file.drive], q).kind = "end"
        PROVE  Precedes(<<s, i>>, q)
    <2>1. s \in Int /\ i \in Int /\ q[1] \in Int /\ q[2] \in Int /\ ~(q[1] < s)
      BY <1>1, <1>3 DEF PassedOver, InDirectory, Slots
    <2>2. CASE q[1] = s
      <3>1. q[2] \in Ends
        BY <1>3, <2>2 DEF Ends, InDirectory, Slots, EntryAt
      <3> QED
        BY <1>1, <2>1, <2>2, <3>1 DEF Precedes
    <2>3. CASE q[1] # s
      BY <2>1, <2>3 DEF Precedes
    <2> QED
      BY <2>2, <2>3
  <1> QED
    BY <1>1, <1>2, <1>3 DEF Named0, Named

\* The other way: an entry of that name in this sector is a match.
LEMMA NamedHere ==
    ASSUME NEW s, InDirectory(s), PassedOver(s), NEW p \in Named0
    PROVE  /\ p \in Slots /\ ~(p[1] < s)
           /\ p[1] = s => p[2] \in Matches
           /\ p[1] # s => Ends = {}
  <1>1. /\ p \in Slots /\ EntryAt(disk[file.drive], p).kind = "file"
        /\ EntryAt(disk[file.drive], p).name = file.name
        /\ \A q \in Slots : EntryAt(disk[file.drive], q).kind = "end" => Precedes(p, q)
    BY DEF Named0, Named
  <1>2. ~(p[1] < s) /\ p[1] \in Int /\ p[2] \in 1..DirEntries /\ s \in Int /\ p[2] \in Int
    BY <1>1 DEF PassedOver, InDirectory, Slots
  <1>3. ASSUME NEW j \in Ends PROVE Precedes(p, <<s, j>>) /\ j \in Int
    <2>1. j \in 1..DirEntries /\ DirSector[j].kind = "end"
      BY DEF Ends, InDirectory
    <2>2. <<s, j>> \in Slots /\ EntryAt(disk[file.drive], <<s, j>>).kind = "end"
      BY <2>1 DEF InDirectory, Slots, EntryAt
    <2> QED
      BY <1>1, <2>1, <2>2
  <1>4. ASSUME p[1] = s PROVE p[2] \in Matches
    <2>1. DirSector[p[2]] = EntryAt(disk[file.drive], p)
      BY <1>4 DEF InDirectory, EntryAt
    <2>2. \A j \in Ends : p[2] < j
      BY <1>2, <1>3, <1>4 DEF Precedes
    <2> QED
      BY <1>1, <1>2, <2>1, <2>2 DEF Matches, InDirectory
  <1>5. ASSUME p[1] # s PROVE Ends = {}
    BY <1>2, <1>3, <1>5 DEF Precedes
  <1> QED
    BY <1>1, <1>2, <1>4, <1>5

LEMMA FoundIsFirst ==
    ASSUME NEW s, InDirectory(s), PassedOver(s), Matches # {}
    PROVE  /\ Named0 # {}
           /\ Entry = DirSector[CHOOSE i \in Matches : \A j \in Matches : i <= j]
  <1> DEFINE i == CHOOSE i \in Matches : \A j \in Matches : i <= j
  <1>1. i \in Matches /\ \A j \in Matches : i <= j
    BY FirstMatch DEF InDirectory
  <1> HIDE DEF i
  <1>2. i \in 1..DirEntries
    BY <1>1, ZenonT(30) DEF Matches, InDirectory
  <1>3. <<s, i>> \in Named0
    BY <1>1, MatchesAreNamed
  <1>4. ASSUME NEW q \in Named0 PROVE <<s, i>> = q \/ Precedes(<<s, i>>, q)
    <2>1. /\ q \in Slots /\ ~(q[1] < s)
          /\ q[1] = s => q[2] \in Matches
      BY NamedHere
    <2>2. q = <<q[1], q[2]>> /\ q[1] \in Int /\ q[2] \in Int /\ s \in Int /\ i \in Int
      BY <1>2, <2>1 DEF Slots, InDirectory
    <2> QED
      BY <1>1, <2>1, <2>2 DEF Precedes
  <1>5. Entry = EntryAt(disk[file.drive], <<s, i>>)
    BY <1>3, <1>4, FirstIs DEF Named0, Entry
  <1> QED
    BY <1>3, <1>5 DEF EntryAt, InDirectory, i

\* Nothing matches: the sector is passed over, or there is no such file.
LEMMA NothingIsNamed ==
    ASSUME NEW s, InDirectory(s), PassedOver(s), Matches = {}
    PROVE  /\ Ends = {} => PassedOver(s + 1)
           /\ Ends # {} \/ s = DirSectors => Named0 = {}
  <1>1. ASSUME Ends = {} PROVE PassedOver(s + 1)
    <2> SUFFICES ASSUME NEW p \in Slots, p[1] < s + 1, ~(p[1] < s)
                 PROVE  /\ EntryAt(disk[file.drive], p).kind # "end"
                        /\ ~(EntryAt(disk[file.drive], p).kind = "file"
                             /\ EntryAt(disk[file.drive], p).name = file.name)
      BY DEF PassedOver
    <2>1. p[1] = s /\ p[2] \in 1..DirEntries
      BY DEF Slots, InDirectory
    <2>2. EntryAt(disk[file.drive], p) = DirSector[p[2]]
      BY <2>1 DEF EntryAt, InDirectory
    <2>3. p[2] \in DOMAIN DirSector /\ p[2] \notin Ends /\ p[2] \notin Matches
      BY <1>1, <2>1 DEF InDirectory
    <2>4. DirSector[p[2]].kind # "end"
      BY <2>3 DEF Ends
    <2>5. ~(DirSector[p[2]].kind = "file" /\ DirSector[p[2]].name = file.name)
      BY <1>1, <2>3 DEF Matches
    <2> QED
      BY <2>2, <2>4, <2>5
  <1>2. ASSUME Ends # {} \/ s = DirSectors, NEW p \in Named0 PROVE FALSE
    <2>1. /\ p \in Slots /\ ~(p[1] < s) /\ p[1] # s /\ Ends = {}
      BY NamedHere
    <2>2. s = DirSectors /\ p[1] \in 1..DirSectors
      BY <1>2, <2>1 DEF Slots
    <2> QED
      BY <2>1, <2>2, DecbAssumption
  <1> QED
    BY <1>1, <1>2

LEMMA ReturnDelivers ==
    ASSUME at = "idle", NEW err, NEW size, Return(err, size), err = 2 => Named0 = {},
           err = 0 => /\ Named0 # {}
                      /\ dest' = [i \in 1..SectorsOf(disk[file.drive], Entry) |->
                                      SectorIn(file.drive, Entry, i)]
                      /\ size = LengthOf(disk[file.drive], Entry)
    PROVE  Delivering'
  <1>1. /\ nmi' = "other" /\ task' = "program" /\ at' = "idle"
        /\ UNCHANGED <<disk, changed>>
        /\ result' = [err |-> err, size |-> size, drive |-> file.drive, name |-> file.name]
    BY DEF Return, cpu, drives
  <1>2. /\ result'.err = err /\ result'.size = size
        /\ result'.drive = file.drive /\ result'.name = file.name
    BY <1>1
  <1>3. \A d, e, i : SectorIn(d, e, i)' = SectorIn(d, e, i)
    BY <1>1 DEF SectorIn, At
  <1>4. FileDelivered'
    BY <1>1, <1>2, <1>3 DEF FileDelivered, Named0, Entry, SectorIn, At
  <1> QED
    BY <1>1, <1>4 DEF Delivering

\* The place the driver was sent to is the next of the file.
LEMMA NextPlace ==
    ASSUME NEW f, NEW e, NEW read, Begun(f, e, read), f.curGran \in Granules
    PROVE  PlaceToRead(f) = PlaceIn(disk[f.drive], e, Len(read) + 1)
  <1> DEFINE k == Len(read) \div GranSectors
             g == f.curGran
  <1>1. Len(read) \in Nat /\ f.curSec = (Len(read) % GranSectors) + 1
        /\ After(disk[f.drive].fat, e.firstGran, k) = g
    BY DEF Begun, FirstSectors
  <1>2. Len(read) + 1 - 1 = Len(read) /\ Len(read) % GranSectors \in Int
    BY <1>1, InGranules
  <1>3. g \in 0..67 /\ GranSectors \in 1..9
    BY DecbAssumption DEF Granules, MAX_NUM_GRANULES
  <1>4. /\ PlaceOf(g)[1] = granuleToTrack(g)[1]
        /\ PlaceOf(g)[2] = granuleToTrack(g)[2] + 1 /\ granuleToTrack(g)[2] \in Int
    <2>1. /\ g < 34 => g \div 2 < 17 /\ g \div 2 \in Int
          /\ ~(g < 34) => g \div 2 >= 17 /\ g \div 2 \in Int
          /\ g % 2 \in {0, 1}
      BY <1>3
    <2>2. /\ 0 * GranSectors = 0 /\ 1 * GranSectors = GranSectors
      BY <1>3
    <2> QED
      BY <1>3, <2>1, <2>2 DEF PlaceOf, granuleToTrack
  <1> HIDE DEF k, g
  <1>5. PlaceIn(disk[f.drive], e, Len(read) + 1)
           = <<PlaceOf(g)[1], PlaceOf(g)[2] + (Len(read) % GranSectors)>>
    BY <1>1, <1>2 DEF PlaceIn, k
  <1>6. PlaceToRead(f) = <<granuleToTrack(g)[1], granuleToTrack(g)[2] + f.curSec>>
    BY DEF PlaceToRead, g
  <1>7. PlaceOf(g)[2] + (Len(read) % GranSectors) = granuleToTrack(g)[2] + f.curSec
    BY <1>1, <1>2, <1>4
  <1> QED
    BY <1>4, <1>5, <1>6, <1>7

\* A file ends after the granule that names no other: the k-th after its first.
LastNames(d, e, k, g) ==
    /\ After(d.fat, e.firstGran, k + 1) = g /\ g \notin Granules
    /\ \A m \in 0..k : After(d.fat, e.firstGran, m) \in Granules

LEMMA FileEnds ==
    ASSUME NEW d, NEW e, NEW k \in Nat, k < MAX_NUM_GRANULES, NEW g, LastNames(d, e, k, g)
    PROVE  /\ SectorsOf(d, e) = IF g - 192 = 1 /\ k = 0 /\ e.numBytesLastSector = 0 THEN 0
                                ELSE k * GranSectors + (g - 192)
           /\ LengthOf(d, e) = k * GRANULE_SIZE + (g - 192 - 1) * SectorBytes
                               + e.numBytesLastSector
  <1>1. k + 1 \in 0..MAX_NUM_GRANULES /\ k + 1 - 1 = k /\ (k + 1 = 1 <=> k = 0)
    BY DEF MAX_NUM_GRANULES
  <1>2. After(d.fat, e.firstGran, k + 1) = g /\ g \notin Granules
    BY DEF LastNames
  <1>3. EndsAt(d.fat, e.firstGran, k + 1)
    BY <1>1, <1>2 DEF EndsAt, LastNames
  <1>4. Steps(d.fat, e.firstGran) = k + 1
    BY <1>1, <1>3, StepsAre, Zenon
  <1>5. SectorsOf(d, e) = IF g - 192 = 1 /\ k + 1 = 1 /\ e.numBytesLastSector = 0 THEN 0
                          ELSE (k + 1 - 1) * GranSectors + (g - 192)
    BY <1>2, <1>4 DEF SectorsOf
  <1>6. LengthOf(d, e) = (k + 1 - 1) * GRANULE_SIZE + (g - 192 - 1) * SectorBytes
                         + e.numBytesLastSector
    BY <1>2, <1>4 DEF LengthOf
  <1> QED
    BY <1>1, <1>5, <1>6

\* One sector of which no byte is used is none.
LEMMA NoSectors ==
    ASSUME NEW d, NEW e, LastNames(d, e, 0, 193), e.numBytesLastSector = 0
    PROVE  SectorsOf(d, e) = 0 /\ LengthOf(d, e) = 0
  <1> DEFINE k == 0
             g == 193
  <1>1. k \in Nat /\ k < MAX_NUM_GRANULES /\ LastNames(d, e, k, g)
    BY DEF MAX_NUM_GRANULES
  <1> HIDE DEF k, g
  <1>2. /\ SectorsOf(d, e) = IF g - 192 = 1 /\ k = 0 /\ e.numBytesLastSector = 0 THEN 0
                             ELSE k * GranSectors + (g - 192)
        /\ LengthOf(d, e) = k * GRANULE_SIZE + (g - 192 - 1) * SectorBytes
                            + e.numBytesLastSector
    BY <1>1, FileEnds
  <1>3. g - 192 = 1 /\ k = 0 /\ g - 192 - 1 = 0
    BY DEF g, k
  <1>4. GRANULE_SIZE \in Int /\ SectorBytes \in Int
    BY DecbAssumption DEF GRANULE_SIZE
  <1> QED
    BY <1>2, <1>3, <1>4

\* One more sector is at the end of what was read.
LEMMA OneMore ==
    ASSUME NEW drive, NEW e, NEW read, FirstSectors(drive, e, read)
    PROVE  LET more == Append(read, SectorIn(drive, e, Len(read) + 1))
           IN  /\ Len(more) = Len(read) + 1 /\ more # <<>>
               /\ FirstSectors(drive, e, more)
  <1> DEFINE n == Len(read)
             last == SectorIn(drive, e, n + 1)
             more == Append(read, last)
             S == {SectorIn(drive, e, i) : i \in 1..n} \cup {last}
  <1>1. n \in Nat /\ read = [i \in 1..n |-> SectorIn(drive, e, i)]
    BY DEF FirstSectors
  <1>2. read \in Seq(S) /\ last \in S
    <2>1. read \in [1..n -> S]
      BY <1>1
    <2> QED
      BY <1>1, <2>1
  <1> HIDE DEF n, last, S
  <1>3. /\ more \in Seq(S) /\ more # <<>> /\ Len(more) = n + 1
        /\ \A i \in 1..n : more[i] = read[i]
        /\ more[n + 1] = last
    BY <1>2, AppendProperties DEF n
  <1> HIDE DEF more
  <1>4. \A i \in 1..n + 1 : more[i] = SectorIn(drive, e, i)
    <2> SUFFICES ASSUME NEW i \in 1..n + 1 PROVE more[i] = SectorIn(drive, e, i)
      OBVIOUS
    <2>1. CASE i = n + 1
      BY <1>3, <2>1 DEF last
    <2>2. CASE i # n + 1
      BY <1>1, <1>3, <2>2
    <2> QED
      BY <2>1, <2>2
  <1>5. more = [i \in 1..n + 1 |-> more[i]]
    BY <1>3
  <1>6. more = [i \in 1..n + 1 |-> SectorIn(drive, e, i)]
    BY <1>4, <1>5, Zenon
  <1> QED
    BY <1>1, <1>3, <1>6 DEF FirstSectors, more, last, n

\* A sector more was read of a file that was begun.
ReadMore(f, e, read, more) ==
    /\ Begun(f, e, read)
    /\ Len(more) = Len(read) + 1 /\ FirstSectors(f.drive, e, more)
    /\ disk \in Inserted /\ table = disk[f.drive].fat /\ Used(table, f.curGran)
    /\ e.firstGran \in Granules /\ f.last = e.numBytesLastSector

\* How the file goes on after that, and how it ends.
LEMMA AdvancedGoesOn ==
    ASSUME NEW f \in Files, NEW e, NEW read, NEW more, ReadMore(f, e, read, more)
    PROVE  /\ Advanced(f).curGran # EndOfFile /\ Len(more) < MaxSectors
                 => Begun(Advanced(f), e, more)
           /\ Advanced(f).curGran = EndOfFile =>
                 /\ Len(more) = SectorsOf(disk[f.drive], e)
                 /\ Len(more) * SectorBytes - SectorBytes + f.last = LengthOf(disk[f.drive], e)
  <1> DEFINE fat == disk[f.drive].fat
             n == Len(read)
             k == n \div GranSectors
             r == n % GranSectors
             g == fat[f.curGran]
             numSectorsCurGran == IF g >= 193 THEN g - 192 ELSE GranSectors
  <1> HIDE DEF fat, n, k, r, g, numSectorsCurGran
  <1>1. /\ n \in Nat /\ n < MaxSectors
        /\ After(fat, e.firstGran, k) = f.curGran
        /\ \A m \in 0..k : After(fat, e.firstGran, m) \in Granules
        /\ f.curSec = r + 1
        /\ g >= 193 => f.curSec <= g - 192
        /\ ~(fat[e.firstGran] = 193 /\ f.last = 0)
        /\ f.last = e.numBytesLastSector
    BY DEF ReadMore, Begun, FirstSectors, fat, n, k, r, g
  <1>2. GranSectors \in 1..9 /\ MaxSectors \in Nat /\ MaxSectors <= MAX_NUM_GRANULES * GranSectors
    BY DecbAssumption, ReadDECBFileAssumption DEF MAX_NUM_GRANULES
  <1>3. n < MAX_NUM_GRANULES * GranSectors
    BY <1>1, <1>2 DEF MAX_NUM_GRANULES
  <1>4. /\ k \in Nat /\ k < MAX_NUM_GRANULES /\ r \in 0..GranSectors - 1 /\ n = k * GranSectors + r
        /\ r # GranSectors - 1 => (n + 1) \div GranSectors = k /\ (n + 1) % GranSectors = r + 1
        /\ r = GranSectors - 1 => (n + 1) \div GranSectors = k + 1 /\ (n + 1) % GranSectors = 0
    BY <1>1, <1>3, InGranules DEF k, r
  <1>5. f.drive \in FloppyDrives /\ fat \in Fats /\ e.firstGran \in FatBytes
    BY DisksAreDisks DEF ReadMore, Files, FatBytes, fat
  <1>6. /\ f.curGran \in Granules /\ table = fat
        /\ g \in Granules \/ g \in 193..192 + GranSectors
    BY DEF ReadMore, Used, fat, g
  <1>7. After(fat, e.firstGran, 0) = e.firstGran /\ After(fat, e.firstGran, k + 1) = g
    <2>1. k \in Nat
      BY <1>4
    <2>2. /\ After(fat, e.firstGran, 0) = e.firstGran
          /\ After(fat, e.firstGran, k + 1) = Following(fat, After(fat, e.firstGran, k))
      BY <1>5, <2>1, AfterFollows, Zenon
    <2> QED
      BY <1>1, <1>6, <2>2, Zenon DEF Following, g
  <1>8. Len(more) = n + 1
    BY DEF ReadMore, n
  <1>9. g \in Int /\ numSectorsCurGran \in 1..GranSectors
    <2>1. g \in 0..67 \/ g \in 193..192 + GranSectors
      BY <1>6 DEF Granules, MAX_NUM_GRANULES
    <2>2. GranSectors \in Int /\ 1 <= GranSectors
      BY <1>2
    <2>3. g \in Int
      BY <2>1, <2>2
    <2>4. CASE g >= 193
      BY <2>1, <2>2, <2>3, <2>4 DEF numSectorsCurGran
    <2>5. CASE ~(g >= 193)
      BY <2>1, <2>2, <2>3, <2>5 DEF numSectorsCurGran
    <2> QED
      BY <2>3, <2>4, <2>5
  <1>10. CASE f.curSec < numSectorsCurGran
    <2>1. Advanced(f) = [f EXCEPT !.curSec = f.curSec + 1]
      BY <1>6, <1>10 DEF Advanced, g, numSectorsCurGran
    <2> DEFINE a == Advanced(f)
    <2>2. a.curSec = r + 1 + 1 /\ a.curGran = f.curGran /\ a.last = f.last /\ a.drive = f.drive
      BY <1>1, <2>1 DEF Files
    <2>3. r # GranSectors - 1
      BY <1>1, <1>2, <1>4, <1>9, <1>10
    <2>4. a.curGran # EndOfFile
      BY <1>6, <2>2 DEF Granules, MAX_NUM_GRANULES, EndOfFile
    <2>5. g >= 193 => a.curSec <= g - 192
      BY <1>1, <1>4, <1>9, <1>10, <2>2 DEF numSectorsCurGran
    <2> HIDE DEF a
    <2>6. Len(more) < MaxSectors => Begun(a, e, more)
      BY <1>1, <1>4, <1>8, <2>2, <2>3, <2>5 DEF ReadMore, Begun, fat, n, g
    <2> QED
      BY <2>4, <2>6 DEF a
  <1>11. CASE ~(f.curSec < numSectorsCurGran) /\ ~(g >= 193)
    <2>1. Advanced(f) = [f EXCEPT !.curSec = 1, !.curGran = g]
      BY <1>6, <1>11 DEF Advanced, g, numSectorsCurGran
    <2> DEFINE a == Advanced(f)
    <2>2. a.curSec = 1 /\ a.curGran = g /\ a.last = f.last /\ a.drive = f.drive
      BY <2>1 DEF Files
    <2>3. r = GranSectors - 1 /\ g \in Granules
      BY <1>1, <1>2, <1>4, <1>6, <1>9, <1>11 DEF numSectorsCurGran
    <2>4. a.curGran # EndOfFile
      BY <2>2, <2>3 DEF Granules, MAX_NUM_GRANULES, EndOfFile
    <2>5. fat[g] >= 193 => 1 <= fat[g] - 192
      <3>1. fat[g] \in FatBytes
        BY <1>5, <2>3 DEF Fats
      <3>2. fat[g] \in 0..67 \/ fat[g] \in 193..192 + GranSectors \/ fat[g] = 255
        BY <3>1 DEF FatBytes, Granules, MAX_NUM_GRANULES, Free
      <3> QED
        BY <1>2, <3>2
    <2>6. \A m \in 0..k + 1 : After(fat, e.firstGran, m) \in Granules
      BY <1>1, <1>4, <1>7, <2>3
    <2> HIDE DEF a
    <2>7. Len(more) < MaxSectors => Begun(a, e, more)
      BY <1>1, <1>4, <1>7, <1>8, <2>2, <2>3, <2>5, <2>6 DEF ReadMore, Begun, fat, n
    <2> QED
      BY <2>4, <2>7 DEF a
  <1>12. CASE ~(f.curSec < numSectorsCurGran) /\ g >= 193
    <2>1. Advanced(f) = [f EXCEPT !.curSec = f.curSec + 1, !.curGran = EndOfFile]
      BY <1>6, <1>12 DEF Advanced, g, numSectorsCurGran
    <2>2. Advanced(f).curGran = EndOfFile
      BY <2>1 DEF Files
    <2>3. f.curSec = g - 192
      BY <1>1, <1>4, <1>9, <1>12 DEF numSectorsCurGran
    <2>4. g \notin Granules
      BY <1>12 DEF Granules, MAX_NUM_GRANULES
    <2>5. g - 192 = r + 1
      BY <1>1, <1>4, <1>9, <2>3
    <2>6. ~(g - 192 = 1 /\ k = 0 /\ e.numBytesLastSector = 0)
      <3> SUFFICES ASSUME g = 193, k = 0, f.last = 0 PROVE FALSE
        BY <1>1, <1>9
      <3>1. fat[e.firstGran] = 193
        BY <1>1, <1>7 DEF g
      <3> QED
        BY <1>1, <3>1
    <2>7. /\ SectorsOf(disk[f.drive], e)
                = IF g - 192 = 1 /\ k = 0 /\ e.numBytesLastSector = 0 THEN 0
                  ELSE k * GranSectors + (g - 192)
          /\ LengthOf(disk[f.drive], e) = k * GRANULE_SIZE + (g - 192 - 1) * SectorBytes
                                          + e.numBytesLastSector
      <3>1. After(disk[f.drive].fat, e.firstGran, k + 1) = g
        BY <1>7 DEF fat
      <3>2. \A m \in 0..k : After(disk[f.drive].fat, e.firstGran, m) \in Granules
        BY <1>1 DEF fat
      <3>3. LastNames(disk[f.drive], e, k, g)
        BY <2>4, <3>1, <3>2 DEF LastNames
      <3> QED
        BY <1>4, <3>3, FileEnds
    <2>8. SectorsOf(disk[f.drive], e) = k * GranSectors + (r + 1)
      BY <2>5, <2>6, <2>7, Zenon
    <2>9. LengthOf(disk[f.drive], e) = k * GRANULE_SIZE + ((r + 1) - 1) * SectorBytes + f.last
      BY <1>1, <2>5, <2>7, Zenon
    <2>10. (n + 1) * SectorBytes - SectorBytes = k * GRANULE_SIZE + ((r + 1) - 1) * SectorBytes
      <3>1. k \in Int /\ GranSectors \in Int /\ SectorBytes \in Int /\ r \in Int /\ n \in Int
        BY <1>1, <1>2, <1>4, DecbAssumption
      <3>2. k * (GranSectors * SectorBytes) = (k * GranSectors) * SectorBytes
        BY <3>1
      <3>3. (k * GranSectors + r) * SectorBytes = (k * GranSectors) * SectorBytes + r * SectorBytes
        BY <3>1
      <3>4. (n + 1) * SectorBytes - SectorBytes = n * SectorBytes /\ r + 1 - 1 = r
        BY <3>1
      <3> QED
        BY <1>4, <3>2, <3>3, <3>4 DEF GRANULE_SIZE
    <2>11. n + 1 = k * GranSectors + (r + 1)
      <3>1. k * GranSectors \in Int /\ r \in Int
        BY <1>2, <1>4
      <3> QED
        BY <1>4, <3>1
    <2> QED
      BY <1>8, <2>2, <2>8, <2>9, <2>10, <2>11
  <1> QED
    BY <1>10, <1>11, <1>12

LEMMA NoResultYet ==
    ASSUME Delivering, task # "program"
    PROVE  /\ result.err = 255
           /\ UNCHANGED result => result'.err = 255 /\ FileDelivered'
  BY DEF Delivering, FileDelivered

LEMMA FailsDelivers ==
    ASSUME Reading, Delivering, Fails
    PROVE  Delivering'
  <1> DEFINE err == CASE task = "directory" -> 1 [] task = "table" -> 3 [] task = "file" -> 4
  <1>1. at = "idle" /\ Return(err, 0) /\ task \in {"directory", "table", "file"}
    BY DEF Fails, Reading, Kinds, Tasks
  <1>2. err # 0 /\ err # 2
    BY <1>1
  <1> HIDE DEF err
  <1> QED
    BY <1>1, <1>2, ReturnDelivers

LEMMA NotFoundDelivers ==
    ASSUME Geometry, Reading, Delivering, NotFound
    PROVE  Delivering'
  <1>1. /\ at = "idle" /\ Return(2, 0) /\ Read("directory") /\ task = "directory"
        /\ Matches = {} /\ (Ends # {} \/ DC.sector = 2 + DirSectors)
    BY DEF NotFound, Read
  <1>2. InDirectory(DC.sector - 2) /\ PassedOver(DC.sector - 2)
    BY <1>1, DirectoryRead DEF Delivering
  <1>3. DC.sector = 2 + DirSectors => DC.sector - 2 = DirSectors
    BY DecbAssumption
  <1>4. Named0 = {}
    BY <1>1, <1>2, <1>3, NothingIsNamed
  <1> QED
    BY <1>1, <1>4, ReturnDelivers

LEMMA NextDelivers ==
    ASSUME Geometry, Reading, Delivering, DirNext
    PROVE  Delivering'
  <1>1. /\ Read("directory") /\ task = "directory" /\ Matches = {} /\ Ends = {}
        /\ readDiskSector(file.drive, <<DirectoryTrack, DC.sector + 1>>)
        /\ UNCHANGED <<Drivers, disk, task, file, table, dest, result>>
    BY DEF DirNext, Read, reader
  <1>2. InDirectory(DC.sector - 2) /\ PassedOver(DC.sector - 2)
    BY <1>1, DirectoryRead DEF Delivering
  <1>3. PassedOver(DC.sector - 2 + 1)
    BY <1>1, <1>2, NothingIsNamed
  <1>4. DC'.sector - 2 = DC.sector - 2 + 1
    <2>1. DC' = [op |-> "read", drive |-> file.drive, track |-> DirectoryTrack,
                 sector |-> DC.sector + 1]
      BY <1>1 DEF readDiskSector, processSector
    <2>2. DC.sector \in 3..2 + DirSectors
      BY <1>1 DEF Reading, Sought
    <2> QED
      BY <2>1, <2>2, DecbAssumption
  <1>5. PassedOver(DC.sector - 2)'
    BY <1>1, <1>3, <1>4 DEF PassedOver
  <1>6. result'.err = 255 /\ FileDelivered'
    BY <1>1, NoResultYet
  <1> QED
    BY <1>1, <1>5, <1>6 DEF Delivering

LEMMA FoundDelivers ==
    ASSUME Geometry, Reading, Delivering, DirFound
    PROVE  Delivering'
  <1> DEFINE i == CHOOSE i \in Matches : \A j \in Matches : i <= j
  <1>1. /\ Read("directory") /\ task = "directory" /\ Matches # {}
        /\ file' = [file EXCEPT !.curGran = DirSector[i].firstGran, !.curSec = 1,
                                !.last = DirSector[i].numBytesLastSector]
        /\ task' = "table"
        /\ UNCHANGED <<Drivers, disk, table, dest, result>>
    BY DEF DirFound, Read
  <1>2. InDirectory(DC.sector - 2) /\ PassedOver(DC.sector - 2)
    BY <1>1, DirectoryRead DEF Delivering
  <1>3. Named0 # {} /\ Entry = DirSector[i]
    BY <1>1, <1>2, FoundIsFirst, SMTT(30)
  <1>4. i \in Matches
    BY <1>1, <1>2, FirstMatch, SMTT(30) DEF InDirectory
  <1>5. DirSector[i].firstGran \in Granules
    BY <1>2, <1>4, EntryIsAFile, SMTT(30) DEF InDirectory
  <1> HIDE DEF i
  <1>6. /\ file'.drive = file.drive /\ file'.name = file.name
        /\ file'.curGran = DirSector[i].firstGran
        /\ file'.last = DirSector[i].numBytesLastSector
    BY <1>1 DEF Reading, Kinds, Files
  <1>7. Named0' = Named0 /\ Entry' = Entry
    BY <1>1, <1>6 DEF Named0, Entry
  <1>8. result'.err = 255 /\ FileDelivered'
    BY <1>1, NoResultYet
  <1> QED
    BY <1>1, <1>3, <1>5, <1>6, <1>7, <1>8 DEF Delivering

\* A file that is read on from its beginning, or whose end is reached.
LEMMA GoOnDelivers ==
    ASSUME at = "idle", Delivering, task \in {"table", "file"},
           NEW f, NEW fat, NEW read, NEW size, GoOn(f, fat, read),
           f.drive = file.drive, f.name = file.name, f.last = file.last,
           f.curGran # EndOfFile /\ Len(read) < MaxSectors => Begun(f, Entry, read),
           size = IF read = <<>> THEN 0 ELSE Len(read) * SectorBytes - SectorBytes + f.last,
           f.curGran = EndOfFile =>
               /\ read = [i \in 1..SectorsOf(disk[file.drive], Entry) |->
                              SectorIn(file.drive, Entry, i)]
               /\ size = LengthOf(disk[file.drive], Entry)
    PROVE  Delivering'
  <1>0. Named0 # {} /\ file.last = Entry.numBytesLastSector /\ Entry.firstGran \in Granules
    BY DEF Delivering
  <1>1. CASE f.curGran = EndOfFile
    <2>1. Return(0, size) /\ dest' = read
      BY <1>1 DEF GoOn
    <2> QED
      BY <1>0, <1>1, <2>1, ReturnDelivers
  <1>2. CASE f.curGran # EndOfFile
    <2>1. /\ Begun(f, Entry, read) /\ dest' = read
          /\ file' = f /\ task' = "file"
          /\ UNCHANGED <<Drivers, disk, result>>
      BY <1>2 DEF GoOn
    <2>2. Named0' = Named0 /\ Entry' = Entry /\ UNCHANGED <<disk, changed>>
      BY <2>1 DEF Named0, Entry, Drivers
    <2>3. result'.err = 255 /\ FileDelivered'
      BY <2>1, NoResultYet
    <2>4. Begun(file, Entry, dest)'
      BY <2>1, <2>2 DEF Begun, FirstSectors, SectorIn, At
    <2> QED
      BY <1>0, <2>1, <2>2, <2>3, <2>4 DEF Delivering
  <1> QED
    BY <1>1, <1>2

LEMMA TableDelivers ==
    ASSUME Geometry, Reading, Delivering, TableRead
    PROVE  Delivering'
  <1> DEFINE fat == disk[buffer[1]].fat
             empty == fat[file.curGran] = 193 /\ file.last = 0
             f == IF empty THEN [file EXCEPT !.curGran = EndOfFile] ELSE file
             d == disk[file.drive]
  <1>1. at = "idle" /\ task = "table" /\ DCSTA = {} /\ GoOn(f, fat, <<>>)
    BY DEF TableRead, Read
  <1>2. /\ DC.track = DirectoryTrack /\ file \in Files /\ file.curSec = 1 /\ disk \in Inserted
        /\ file.drive \in FloppyDrives /\ Used(d.fat, file.curGran)
        /\ file.curGran = Entry.firstGran /\ file.last = Entry.numBytesLastSector
    BY <1>1 DEF Reading, Kinds, Sought, Files, Delivering
  <1>3. fat = d.fat /\ d.fat \in Fats
    BY <1>1, <1>2, BufferIsPlace, DisksAreDisks, SMTT(30)
  <1>4. /\ f.drive = file.drive /\ f.name = file.name /\ f.last = file.last
        /\ IF empty THEN f.curGran = EndOfFile ELSE f = file
    BY <1>2 DEF Files
  <1> HIDE DEF f, fat
  <1>5. file.curGran \in Granules /\ file.curGran \in FatBytes /\ file.curGran # EndOfFile
    BY <1>2 DEF Used, FatBytes, Granules, EndOfFile, MAX_NUM_GRANULES
  <1>6. /\ After(d.fat, Entry.firstGran, 0) = file.curGran
        /\ After(d.fat, Entry.firstGran, 1) = d.fat[file.curGran]
    <2>1. /\ After(d.fat, Entry.firstGran, 0) = Entry.firstGran
          /\ After(d.fat, Entry.firstGran, 0 + 1)
                = Following(d.fat, After(d.fat, Entry.firstGran, 0))
      BY <1>2, <1>3, <1>5, AfterFollows
    <2> QED
      BY <1>2, <1>5, <2>1 DEF Following
  <1>7. <<>> = [i \in 1..0 |-> SectorIn(file.drive, Entry, i)] /\ Len(<<>>) = 0
    OBVIOUS
  <1>8. CASE empty
    <2>1. d.fat[file.curGran] = 193 /\ Entry.numBytesLastSector = 0 /\ 193 \notin Granules
      BY <1>2, <1>3, <1>8 DEF Granules, MAX_NUM_GRANULES
    <2>2. \A m \in 0..0 : After(d.fat, Entry.firstGran, m) \in Granules
      BY <1>5, <1>6
    <2>3. LastNames(d, Entry, 0, 193)
      BY <1>6, <2>1, <2>2 DEF LastNames
    <2>4. SectorsOf(d, Entry) = 0 /\ LengthOf(d, Entry) = 0
      BY <2>1, <2>3, NoSectors
    <2> QED
      BY <1>1, <1>4, <1>7, <1>8, <2>4, GoOnDelivers
  <1>9. CASE ~empty
    <2>1. ASSUME Len(<<>>) < MaxSectors PROVE Begun(f, Entry, <<>>)
      <3>1. 0 \div GranSectors = 0 /\ 0 % GranSectors = 0
        BY InGranules
      <3>2. \A m \in 0..0 : After(d.fat, Entry.firstGran, m) \in Granules
        BY <1>5, <1>6
      <3>3. FirstSectors(f.drive, Entry, <<>>)
        BY <1>7, <1>4 DEF FirstSectors
      <3>4. d.fat[file.curGran] >= 193 => 1 <= d.fat[file.curGran] - 192
        <4>1. d.fat[file.curGran] \in 0..67 \/ d.fat[file.curGran] \in 193..192 + GranSectors
          BY <1>2, SMTT(30) DEF Used, Granules, MAX_NUM_GRANULES
        <4>2. GranSectors \in Int
          BY DecbAssumption
        <4>3. d.fat[file.curGran] \in Int
          BY <4>1, <4>2
        <4> QED
          BY <4>3, SMTT(30)
      <3> QED
        BY <1>2, <1>3, <1>4, <1>6, <1>7, <1>9, <2>1, <3>1, <3>2, <3>3, <3>4 DEF Begun
    <2>2. f.curGran # EndOfFile
      BY <1>4, <1>5, <1>9
    <2> QED
      BY <1>1, <1>4, <2>1, <2>2, GoOnDelivers
  <1> QED
    BY <1>8, <1>9

LEMMA SectorDelivers ==
    ASSUME Geometry, Reading, Delivering, SectorRead
    PROVE  Delivering'
  <1> DEFINE more == Append(dest, buffer)
             f == Advanced(file)
             size == IF more = <<>> THEN 0 ELSE Len(more) * SectorBytes - SectorBytes + f.last
  <1>1. at = "idle" /\ task = "file" /\ DCSTA = {} /\ GoOn(f, table, more)
    BY DEF SectorRead, Read
  <1>2. /\ disk \in Inserted /\ file \in Files /\ file.drive \in FloppyDrives
        /\ table = disk[file.drive].fat /\ Used(table, file.curGran) /\ file.curGran \in Granules
        /\ file.curSec \in 1..GranSectors
        /\ buffer = At(Place) /\ DC.drive = file.drive
        /\ <<DC.track, DC.sector>> = PlaceToRead(file)
        /\ Begun(file, Entry, dest)
        /\ file.last = Entry.numBytesLastSector /\ Entry.firstGran \in Granules
    BY <1>1 DEF Reading, Kinds, Sought, Files, Delivering, Used
  <1>3. table \in Fats /\ \A g \in Granules : table[g] \in Granules => table[table[g]] # Free
    BY <1>2, DisksAreDisks
  <1>4. f.drive = file.drive /\ f.name = file.name /\ f.last = file.last
    BY <1>2, <1>3, AdvancedIsUsed
  <1>5. buffer = SectorIn(file.drive, Entry, Len(dest) + 1)
    <2>1. <<DC.track, DC.sector>> = PlaceIn(disk[file.drive], Entry, Len(dest) + 1)
      BY <1>2, NextPlace
    <2>2. /\ DC.track = PlaceIn(disk[file.drive], Entry, Len(dest) + 1)[1]
          /\ DC.sector = PlaceIn(disk[file.drive], Entry, Len(dest) + 1)[2]
      BY <2>1
    <2>3. Place = <<file.drive, DC.track, DC.sector>>
      BY <1>2 DEF Place
    <2> QED
      BY <1>2, <2>2, <2>3, Zenon DEF SectorIn
  <1>6. /\ Len(more) = Len(dest) + 1 /\ more # <<>>
        /\ FirstSectors(file.drive, Entry, more)
    <2>1. FirstSectors(file.drive, Entry, dest)
      BY <1>2 DEF Begun
    <2> QED
      BY <1>5, <2>1, OneMore, Zenon
  <1> HIDE DEF more
  <1>7. ReadMore(file, Entry, dest, more)
    BY <1>2, <1>6 DEF ReadMore
  <1>8. /\ f.curGran # EndOfFile /\ Len(more) < MaxSectors => Begun(f, Entry, more)
        /\ f.curGran = EndOfFile =>
              /\ Len(more) = SectorsOf(disk[file.drive], Entry)
              /\ Len(more) * SectorBytes - SectorBytes + file.last
                    = LengthOf(disk[file.drive], Entry)
    BY <1>2, <1>7, AdvancedGoesOn
  <1>9. more = [i \in 1..Len(more) |-> SectorIn(file.drive, Entry, i)]
    BY <1>6 DEF FirstSectors
  <1>10. size = Len(more) * SectorBytes - SectorBytes + file.last
    BY <1>4, <1>6, Zenon
  <1> HIDE DEF f, size
  <1>11. f.curGran = EndOfFile =>
            /\ more = [i \in 1..SectorsOf(disk[file.drive], Entry) |->
                           SectorIn(file.drive, Entry, i)]
            /\ size = LengthOf(disk[file.drive], Entry)
    BY <1>8, <1>9, <1>10, Zenon
  <1>12. size = IF more = <<>> THEN 0 ELSE Len(more) * SectorBytes - SectorBytes + f.last
    BY Zenon DEF size
  <1> QED
    BY <1>1, <1>4, <1>8, <1>11, <1>12, GoOnDelivers

DeliveryInv == WholeInv /\ Delivering

LEMMA DeliveryInit == Init => DeliveryInv
  BY WholeInit DEF Init, NoResult, DeliveryInv, Delivering, FileDelivered

LEMMA DeliveryNext == DeliveryInv /\ [Next]_vars => DeliveryInv'
  <1> SUFFICES ASSUME DeliveryInv, [Next]_vars
               PROVE  Delivering'
    BY WholeNext DEF DeliveryInv
  <1>0. DriverInv /\ Geometry /\ Reading /\ Delivering
    BY DEF DeliveryInv, WholeInv
  <1>1. CASE Program
    BY <1>0, <1>1, ProgramDelivers
  <1>2. CASE Reader
    BY <1>0, <1>2, FailsDelivers, FoundDelivers, NextDelivers, NotFoundDelivers,
       TableDelivers, SectorDelivers DEF Reader
  <1>3. CASE DriverRuns \/ FdcRuns \/ TimerRuns
    BY <1>0, <1>3, WorkersDeliver
  <1>4. CASE UNCHANGED vars
    BY <1>0, <1>4, Undisturbed DEF vars, dskconVars, ram, cpu, lines, drives
  <1> QED
    BY <1>1, <1>2, <1>3, <1>4 DEF Next

\* readDECBFile() delivers the whole file, for any disk and any size of its
\* parts, whatever the drive does meanwhile: every sector in its place and the
\* size that the directory and the granule table say (coco.h:435-461).
THEOREM DeliversFile == Spec => []FileDelivered
  <1>1. DeliveryInv => FileDelivered
    BY DEF DeliveryInv, Delivering
  <1> QED
    BY <1>1, DeliveryInit, DeliveryNext, PTL DEF Spec
=============================================================================
