------------------------------- MODULE Dskcon -------------------------------
(***************************************************************************)
(* DSKCON without Disk BASIC (stdlib/dskcon-standalone.c): a driver of the *)
(* 1793 floppy disk controller (the FDC) of the CoCo.                      *)
(*                                                                         *)
(* Three run at once: the processor, in dskcon_processSector(); the FDC    *)
(* with the drives, which is external; and the 60 Hz interrupt, which      *)
(* turns the motors off when nothing was asked for a while.  When the FDC  *)
(* has done a command it raises an NMI, which takes the processor out of   *)
(* its endless loop of moving bytes.  A step of the processor is what it   *)
(* does between two accesses to what the others see.                       *)
(*                                                                         *)
(* A status is the set of its bits that are set.  The write                *)
(* precompensation and density bits of DSKREG are left out.                *)
(*                                                                         *)
(* A definition marked "a mutant" is the one that follows it with a slip a *)
(* programmer could make; nothing here uses it.                            *)
(***************************************************************************)
EXTENDS Integers, Sequences, FiniteSets

CONSTANTS
    FloppyDrives,   \* the drives there are, of 0..3
    TrackSectors,   \* sectors of a track (18)
    HeadsAt,        \* where the heads may be at first
    Protected,      \* the drives whose disk is write-protected
    Retries,        \* attempts at a request (5)
    MotorTime,      \* interrupts before the motors are turned off (120)
    MaxTroubles     \* bound: what goes wrong with the hardware during a request

LastTrack == 39     \* where a drive's head stops

ASSUME DskconAssumption ==
    /\ FloppyDrives \subseteq 0..3 /\ Protected \subseteq FloppyDrives
    /\ TrackSectors \in Nat /\ HeadsAt \subseteq 0..LastTrack
    /\ Retries \in Nat \ {0} /\ MotorTime \in Nat \ {0} /\ MaxTroubles \in Nat

VARIABLES
    DC,             \* DCOPC, DCDRV, DCTRK, DCSEC
    DCSTA,
    RDYTMR,
    DRGRAM,         \* the image of DSKREG: the drives selected, and the motor
    DSKREG,
    DR0TRK,         \* where the driver takes the heads to be
    NMIFLG,
    at,             \* where the processor is
    tries,          \* the retry count on the stack
    restoring,      \* what LD7B8 returns to: "command" or "retry"
    image,          \* the register that holds DRGRAM
    masked,         \* whether interrupts are disabled
    nmi, irq,       \* who serves them: "other" or "dskcon"
    fdc,            \* the controller
    head,           \* where the heads are
    changed,        \* what sectors that were written to hold now
    buffer,         \* the memory at DCBPT: anything, for the caller, before a read
    upToSpeed,      \* whether the disks turn as they should
    troubles,       \* history: what went wrong during this request
    lost            \* history: the request began with the head elsewhere

ram == <<DC, DCSTA, DR0TRK>>
motor == <<RDYTMR, DRGRAM, DSKREG, upToSpeed>>
cpu == <<at, tries, restoring, image>>
lines == <<NMIFLG, masked, nmi, irq>>
drives == <<head, changed, buffer>>
past == <<troubles, lost>>
dskconVars == <<ram, motor, cpu, lines, fdc, drives, past>>

Ops == {"restore", "read", "write", "other"}    \* DCOPC 0, 2, 3 and the rest
Places == {"idle", "load", "select", "ready", "restore", "restoring", "head",
           "seeking", "arm", "wait", "moving", "giveup", "ended", "check"}
Off == [drives |-> {}, motor |-> FALSE]
Data == "data"
Torn == "torn"

Place == <<DC.drive, DC.track, DC.sector>>
At(place) == IF place \in DOMAIN changed THEN changed[place] ELSE place
ChangedAt(place, content) ==
    [p \in DOMAIN changed \cup {place} |-> IF p = place THEN content ELSE changed[p]]

DskconInit ==
    /\ DC = [op |-> "other", drive |-> 0, track |-> 0, sector |-> 0]
    /\ DCSTA = {} /\ RDYTMR = 0 /\ DRGRAM = Off /\ NMIFLG = FALSE
    /\ DR0TRK = [d \in FloppyDrives |-> 0]
    /\ DSKREG = Off /\ upToSpeed = FALSE
    /\ at = "idle" /\ tries = 0 /\ restoring = "command" /\ image = Off
    /\ masked = FALSE /\ nmi = "other" /\ irq = "other"
    /\ fdc = [command |-> "none", busy |-> FALSE, drq |-> FALSE,
              track |-> 0, status |-> {}]
    /\ head \in [FloppyDrives -> HeadsAt]
    /\ changed = <<>> /\ buffer = Torn
    /\ troubles = 0 /\ lost = FALSE

(***************************************************************************)
(* The controller and the drives (external).                               *)
(***************************************************************************)
Trouble == troubles < MaxTroubles /\ troubles' = troubles + 1
NoTrouble == UNCHANGED troubles

\* The sector that the controller finds under the head: of the track it has in
\* its register, or none.
Found(d) ==
    /\ DSKREG.motor /\ upToSpeed
    /\ head[d] = fdc.track /\ DC.sector \in 1..TrackSectors

Ready == [fdc EXCEPT !.busy = FALSE, !.drq = FALSE, !.command = "none"]
\* Nobody looks at a status twice.
StatusRead == [fdc EXCEPT !.status = {}, !.command = "none"]
\* The end of a command is an NMI: to the place of completion, if it is awaited.
Done(status, track) ==
    /\ fdc' = [Ready EXCEPT !.status = status, !.track = track]
    /\ IF NMIFLG THEN at' = "ended" /\ NMIFLG' = FALSE
       ELSE UNCHANGED <<at, NMIFLG>>
    /\ UNCHANGED <<ram, motor, tries, restoring, image, masked, nmi, irq, lost>>

Stop(track) == IF track < 0 THEN 0 ELSE IF track > LastTrack THEN LastTrack ELSE track

FdcRestores(d) ==
    /\ fdc.busy /\ fdc.command = "restore"
    /\ head' = [head EXCEPT ![d] = 0]
    /\ \/ NoTrouble /\ Done({}, 0)
       \/ Trouble /\ Done({"seek"}, 0)
    /\ UNCHANGED <<changed, buffer>>

\* A seek steps by the difference, then compares with what the disk says.
Stepped(d) == Stop(head[d] + DC.track - fdc.track)
FdcSeeks(d) ==
    /\ fdc.busy /\ fdc.command = "seek"
    /\ head' = [head EXCEPT ![d] = Stepped(d)]
    /\ \/ NoTrouble /\ Done(IF Stepped(d) = DC.track THEN {} ELSE {"seek"}, DC.track)
       \/ Trouble /\ Done({"crc"}, DC.track)
    /\ UNCHANGED <<changed, buffer>>

FdcFinds(d) ==
    /\ fdc.busy /\ ~fdc.drq /\ fdc.command \in {"read", "write"}
    /\ Found(d) /\ (fdc.command = "write" => d \notin Protected)
    /\ fdc' = [fdc EXCEPT !.drq = TRUE]
    /\ UNCHANGED <<ram, motor, cpu, lines, drives, past>>

FdcRefuses(d) ==
    /\ fdc.busy /\ fdc.command \in {"read", "write"}
    /\ \/ /\ fdc.command = "write" /\ d \in Protected
          /\ Done({"protected"}, fdc.track)
       \/ /\ ~Found(d) /\ (fdc.command = "write" => d \notin Protected)
          /\ Done({"seek"}, fdc.track)
    /\ NoTrouble
    /\ UNCHANGED drives

\* Bytes move as long as the processor moves them.
FdcTransfers(d) ==
    LET place == <<d, head[d], DC.sector>>
        into(content) ==
            IF fdc.command = "read"
            THEN buffer' = content /\ UNCHANGED changed
            ELSE changed' = ChangedAt(place, content) /\ UNCHANGED buffer
    IN  /\ fdc.busy /\ fdc.drq /\ at \in {"moving", "giveup"}
        /\ \/ /\ at = "moving" /\ NoTrouble
              /\ into(IF fdc.command = "read" THEN At(place) ELSE Data)
              /\ Done({}, fdc.track)
           \/ /\ at = "moving" /\ Trouble
              /\ into(Torn)
              /\ Done(IF fdc.command = "read" THEN {"crc"} ELSE {"fault"}, fdc.track)
           \/ /\ at = "giveup" /\ NoTrouble
              /\ into(Torn)
              /\ Done({"lost"}, fdc.track)
        /\ UNCHANGED head

\* It sees the drive that DSKREG selects, or any of them.
Fdc == \E d \in DSKREG.drives :
    FdcRestores(d) \/ FdcSeeks(d) \/ FdcFinds(d) \/ FdcRefuses(d) \/ FdcTransfers(d)

(***************************************************************************)
(* The driver.                                                             *)
(***************************************************************************)
Issue(command) ==
    fdc' = [fdc EXCEPT !.command = command, !.busy = TRUE, !.drq = FALSE, !.status = {}]

\* A mutant: the timer is left to run.
processSector_KeepsTimer(op, drive, track, sector) ==
    /\ DC' = [op |-> op, drive |-> drive, track |-> track, sector |-> sector]
    /\ at' = "load" /\ tries' = Retries
    /\ RDYTMR' = RDYTMR
    /\ buffer' = Torn
    /\ lost' = (head[drive] # DR0TRK[drive])

\* dskcon_processSector(), up to the clearing of the timer.
processSector(op, drive, track, sector) ==
    /\ DC' = [op |-> op, drive |-> drive, track |-> track, sector |-> sector]
    /\ at' = "load" /\ tries' = Retries
    /\ RDYTMR' = 0
    /\ buffer' = Torn
    /\ lost' = (head[drive] # DR0TRK[drive])

LoadImage ==
    /\ at = "load"
    /\ image' = DRGRAM
    /\ at' = "select"
    /\ UNCHANGED <<ram, motor, tries, restoring, lines, fdc, drives, past>>

\* A mutant: the drive that was selected stays selected.
Selected_Keeps == [drives |-> image.drives \cup {DC.drive}, motor |-> TRUE]
Selected == [drives |-> {DC.drive}, motor |-> TRUE]

\* The motor is waited for unless the image says that it was on.
Select ==
    /\ at = "select"
    /\ DRGRAM' = Selected /\ DSKREG' = Selected
    /\ upToSpeed' = (upToSpeed \/ ~image.motor)
    /\ at' = "ready"
    /\ UNCHANGED <<ram, RDYTMR, tries, restoring, image, lines, fdc, drives, past>>

Begin ==
    /\ at = "ready"
    /\ DCSTA' = {}
    /\ at' = CASE DC.op = "restore" -> "restore"
               [] DC.op \in {"read", "write"} -> "head"
               [] OTHER -> "check"
    /\ restoring' = "command"
    /\ UNCHANGED <<DC, DR0TRK, motor, tries, image, lines, fdc, drives, past>>

\* No power: the FDC reads as busy all the time.
NotReady ==
    /\ at = "ready" /\ Trouble
    /\ DCSTA' = {"notready"}
    /\ at' = "check"
    /\ UNCHANGED <<DC, DR0TRK, motor, tries, restoring, image, lines, fdc, drives, lost>>

\* A mutant: the driver still takes the head to be where it sent it.
Restore_KeepsTrack ==
    /\ at = "restore"
    /\ Issue("restore")
    /\ at' = "restoring"
    /\ UNCHANGED <<ram, motor, tries, restoring, image, lines, drives, past>>
\* LD7B8.
Restore ==
    /\ at = "restore"
    /\ DR0TRK' = [DR0TRK EXCEPT ![DC.drive] = 0]
    /\ Issue("restore")
    /\ at' = "restoring"
    /\ UNCHANGED <<DC, DCSTA, motor, tries, restoring, image, lines, drives, past>>

\* What follows: the command again, from the clearing of the timer on, or the
\* end of this attempt.
Restored(status) ==
    /\ DCSTA' = status
    /\ IF restoring = "retry" /\ status = {}
       THEN at' = "load" /\ RDYTMR' = 0
       ELSE at' = "check" /\ UNCHANGED RDYTMR
    /\ UNCHANGED <<DRGRAM, DSKREG, upToSpeed>>

RestoreEnds ==
    /\ at = "restoring" /\ ~fdc.busy
    /\ Restored(fdc.status \cap {"seek"})
    /\ fdc' = StatusRead
    /\ UNCHANGED <<DC, DR0TRK, tries, restoring, image, lines, drives, past>>

\* LD7D1 stores $80, and LD7B8 then the seek error bit of that, which is 0: a
\* restore that timed out counts as one that went well.  The head is anywhere
\* on its way.
RestoreTimesOut ==
    /\ at = "restoring" /\ fdc.busy /\ Trouble
    /\ Restored({})
    /\ fdc' = Ready
    /\ \E d \in DSKREG.drives, to \in {0, head[DC.drive]} : head' = [head EXCEPT ![d] = to]
    /\ UNCHANGED <<DC, DR0TRK, tries, restoring, image, lines, changed, buffer, lost>>

\* LD7F8 and LD7FB.
FindTrack ==
    /\ at = "head"
    /\ DR0TRK' = [DR0TRK EXCEPT ![DC.drive] = DC.track]
    /\ IF DR0TRK[DC.drive] = DC.track
       THEN /\ fdc' = [fdc EXCEPT !.track = DC.track]
            /\ at' = "arm"
       ELSE /\ fdc' = [fdc EXCEPT !.track = DR0TRK[DC.drive],
                                  !.command = "seek", !.busy = TRUE]
            /\ at' = "seeking"
    /\ UNCHANGED <<DC, DCSTA, motor, tries, restoring, image, lines, drives, past>>

SeekEnds ==
    LET errors == fdc.status \cap {"seek", "crc"}
    IN  /\ at = "seeking" /\ ~fdc.busy
        /\ IF errors = {} THEN at' = "arm" /\ UNCHANGED DCSTA
           ELSE at' = "check" /\ DCSTA' = errors
        /\ fdc' = StatusRead
        /\ UNCHANGED <<DC, DR0TRK, motor, tries, restoring, image, lines, drives, past>>

\* LD7DF.  Here too the head may have stepped.
SeekTimesOut ==
    /\ at = "seeking" /\ fdc.busy /\ Trouble
    /\ DCSTA' = {"notready"}
    /\ at' = "check"
    /\ fdc' = Ready
    /\ \E d \in DSKREG.drives, steps \in BOOLEAN :
           head' = IF steps THEN [head EXCEPT ![d] = Stepped(d)] ELSE head
    /\ UNCHANGED <<DC, DR0TRK, motor, tries, restoring, image, lines, changed, buffer, lost>>

\* LD82C: interrupts are not wanted, and NMIs are awaited if NMIFLG was clear,
\* for it is complemented.
Arm ==
    /\ at = "arm"
    /\ NMIFLG' = ~NMIFLG /\ masked' = TRUE
    /\ Issue(DC.op)
    /\ at' = "wait"
    /\ UNCHANGED <<ram, motor, tries, restoring, image, nmi, irq, drives, past>>

Move ==
    /\ at = "wait" /\ fdc.drq
    /\ at' = "moving"
    /\ buffer' = IF DC.op = "read" THEN Torn ELSE buffer
    /\ UNCHANGED <<ram, motor, tries, restoring, image, lines, fdc, head, changed, past>>

\* LD863.  A wait as long as this is trouble, unless there is no such sector.
DrqTimesOut ==
    /\ at = "wait" /\ fdc.busy /\ ~fdc.drq
    /\ IF \E d \in DSKREG.drives : Found(d) THEN Trouble ELSE NoTrouble
    /\ at' = "giveup"
    /\ UNCHANGED <<ram, motor, tries, restoring, image, lines, fdc, drives, lost>>

\* A mutant: an NMI is still awaited.
GiveUp_Awaits ==
    /\ at = "giveup"
    /\ masked' = FALSE
    /\ fdc' = Ready
    /\ DCSTA' = {"notready"}
    /\ at' = "check"
    /\ UNCHANGED <<DC, DR0TRK, motor, tries, restoring, image, NMIFLG, nmi, irq, drives, past>>
GiveUp ==
    /\ at = "giveup"
    /\ NMIFLG' = FALSE /\ masked' = FALSE
    /\ fdc' = Ready
    /\ DCSTA' = {"notready"}
    /\ at' = "check"
    /\ UNCHANGED <<DC, DR0TRK, motor, tries, restoring, image, nmi, irq, drives, past>>

StatusKept == {"protected", "fault", "seek", "crc", "lost"}

\* LD88B, where the NMI leads to.
Complete ==
    /\ at = "ended"
    /\ masked' = FALSE
    /\ DCSTA' = fdc.status \cap StatusKept
    /\ at' = "check"
    /\ fdc' = StatusRead
    /\ UNCHANGED <<DC, DR0TRK, motor, tries, restoring, image, NMIFLG, nmi, irq, drives, past>>

\* LD7A0.
Exit ==
    /\ at = "check" /\ (DCSTA = {} \/ tries = 1)
    /\ RDYTMR' = MotorTime
    /\ at' = "idle" /\ tries' = 0 /\ restoring' = "command" /\ image' = Off
    /\ troubles' = 0 /\ lost' = FALSE
    /\ UNCHANGED <<ram, DRGRAM, DSKREG, upToSpeed, lines, fdc, drives>>

\* A mutant: the retries are not counted.
Retry_Uncounted ==
    /\ at = "check" /\ DCSTA # {} /\ tries > 1
    /\ at' = "restore" /\ restoring' = "retry"
    /\ UNCHANGED <<ram, motor, tries, image, lines, fdc, drives, past>>
Retry ==
    /\ at = "check" /\ DCSTA # {} /\ tries > 1
    /\ tries' = tries - 1
    /\ at' = "restore" /\ restoring' = "retry"
    /\ UNCHANGED <<ram, motor, image, lines, fdc, drives, past>>

Driver ==
    \/ LoadImage \/ Select \/ Begin \/ NotReady
    \/ Restore \/ RestoreEnds \/ RestoreTimesOut
    \/ FindTrack \/ SeekEnds \/ SeekTimesOut
    \/ Arm \/ Move \/ DrqTimesOut \/ GiveUp \/ Complete
    \/ Exit \/ Retry

(***************************************************************************)
(* dskcon_irqService(), where the timer is active.                         *)
(***************************************************************************)
Tick ==
    /\ irq = "dskcon" /\ ~masked /\ RDYTMR > 0
    /\ RDYTMR' = RDYTMR - 1
    /\ IF RDYTMR = 1
       THEN DRGRAM' = Off /\ DSKREG' = Off /\ upToSpeed' = FALSE
       ELSE UNCHANGED <<DRGRAM, DSKREG, upToSpeed>>
    /\ UNCHANGED <<ram, cpu, lines, fdc, drives, past>>

(***************************************************************************)
(* What dskcon_init() leaves.  The NMI vector is taken over.               *)
(***************************************************************************)
Cleared ==
    /\ DCSTA' = {} /\ DRGRAM' = Off /\ NMIFLG' = FALSE
    /\ DR0TRK' = [d \in FloppyDrives |-> 0]
    /\ nmi' = "dskcon"
=============================================================================
