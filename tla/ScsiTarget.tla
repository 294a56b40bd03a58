------------------------------ MODULE ScsiTarget ------------------------------
(***************************************************************************)
(* The SCSI target: the state machine and command handlers of scsi.c, run  *)
(* by the main loop of main.c over the LUN store of FileSystem, with the   *)
(* reset interrupt, the initiator and the person who changes the SD card.  *)
(*                                                                         *)
(* The firmware is one thread.  A handler that neither waits nor loops is  *)
(* one action; any other is cut where it waits for the host or where the   *)
(* reset flag, the wires or the card can change under it.  "step" says     *)
(* where in the handler of scsiState the thread is:                        *)
(*   start    about to be called from the switch of scsiProcessEmulation   *)
(*   delay, selwait   in scsiCommandSelect: the 1 ms delay, the wait for SEL *)
(*   bytes    in a loop of hostadapterReadByte / WriteByte                 *)
(*   format   in scsiCommandFormat, before filesystemFormatLun             *)
(*   block, dma, write   in a block transfer: before the next sector is    *)
(*            read, inside a DMA loop, before a received block is written  *)
(***************************************************************************)
EXTENDS FileSystem

CONSTANTS
    Commands,   \* what the initiator sends: handlers, or "UNKNOWN"
    Lba,        \* the block addresses it uses
    InquiryArgs,\* which INQUIRY it sends: 0 standard data, 1 a page, 2 EVPD
    MaxBlocks,  \* what a block count of 0 stands for (256 in the code)
    Cards,      \* the contents an SD card may have: [dir, dat, dsc]
    CardSwaps   \* may the card be changed while the firmware runs?

Handlers ==
    { "TESTUNITREADY", "REZEROUNIT", "REQUESTSENSE", "FORMAT", "READ6", "WRITE6",
      "SEEK", "TRANSLATE", "MODESELECT", "MODESENSE", "STARTSTOP", "VERIFY", "INQUIRY" }

ASSUME ScsiAssumption ==
    /\ Commands \subseteq Handlers \cup {"UNKNOWN"}
    /\ Lba \subseteq Nat
    /\ InquiryArgs \subseteq 0 .. 2
    /\ MaxBlocks \in Nat \ {0}
    /\ CardSwaps \in BOOLEAN
    /\ Cards \subseteq [ dir : BOOLEAN,
                         dat : [LUN -> Nat \cup {Absent}],
                         dsc : [LUN -> Nat \cup {Absent, Empty}] ]

VARIABLES
    scsiState,  \* the state scsiProcessEmulation switches on
    step,       \* where in its handler the thread is
    main,       \* main(): "process" calls the handler, "check" tests the reset flag
    cdb,        \* commandDataBlock: LUN, block address, and what byte 4 (or 1, 2) says
    status,     \* commandDataBlock.status
    sense,      \* requestSenseData
    blocks,     \* blocks still to be transferred
    nrst,       \* nrstFlag
    pend,       \* an RST edge is pending while interrupts are disabled
    bsy,        \* does the target assert BSY?
    phase,      \* the information transfer phase the target asserts
    wire,       \* what the initiator drives: SEL, the target's bit of the data bus
    (* history *)
    torn,       \* was part of the CDB read after the reset flag was set?
    whole,      \* is scsiSectorBuffer one whole block of the host?
    owed        \* was the host told CHECK CONDITION, and not yet why?

scsiVars == <<scsiState, step, main>>
cmdVars  == <<cdb, status, sense>>
pinVars  == <<bsy, phase>>
rstVars  == <<nrst, pend>>
history  == <<torn, whole, owed>>
vars == <<fs, scsiVars, cmdVars, blocks, rstVars, pinVars, wire, history>>

States == Handlers \cup { "BUSFREE", "BUSBUSY", "SELECT", "COMMAND", "STATUS", "MESSAGE", "INVALID" }
Steps  == { "start", "delay", "selwait", "bytes", "format", "block", "dma", "write" }
Phases == { "DATAOUT", "DATAIN", "COMMAND", "STATUS", "MESSAGEIN" }

\* requestSenseData: class and code of the error, and whether an address is valid.
NoSense == "none"
SenseData ==
    { NoSense, "0/02 unit not ready", "0/04 drive not ready", "2/1C bad format",
      "2/24 bad argument", "2/21 illegal block address" }

Good == [bad |-> FALSE, lun |-> 0]          \* 0x00
Bad(l) == [bad |-> TRUE, lun |-> l]         \* (LUN << 5) | 0x02

\* What byte 4 may be: a block count, start or stop, the right or a wrong
\* list length, a defect list or none, or which INQUIRY this is.
Args(op) ==
    CASE op \in {"READ6", "WRITE6"} -> 0 .. MaxBlocks
      [] op \in {"FORMAT", "MODESELECT", "MODESENSE", "STARTSTOP"} -> {0, 1}
      [] op = "INQUIRY" -> InquiryArgs
      [] OTHER -> {0}

Cdbs(op) ==
    [ lun : LUN, lba : IF op \in {"READ6", "WRITE6", "VERIFY"} THEN Lba ELSE {0}, arg : Args(op) ]

\* (mutant: 0 means 0)
NumberOfBlocksAsSent == cdb.arg

\* The number of blocks of a READ or WRITE: 0 means 256.
NumberOfBlocks == IF cdb.arg = 0 THEN MaxBlocks ELSE cdb.arg

-----------------------------------------------------------------------------
TypeOK ==
    /\ fs \in FsState
    /\ scsiState \in States /\ step \in Steps /\ main \in {"process", "check"}
    /\ cdb \in [lun : LUN, lba : Nat, arg : Nat]
    /\ status \in [bad : BOOLEAN, lun : LUN]
    /\ sense \in [LUN -> SenseData]
    /\ blocks \in Nat
    /\ nrst \in BOOLEAN /\ pend \in BOOLEAN
    /\ bsy \in BOOLEAN /\ phase \in Phases
    /\ wire \in [sel : BOOLEAN, id : BOOLEAN]
    /\ torn \in BOOLEAN /\ whole \in BOOLEAN /\ owed \in [LUN -> BOOLEAN]

\* The store as filesystemInitialise finds it, before it mounts the card.
Unmounted(card) ==
    [ mounted |-> FALSE, started |-> AllStopped, open |-> FALSE, file |-> Absent,
      size |-> Absent, dir |-> card.dir, dat |-> card.dat, dsc |-> card.dsc ]

\* Power on.  I/O is the one status line hostadapterInitialise does not
\* release, so the lines show a data in phase.
Init ==
    /\ \E card \in Cards : \E o \in Mount(Unmounted(card)) : fs = o.fs
    /\ scsiState = "BUSFREE" /\ step = "start" /\ main = "process"
    /\ cdb = [lun |-> 0, lba |-> 0, arg |-> 0]
    /\ status = Good
    /\ sense = [l \in LUN |-> NoSense]
    /\ blocks = 0
    /\ nrst = FALSE /\ pend = FALSE
    /\ bsy = FALSE /\ phase = "DATAIN"
    /\ wire = [sel |-> FALSE, id |-> FALSE]
    /\ torn = FALSE /\ whole = FALSE /\ owed = [l \in LUN |-> FALSE]

-----------------------------------------------------------------------------
(* The frame of a handler.                                                 *)

At(state, s) == main = "process" /\ scsiState = state /\ step = s

\* The handler returns: its caller stores the state, main() looks for a reset.
Return(state) == scsiState' = state /\ step' = "start" /\ main' = "check"

\* The handler goes on at step s.
Continue(s) == step' = s /\ UNCHANGED <<scsiState, main>>

\* (mutants: success forgets an older error; every error is noted for LUN 0)
SucceedAndForget ==
    /\ Return("STATUS")
    /\ status' = Good
    /\ sense' = [sense EXCEPT ![cdb.lun] = NoSense]
    /\ UNCHANGED cdb
FailOfLun0(reason) ==
    /\ Return("STATUS")
    /\ status' = Bad(cdb.lun)
    /\ sense' = [sense EXCEPT ![0] = reason]
    /\ UNCHANGED cdb

\* A handler reports success, or failure with the reason in the sense data.
Succeed ==
    /\ Return("STATUS")
    /\ status' = Good
    /\ UNCHANGED <<cdb, sense>>

Fail(reason) ==
    /\ Return("STATUS")
    /\ status' = Bad(cdb.lun)
    /\ sense' = [sense EXCEPT ![cdb.lun] = reason]
    /\ UNCHANGED cdb

\* (mutant: the image is closed, the LUN stays started)
StopLunNot(s) == CloseLun(s, cdb.lun)

\* "The LUN is in an unknown state": close the image and stop the LUN.
StopLun(s) == { [t EXCEPT !.started[cdb.lun] = FALSE] : t \in CloseLun(s, cdb.lun) }

-----------------------------------------------------------------------------
(* Bus free, bus busy and selection.                                       *)

\* The BSY line is read back: "other" is another device that asserts it.
BusFree ==
    /\ At("BUSFREE", "start")
    /\ \E other \in BOOLEAN :
          scsiState' = IF wire.sel THEN "SELECT"
                       ELSE IF bsy \/ other THEN "BUSBUSY" ELSE "BUSFREE"
    /\ main' = "check"
    /\ UNCHANGED <<fs, step, cmdVars, blocks, rstVars, pinVars, wire, history>>

BusBusy ==
    /\ At("BUSBUSY", "start")
    /\ ~wire.sel
    /\ \E other \in BOOLEAN : Return(IF bsy \/ other THEN "BUSBUSY" ELSE "BUSFREE")
    /\ UNCHANGED <<fs, cmdVars, blocks, rstVars, pinVars, wire, history>>

\* scsiCommandSelect, from either state: first it delays for 1 ms.
SelectBegin ==
    /\ At("SELECT", "start") \/ (At("BUSBUSY", "start") /\ wire.sel)
    /\ Continue("delay")
    /\ UNCHANGED <<fs, cmdVars, blocks, rstVars, pinVars, wire, history>>

\* Then it reads the data bus.  SEL is not looked at again.
SelectDecide ==
    /\ main = "process" /\ step = "delay"
    /\ \/ wire.id /\ bsy' = TRUE /\ Continue("selwait")
       \/ ~wire.id /\ bsy' = bsy /\ Return("BUSBUSY")
    /\ UNCHANGED <<fs, cmdVars, blocks, rstVars, phase, wire, history>>

\* (mutant: the loop does not test the reset flag)
SelectEndDeaf ==
    /\ main = "process" /\ step = "selwait"
    /\ ~wire.sel
    /\ Return("COMMAND")
    /\ UNCHANGED <<fs, cmdVars, blocks, rstVars, pinVars, wire, history>>

\* BSY is held until SEL is released, or a reset.
SelectEnd ==
    /\ main = "process" /\ step = "selwait"
    /\ ~wire.sel \/ nrst
    /\ Return("COMMAND")
    /\ UNCHANGED <<fs, cmdVars, blocks, rstVars, pinVars, wire, history>>

\* SEL held for 250 ms: release BSY and act as if the host had reset.
SelectTimeout ==
    /\ main = "process" /\ step = "selwait"
    /\ wire.sel /\ ~nrst
    /\ bsy' = FALSE /\ nrst' = TRUE
    /\ Return("COMMAND")
    /\ UNCHANGED <<fs, cmdVars, blocks, pend, phase, wire, history>>

-----------------------------------------------------------------------------
(* Command, status and message phases.                                     *)

CommandBegin ==
    /\ At("COMMAND", "start")
    /\ phase' = "COMMAND"
    /\ Continue("bytes")
    /\ UNCHANGED <<fs, cmdVars, blocks, rstVars, bsy, wire, history>>

\* The CDB is read and decoded.  Once the reset flag is set no byte is waited
\* for, and what is read is whatever the data bus shows.
CommandEnd ==
    /\ At("COMMAND", "bytes")
    /\ torn' = nrst
    /\ \E op \in Commands : \E c \in Cdbs(op) :
          /\ cdb' = c
          /\ Return(IF op = "UNKNOWN" THEN "BUSFREE" ELSE op)
    /\ UNCHANGED <<fs, status, sense, blocks, rstVars, pinVars, wire, whole, owed>>

StatusBegin ==
    /\ At("STATUS", "start")
    /\ phase' = "STATUS"
    /\ Continue("bytes")
    /\ UNCHANGED <<fs, cmdVars, blocks, rstVars, bsy, wire, history>>

StatusEnd ==
    /\ At("STATUS", "bytes")
    /\ owed' = IF status.bad /\ ~nrst THEN [owed EXCEPT ![cdb.lun] = TRUE] ELSE owed
    /\ Return("MESSAGE")
    /\ UNCHANGED <<fs, cmdVars, blocks, rstVars, pinVars, wire, torn, whole>>

MessageBegin ==
    /\ At("MESSAGE", "start")
    /\ phase' = "MESSAGEIN"
    /\ Continue("bytes")
    /\ UNCHANGED <<fs, cmdVars, blocks, rstVars, bsy, wire, history>>

\* To BUS FREE; BSY stays asserted.
MessageEnd ==
    /\ At("MESSAGE", "bytes")
    /\ Return("BUSFREE")
    /\ UNCHANGED <<fs, cmdVars, blocks, rstVars, pinVars, wire, history>>

\* The default case of the switch only logs.
InvalidState ==
    /\ At("INVALID", "start")
    /\ Return("INVALID")
    /\ UNCHANGED <<fs, cmdVars, blocks, rstVars, pinVars, wire, history>>

-----------------------------------------------------------------------------
(* Commands that only look at the LUN, and the sense data.                 *)

\* The body TEST UNIT READY, REZERO UNIT and SEEK share.
ReportReady(op) ==
    /\ At(op, "start")
    /\ IF fs.started[cdb.lun] THEN Succeed ELSE Fail("0/02 unit not ready")
    /\ UNCHANGED <<fs, blocks, rstVars, pinVars, wire, history>>

TestUnitReady == ReportReady("TESTUNITREADY")
RezeroUnit == ReportReady("REZEROUNIT")
Seek == ReportReady("SEEK")

\* (mutant: the phase is left as it was)
RequestSenseBeginInPhase ==
    /\ At("REQUESTSENSE", "start")
    /\ Continue("bytes")
    /\ UNCHANGED <<fs, cmdVars, blocks, rstVars, pinVars, wire, history>>

RequestSenseBegin ==
    /\ At("REQUESTSENSE", "start")
    /\ phase' = "DATAIN"
    /\ Continue("bytes")
    /\ UNCHANGED <<fs, cmdVars, blocks, rstVars, bsy, wire, history>>

\* The sense data is cleared whether or not the host took the bytes.
RequestSenseEnd ==
    /\ At("REQUESTSENSE", "bytes")
    /\ sense' = [sense EXCEPT ![cdb.lun] = NoSense]
    /\ status' = Good
    /\ Return("STATUS")
    /\ owed' = IF nrst THEN owed ELSE [owed EXCEPT ![cdb.lun] = FALSE]
    /\ UNCHANGED <<fs, cdb, blocks, rstVars, pinVars, wire, torn, whole>>

StartStop ==
    /\ At("STARTSTOP", "start")
    /\ \E o \in SetLunStatus(fs, cdb.lun, cdb.arg # 0) :
          /\ fs' = o.fs
          /\ IF o.ok \/ cdb.arg = 0 THEN Succeed ELSE Fail("2/24 bad argument")
    /\ UNCHANGED <<blocks, rstVars, pinVars, wire, history>>

\* A stopped LUN gets CHECK CONDITION and no sense data.  Only the first
\* block is compared with the size of the LUN.
Verify ==
    /\ At("VERIFY", "start")
    /\ IF ~fs.started[cdb.lun]
       THEN status' = Bad(cdb.lun) /\ Return("STATUS") /\ UNCHANGED <<cdb, sense>>
       ELSE \E d \in ReadLunDescriptor(fs, cdb.lun) :
              CASE ~d.ok -> Fail("0/04 drive not ready")
                [] d.ok /\ cdb.lba >= d.geometry * SectorsPerTrack ->
                     Fail("2/21 illegal block address")
                [] OTHER -> Succeed
    /\ UNCHANGED <<fs, blocks, rstVars, pinVars, wire, history>>

-----------------------------------------------------------------------------
(* Commands that send or receive a list.                                   *)

\* The list has been sent, as far as the host was there to take it.
SendEnd(op) ==
    /\ At(op, "bytes")
    /\ Succeed
    /\ UNCHANGED <<fs, blocks, rstVars, pinVars, wire, history>>

TranslateBegin ==
    /\ At("TRANSLATE", "start")
    /\ \E d \in ReadLunDescriptor(fs, cdb.lun) :
          IF fs.started[cdb.lun] /\ d.ok
          THEN phase' = "DATAIN" /\ Continue("bytes") /\ UNCHANGED cmdVars
          ELSE phase' = phase /\ Fail("0/04 drive not ready")
    /\ UNCHANGED <<fs, blocks, rstVars, bsy, wire, history>>

TranslateEnd == SendEnd("TRANSLATE")

ModeSenseBegin ==
    /\ At("MODESENSE", "start")
    /\ \E d \in ReadLunDescriptor(fs, cdb.lun) :
          IF cdb.arg = 1 /\ d.ok
          THEN phase' = "DATAIN" /\ Continue("bytes") /\ UNCHANGED cmdVars
          ELSE phase' = phase /\ Fail("2/24 bad argument")
    /\ UNCHANGED <<fs, blocks, rstVars, bsy, wire, history>>

ModeSenseEnd == SendEnd("MODESENSE")

\* A stopped LUN gets an empty descriptor even when the command then fails.
ModeSelectBegin ==
    /\ At("MODESELECT", "start")
    /\ \E o \in IF fs.started[cdb.lun] THEN {Ret(fs, TRUE)}
                ELSE CreateLunDescriptor(fs, cdb.lun) :
          /\ fs' = o.fs
          /\ CASE ~o.ok -> phase' = phase /\ Fail("0/04 drive not ready")
               [] o.ok /\ cdb.arg # 1 -> phase' = phase /\ Fail("2/24 bad argument")
               [] OTHER -> phase' = "DATAOUT" /\ Continue("bytes") /\ UNCHANGED cmdVars
    /\ UNCHANGED <<blocks, rstVars, bsy, wire, history>>

\* The descriptor is written without a look at the reset flag.
ModeSelectEnd ==
    /\ At("MODESELECT", "bytes")
    /\ \E g \in Track : \E o \in WriteLunDescriptor(fs, cdb.lun, g) :
          /\ fs' = o.fs
          /\ IF o.ok THEN Succeed ELSE Fail("0/04 drive not ready")
    /\ UNCHANGED <<blocks, rstVars, pinVars, wire, history>>

\* FORMAT: a stopped LUN gets an image, then a defect list is read if there
\* is one (and ignored).
FormatBegin ==
    /\ At("FORMAT", "start")
    /\ \E o \in IF fs.started[cdb.lun] THEN {Ret(fs, TRUE)} ELSE CreateLunImage(fs, cdb.lun) :
          /\ fs' = o.fs
          /\ CASE ~o.ok -> phase' = phase /\ Fail("2/1C bad format")
               [] o.ok /\ cdb.arg = 1 -> phase' = "DATAOUT" /\ Continue("bytes") /\ UNCHANGED cmdVars
               [] OTHER -> phase' = phase /\ Continue("format") /\ UNCHANGED cmdVars
    /\ UNCHANGED <<blocks, rstVars, bsy, wire, history>>

FormatDefectList ==
    /\ At("FORMAT", "bytes")
    /\ Continue("format")
    /\ UNCHANGED <<fs, cmdVars, blocks, rstVars, pinVars, wire, history>>

\* The result of starting the new LUN is not looked at.
FormatEnd ==
    /\ At("FORMAT", "format")
    /\ \E o \in FormatLun(fs, cdb.lun) :
          \/ /\ ~o.ok
             /\ fs' = [o.fs EXCEPT !.started[cdb.lun] = FALSE]
             /\ Fail("2/1C bad format")
          \/ /\ o.ok
             /\ \E p \in SetLunStatus(o.fs, cdb.lun, TRUE) : fs' = p.fs
             /\ Succeed
    /\ UNCHANGED <<blocks, rstVars, pinVars, wire, history>>

\* INQUIRY never sets the status.  Without EVPD and page code it raises the
\* data in phase and then calls the DMA function that receives; with EVPD it
\* ends without a return statement, so the next state is undefined.
InquiryBegin ==
    /\ At("INQUIRY", "start")
    /\ \/ /\ cdb.arg = 0
          /\ phase' = "DATAIN" /\ Continue("dma")
          /\ UNCHANGED sense
       \/ /\ cdb.arg = 1
          /\ sense' = [sense EXCEPT ![cdb.lun] = "2/21 illegal block address"]
          /\ Return("STATUS")
          /\ UNCHANGED phase
       \/ /\ cdb.arg > 1
          /\ \E state \in States : Return(state)
          /\ UNCHANGED <<sense, phase>>
    /\ UNCHANGED <<fs, cdb, status, blocks, rstVars, bsy, wire, history>>

\* All 256 bytes, or a timeout that sets the reset flag.  Interrupts are on.
InquiryDma ==
    /\ At("INQUIRY", "dma")
    /\ nrst' \in {nrst, TRUE}
    /\ Return("STATUS")
    /\ UNCHANGED <<fs, cmdVars, blocks, pend, pinVars, wire, history>>

-----------------------------------------------------------------------------
(* Block transfers.                                                        *)

OpenLun(op, s) ==
    IF op = "READ6" THEN OpenLunForRead(s, cdb.lun) ELSE OpenLunForWrite(s, cdb.lun, cdb.lba)

\* The common beginning of READ and WRITE: start the LUN if it is stopped,
\* assert the phase, open the image.
TransferBegin(op, itphase, next) ==
    /\ At(op, "start")
    /\ \E a \in SetLunStatus(fs, cdb.lun, TRUE) :
          \/ /\ ~a.ok
             /\ fs' = a.fs /\ Fail("2/1C bad format")
             /\ UNCHANGED <<phase, blocks>>
          \/ /\ a.ok
             /\ phase' = itphase
             /\ \E o \in OpenLun(op, a.fs) :
                   \/ /\ o.ok
                      /\ fs' = o.fs /\ blocks' = NumberOfBlocks
                      /\ Continue(next) /\ UNCHANGED cmdVars
                   \/ /\ ~o.ok
                      /\ fs' \in StopLun(o.fs) /\ blocks' = blocks
                      /\ Fail("0/04 drive not ready")
    /\ UNCHANGED <<rstVars, bsy, wire, history>>

\* The image failed in the middle of a transfer.
TransferFails(s) == fs' \in StopLun(s) /\ blocks' = 0 /\ Fail("0/04 drive not ready")

\* (mutants: the last block is left out; the block counter is not advanced)
NextBlockOneShort(s, next) ==
    /\ blocks' = blocks - 1
    /\ IF blocks <= 2
       THEN fs' \in CloseLun(s, cdb.lun) /\ Succeed
       ELSE fs' = s /\ Continue(next) /\ UNCHANGED cmdVars
NextBlockForever(s, next) ==
    /\ fs' = s /\ Continue(next) /\ UNCHANGED <<cmdVars, blocks>>

\* One block is done: go on with the next, or close the image and report.
NextBlock(s, next) ==
    /\ blocks' = blocks - 1
    /\ IF blocks = 1
       THEN fs' \in CloseLun(s, cdb.lun) /\ Succeed
       ELSE fs' = s /\ Continue(next) /\ UNCHANGED cmdVars

\* (mutant: the flag is tested before interrupts are enabled again)
ResetAfterDmaTooEarly(timeout) == nrst \/ timeout

\* A DMA loop ends: the host took or gave the block, or did not answer.  An
\* RST edge it masked is served when interrupts are enabled again.
ResetAfterDma(timeout) == nrst \/ pend \/ timeout

\* (mutant: a reset leaves the image open)
TransferResetOpen ==
    /\ blocks' = 0
    /\ Return("BUSFREE") /\ UNCHANGED <<fs, cmdVars>>

\* (mutant: a transfer that was cut short is reported as GOOD)
TransferResetGood ==
    /\ fs' \in CloseLun(fs, cdb.lun) /\ blocks' = 0
    /\ Succeed

TransferReset ==
    /\ fs' \in CloseLun(fs, cdb.lun) /\ blocks' = 0
    /\ Return("BUSFREE") /\ UNCHANGED cmdVars

ReadBegin == TransferBegin("READ6", "DATAIN", "block")

ReadBlock ==
    /\ At("READ6", "block")
    /\ \E o \in ReadNextSector(fs, blocks - 1) :
          \/ o.ok /\ fs' = o.fs /\ Continue("dma") /\ UNCHANGED <<cmdVars, blocks>>
          \/ ~o.ok /\ TransferFails(o.fs)
    /\ UNCHANGED <<rstVars, pinVars, wire, history>>

ReadDma ==
    /\ At("READ6", "dma")
    /\ \E timeout \in BOOLEAN :
          /\ nrst' = ResetAfterDma(timeout) /\ pend' = FALSE
          /\ IF nrst' THEN TransferReset ELSE NextBlock(fs, "block")
    /\ UNCHANGED <<pinVars, wire, history>>

WriteBegin == TransferBegin("WRITE6", "DATAOUT", "dma")

WriteDma ==
    /\ At("WRITE6", "dma")
    /\ \E timeout \in BOOLEAN :
          /\ nrst' = ResetAfterDma(timeout) /\ pend' = FALSE
          /\ whole' = ~(nrst \/ pend \/ timeout)
          /\ IF nrst' THEN TransferReset
             ELSE Continue("write") /\ UNCHANGED <<fs, cmdVars, blocks>>
    /\ UNCHANGED <<pinVars, wire, torn, owed>>

WriteBlock ==
    /\ At("WRITE6", "write")
    /\ \E o \in WriteNextSector(fs, cdb.lun) :
          \/ o.ok /\ NextBlock(o.fs, "dma")
          \/ ~o.ok /\ TransferFails(o.fs)
    /\ UNCHANGED <<rstVars, pinVars, wire, history>>

-----------------------------------------------------------------------------
(* The main loop looks at the reset flag between two calls.                *)

\* (mutant: main() calls the handler without a look at the flag)
NoResetUnchecked ==
    /\ main = "check"
    /\ main' = "process"
    /\ UNCHANGED <<fs, scsiState, step, cmdVars, blocks, rstVars, pinVars, wire, history>>

NoReset ==
    /\ main = "check" /\ ~nrst
    /\ main' = "process"
    /\ UNCHANGED <<fs, scsiState, step, cmdVars, blocks, rstVars, pinVars, wire, history>>

\* hostadapterReset, filesystemReset, scsiReset, then the flag is cleared.
\* (An edge during these calls is lost, as if it had come just before.)
Reset ==
    /\ main = "check" /\ nrst
    /\ bsy' = FALSE /\ phase' = "DATAOUT"
    /\ fs' \in FsReset(fs)
    /\ sense' = [l \in LUN |-> NoSense]
    /\ scsiState' = "BUSFREE" /\ step' = "start"
    /\ nrst' = FALSE
    /\ main' = "process"
    /\ torn' = FALSE /\ owed' = [l \in LUN |-> FALSE]
    /\ UNCHANGED <<cdb, status, blocks, pend, wire, whole>>

-----------------------------------------------------------------------------
(* The environment.                                                        *)

\* READ and WRITE transfer blocks with interrupts disabled.
InterruptsOff == step = "dma" /\ scsiState \in {"READ6", "WRITE6"}

\* RST falls: the interrupt handler sets the flag, at once or when it may.
RstEdge ==
    /\ IF InterruptsOff THEN pend' = TRUE /\ nrst' = nrst ELSE nrst' = TRUE /\ pend' = pend
    /\ UNCHANGED <<fs, scsiVars, cmdVars, blocks, pinVars, wire, history>>

\* The wires matter, and so change, only while the target looks at them.
Wires ==
    /\ scsiState \in {"BUSFREE", "BUSBUSY", "SELECT"}
    /\ wire' \in [sel : BOOLEAN, id : BOOLEAN]
    /\ step = "selwait" => wire'.id = wire.id
    /\ UNCHANGED <<fs, scsiVars, cmdVars, blocks, rstVars, pinVars, history>>

\* Another card, or the same one edited elsewhere; not in a block transfer.
ChangeCard ==
    /\ CardSwaps /\ ~fs.open
    /\ \E card \in Cards :
          fs' = [fs EXCEPT !.dir = card.dir, !.dat = card.dat, !.dsc = card.dsc]
    /\ UNCHANGED <<scsiVars, cmdVars, blocks, rstVars, pinVars, wire, history>>

Bus == BusFree \/ BusBusy \/ SelectBegin \/ SelectDecide \/ SelectEnd \/ SelectTimeout
InformationTransfer ==
    CommandBegin \/ CommandEnd \/ StatusBegin \/ StatusEnd \/ MessageBegin \/ MessageEnd
Command ==
    \/ TestUnitReady \/ RezeroUnit \/ Seek \/ RequestSenseBegin \/ RequestSenseEnd
    \/ StartStop \/ Verify \/ TranslateBegin \/ TranslateEnd \/ ModeSenseBegin \/ ModeSenseEnd
    \/ ModeSelectBegin \/ ModeSelectEnd \/ FormatBegin \/ FormatDefectList \/ FormatEnd
    \/ InquiryBegin \/ InquiryDma
Transfer == ReadBegin \/ ReadBlock \/ ReadDma \/ WriteBegin \/ WriteDma \/ WriteBlock

Firmware == Bus \/ InformationTransfer \/ Command \/ Transfer \/ InvalidState \/ NoReset \/ Reset
Environment == RstEdge \/ Wires \/ ChangeCard

Next == Firmware \/ Environment

Spec == Init /\ [][Next]_vars

-----------------------------------------------------------------------------
(* Fairness.  Nothing in the firmware blocks but a REQ/ACK loop, and that   *)
(* one only while the reset flag is clear: a DMA loop times out, and so     *)
(* does the wait for SEL.  The host, the wires and the card are never fair. *)

\* A step the firmware takes without waiting for the host.
Alone == (step = "bytes" => nrst) /\ Firmware

FairSpec == Spec /\ WF_vars(Alone)

-----------------------------------------------------------------------------
(* What must hold.                                                         *)

\* A CDB that a reset cut short is garbage (hostadapterReadByte stops waiting
\* for ACK); the command it happens to spell never starts, because main()
\* tests the reset flag between the decoding and the handler.
NoTornCommandRuns == torn => main = "check"

\* The one file object is open during a block transfer only: no handler
\* returns, on success, failure or reset, with the LUN image still open.
LunClosedOutsideTransfer ==
    fs.open => \/ \E s \in {"block", "dma"} : At("READ6", s)
               \/ \E s \in {"dma", "write"} : At("WRITE6", s)

\* No LUN is started on a card that is not mounted, whichever call failed.
StartedImpliesMounted == (\E l \in LUN : fs.started[l]) => fs.mounted

\* A started LUN has an image and a descriptor, if the card is not changed,
\* has room and does not fail: what START checked stays true while the LUN is started.
StartedLunHasFiles ==
    \A l \in LUN : fs.started[l] => fs.dat[l] # Absent /\ fs.dsc[l] # Absent

\* A block goes to the image only if the host gave all of it: not one that a
\* reset or a timeout cut short.
NoTornBlockWritten == At("WRITE6", "write") => whole

\* The write position, the blocks left and the length of the open image agree,
\* as long as the card has room.
WritePosition ==
    fs.file # Absent /\ scsiState = "WRITE6" /\ step \in {"dma", "write"} =>
        /\ blocks > 0
        /\ fs.file + blocks = cdb.lba + NumberOfBlocks
        /\ fs.size # Absent /\ fs.size >= fs.file

\* WRITE reports GOOD only if the image holds the last block of the request
\* and the directory says so, as long as the card has room and does not fail.
\* (It does not hold on a card that is full: filesystem.c:1373 checks "that the
\* file was written OK", but f_write then returns FR_OK and a short count.  Nor
\* on one that fails: what f_close returns is not looked at.)
WriteComplete ==
    [][ scsiState = "WRITE6" /\ scsiState' = "STATUS" /\ ~status'.bad
          => fs'.dat[cdb.lun] # Absent /\ fs'.dat[cdb.lun] >= cdb.lba + NumberOfBlocks ]_vars

\* The firmware makes an image shorter only to format it.
ImageLostOnlyByFormat ==
    [][ \A l \in LUN :
          fs.dat[l] # Absent /\ (fs'.dat[l] = Absent \/ fs'.dat[l] < fs.dat[l])
            => ChangeCard \/ (At("FORMAT", "format") /\ cdb.lun = l) ]_vars

\* A FORMAT, READ or WRITE that fails leaves the LUN stopped and its image
\* closed ("the LUN is in an unknown state").
FailedLunStopped ==
    [][ scsiState' = "STATUS" /\ status'.bad /\ scsiState \in {"FORMAT", "READ6", "WRITE6"}
          => ~fs'.started[cdb.lun] /\ ~fs'.open ]_vars

\* After a reset no LUN is started whose image the card does not hold, even
\* if the card was changed before.
ResetLeavesOnlyPresentImages ==
    [][ Reset => \A l \in LUN : fs'.started[l] => fs.dat[l] # Absent ]_vars

\* REQUEST SENSE "is needed whenever a CHECK STATUS is found": a host that was
\* told CHECK CONDITION finds the reason, until it fetched it or a reset.
SenseKept == \A l \in LUN : owed[l] /\ ~nrst => sense[l] # NoSense

\* And the other way around: an error that is noted was, or is being,
\* announced by CHECK CONDITION for the same LUN.
SenseAnnounced ==
    \A l \in LUN : sense[l] # NoSense /\ ~nrst =>
        owed[l] \/ (scsiState = "STATUS" /\ status = Bad(l))

\* The calls during which the host drives the data bus: hostadapterReadByte
\* and hostadapterPerformWriteDMA.
Receiving ==
    \/ step = "bytes" /\ scsiState \in {"COMMAND", "MODESELECT", "FORMAT"}
    \/ step = "dma" /\ scsiState \in {"WRITE6", "INQUIRY"}

\* The direction the I/O line shows is the direction of the transfer.
PhaseMatchesDirection ==
    step \in {"bytes", "dma"} => (Receiving <=> phase \in {"DATAOUT", "COMMAND"})

\* The target as an initiator sees it.  (It is not while INQUIRY with EVPD is
\* sent: the state after it is undefined.)
Transferring == scsiState \in {"READ6", "WRITE6"} /\ main = "process" /\ step # "start"
HostStage ==
    CASE scsiState \in {"BUSFREE", "BUSBUSY", "SELECT"} -> "free"
      [] scsiState = "COMMAND" -> "command"
      [] scsiState = "STATUS" -> "status"
      [] scsiState = "MESSAGE" -> "message"
      [] OTHER -> "execute"
HostAsked == IF scsiState \in {"READ6", "WRITE6"} THEN NumberOfBlocks ELSE 0
HostMoved ==
    IF ~Transferring THEN 0
    ELSE IF step = "write" THEN NumberOfBlocks - blocks + 1 ELSE NumberOfBlocks - blocks
HostResult == IF scsiState # "STATUS" THEN "none" ELSE IF status.bad THEN "check" ELSE "good"
HostReset == nrst \/ pend
Host == INSTANCE ScsiCommand WITH
    stage <- HostStage, asked <- HostAsked, moved <- HostMoved, result <- HostResult, reset <- HostReset

\* Every command that is accepted ends with one status and one message, GOOD
\* only after its last block, and without a status only for a reset: the exits
\* of all the handlers of scsi.c, and the loops of READ and WRITE.
ImplementsCommand == Host!CommandSpec

\* A reset ends whatever the target does, even with a host that never
\* answers again: the bus is released and the target waits for selection.
ResetCompletes ==
    (nrst \/ pend) ~> (scsiState = "BUSFREE" /\ main = "process" /\ ~nrst /\ ~bsy)

\* With a host that acknowledges each byte in the end, every command ends in
\* BUS FREE.
CommandCompletes ==
    WF_vars(Firmware) => ((scsiState = "COMMAND") ~> (scsiState = "BUSFREE"))

-----------------------------------------------------------------------------
(* What comments in the source say and the program does not do.            *)

\* scsi.c:687, "Transition to the bus free state (command is complete)".
BusFreeReleasesBsy == scsiState = "BUSFREE" => ~bsy \/ nrst
=============================================================================
