--------------------------- MODULE ScsiTargetProofs ---------------------------
(***************************************************************************)
(* Proofs about ScsiTarget, for every set of LUNs, cards, commands and     *)
(* blocks, whatever fails: the type invariant and the safety invariants    *)
(* about the reset, the transfer file and the mounted card; then the       *)
(* action properties; then the invariants that need an assumption.         *)
(***************************************************************************)
EXTENDS ScsiTarget, FileSystemProofs

\* A block transfer is under way.
Reading == scsiState = "READ6" /\ step \in {"block", "dma"}
Writing == scsiState = "WRITE6" /\ step \in {"dma", "write"}

\* Where the thread is, the transfer file and the reset flag agree.
Control ==
    /\ main = "check" => step = "start"
    /\ fs.open => Reading \/ Writing
    /\ Reading \/ Writing => fs.open /\ blocks # 0
    /\ Reading \/ Writing => FileOf(fs, cdb.lun)
    /\ scsiState \in {"READ6", "WRITE6"} => step = "start" \/ Reading \/ Writing
    /\ torn => main = "check" /\ nrst
    /\ scsiState = "WRITE6" /\ step = "write" => whole

Inv == TypeOK /\ Sound(fs) /\ Control

-----------------------------------------------------------------------------
(* The initial states.                                                     *)

LEMMA InitInv == Init => Inv
<1> SUFFICES ASSUME Init PROVE Inv
  OBVIOUS
<1>0. PICK card \in Cards : \E o \in Mount(Unmounted(card)) : fs = o.fs
  BY DEF Init
<1>1. PICK o \in Mount(Unmounted(card)) : fs = o.fs
  BY <1>0
<1>2. Unmounted(card) \in FsState
  BY ScsiAssumption DEF Unmounted, FsState, AllStopped
<1>3. Sound(Unmounted(card)) /\ ~Unmounted(card).open
  BY <1>2 DEF Sound, Unmounted, AllStopped
<1>4. Sound(fs) /\ ~fs.open
  BY <1>1, <1>3, MountSound DEF SoundOutcome, SameFile
<1>5. cdb \in [lun : LUN, lba : Nat, arg : Nat] /\ status \in [bad : BOOLEAN, lun : LUN]
  BY Constants DEF Init, Good
<1>6. /\ sense \in [LUN -> SenseData] /\ owed \in [LUN -> BOOLEAN]
      /\ wire \in [sel : BOOLEAN, id : BOOLEAN]
  BY DEF Init, SenseData, NoSense
<1>7. TypeOK
  BY <1>4, <1>5, <1>6 DEF Init, TypeOK, Sound, States, Handlers, Steps, Phases
<1>8. Control
  BY <1>4 DEF Init, Control, Reading, Writing
<1>9. QED
  BY <1>4, <1>7, <1>8 DEF Inv

-----------------------------------------------------------------------------
(* The bus.                                                                *)

LEMMA BusInv == ASSUME Inv, Bus PROVE Inv'
<1> USE DEF At, Return, Continue, cmdVars, pinVars, rstVars, history, scsiVars
<1>1. CASE BusFree
  BY <1>1 DEF BusFree, Inv, TypeOK, Control, Reading, Writing, States
<1>2. CASE BusBusy
  BY <1>2 DEF BusBusy, Inv, TypeOK, Control, Reading, Writing, States, Steps
<1>3. CASE SelectBegin
  BY <1>3 DEF SelectBegin, Inv, TypeOK, Control, Reading, Writing, Steps
<1>4. CASE SelectDecide
  <2>1. /\ bsy' \in BOOLEAN /\ step = "delay"
        /\ \/ step' = "selwait" /\ scsiState' = scsiState /\ main' = main
           \/ step' = "start" /\ scsiState' = "BUSBUSY" /\ main' = "check"
        /\ UNCHANGED <<fs, cdb, status, sense, blocks, nrst, pend, phase, wire, torn, whole, owed>>
    BY <1>4 DEF SelectDecide, Inv, TypeOK
  <2>2. TypeOK'
    BY <2>1 DEF Inv, TypeOK, States, Steps
  <2>3. Control'
    BY <2>1 DEF Inv, Control, Reading, Writing
  <2>4. QED
    BY <2>1, <2>2, <2>3 DEF Inv
<1>5. CASE SelectEnd
  BY <1>5 DEF SelectEnd, Inv, TypeOK, Control, Reading, Writing, States, Steps
<1>6. CASE SelectTimeout
  BY <1>6 DEF SelectTimeout, Inv, TypeOK, Control, Reading, Writing, States, Steps
<1>7. QED
  BY <1>1, <1>2, <1>3, <1>4, <1>5, <1>6 DEF Bus

-----------------------------------------------------------------------------
(* Command, status and message.                                            *)

LEMMA CdbType ==
    ASSUME NEW op \in Commands, NEW c \in Cdbs(op)
    PROVE  c \in [lun : LUN, lba : Nat, arg : Nat]
<1>1. Lba \subseteq Nat /\ InquiryArgs \subseteq Nat /\ MaxBlocks \in Nat
  BY ScsiAssumption
<1>2. Args(op) \subseteq Nat
  BY <1>1 DEF Args
<1> DEFINE lbas == IF op \in {"READ6", "WRITE6", "VERIFY"} THEN Lba ELSE {0}
<1>3. lbas \subseteq Nat
  BY <1>1
<1>4. c \in [lun : LUN, lba : lbas, arg : Args(op)]
  BY DEF Cdbs
<1> HIDE DEF lbas
<1>5. QED
  BY <1>2, <1>3, <1>4

LEMMA InformationTransferInv == ASSUME Inv, InformationTransfer PROVE Inv'
<1> USE DEF At, Return, Continue, cmdVars, pinVars, rstVars, history, scsiVars
<1>1. CASE CommandBegin
  BY <1>1 DEF CommandBegin, Inv, TypeOK, Control, Reading, Writing, Steps, Phases
<1>2. CASE CommandEnd
  <2>1. PICK op \in Commands, c \in [lun : LUN, lba : Nat, arg : Nat] :
           cdb' = c /\ Return(IF op = "UNKNOWN" THEN "BUSFREE" ELSE op)
    BY <1>2, CdbType DEF CommandEnd
  <2>2. scsiState' \in States
    BY <2>1, ScsiAssumption DEF States
  <2>3. scsiState = "COMMAND" /\ step' = "start" /\ main' = "check" /\ torn' = nrst
    BY <1>2, <2>1 DEF CommandEnd
  <2>4. QED
    BY <1>2, <2>1, <2>2, <2>3 DEF CommandEnd, Inv, TypeOK, Control, Reading, Writing, Steps
<1>3. CASE StatusBegin
  BY <1>3 DEF StatusBegin, Inv, TypeOK, Control, Reading, Writing, Steps, Phases
<1>4. CASE StatusEnd
  BY <1>4 DEF StatusEnd, Inv, TypeOK, Control, Reading, Writing, States, Steps
<1>5. CASE MessageBegin
  BY <1>5 DEF MessageBegin, Inv, TypeOK, Control, Reading, Writing, Steps, Phases
<1>6. CASE MessageEnd
  BY <1>6 DEF MessageEnd, Inv, TypeOK, Control, Reading, Writing, States, Steps
<1>7. QED
  BY <1>1, <1>2, <1>3, <1>4, <1>5, <1>6 DEF InformationTransfer

-----------------------------------------------------------------------------
(* The commands.                                                           *)

\* A handler that is not in a transfer either ends or goes on at a step of
\* its own.
Ends ==
    /\ status' \in [bad : BOOLEAN, lun : LUN] /\ sense' \in [LUN -> SenseData]
    /\ cdb' = cdb
    /\ scsiState' \in States /\ step' = "start" /\ main' = "check"
GoesOn ==
    /\ UNCHANGED cmdVars
    /\ scsiState' = scsiState /\ step' \in {"bytes", "format", "dma"} /\ main' = main

\* It keeps the invariant if it leaves the transfer file alone.
LEMMA OutsideTransfer ==
    ASSUME Inv, scsiState \notin {"READ6", "WRITE6"}, main = "process",
           Sound(fs'), SameFile(fs, fs'), Ends \/ GoesOn,
           blocks' = blocks, nrst' \in {nrst, TRUE}, pend' = pend, bsy' = bsy,
           phase' \in Phases, wire' = wire, torn' = torn, whole' = whole,
           owed' \in [LUN -> BOOLEAN]
    PROVE  Inv'
<1>1. fs' \in FsState
  BY DEF Sound
<1>2. TypeOK'
  BY <1>1 DEF Inv, TypeOK, Steps, Ends, GoesOn, cmdVars
<1>3. ~fs'.open
  BY DEF Inv, Control, SameFile, Reading, Writing
<1>4. ~torn
  BY DEF Inv, Control
<1>5. Control'
  <2>1. CASE Ends
    <3>1. step' = "start" /\ main' = "check"
      BY <2>1 DEF Ends
    <3>2. ~Reading' /\ ~Writing'
      BY <3>1 DEF Reading, Writing
    <3>3. QED
      BY <1>3, <1>4, <3>1, <3>2 DEF Control
  <2>2. CASE GoesOn
    <3>1. scsiState' = scsiState /\ main' = "process"
      BY <2>2 DEF GoesOn
    <3>2. ~Reading' /\ ~Writing'
      BY <3>1 DEF Reading, Writing
    <3>3. QED
      BY <1>3, <1>4, <3>1, <3>2 DEF Control
  <2>3. QED
    BY <2>1, <2>2
<1>6. QED
  BY <1>2, <1>5 DEF Inv

LEMMA FailEnds == ASSUME Inv, NEW reason \in SenseData, Fail(reason) PROVE Ends
BY DEF Fail, Return, Bad, Inv, TypeOK, Ends, States

LEMMA SucceedEnds == ASSUME Inv, Succeed PROVE Ends
BY Constants DEF Succeed, Return, Good, Inv, TypeOK, Ends, States

LEMMA Reasons ==
    { "0/02 unit not ready", "0/04 drive not ready", "2/1C bad format", "2/24 bad argument",
      "2/21 illegal block address" } \subseteq SenseData
BY DEF SenseData

LEMMA SameFs == ASSUME Inv, fs' = fs PROVE Sound(fs') /\ SameFile(fs, fs')
BY DEF Inv, SameFile

LEMMA TypeFacts ==
    ASSUME Inv
    PROVE  /\ Sound(fs) /\ cdb.lun \in LUN /\ cdb.lba \in Nat /\ cdb.arg \in Nat
           /\ phase \in Phases /\ owed \in [LUN -> BOOLEAN]
BY DEF Inv, TypeOK

LEMMA CommandInv == ASSUME Inv, Command PROVE Inv'
<1> USE DEF At, rstVars, history
<1>1. ASSUME NEW op \in { "TESTUNITREADY", "REZEROUNIT", "SEEK" }, ReportReady(op) PROVE Inv'
  <2>1. Ends
    BY <1>1, FailEnds, SucceedEnds, Reasons DEF ReportReady
  <2>2. QED
    BY <1>1, <2>1, SameFs, TypeFacts, OutsideTransfer DEF ReportReady, pinVars
<1>2. CASE RequestSenseBegin
  <2>1. GoesOn
    BY <1>2 DEF RequestSenseBegin, Continue, GoesOn
  <2>2. QED
    BY <1>2, <2>1, SameFs, TypeFacts, OutsideTransfer DEF RequestSenseBegin, Phases
<1>3. CASE RequestSenseEnd
  <2>1. Ends
    BY <1>3, Constants DEF RequestSenseEnd, Return, Good, Ends, Inv, TypeOK, States, SenseData
  <2>2. owed' \in [LUN -> BOOLEAN]
    BY <1>3, TypeFacts DEF RequestSenseEnd
  <2>3. QED
    BY <1>3, <2>1, <2>2, SameFs, TypeFacts, OutsideTransfer DEF RequestSenseEnd, pinVars
<1>4. CASE StartStop
  <2>1. PICK o \in SetLunStatus(fs, cdb.lun, cdb.arg # 0) :
           fs' = o.fs /\ (Succeed \/ Fail("2/24 bad argument"))
    BY <1>4 DEF StartStop
  <2>2. SoundOutcome(fs, o)
    BY TypeFacts, SetLunStatusSound
  <2>3. Ends
    BY <2>1, FailEnds, SucceedEnds, Reasons
  <2>4. QED
    BY <1>4, <2>1, <2>2, <2>3, TypeFacts, OutsideTransfer DEF StartStop, pinVars, SoundOutcome
<1>5. CASE Verify
  <2>1. Ends
    <3>1. \/ status' = Bad(cdb.lun) /\ Return("STATUS") /\ UNCHANGED <<cdb, sense>>
          \/ Fail("0/04 drive not ready") \/ Fail("2/21 illegal block address") \/ Succeed
      BY <1>5 DEF Verify
    <3>2. CASE status' = Bad(cdb.lun) /\ Return("STATUS") /\ UNCHANGED <<cdb, sense>>
      BY <3>2 DEF Bad, Return, Ends, Inv, TypeOK, States
    <3>3. QED
      BY <3>1, <3>2, FailEnds, SucceedEnds, Reasons
  <2>2. QED
    BY <1>5, <2>1, SameFs, TypeFacts, OutsideTransfer DEF Verify, pinVars
<1>6. ASSUME NEW op \in { "TRANSLATE", "MODESENSE" }, SendEnd(op) PROVE Inv'
  <2>1. Ends
    BY <1>6, SucceedEnds DEF SendEnd
  <2>2. QED
    BY <1>6, <2>1, SameFs, TypeFacts, OutsideTransfer DEF SendEnd, pinVars
<1>7. CASE TranslateBegin
  <2>1. (phase' = "DATAIN" /\ GoesOn) \/ (phase' = phase /\ Ends)
    <3>1. \/ phase' = "DATAIN" /\ Continue("bytes") /\ UNCHANGED cmdVars
          \/ phase' = phase /\ Fail("0/04 drive not ready")
      BY <1>7 DEF TranslateBegin
    <3>2. QED
      BY <1>7, <3>1, FailEnds, Reasons DEF TranslateBegin, Continue, GoesOn
  <2>2. QED
    BY <1>7, <2>1, SameFs, TypeFacts, OutsideTransfer DEF TranslateBegin, Phases
<1>8. CASE ModeSenseBegin
  <2>1. (phase' = "DATAIN" /\ GoesOn) \/ (phase' = phase /\ Ends)
    <3>1. \/ phase' = "DATAIN" /\ Continue("bytes") /\ UNCHANGED cmdVars
          \/ phase' = phase /\ Fail("2/24 bad argument")
      BY <1>8 DEF ModeSenseBegin
    <3>2. QED
      BY <1>8, <3>1, FailEnds, Reasons DEF ModeSenseBegin, Continue, GoesOn
  <2>2. QED
    BY <1>8, <2>1, SameFs, TypeFacts, OutsideTransfer DEF ModeSenseBegin, Phases
<1>9. CASE ModeSelectBegin
  <2>1. PICK o \in IF fs.started[cdb.lun] THEN {Ret(fs, TRUE)} ELSE CreateLunDescriptor(fs, cdb.lun) :
           /\ fs' = o.fs
           /\ \/ phase' = phase /\ Fail("0/04 drive not ready")
              \/ phase' = phase /\ Fail("2/24 bad argument")
              \/ phase' = "DATAOUT" /\ Continue("bytes") /\ UNCHANGED cmdVars
    BY <1>9 DEF ModeSelectBegin
  <2>2. SoundOutcome(fs, o)
    BY TypeFacts, Unchanged, CreateLunDescriptorSound
  <2>3. (phase' = phase /\ Ends) \/ (phase' = "DATAOUT" /\ GoesOn)
    BY <1>9, <2>1, FailEnds, Reasons DEF Continue, GoesOn
  <2>4. QED
    BY <1>9, <2>1, <2>2, <2>3, TypeFacts, OutsideTransfer DEF ModeSelectBegin, Phases, SoundOutcome
<1>10. CASE ModeSelectEnd
  <2>1. PICK g \in Track, o \in UNION { WriteLunDescriptor(fs, cdb.lun, h) : h \in Track } :
           /\ o \in WriteLunDescriptor(fs, cdb.lun, g) /\ fs' = o.fs
           /\ Succeed \/ Fail("0/04 drive not ready")
    BY <1>10 DEF ModeSelectEnd
  <2>2. SoundOutcome(fs, o)
    BY <2>1, TypeFacts, WriteLunDescriptorSound
  <2>3. Ends
    BY <2>1, FailEnds, SucceedEnds, Reasons
  <2>4. QED
    BY <1>10, <2>1, <2>2, <2>3, TypeFacts, OutsideTransfer DEF ModeSelectEnd, pinVars, SoundOutcome
<1>11. CASE FormatBegin
  <2>1. PICK o \in IF fs.started[cdb.lun] THEN {Ret(fs, TRUE)} ELSE CreateLunImage(fs, cdb.lun) :
           /\ fs' = o.fs
           /\ \/ phase' = phase /\ Fail("2/1C bad format")
              \/ phase' = "DATAOUT" /\ Continue("bytes") /\ UNCHANGED cmdVars
              \/ phase' = phase /\ Continue("format") /\ UNCHANGED cmdVars
    BY <1>11 DEF FormatBegin
  <2>2. SoundOutcome(fs, o)
    BY TypeFacts, Unchanged, CreateLunImageSound
  <2>3. phase' \in {phase, "DATAOUT"} /\ (Ends \/ GoesOn)
    BY <1>11, <2>1, FailEnds, Reasons DEF Continue, GoesOn
  <2>4. QED
    BY <1>11, <2>1, <2>2, <2>3, TypeFacts, OutsideTransfer DEF FormatBegin, Phases, SoundOutcome
<1>12. CASE FormatDefectList
  <2>1. GoesOn
    BY <1>12 DEF FormatDefectList, Continue, GoesOn
  <2>2. QED
    BY <1>12, <2>1, SameFs, TypeFacts, OutsideTransfer DEF FormatDefectList, pinVars
<1>13. CASE FormatEnd
  <2>1. PICK o \in FormatLun(fs, cdb.lun) :
           \/ fs' = [o.fs EXCEPT !.started[cdb.lun] = FALSE] /\ Fail("2/1C bad format")
           \/ (\E p \in SetLunStatus(o.fs, cdb.lun, TRUE) : fs' = p.fs) /\ Succeed
    BY <1>13 DEF FormatEnd
  <2>2. Sound(o.fs) /\ SameFile(fs, o.fs)
    BY TypeFacts, FormatLunSound
  <2>3. Sound(fs') /\ SameFile(fs, fs')
    <3>1. CASE fs' = [o.fs EXCEPT !.started[cdb.lun] = FALSE]
      <4>1. fs' \in FsState
        BY <2>2, <3>1, TypeFacts, Updates DEF Sound
      <4>2. /\ SameFile(o.fs, fs') /\ fs'.mounted = o.fs.mounted
            /\ \A l \in LUN : fs'.started[l] => o.fs.started[l]
        BY <2>2, <3>1, TypeFacts DEF Sound, FsState, SameFile
      <4>3. QED
        BY <2>2, <4>1, <4>2 DEF Sound, SameFile
    <3>2. ASSUME NEW p \in SetLunStatus(o.fs, cdb.lun, TRUE), fs' = p.fs
          PROVE  Sound(fs') /\ SameFile(fs, fs')
      <4>1. SoundOutcome(o.fs, p)
        BY <2>2, TypeFacts, SetLunStatusSound
      <4>2. QED
        BY <2>2, <3>2, <4>1 DEF SoundOutcome, SameFile
    <3>3. QED
      BY <2>1, <3>1, <3>2
  <2>4. Ends
    BY <2>1, FailEnds, SucceedEnds, Reasons
  <2>5. QED
    BY <1>13, <2>3, <2>4, TypeFacts, OutsideTransfer DEF FormatEnd, pinVars
<1>14. CASE InquiryBegin
  <2>1. phase' \in {phase, "DATAIN"} /\ (Ends \/ GoesOn)
    <3>1. CASE phase' = "DATAIN" /\ Continue("dma") /\ UNCHANGED sense
      BY <1>14, <3>1 DEF InquiryBegin, Continue, GoesOn, cmdVars
    <3>2. CASE /\ sense' = [sense EXCEPT ![cdb.lun] = "2/21 illegal block address"]
               /\ Return("STATUS") /\ UNCHANGED phase
      BY <1>14, <3>2, Reasons DEF InquiryBegin, Return, Ends, Inv, TypeOK, States
    <3>3. CASE (\E state \in States : Return(state)) /\ UNCHANGED <<sense, phase>>
      BY <1>14, <3>3 DEF InquiryBegin, Return, Ends, Inv, TypeOK
    <3>4. QED
      BY <1>14, <3>1, <3>2, <3>3 DEF InquiryBegin
  <2>2. QED
    BY <1>14, <2>1, SameFs, TypeFacts, OutsideTransfer DEF InquiryBegin, Phases
<1>15. CASE InquiryDma
  <2>1. Ends
    BY <1>15 DEF InquiryDma, Return, Ends, Inv, TypeOK, States, cmdVars
  <2>2. QED
    BY <1>15, <2>1, SameFs, TypeFacts, OutsideTransfer DEF InquiryDma, pinVars
<1>16. QED
  BY <1>1, <1>2, <1>3, <1>4, <1>5, <1>6, <1>7, <1>8, <1>9, <1>10, <1>11, <1>12, <1>13, <1>14, <1>15
     DEF Command, TestUnitReady, RezeroUnit, Seek, TranslateEnd, ModeSenseEnd

-----------------------------------------------------------------------------
(* Block transfers.                                                        *)

\* The transfer is over: the image is closed, the command ends or is dropped.
LEMMA TransferOver ==
    ASSUME Inv, main = "process",
           Sound(fs'), ~fs'.open, Ends, blocks' \in Nat,
           nrst' \in BOOLEAN, pend' \in BOOLEAN, bsy' = bsy,
           phase' \in Phases, wire' = wire, torn' = torn, whole' \in BOOLEAN,
           owed' = owed
    PROVE  Inv'
<1>1. fs' \in FsState /\ ~torn
  BY DEF Sound, Inv, Control
<1>2. TypeOK'
  BY <1>1 DEF Inv, TypeOK, Steps, Ends
<1>3. Control'
  BY <1>1 DEF Control, Reading, Writing, Ends
<1>4. QED
  BY <1>2, <1>3 DEF Inv

\* The transfer goes on, with the image open and a block to come.
LEMMA TransferGoesOn ==
    ASSUME Inv, main = "process", scsiState \in {"READ6", "WRITE6"},
           Sound(fs'), fs'.open, UNCHANGED cmdVars,
           scsiState' = scsiState, main' = main,
           step' \in (IF scsiState = "READ6" THEN {"block", "dma"} ELSE {"dma", "write"}),
           blocks' \in Nat, blocks' # 0,
           FileOf(fs', cdb.lun),
           scsiState = "WRITE6" /\ step' = "write" => whole',
           nrst' \in BOOLEAN, pend' \in BOOLEAN, bsy' = bsy,
           phase' \in Phases, wire' = wire, torn' = torn, whole' \in BOOLEAN,
           owed' = owed
    PROVE  Inv'
<1>1. fs' \in FsState /\ ~torn
  BY DEF Sound, Inv, Control
<1>2. TypeOK'
  BY <1>1 DEF Inv, TypeOK, Steps, cmdVars
<1>3. Control'
  BY <1>1 DEF Control, Reading, Writing, cmdVars
<1>4. QED
  BY <1>2, <1>3 DEF Inv

LEMMA StopLunSound ==
    ASSUME NEW s, Sound(s), cdb.lun \in LUN, s.open => FileOf(s, cdb.lun), NEW t \in StopLun(s)
    PROVE  /\ Sound(t) /\ Keeps(s, t) /\ ~t.open /\ ~t.started[cdb.lun]
           /\ t.dsc = s.dsc /\ \A l \in LUN : t.started[l] => s.started[l]
<1>1. PICK u \in CloseLun(s, cdb.lun) : t = [u EXCEPT !.started[cdb.lun] = FALSE]
  BY DEF StopLun
<1>2. Sound(u) /\ Keeps(s, u) /\ ~u.open /\ u.dsc = s.dsc /\ u.started = s.started
  BY CloseLunSound
<1>3. t \in FsState
  BY <1>1, <1>2, Updates DEF Sound
<1>4. /\ t.mounted = u.mounted /\ t.open = u.open /\ t.dat = u.dat /\ t.dsc = u.dsc
      /\ ~t.started[cdb.lun] /\ \A l \in LUN : t.started[l] => u.started[l]
  BY <1>1, <1>2 DEF Sound, FsState
<1>5. QED
  BY <1>2, <1>3, <1>4 DEF Sound, Keeps

LEMMA BlocksPositive == ASSUME Inv PROVE NumberOfBlocks \in Nat /\ NumberOfBlocks # 0
BY TypeFacts, ScsiAssumption DEF NumberOfBlocks

\* The beginning: the LUN is not started, or the image is opened or not.
LEMMA TransferBeginInv ==
    ASSUME Inv, NEW op \in {"READ6", "WRITE6"}, NEW itphase \in Phases, At(op, "start"),
           NEW next, next = IF op = "READ6" THEN "block" ELSE "dma",
           NEW a \in SetLunStatus(fs, cdb.lun, TRUE), NEW opened,
           \A o \in opened :
              Sound(a.fs) => OpenOutcome(a.fs, o) /\ (o.ok => FileOf(o.fs, cdb.lun)),
           \/ fs' = a.fs /\ Fail("2/1C bad format") /\ UNCHANGED <<phase, blocks>>
           \/ /\ phase' = itphase
              /\ \E o \in opened :
                    \/ /\ o.ok
                       /\ fs' = o.fs /\ blocks' = NumberOfBlocks
                       /\ Continue(next) /\ UNCHANGED cmdVars
                    \/ /\ ~o.ok
                       /\ fs' \in StopLun(o.fs) /\ blocks' = blocks
                       /\ Fail("0/04 drive not ready"),
           UNCHANGED <<rstVars, bsy, wire, history>>
    PROVE  Inv'
<1>1. SoundOutcome(fs, a) /\ ~fs.open /\ main = "process" /\ scsiState = op
  BY TypeFacts, SetLunStatusSound DEF Inv, Control, Reading, Writing, At
<1>2. ~a.fs.open /\ blocks \in Nat /\ nrst \in BOOLEAN /\ pend \in BOOLEAN /\ whole \in BOOLEAN
  BY <1>1 DEF SoundOutcome, SameFile, Inv, TypeOK
<1>3. CASE fs' = a.fs /\ Fail("2/1C bad format") /\ UNCHANGED <<phase, blocks>>
  <2>1. Ends
    BY <1>3, FailEnds, Reasons
  <2>2. QED
    BY <1>1, <1>2, <1>3, <2>1, TypeFacts, TransferOver DEF SoundOutcome, rstVars, history
<1>4. ASSUME NEW o \in opened, phase' = itphase
      PROVE  /\ o.ok /\ fs' = o.fs /\ blocks' = NumberOfBlocks /\ Continue(next)
                /\ UNCHANGED cmdVars => Inv'
             /\ fs' \in StopLun(o.fs) /\ blocks' = blocks /\ Fail("0/04 drive not ready") => Inv'
  <2>1. OpenOutcome(a.fs, o) /\ (o.ok => FileOf(o.fs, cdb.lun))
    BY <1>1, <1>4 DEF SoundOutcome
  <2>2. ASSUME o.ok, fs' = o.fs, blocks' = NumberOfBlocks, Continue(next), UNCHANGED cmdVars
        PROVE  Inv'
    BY <1>1, <1>2, <1>4, <2>1, <2>2, BlocksPositive, TransferGoesOn
       DEF OpenOutcome, Continue, rstVars, history
  <2>3. ASSUME fs' \in StopLun(o.fs), blocks' = blocks, Fail("0/04 drive not ready") PROVE Inv'
    <3>1. Ends
      BY <2>3, FailEnds, Reasons
    <3>2. Sound(fs') /\ ~fs'.open
      BY <1>2, <2>1, <2>3, TypeFacts, StopLunSound DEF OpenOutcome
    <3>3. QED
      BY <1>1, <1>2, <1>4, <2>3, <3>1, <3>2, TypeFacts, TransferOver DEF rstVars, history
  <2>4. QED
    BY <2>2, <2>3
<1>5. QED
  BY <1>3, <1>4

\* What is known in the middle of a transfer.
LEMMA TransferFacts ==
    ASSUME Inv, main = "process", Reading \/ Writing
    PROVE  /\ Sound(fs) /\ fs.open /\ cdb.lun \in LUN /\ FileOf(fs, cdb.lun)
           /\ blocks \in Nat /\ blocks # 0 /\ blocks - 1 \in Nat
           /\ nrst \in BOOLEAN /\ pend \in BOOLEAN /\ whole \in BOOLEAN
           /\ phase \in Phases
BY DEF Inv, TypeOK, Control

LEMMA TransferFailsInv ==
    ASSUME Inv, main = "process", Reading \/ Writing, NEW s, Sound(s), FileOf(s, cdb.lun),
           TransferFails(s),
           UNCHANGED <<rstVars, pinVars, wire, history>>
    PROVE  Inv'
<1>1. Ends
  BY FailEnds, Reasons DEF TransferFails
<1>2. Sound(fs') /\ ~fs'.open /\ blocks' \in Nat
  BY TransferFacts, StopLunSound DEF TransferFails
<1>3. QED
  BY <1>1, <1>2, TransferFacts, TransferOver DEF rstVars, pinVars, history

LEMMA TransferResetInv ==
    ASSUME Inv, main = "process", Reading \/ Writing, TransferReset,
           nrst' \in BOOLEAN, pend' \in BOOLEAN, whole' \in BOOLEAN,
           UNCHANGED <<pinVars, wire, torn, owed>>
    PROVE  Inv'
<1>1. Ends
  BY DEF TransferReset, Return, Ends, cmdVars, Inv, TypeOK, States
<1>2. Sound(fs') /\ ~fs'.open /\ blocks' \in Nat
  BY TransferFacts, CloseLunSound DEF TransferReset
<1>3. QED
  BY <1>1, <1>2, TransferFacts, TransferOver DEF pinVars

LEMMA NextBlockInv ==
    ASSUME Inv, main = "process", Reading \/ Writing, NEW s, Sound(s), s.open,
           NEW next, next = IF scsiState = "READ6" THEN "block" ELSE "dma", NextBlock(s, next),
           FileOf(s, cdb.lun),
           nrst' \in BOOLEAN, pend' \in BOOLEAN,
           UNCHANGED <<pinVars, wire, history>>
    PROVE  Inv'
<1>1. blocks' = blocks - 1 /\ blocks' \in Nat
  BY TransferFacts DEF NextBlock
<1>2. CASE blocks = 1
  <2>1. Ends
    BY <1>2, SucceedEnds DEF NextBlock
  <2>2. Sound(fs') /\ ~fs'.open
    BY <1>2, TransferFacts, CloseLunSound DEF NextBlock
  <2>3. QED
    BY <1>1, <2>1, <2>2, TransferFacts, TransferOver DEF pinVars, history
<1>3. CASE blocks # 1
  <2>1. fs' = s /\ Continue(next) /\ UNCHANGED cmdVars
    BY <1>3 DEF NextBlock
  <2>2. blocks' # 0
    BY <1>1, <1>3, TransferFacts
  <2>3. scsiState \in {"READ6", "WRITE6"}
    BY DEF Reading, Writing
  <2>4. next # "write"
    OBVIOUS
  <2>5. QED
    BY <1>1, <2>1, <2>2, <2>3, <2>4, TransferFacts, TransferGoesOn DEF Continue, pinVars, history
<1>4. QED
  BY <1>2, <1>3

LEMMA TransferInv == ASSUME Inv, Transfer PROVE Inv'
<1> USE DEF At
<1>1. CASE ReadBegin
  <2>1. PICK a \in SetLunStatus(fs, cdb.lun, TRUE) :
           \/ fs' = a.fs /\ Fail("2/1C bad format") /\ UNCHANGED <<phase, blocks>>
           \/ /\ phase' = "DATAIN"
              /\ \E o \in OpenLunForRead(a.fs, cdb.lun) :
                    \/ /\ o.ok
                       /\ fs' = o.fs /\ blocks' = NumberOfBlocks
                       /\ Continue("block") /\ UNCHANGED cmdVars
                    \/ /\ ~o.ok
                       /\ fs' \in StopLun(o.fs) /\ blocks' = blocks
                       /\ Fail("0/04 drive not ready")
    BY <1>1 DEF ReadBegin, TransferBegin, OpenLun
  <2>2. \A o \in OpenLunForRead(a.fs, cdb.lun) : Sound(a.fs) =>
           OpenOutcome(a.fs, o) /\ (o.ok => FileOf(o.fs, cdb.lun))
    BY TypeFacts, OpenLunForReadSound
  <2>3. At("READ6", "start") /\ UNCHANGED <<rstVars, bsy, wire, history>>
    BY <1>1 DEF ReadBegin, TransferBegin, OpenLun
  <2>4. "DATAIN" \in Phases
    BY DEF Phases
  <2>5. QED
    BY <2>1, <2>2, <2>3, <2>4, TransferBeginInv
<1>2. CASE WriteBegin
  <2>1. PICK a \in SetLunStatus(fs, cdb.lun, TRUE) :
           \/ fs' = a.fs /\ Fail("2/1C bad format") /\ UNCHANGED <<phase, blocks>>
           \/ /\ phase' = "DATAOUT"
              /\ \E o \in OpenLunForWrite(a.fs, cdb.lun, cdb.lba) :
                    \/ /\ o.ok
                       /\ fs' = o.fs /\ blocks' = NumberOfBlocks
                       /\ Continue("dma") /\ UNCHANGED cmdVars
                    \/ /\ ~o.ok
                       /\ fs' \in StopLun(o.fs) /\ blocks' = blocks
                       /\ Fail("0/04 drive not ready")
    BY <1>2 DEF WriteBegin, TransferBegin, OpenLun
  <2>2. \A o \in OpenLunForWrite(a.fs, cdb.lun, cdb.lba) : Sound(a.fs) =>
           OpenOutcome(a.fs, o) /\ (o.ok => FileOf(o.fs, cdb.lun))
    BY TypeFacts, OpenLunForWriteSound
  <2>3. At("WRITE6", "start") /\ UNCHANGED <<rstVars, bsy, wire, history>>
    BY <1>2 DEF WriteBegin, TransferBegin, OpenLun
  <2>4. "DATAOUT" \in Phases
    BY DEF Phases
  <2>5. QED
    BY <2>1, <2>2, <2>3, <2>4, TransferBeginInv
<1>3. CASE ReadBlock
  <2>1. Reading /\ main = "process"
    BY <1>3 DEF ReadBlock, Reading
  <2>2. PICK o \in ReadNextSector(fs, blocks - 1) :
           \/ fs' = o.fs /\ Continue("dma") /\ UNCHANGED <<cmdVars, blocks>>
           \/ TransferFails(o.fs)
    BY <1>3 DEF ReadBlock
  <2>3. Sound(o.fs) /\ o.fs.open /\ FileOf(o.fs, cdb.lun)
    BY <2>1, TransferFacts, ReadNextSectorSound
  <2>4. CASE fs' = o.fs /\ Continue("dma") /\ UNCHANGED <<cmdVars, blocks>>
    BY <1>3, <2>1, <2>3, <2>4, TransferFacts, TransferGoesOn
       DEF ReadBlock, Continue, rstVars, pinVars, history
  <2>5. CASE TransferFails(o.fs)
    BY <1>3, <2>1, <2>3, <2>5, TransferFailsInv DEF ReadBlock
  <2>6. QED
    BY <2>2, <2>4, <2>5
<1>4. CASE ReadDma
  <2>1. Reading /\ main = "process"
    BY <1>4 DEF ReadDma, Reading
  <2>2. nrst' \in BOOLEAN /\ pend' \in BOOLEAN /\ UNCHANGED <<pinVars, wire, history>>
    BY <1>4, <2>1, TransferFacts DEF ReadDma, ResetAfterDma
  <2>3. CASE TransferReset
    BY <2>1, <2>2, <2>3, TransferFacts, TransferResetInv DEF history
  <2>4. CASE NextBlock(fs, "block")
    BY <1>4, <2>1, <2>2, <2>4, TransferFacts, NextBlockInv DEF ReadDma
  <2>5. QED
    BY <1>4, <2>3, <2>4 DEF ReadDma
<1>5. CASE WriteDma
  <2>1. Writing /\ main = "process"
    BY <1>5 DEF WriteDma, Writing
  <2>2. /\ nrst' \in BOOLEAN /\ pend' \in BOOLEAN /\ whole' \in BOOLEAN
        /\ ~nrst' => whole'
        /\ UNCHANGED <<pinVars, wire, torn, owed>>
    BY <1>5, <2>1, TransferFacts DEF WriteDma, ResetAfterDma
  <2>3. CASE TransferReset
    BY <2>1, <2>2, <2>3, TransferResetInv
  <2>4. CASE ~nrst' /\ Continue("write") /\ UNCHANGED <<fs, cmdVars, blocks>>
    <3>1. scsiState = "WRITE6"
      BY <2>1 DEF Writing
    <3>2. QED
      BY <2>1, <2>2, <2>4, <3>1, TransferFacts, TransferGoesOn DEF Continue, pinVars
  <2>5. QED
    BY <1>5, <2>3, <2>4 DEF WriteDma
<1>6. CASE WriteBlock
  <2>1. Writing /\ main = "process" /\ scsiState = "WRITE6"
    BY <1>6 DEF WriteBlock, Writing
  <2>2. PICK o \in WriteNextSector(fs, cdb.lun) : NextBlock(o.fs, "dma") \/ TransferFails(o.fs)
    BY <1>6 DEF WriteBlock
  <2>3. Sound(o.fs) /\ o.fs.open /\ FileOf(o.fs, cdb.lun)
    BY <2>1, TransferFacts, WriteNextSectorSound
  <2>4. UNCHANGED <<rstVars, pinVars, wire, history>>
    BY <1>6 DEF WriteBlock
  <2>5. CASE NextBlock(o.fs, "dma")
    BY <2>1, <2>3, <2>4, <2>5, TransferFacts, NextBlockInv DEF rstVars
  <2>6. CASE TransferFails(o.fs)
    BY <2>1, <2>3, <2>4, <2>6, TransferFailsInv
  <2>7. QED
    BY <2>2, <2>5, <2>6
<1>7. QED
  BY <1>1, <1>2, <1>3, <1>4, <1>5, <1>6 DEF Transfer

-----------------------------------------------------------------------------
(* The main loop and the environment.                                      *)

LEMMA MainInv == ASSUME Inv, NoReset \/ Reset \/ InvalidState PROVE Inv'
<1>1. CASE NoReset
  BY <1>1 DEF NoReset, Inv, TypeOK, Control, Reading, Writing, cmdVars, rstVars, pinVars, history
<1>2. CASE Reset
  <2>1. step = "start" /\ ~fs.open /\ Sound(fs)
    BY <1>2 DEF Reset, Inv, Control, Reading, Writing
  <2>2. Sound(fs') /\ ~fs'.open /\ fs' \in FsState
    BY <1>2, <2>1, FsResetSound DEF Reset, SameFile, Sound
  <2>3. sense' \in [LUN -> SenseData] /\ owed' \in [LUN -> BOOLEAN]
    BY <1>2 DEF Reset, SenseData, NoSense
  <2>4. TypeOK'
    BY <1>2, <2>2, <2>3 DEF Reset, Inv, TypeOK, States, Steps, Phases
  <2>5. Control'
    BY <1>2, <2>2 DEF Reset, Control, Reading, Writing
  <2>6. QED
    BY <2>2, <2>4, <2>5 DEF Inv
<1>3. CASE InvalidState
  BY <1>3 DEF InvalidState, At, Return, Inv, TypeOK, Control, Reading, Writing, States, Steps,
              cmdVars, rstVars, pinVars, history
<1>4. QED
  BY <1>1, <1>2, <1>3

LEMMA EnvironmentInv == ASSUME Inv, Environment PROVE Inv'
<1>1. CASE RstEdge
  <2>1. nrst \in BOOLEAN /\ pend \in BOOLEAN
    BY DEF Inv, TypeOK
  <2>2. nrst' \in BOOLEAN /\ pend' \in BOOLEAN /\ (nrst => nrst')
    <3>1. CASE InterruptsOff
      BY <1>1, <2>1, <3>1 DEF RstEdge
    <3>2. CASE ~InterruptsOff
      BY <1>1, <2>1, <3>2 DEF RstEdge
    <3>3. QED
      BY <3>1, <3>2
  <2>3. UNCHANGED <<fs, scsiVars, cmdVars, blocks, pinVars, wire, history>>
    BY <1>1 DEF RstEdge
  <2>4. TypeOK'
    BY <2>2, <2>3 DEF Inv, TypeOK, scsiVars, cmdVars, pinVars, history
  <2>5. Sound(fs')
    BY <2>3 DEF Inv
  <2>6. Control'
    BY <2>2, <2>3 DEF Inv, Control, Reading, Writing, scsiVars, cmdVars, history
  <2>7. QED
    BY <2>4, <2>5, <2>6 DEF Inv
<1>2. CASE Wires
  <2>1. wire' \in [sel : BOOLEAN, id : BOOLEAN]
    BY <1>2 DEF Wires
  <2>2. UNCHANGED <<fs, scsiVars, cmdVars, blocks, rstVars, pinVars, history>>
    BY <1>2 DEF Wires
  <2>3. TypeOK'
    BY <2>1, <2>2 DEF Inv, TypeOK, scsiVars, cmdVars, rstVars, pinVars, history
  <2>4. Sound(fs')
    BY <2>2 DEF Inv
  <2>5. Control'
    BY <2>2 DEF Inv, Control, Reading, Writing, scsiVars, cmdVars, rstVars, history
  <2>6. QED
    BY <2>3, <2>4, <2>5 DEF Inv
<1>3. CASE ChangeCard
  <2>1. PICK card \in Cards : fs' = [fs EXCEPT !.dir = card.dir, !.dat = card.dat, !.dsc = card.dsc]
    BY <1>3 DEF ChangeCard
  <2>2. /\ card.dir \in BOOLEAN /\ card.dat \in [LUN -> Nat \cup {Absent}]
        /\ card.dsc \in [LUN -> Nat \cup {Absent, Empty}]
    BY ScsiAssumption
  <2>3. fs \in FsState /\ ~fs.open
    BY <1>3 DEF ChangeCard, Inv, TypeOK
  <2>4. fs' \in FsState
    BY <2>1, <2>2, <2>3 DEF FsState
  <2>5. fs'.open = fs.open /\ fs'.mounted = fs.mounted /\ fs'.started = fs.started
    BY <2>1, <2>3 DEF FsState
  <2>6. Sound(fs')
    BY <2>4, <2>5 DEF Inv, Sound
  <2>7. QED
    BY <1>3, <2>3, <2>4, <2>5, <2>6
       DEF ChangeCard, Inv, TypeOK, Control, Reading, Writing, cmdVars, scsiVars, rstVars, pinVars, history
<1>4. QED
  BY <1>1, <1>2, <1>3 DEF Environment

LEMMA NextInv == ASSUME Inv, [Next]_vars PROVE Inv'
<1>1. CASE Next
  BY <1>1, BusInv, InformationTransferInv, CommandInv, TransferInv, MainInv, EnvironmentInv
     DEF Next, Firmware
<1>2. CASE UNCHANGED vars
  <2>1. TypeOK'
    BY <1>2 DEF vars, Inv, TypeOK, cmdVars, scsiVars, rstVars, pinVars, history
  <2>2. Sound(fs') /\ Control'
    BY <1>2 DEF vars, Inv, Control, Reading, Writing, cmdVars, scsiVars, rstVars, pinVars, history
  <2>3. QED
    BY <2>1, <2>2 DEF Inv
<1>3. QED
  BY <1>1, <1>2

LEMMA AlwaysInv == Spec => []Inv
BY InitInv, NextInv, PTL DEF Spec

-----------------------------------------------------------------------------
\* The variables of the target and of the store keep their types, whatever
\* the host sends, the card holds and FatFs returns.
THEOREM TypeCorrect == Spec => []TypeOK
BY AlwaysInv, PTL DEF Inv

\* A command block that a reset cut short is never carried out.
THEOREM NoTornCommand == Spec => []NoTornCommandRuns
<1>1. Inv => NoTornCommandRuns
  BY DEF Inv, Control, NoTornCommandRuns
<1>2. QED
  BY <1>1, AlwaysInv, PTL

\* No handler leaves the transfer file open behind it.
THEOREM TransferFileClosed == Spec => []LunClosedOutsideTransfer
<1>1. ASSUME Inv, fs.open
      PROVE  \/ \E s \in {"block", "dma"} : At("READ6", s)
             \/ \E s \in {"dma", "write"} : At("WRITE6", s)
  <2>1. Reading \/ Writing
    BY <1>1 DEF Inv, Control
  <2>2. main = "process"
    BY <1>1, <2>1 DEF Inv, Control, TypeOK, Reading, Writing
  <2>3. CASE Reading
    BY <2>2, <2>3 DEF Reading, At
  <2>4. CASE Writing
    BY <2>2, <2>4 DEF Writing, At
  <2>5. QED
    BY <2>1, <2>3, <2>4
<1>2. Inv => LunClosedOutsideTransfer
  BY <1>1 DEF LunClosedOutsideTransfer
<1>3. QED
  BY <1>2, AlwaysInv, PTL

\* No LUN is started on a card that is not mounted.
THEOREM StartedOnlyMounted == Spec => []StartedImpliesMounted
<1>1. Inv => StartedImpliesMounted
  BY DEF Inv, Sound, StartedImpliesMounted
<1>2. QED
  BY <1>1, AlwaysInv, PTL

\* A block that a reset or a timeout cut short is never written.
THEOREM OnlyWholeBlocks == Spec => []NoTornBlockWritten
<1>1. Inv => NoTornBlockWritten
  BY DEF Inv, Control, NoTornBlockWritten, At
<1>2. QED
  BY <1>1, AlwaysInv, PTL

-----------------------------------------------------------------------------
(* What no step of the firmware may do to an image or to the status of a   *)
(* LUN, and invariants that hold under an assumption on the commands or on *)
(* the card (sense data, the direction of transfers, what WRITE leaves in  *)
(* the image, the files of started LUNs).                                  *)

LEMMA KeepsItself == ASSUME Inv, fs' = fs PROVE Keeps(fs, fs')
BY KeepsSame DEF Inv, Sound

-----------------------------------------------------------------------------
(* Every step but the second half of FORMAT keeps the images.              *)

LEMMA CommandKeeps == ASSUME Inv, Command, ~FormatEnd PROVE Keeps(fs, fs')
<1>1. CASE fs' = fs
  BY <1>1, KeepsItself
<1>2. CASE StartStop
  <2>1. PICK o \in SetLunStatus(fs, cdb.lun, cdb.arg # 0) : fs' = o.fs
    BY <1>2 DEF StartStop
  <2>2. QED
    BY <2>1, TypeFacts, SetLunStatusSound DEF SoundOutcome
<1>3. CASE ModeSelectBegin
  <2>1. PICK o \in IF fs.started[cdb.lun] THEN {Ret(fs, TRUE)} ELSE CreateLunDescriptor(fs, cdb.lun) :
           fs' = o.fs
    BY <1>3 DEF ModeSelectBegin
  <2>2. QED
    BY <2>1, TypeFacts, Unchanged, CreateLunDescriptorSound DEF SoundOutcome
<1>4. CASE ModeSelectEnd
  <2>1. PICK g \in Track, o \in UNION { WriteLunDescriptor(fs, cdb.lun, h) : h \in Track } :
           o \in WriteLunDescriptor(fs, cdb.lun, g) /\ fs' = o.fs
    BY <1>4 DEF ModeSelectEnd
  <2>2. QED
    BY <2>1, TypeFacts, WriteLunDescriptorSound DEF SoundOutcome
<1>5. CASE FormatBegin
  <2>1. PICK o \in IF fs.started[cdb.lun] THEN {Ret(fs, TRUE)} ELSE CreateLunImage(fs, cdb.lun) :
           fs' = o.fs
    BY <1>5 DEF FormatBegin
  <2>2. QED
    BY <2>1, TypeFacts, Unchanged, CreateLunImageSound DEF SoundOutcome
<1>6. \/ fs' = fs \/ StartStop \/ ModeSelectBegin \/ ModeSelectEnd \/ FormatBegin
  BY DEF Command, TestUnitReady, RezeroUnit, Seek, ReportReady, RequestSenseBegin, RequestSenseEnd,
         Verify, TranslateBegin, TranslateEnd, SendEnd, ModeSenseBegin, ModeSenseEnd,
         FormatDefectList, InquiryBegin, InquiryDma
<1>7. QED
  BY <1>1, <1>2, <1>3, <1>4, <1>5, <1>6

\* What TransferBegin does to the store.
LEMMA TransferBeginFs ==
    ASSUME Inv, NEW op \in {"READ6", "WRITE6"}, NEW itphase, NEW next,
           TransferBegin(op, itphase, next)
    PROVE  /\ Keeps(fs, fs')
           /\ scsiState' = "STATUS" => ~fs'.started[cdb.lun] /\ ~fs'.open
<1>1. /\ scsiState = op /\ ~fs.open /\ Sound(fs) /\ cdb.lun \in LUN
  BY TypeFacts DEF TransferBegin, At, Inv, Control, Reading, Writing
<1>2. PICK a \in SetLunStatus(fs, cdb.lun, TRUE) :
         \/ ~a.ok /\ fs' = a.fs
         \/ \E o \in OpenLun(op, a.fs) :
               \/ o.ok /\ fs' = o.fs /\ Continue(next)
               \/ ~o.ok /\ fs' \in StopLun(o.fs)
  BY DEF TransferBegin
<1>3. SoundOutcome(fs, a) /\ (~a.ok => ~a.fs.started[cdb.lun])
  BY <1>1, SetLunStatusSound, SetLunStatusOn
<1>4. CASE ~a.ok /\ fs' = a.fs
  BY <1>1, <1>3, <1>4 DEF SoundOutcome, SameFile
<1>5. ASSUME NEW o \in OpenLun(op, a.fs),
             \/ o.ok /\ fs' = o.fs /\ Continue(next)
             \/ ~o.ok /\ fs' \in StopLun(o.fs)
      PROVE  /\ Keeps(fs, fs')
             /\ scsiState' = "STATUS" => ~fs'.started[cdb.lun] /\ ~fs'.open
  <2>1. OpenOutcome(a.fs, o)
    BY <1>1, <1>3, TypeFacts, OpenLunForReadSound, OpenLunForWriteSound DEF OpenLun, SoundOutcome
  <2>2. Keeps(fs, o.fs) /\ Sound(o.fs)
    BY <1>1, <1>3, <2>1, KeepsTransitive DEF SoundOutcome, OpenOutcome, Sound
  <2>3. CASE fs' = o.fs /\ Continue(next)
    BY <1>1, <2>2, <2>3 DEF Continue
  <2>4. CASE ~o.ok /\ fs' \in StopLun(o.fs)
    <3>0. ~o.fs.open
      BY <1>1, <1>3, <2>1, <2>4 DEF SoundOutcome, SameFile, OpenOutcome
    <3>1. Sound(fs') /\ Keeps(o.fs, fs') /\ ~fs'.started[cdb.lun] /\ ~fs'.open
      BY <1>1, <2>2, <2>4, <3>0, StopLunSound
    <3>2. QED
      BY <1>1, <2>2, <3>1, KeepsTransitive DEF Sound
  <2>5. QED
    BY <1>5, <2>3, <2>4
<1>6. QED
  BY <1>2, <1>4, <1>5

\* What a step in the middle of a transfer does to the store: it goes on, is
\* over (on success or a reset), or fails.
LEMMA TransferStepFs ==
    ASSUME Inv, ReadBlock \/ ReadDma \/ WriteDma \/ WriteBlock
    PROVE  /\ Keeps(fs, fs')
           /\ scsiState' = "STATUS" /\ status'.bad => ~fs'.started[cdb.lun] /\ ~fs'.open
<1>1. /\ main = "process" /\ (Reading \/ Writing)
      /\ (ReadBlock \/ ReadDma => Reading) /\ (WriteDma \/ WriteBlock => Writing)
  BY DEF ReadBlock, ReadDma, WriteDma, WriteBlock, At, Reading, Writing
<1>2. /\ Sound(fs) /\ FileOf(fs, cdb.lun) /\ cdb.lun \in LUN
      /\ scsiState \in {"READ6", "WRITE6"}
  BY <1>1, TransferFacts DEF Reading, Writing
<1> DEFINE Stopped == ~fs'.started[cdb.lun] /\ ~fs'.open
           Goal == Keeps(fs, fs') /\ (scsiState' = "STATUS" /\ status'.bad => Stopped)
<1>3. ASSUME NEW s, Sound(s), Keeps(fs, s), FileOf(s, cdb.lun), TransferFails(s) PROVE Goal
  <2>1. Sound(fs') /\ Keeps(s, fs') /\ Stopped
    BY <1>2, <1>3, StopLunSound DEF TransferFails
  <2>2. QED
    BY <1>2, <1>3, <2>1, KeepsTransitive DEF Sound
<1>4. ASSUME NEW s, Sound(s), Keeps(fs, s), FileOf(s, cdb.lun), NEW next, NextBlock(s, next)
      PROVE  Goal
  <2>1. fs' = s \/ fs' \in CloseLun(s, cdb.lun)
    BY <1>4 DEF NextBlock
  <2>2. Keeps(fs, fs')
    BY <1>2, <1>4, <2>1, CloseLunSound, KeepsTransitive DEF Sound
  <2>3. ~(scsiState' = "STATUS" /\ status'.bad)
    BY <1>2, <1>4 DEF NextBlock, Succeed, Good, Continue
  <2>4. QED
    BY <2>2, <2>3
<1>5. CASE TransferReset
  BY <1>2, <1>5, CloseLunSound DEF TransferReset, Return
<1>6. CASE fs' = fs /\ (Continue("dma") \/ Continue("write"))
  BY <1>2, <1>6, KeepsItself DEF Continue
<1>7. Keeps(fs, fs)
  BY <1>2, KeepsSame DEF Sound
<1>8. CASE ReadBlock
  <2>1. PICK o \in ReadNextSector(fs, blocks - 1) :
           (fs' = o.fs /\ Continue("dma")) \/ TransferFails(o.fs)
    BY <1>8 DEF ReadBlock
  <2>2. Sound(o.fs) /\ Keeps(fs, o.fs) /\ FileOf(o.fs, cdb.lun)
    BY <1>2, ReadNextSectorSound
  <2>3. CASE fs' = o.fs /\ Continue("dma")
    BY <1>2, <2>2, <2>3 DEF Continue
  <2>4. QED
    BY <1>3, <2>1, <2>2, <2>3
<1>9. CASE ReadDma
  <2>1. TransferReset \/ NextBlock(fs, "block")
    BY <1>9 DEF ReadDma
  <2>2. QED
    BY <1>2, <1>4, <1>5, <1>7, <2>1
<1>10. CASE WriteDma
  <2>1. TransferReset \/ (fs' = fs /\ Continue("write"))
    BY <1>10 DEF WriteDma
  <2>2. QED
    BY <1>5, <1>6, <2>1
<1>11. CASE WriteBlock
  <2>1. PICK o \in WriteNextSector(fs, cdb.lun) : NextBlock(o.fs, "dma") \/ TransferFails(o.fs)
    BY <1>11 DEF WriteBlock
  <2>2. Sound(o.fs) /\ Keeps(fs, o.fs) /\ FileOf(o.fs, cdb.lun)
    BY <1>2, WriteNextSectorSound
  <2>3. QED
    BY <1>3, <1>4, <2>1, <2>2
<1>12. QED
  BY <1>8, <1>9, <1>10, <1>11

LEMMA TransferKeeps == ASSUME Inv, Transfer PROVE Keeps(fs, fs')
<1>1. CASE ReadBegin \/ WriteBegin
  BY <1>1, TransferBeginFs DEF ReadBegin, WriteBegin
<1>2. CASE ReadBlock \/ ReadDma \/ WriteDma \/ WriteBlock
  BY <1>2, TransferStepFs
<1>3. QED
  BY <1>1, <1>2 DEF Transfer

\* A reset makes descriptors and stops LUNs.
LEMMA ResetKeeps == ASSUME Inv, Reset PROVE Keeps(fs, fs')
BY FsResetSound, TypeFacts DEF Reset

LEMMA StepKeeps == ASSUME Inv, Next, ~FormatEnd, ~ChangeCard PROVE Keeps(fs, fs')
<1>1. \/ fs' = fs \/ Command \/ Transfer \/ Reset
  BY DEF Next, Firmware, Environment, Bus, BusFree, BusBusy, SelectBegin, SelectDecide, SelectEnd,
         SelectTimeout, InformationTransfer, CommandBegin, CommandEnd, StatusBegin, StatusEnd,
         MessageBegin, MessageEnd, InvalidState, NoReset, RstEdge, Wires
<1>2. QED
  BY <1>1, KeepsItself, CommandKeeps, TransferKeeps, ResetKeeps

\* FORMAT touches the image of its own LUN only.
LEMMA FormatKeepsOthers ==
    ASSUME Inv, FormatEnd
    PROVE  \A l \in LUN \ {cdb.lun} : fs'.dat[l] = fs.dat[l]
<1>1. PICK o \in FormatLun(fs, cdb.lun) :
         \/ fs' = [o.fs EXCEPT !.started[cdb.lun] = FALSE]
         \/ \E p \in SetLunStatus(o.fs, cdb.lun, TRUE) : fs' = p.fs
  BY DEF FormatEnd
<1>2. Sound(o.fs) /\ \A l \in LUN \ {cdb.lun} : o.fs.dat[l] = fs.dat[l]
  BY TypeFacts, FormatLunSound
<1>3. fs'.dat = o.fs.dat
  <2>1. CASE fs' = [o.fs EXCEPT !.started[cdb.lun] = FALSE]
    BY <1>2, <2>1, TypeFacts DEF Sound, FsState
  <2>2. ASSUME NEW p \in SetLunStatus(o.fs, cdb.lun, TRUE), fs' = p.fs PROVE fs'.dat = o.fs.dat
    <3>1. StartedFor(o.fs, cdb.lun, p.fs, p.ok)
      BY <1>2, TypeFacts, SetLunStatusOn
    <3>2. QED
      BY <2>2, <3>1 DEF StartedFor
  <2>3. QED
    BY <1>1, <2>1, <2>2
<1>4. QED
  BY <1>2, <1>3

\* The firmware makes an image shorter, or loses it, only to format it.
THEOREM ImagesKept == Spec => ImageLostOnlyByFormat
<1>1. ASSUME Inv, Next, NEW l \in LUN,
             fs.dat[l] # Absent, fs'.dat[l] = Absent \/ fs'.dat[l] < fs.dat[l]
      PROVE  ChangeCard \/ (At("FORMAT", "format") /\ cdb.lun = l)
  <2>1. fs.dat[l] \in Nat /\ fs'.dat[l] \in Nat \cup {Absent}
    BY <1>1, NextInv, Fields DEF Inv, Sound
  <2>2. ~Keeps(fs, fs')
    BY <1>1, <2>1 DEF Keeps
  <2>3. FormatEnd \/ ChangeCard
    BY <1>1, <2>2, StepKeeps
  <2>4. CASE FormatEnd
    <3>1. At("FORMAT", "format")
      BY <2>4 DEF FormatEnd
    <3>2. cdb.lun = l
      BY <1>1, <2>1, <2>4, FormatKeepsOthers
    <3>3. QED
      BY <3>1, <3>2
  <2>5. QED
    BY <2>3, <2>4
<1>2. Inv /\ [Next]_vars =>
        [ \A l \in LUN :
            fs.dat[l] # Absent /\ (fs'.dat[l] = Absent \/ fs'.dat[l] < fs.dat[l])
              => ChangeCard \/ (At("FORMAT", "format") /\ cdb.lun = l) ]_vars
  BY <1>1
<1>3. QED
  BY <1>2, AlwaysInv, PTL DEF Spec, ImageLostOnlyByFormat

-----------------------------------------------------------------------------
(* Failed transfers, and the reset.                                        *)

\* The two halves of FORMAT that may fail.
LEMMA FormatFails ==
    ASSUME Inv, FormatBegin \/ FormatEnd, scsiState' = "STATUS", status'.bad
    PROVE  ~fs'.started[cdb.lun] /\ ~fs'.open
<1>1. ~fs.open /\ Sound(fs) /\ cdb.lun \in LUN /\ scsiState = "FORMAT"
  BY TypeFacts DEF FormatBegin, FormatEnd, At, Inv, Control, Reading, Writing
<1>2. CASE FormatBegin
  <2>1. PICK o \in IF fs.started[cdb.lun] THEN {Ret(fs, TRUE)} ELSE CreateLunImage(fs, cdb.lun) :
           fs' = o.fs /\ ~o.ok
    <3>1. ~Continue("bytes") /\ ~Continue("format")
      BY <1>1 DEF Continue
    <3>2. PICK o \in IF fs.started[cdb.lun] THEN {Ret(fs, TRUE)}
                     ELSE CreateLunImage(fs, cdb.lun) :
             fs' = o.fs /\ (~o.ok \/ Continue("bytes") \/ Continue("format"))
      BY <1>2 DEF FormatBegin
    <3>3. QED
      BY <3>1, <3>2
  <2>2. ~fs.started[cdb.lun] /\ o \in CreateLunImage(fs, cdb.lun)
    BY <2>1 DEF Ret
  <2>3. SoundOutcome(fs, o) /\ o.fs.started = fs.started
    BY <1>1, <2>2, CreateLunImageSound, CreateLunImageStatus
  <2>4. QED
    BY <1>1, <2>1, <2>2, <2>3 DEF SoundOutcome, SameFile
<1>3. CASE FormatEnd
  <2>1. PICK o \in FormatLun(fs, cdb.lun) : fs' = [o.fs EXCEPT !.started[cdb.lun] = FALSE]
    <3>1. ~Succeed
      BY DEF Succeed, Good
    <3>2. QED
      BY <1>3, <3>1 DEF FormatEnd
  <2>2. Sound(o.fs) /\ SameFile(fs, o.fs)
    BY <1>1, FormatLunSound
  <2>3. fs'.open = o.fs.open /\ ~fs'.started[cdb.lun]
    BY <1>1, <2>1, <2>2 DEF Sound, FsState
  <2>4. QED
    BY <1>1, <2>2, <2>3 DEF SameFile
<1>4. QED
  BY <1>2, <1>3

\* Only the actions of a handler report its failure.
LEMMA WhoFails ==
    ASSUME Inv, Next, scsiState' = "STATUS", scsiState \in {"FORMAT", "READ6", "WRITE6"}
    PROVE  FormatBegin \/ FormatEnd \/ Transfer
<1>1. scsiState # scsiState'
  OBVIOUS
<1>2. CASE Firmware
  <2>1. ~Bus
    BY DEF Bus, BusFree, BusBusy, SelectBegin, SelectDecide, SelectEnd, SelectTimeout, At, Continue,
           Return
  <2>2. ~InformationTransfer /\ ~InvalidState
    BY DEF InformationTransfer, CommandBegin, CommandEnd, StatusBegin, StatusEnd, MessageBegin,
           MessageEnd, InvalidState, At, Continue, Return
  <2>3. ~NoReset /\ ~Reset
    BY DEF NoReset, Reset
  <2>4. CASE Command
    BY <2>4 DEF Command, TestUnitReady, RezeroUnit, Seek, ReportReady, RequestSenseBegin,
           RequestSenseEnd, StartStop, Verify, TranslateBegin, TranslateEnd, SendEnd, ModeSenseBegin,
           ModeSenseEnd, ModeSelectBegin, ModeSelectEnd, FormatDefectList, InquiryBegin, InquiryDma,
           At, Continue
  <2>5. QED
    BY <1>2, <2>1, <2>2, <2>3, <2>4 DEF Firmware
<1>3. CASE Environment
  BY <1>3 DEF Environment, RstEdge, Wires, ChangeCard, scsiVars
<1>4. QED
  BY <1>2, <1>3 DEF Next

\* A FORMAT, READ or WRITE that fails leaves its LUN stopped and the file closed.
THEOREM FailureStopsLun == Spec => FailedLunStopped
<1>1. ASSUME Inv, Next, scsiState' = "STATUS", status'.bad,
             scsiState \in {"FORMAT", "READ6", "WRITE6"}
      PROVE  ~fs'.started[cdb.lun] /\ ~fs'.open
  <2>1. FormatBegin \/ FormatEnd \/ Transfer
    BY <1>1, WhoFails
  <2>2. CASE FormatBegin \/ FormatEnd
    BY <1>1, <2>2, FormatFails
  <2>3. CASE ReadBegin \/ WriteBegin
    BY <1>1, <2>3, TransferBeginFs DEF ReadBegin, WriteBegin
  <2>4. CASE ReadBlock \/ ReadDma \/ WriteDma \/ WriteBlock
    BY <1>1, <2>4, TransferStepFs
  <2>5. QED
    BY <2>1, <2>2, <2>3, <2>4 DEF Transfer
<1>2. Inv /\ [Next]_vars =>
        [ scsiState' = "STATUS" /\ status'.bad /\ scsiState \in {"FORMAT", "READ6", "WRITE6"}
            => ~fs'.started[cdb.lun] /\ ~fs'.open ]_vars
  BY <1>1
<1>3. QED
  BY <1>2, AlwaysInv, PTL DEF Spec, FailedLunStopped

\* After a reset no LUN is started whose image is not on the card.
THEOREM ResetChecksImages == Spec => ResetLeavesOnlyPresentImages
<1>1. ASSUME Inv, Reset, NEW l \in LUN, fs'.started[l] PROVE fs.dat[l] # Absent
  BY <1>1, TypeFacts, FsResetStatus DEF Reset
<1>2. Inv /\ [Next]_vars =>
        [ Reset => \A l \in LUN : fs'.started[l] => fs.dat[l] # Absent ]_vars
  BY <1>1
<1>3. QED
  BY <1>2, AlwaysInv, PTL DEF Spec, ResetLeavesOnlyPresentImages

-----------------------------------------------------------------------------
(* Selection.                                                              *)

\* The two waits of scsiCommandSelect are in the states that call it.
Selecting == step \in {"delay", "selwait"} => scsiState \in {"SELECT", "BUSBUSY"}

LEMMA NextSelecting == ASSUME Selecting, [Next]_vars PROVE Selecting'
<1> USE DEF At, Return, Continue
<1>1. CASE Bus
  BY <1>1 DEF Bus, BusFree, BusBusy, SelectBegin, SelectDecide, SelectEnd, SelectTimeout, Selecting
<1>2. CASE InformationTransfer \/ InvalidState
  BY <1>2 DEF InformationTransfer, CommandBegin, CommandEnd, StatusBegin, StatusEnd, MessageBegin,
              MessageEnd, InvalidState, Selecting
<1>3. CASE Command
  <2>1. step' \in {"start", "bytes", "format", "dma"}
    BY <1>3 DEF Command, TestUnitReady, RezeroUnit, Seek, ReportReady, RequestSenseBegin,
                RequestSenseEnd, StartStop, Verify, TranslateBegin, TranslateEnd, SendEnd,
                ModeSenseBegin, ModeSenseEnd, ModeSelectBegin, ModeSelectEnd, FormatBegin,
                FormatDefectList, FormatEnd, InquiryBegin, InquiryDma, Succeed, Fail
  <2>2. QED
    BY <2>1 DEF Selecting
<1>4. CASE Transfer
  <2>1. step' \in {"start", "block", "dma", "write"}
    BY <1>4 DEF Transfer, ReadBegin, ReadBlock, ReadDma, WriteBegin, WriteDma, WriteBlock,
                TransferBegin, TransferFails, TransferReset, NextBlock, Succeed, Fail
  <2>2. QED
    BY <2>1 DEF Selecting
<1>5. CASE NoReset \/ Reset
  BY <1>5 DEF NoReset, Reset, Selecting
<1>6. CASE Environment
  BY <1>6 DEF Environment, RstEdge, Wires, ChangeCard, scsiVars, Selecting
<1>7. CASE UNCHANGED vars
  BY <1>7 DEF vars, scsiVars, Selecting
<1>8. QED
  BY <1>1, <1>2, <1>3, <1>4, <1>5, <1>6, <1>7 DEF Next, Firmware

LEMMA AlwaysSelecting == Spec => []Selecting
<1>1. Init => Selecting
  BY DEF Init, Selecting
<1>2. QED
  BY <1>1, NextSelecting, PTL DEF Spec

-----------------------------------------------------------------------------
(* Status and sense data.                                                  *)

\* VERIFY and INQUIRY report without sense data, or the other way around.
Disagreeing == {"VERIFY", "INQUIRY"}

\* What the host was told, the sense data and the status agree, until a reset
\* is raised.
Agreeing ==
    /\ \A l \in LUN : owed[l] => sense[l] # NoSense
    /\ \A l \in LUN : sense[l] # NoSense => owed[l] \/ (scsiState = "STATUS" /\ status = Bad(l))
    /\ scsiState = "STATUS" /\ status.bad => status.lun = cdb.lun /\ sense[cdb.lun] # NoSense
SenseInv == scsiState \notin Disagreeing /\ (nrst \/ Agreeing)

\* A step that says nothing of success or failure.
Silent ==
    /\ UNCHANGED <<sense, owed>> /\ (nrst => nrst') /\ scsiState' \notin Disagreeing
    /\ \/ UNCHANGED <<scsiState, status, cdb>>
       \/ scsiState # "STATUS" /\ scsiState' # "STATUS"

LEMMA SilentSense == ASSUME SenseInv, Silent PROVE SenseInv'
BY DEF SenseInv, Silent, Agreeing, Bad

LEMMA SucceedSense ==
    ASSUME SenseInv, scsiState # "STATUS", Succeed, owed' = owed, nrst => nrst'
    PROVE  SenseInv'
<1>1. status' = Good /\ sense' = sense /\ scsiState' = "STATUS"
  BY DEF Succeed, Return
<1>2. ~status'.bad /\ scsiState' \notin Disagreeing
  BY <1>1 DEF Good, Disagreeing
<1>3. nrst' \/ Agreeing'
  BY <1>1, <1>2 DEF SenseInv, Agreeing
<1>4. QED
  BY <1>2, <1>3 DEF SenseInv

LEMMA FailSense ==
    ASSUME Inv, SenseInv, scsiState # "STATUS", NEW reason, reason # NoSense, Fail(reason),
           owed' = owed, nrst => nrst'
    PROVE  SenseInv'
<1>1. /\ status' = Bad(cdb.lun) /\ sense' = [sense EXCEPT ![cdb.lun] = reason]
      /\ scsiState' = "STATUS" /\ cdb' = cdb
  BY DEF Fail, Return
<1>2. sense \in [LUN -> SenseData] /\ cdb.lun \in LUN
  BY DEF Inv, TypeOK
<1>3. sense'[cdb.lun] = reason /\ \A l \in LUN \ {cdb.lun} : sense'[l] = sense[l]
  BY <1>1, <1>2
<1>4. status'.bad /\ status'.lun = cdb.lun
  BY <1>1 DEF Bad
<1>5. scsiState' \notin Disagreeing
  BY <1>1 DEF Disagreeing
<1>6. nrst' \/ Agreeing'
  BY <1>1, <1>3, <1>4 DEF SenseInv, Agreeing, Bad
<1>7. QED
  BY <1>5, <1>6 DEF SenseInv

LEMMA NoErrorReasons ==
    NoSense \notin { "0/02 unit not ready", "0/04 drive not ready", "2/1C bad format",
                     "2/24 bad argument", "2/21 illegal block address" }
BY DEF NoSense

\* The host is told the status ...
LEMMA StatusSense == ASSUME Inv, SenseInv, StatusEnd PROVE SenseInv'
<1>1. /\ scsiState = "STATUS" /\ scsiState' = "MESSAGE" /\ UNCHANGED <<sense, status, cdb, nrst>>
      /\ owed' = IF status.bad /\ ~nrst THEN [owed EXCEPT ![cdb.lun] = TRUE] ELSE owed
  BY DEF StatusEnd, At, Return, cmdVars, rstVars
<1>2. owed \in [LUN -> BOOLEAN] /\ cdb.lun \in LUN
  BY DEF Inv, TypeOK
<1>3. scsiState' \notin Disagreeing
  BY <1>1 DEF Disagreeing
<1>4. ASSUME ~nrst PROVE Agreeing'
  <2>1. Agreeing
    BY <1>4 DEF SenseInv
  <2>2. \A l \in LUN : owed'[l] <=> owed[l] \/ (status.bad /\ l = cdb.lun)
    BY <1>1, <1>2, <1>4
  <2>3. \A l \in LUN : status = Bad(l) => status.bad /\ status.lun = l
    BY DEF Bad
  <2>4. QED
    BY <1>1, <2>1, <2>2, <2>3 DEF Agreeing
<1>5. QED
  BY <1>1, <1>3, <1>4 DEF SenseInv

\* ... and why.
LEMMA ReasonSense == ASSUME Inv, SenseInv, RequestSenseEnd PROVE SenseInv'
<1>1. /\ scsiState = "REQUESTSENSE" /\ scsiState' = "STATUS" /\ status' = Good
      /\ sense' = [sense EXCEPT ![cdb.lun] = NoSense] /\ UNCHANGED <<cdb, nrst>>
      /\ owed' = IF nrst THEN owed ELSE [owed EXCEPT ![cdb.lun] = FALSE]
  BY DEF RequestSenseEnd, At, Return, rstVars
<1>2. owed \in [LUN -> BOOLEAN] /\ sense \in [LUN -> SenseData] /\ cdb.lun \in LUN
  BY DEF Inv, TypeOK
<1>3. scsiState' \notin Disagreeing /\ ~status'.bad
  BY <1>1 DEF Disagreeing, Good
<1>4. ASSUME ~nrst PROVE Agreeing'
  <2>1. \A l \in LUN \ {cdb.lun} : sense'[l] = sense[l] /\ owed'[l] = owed[l]
    BY <1>1, <1>2, <1>4
  <2>2. sense'[cdb.lun] = NoSense /\ ~owed'[cdb.lun]
    BY <1>1, <1>2, <1>4
  <2>3. QED
    BY <1>1, <1>3, <1>4, <2>1, <2>2 DEF SenseInv, Agreeing
<1>5. QED
  BY <1>1, <1>3, <1>4 DEF SenseInv

LEMMA CommandSense == ASSUME Inv, SenseInv, Command PROVE SenseInv'
<1> USE DEF At
<1>1. scsiState \notin {"VERIFY", "INQUIRY"}
  BY DEF SenseInv, Disagreeing
<1>2. CASE RequestSenseEnd
  BY <1>2, ReasonSense
<1>3. CASE ~RequestSenseEnd
  <2>1. scsiState \in Handlers /\ nrst' = nrst /\ owed' = owed
    BY <1>1, <1>3
       DEF Command, TestUnitReady, RezeroUnit, Seek, ReportReady, RequestSenseBegin, StartStop, Verify,
           TranslateBegin, TranslateEnd, SendEnd, ModeSenseBegin, ModeSenseEnd, ModeSelectBegin,
           ModeSelectEnd, FormatBegin, FormatDefectList, FormatEnd, InquiryBegin, InquiryDma, Handlers,
           rstVars, history
  <2>2. \/ Succeed
        \/ \E reason \in { "0/02 unit not ready", "0/04 drive not ready", "2/1C bad format",
                           "2/24 bad argument", "2/21 illegal block address" } : Fail(reason)
        \/ UNCHANGED <<cdb, status, sense>> /\ \E s \in Steps : Continue(s)
    <3>1. CASE TestUnitReady \/ RezeroUnit \/ Seek
      BY <3>1 DEF TestUnitReady, RezeroUnit, Seek, ReportReady
    <3>2. CASE RequestSenseBegin \/ FormatDefectList
      BY <3>2 DEF RequestSenseBegin, FormatDefectList, Steps, cmdVars
    <3>3. CASE StartStop \/ TranslateEnd \/ ModeSenseEnd \/ ModeSelectEnd
      BY <3>3 DEF StartStop, TranslateEnd, ModeSenseEnd, SendEnd, ModeSelectEnd
    <3>4. CASE TranslateBegin \/ ModeSenseBegin
      BY <3>4 DEF TranslateBegin, ModeSenseBegin, Steps, cmdVars
    <3>5. CASE ModeSelectBegin \/ FormatBegin
      BY <3>5 DEF ModeSelectBegin, FormatBegin, Steps, cmdVars
    <3>6. CASE FormatEnd
      BY <3>6 DEF FormatEnd
    <3>7. ~Verify /\ ~InquiryBegin /\ ~InquiryDma
      BY <1>1 DEF Verify, InquiryBegin, InquiryDma
    <3>8. QED
      BY <1>3, <3>1, <3>2, <3>3, <3>4, <3>5, <3>6, <3>7 DEF Command
  <2>3. scsiState # "STATUS"
    BY <2>1 DEF Handlers
  <2>4. CASE Succeed
    BY <2>1, <2>3, <2>4, SucceedSense
  <2>5. CASE \E reason \in { "0/02 unit not ready", "0/04 drive not ready", "2/1C bad format",
                             "2/24 bad argument", "2/21 illegal block address" } : Fail(reason)
    BY <2>1, <2>3, <2>5, FailSense, NoErrorReasons
  <2>6. CASE UNCHANGED <<cdb, status, sense>> /\ \E s \in Steps : Continue(s)
    BY <1>1, <2>1, <2>6, SilentSense DEF Silent, Continue, Disagreeing
  <2>7. QED
    BY <2>2, <2>4, <2>5, <2>6
<1>4. QED
  BY <1>2, <1>3

LEMMA TransferSense == ASSUME Inv, SenseInv, Transfer PROVE SenseInv'
<1> USE DEF At
<1>1. scsiState \in {"READ6", "WRITE6"} /\ owed' = owed
  BY DEF Transfer, ReadBegin, ReadBlock, ReadDma, WriteBegin, WriteDma, WriteBlock, TransferBegin, history
<1>2. nrst => nrst'
  BY DEF Transfer, ReadBegin, ReadBlock, ReadDma, WriteBegin, WriteDma, WriteBlock, TransferBegin,
         ResetAfterDma, rstVars
<1>3. \/ Succeed
      \/ \E reason \in {"2/1C bad format", "0/04 drive not ready"} : Fail(reason)
      \/ UNCHANGED <<cdb, status, sense>> /\ (scsiState' = scsiState \/ scsiState' = "BUSFREE")
  <2>1. CASE ReadBegin \/ WriteBegin
    BY <2>1 DEF ReadBegin, WriteBegin, TransferBegin, Continue, cmdVars
  <2>2. CASE ReadBlock
    BY <2>2 DEF ReadBlock, TransferFails, Continue, cmdVars
  <2>3. CASE ReadDma
    BY <2>3 DEF ReadDma, TransferReset, NextBlock, Continue, Return, cmdVars
  <2>4. CASE WriteDma
    BY <2>4 DEF WriteDma, TransferReset, Continue, Return, cmdVars
  <2>5. CASE WriteBlock
    BY <2>5 DEF WriteBlock, TransferFails, NextBlock, Continue, cmdVars
  <2>6. QED
    BY <2>1, <2>2, <2>3, <2>4, <2>5 DEF Transfer
<1>4. CASE Succeed
  BY <1>1, <1>2, <1>4, SucceedSense
<1>5. CASE \E reason \in {"2/1C bad format", "0/04 drive not ready"} : Fail(reason)
  BY <1>1, <1>2, <1>5, FailSense, NoErrorReasons
<1>6. CASE UNCHANGED <<cdb, status, sense>> /\ (scsiState' = scsiState \/ scsiState' = "BUSFREE")
  BY <1>1, <1>2, <1>6, SilentSense DEF Silent, Disagreeing
<1>7. QED
  BY <1>3, <1>4, <1>5, <1>6

LEMMA ResetSense == ASSUME Reset PROVE SenseInv'
<1>1. /\ scsiState' = "BUSFREE" /\ sense' = [l \in LUN |-> NoSense] /\ owed' = [l \in LUN |-> FALSE]
  BY DEF Reset
<1>2. scsiState' \notin Disagreeing /\ Agreeing'
  BY <1>1 DEF Disagreeing, Agreeing
<1>3. QED
  BY <1>2 DEF SenseInv

LEMMA NextSense ==
    ASSUME Commands \cap Disagreeing = {}, Inv, Selecting, SenseInv, [Next]_vars
    PROVE  SenseInv'
<1> USE DEF At, Return, Continue, cmdVars, scsiVars, rstVars, pinVars, history
<1>1. CASE Bus
  <2>1. /\ UNCHANGED <<sense, owed, status, cdb>> /\ (nrst => nrst')
        /\ scsiState' \in {scsiState, "BUSFREE", "BUSBUSY", "SELECT", "COMMAND"}
    BY <1>1 DEF Bus, BusFree, BusBusy, SelectBegin, SelectDecide, SelectEnd, SelectTimeout
  <2>2. scsiState # "STATUS"
    BY <1>1 DEF Bus, BusFree, BusBusy, SelectBegin, SelectDecide, SelectEnd, SelectTimeout, Selecting
  <2>3. QED
    BY <2>1, <2>2, SilentSense DEF Silent, Disagreeing, SenseInv
<1>2. CASE InformationTransfer /\ ~StatusEnd
  <2>1. CASE CommandEnd
    <3>1. scsiState' \in (Commands \ {"UNKNOWN"}) \cup {"BUSFREE"}
      BY <2>1 DEF CommandEnd
    <3>2. scsiState' \notin Disagreeing /\ scsiState' # "STATUS" /\ scsiState = "COMMAND"
      BY <2>1, <3>1, ScsiAssumption DEF CommandEnd, Disagreeing, Handlers
    <3>3. QED
      BY <2>1, <3>2, SilentSense DEF CommandEnd, Silent
  <2>2. CASE CommandBegin \/ StatusBegin \/ MessageBegin \/ MessageEnd
    <3>1. Silent
      BY <2>2 DEF CommandBegin, StatusBegin, MessageBegin, MessageEnd, Silent, Disagreeing, SenseInv
    <3>2. QED
      BY <3>1, SilentSense
  <2>3. QED
    BY <1>2, <2>1, <2>2 DEF InformationTransfer
<1>3. CASE NoReset \/ InvalidState
  BY <1>3, SilentSense DEF NoReset, InvalidState, Silent, Disagreeing, SenseInv
<1>4. CASE RstEdge
  <2>1. nrst => nrst'
    BY <1>4 DEF RstEdge, InterruptsOff
  <2>2. UNCHANGED <<sense, owed, scsiState, status, cdb>>
    BY <1>4 DEF RstEdge
  <2>3. QED
    BY <2>1, <2>2, SilentSense DEF Silent, SenseInv
<1>5. CASE Wires \/ ChangeCard \/ UNCHANGED vars
  <2>1. UNCHANGED <<sense, owed, scsiState, status, cdb, nrst>>
    BY <1>5 DEF Wires, ChangeCard, vars
  <2>2. QED
    BY <2>1, SilentSense DEF Silent, SenseInv
<1>6. QED
  BY <1>1, <1>2, <1>3, <1>4, <1>5, StatusSense, CommandSense, TransferSense, ResetSense
     DEF Next, Firmware, Environment

LEMMA AlwaysSense == ASSUME Commands \cap Disagreeing = {} PROVE Spec => []SenseInv
<1>1. Init => SenseInv
  BY DEF Init, SenseInv, Agreeing, Disagreeing
<1>2. Inv /\ Selecting /\ SenseInv /\ [Next]_vars => SenseInv'
  BY NextSense
<1>3. QED
  BY <1>1, <1>2, AlwaysInv, AlwaysSelecting, PTL DEF Spec

\* Without VERIFY and INQUIRY, a host that was told CHECK CONDITION finds the
\* reason when it asks, for every LUN and whatever fails.
THEOREM ReasonKept == ASSUME Commands \cap {"VERIFY", "INQUIRY"} = {} PROVE Spec => []SenseKept
<1>1. SenseInv => SenseKept
  BY DEF SenseInv, Agreeing, SenseKept
<1>2. Spec => []SenseInv
  BY AlwaysSense DEF Disagreeing
<1>3. QED
  BY <1>1, <1>2, PTL

\* And no error is noted that is not announced.
THEOREM ReasonAnnounced ==
    ASSUME Commands \cap {"VERIFY", "INQUIRY"} = {} PROVE Spec => []SenseAnnounced
<1>1. SenseInv => SenseAnnounced
  BY DEF SenseInv, Agreeing, SenseAnnounced
<1>2. Spec => []SenseInv
  BY AlwaysSense DEF Disagreeing
<1>3. QED
  BY <1>1, <1>2, PTL

-----------------------------------------------------------------------------
(* The direction of a transfer.                                            *)

\* The phase was asserted before the transfer began, and no step changes it
\* before the transfer is over.
Directed ==
    /\ scsiState # "INQUIRY"
    /\ step = "bytes" => (Receiving <=> phase \in {"DATAOUT", "COMMAND"})
    /\ step = "dma" => scsiState \in {"READ6", "WRITE6"}
    /\ Reading => phase = "DATAIN"
    /\ Writing => phase = "DATAOUT"

\* No transfer is under way after the step ...
LEMMA Undirected ==
    ASSUME step' \in {"start", "delay", "selwait", "format"}, scsiState' # "INQUIRY"
    PROVE  Directed'
BY DEF Directed, Reading, Writing

\* ... or the same one is ...
LEMMA SameDirection ==
    ASSUME Directed, UNCHANGED <<step, scsiState, phase>> PROVE Directed'
BY DEF Directed, Receiving, Reading, Writing

\* ... or the loop over the bytes of a list begins.
LEMMA ListDirection ==
    ASSUME scsiState' # "INQUIRY", step' = "bytes",
           scsiState' \in {"COMMAND", "MODESELECT", "FORMAT"} <=> phase' \in {"DATAOUT", "COMMAND"}
    PROVE  Directed'
BY DEF Directed, Receiving, Reading, Writing

LEMMA CommandDirection == ASSUME Directed, Command PROVE Directed'
<1> USE DEF At, Return, Continue
<1>1. scsiState # "INQUIRY"
  BY DEF Directed
<1>2. ASSUME step' = "start", scsiState' = "STATUS" PROVE Directed'
  BY <1>2, Undirected
<1>3. ASSUME NEW reason, Fail(reason) PROVE Directed'
  BY <1>2, <1>3 DEF Fail
<1>4. CASE Succeed
  BY <1>2, <1>4 DEF Succeed
<1>5. CASE TestUnitReady \/ RezeroUnit \/ Seek \/ StartStop \/ TranslateEnd \/ ModeSenseEnd \/ ModeSelectEnd
  BY <1>3, <1>4, <1>5 DEF TestUnitReady, RezeroUnit, Seek, ReportReady, StartStop, TranslateEnd,
                          ModeSenseEnd, SendEnd, ModeSelectEnd
<1>6. CASE RequestSenseEnd \/ Verify
  BY <1>2, <1>3, <1>4, <1>6 DEF RequestSenseEnd, Verify
<1>7. CASE RequestSenseBegin
  BY <1>7, ListDirection DEF RequestSenseBegin
<1>8. CASE TranslateBegin \/ ModeSenseBegin
  <2>1. (step' = "bytes" /\ phase' = "DATAIN" /\ scsiState' = scsiState) \/ \E reason : Fail(reason)
    BY <1>8 DEF TranslateBegin, ModeSenseBegin
  <2>2. scsiState \in {"TRANSLATE", "MODESENSE"}
    BY <1>8 DEF TranslateBegin, ModeSenseBegin
  <2>3. QED
    BY <1>3, <2>1, <2>2, ListDirection
<1>9. CASE ModeSelectBegin \/ FormatBegin
  <2>1. \/ step' = "bytes" /\ phase' = "DATAOUT" /\ scsiState' = scsiState
        \/ step' = "format" /\ scsiState' = scsiState
        \/ \E reason : Fail(reason)
    BY <1>9 DEF ModeSelectBegin, FormatBegin
  <2>2. scsiState \in {"MODESELECT", "FORMAT"}
    BY <1>9 DEF ModeSelectBegin, FormatBegin
  <2>3. QED
    BY <1>3, <2>1, <2>2, ListDirection, Undirected
<1>10. CASE FormatDefectList
  BY <1>10, Undirected DEF FormatDefectList
<1>11. CASE FormatEnd
  BY <1>3, <1>4, <1>11 DEF FormatEnd
<1>12. ~InquiryBegin /\ ~InquiryDma
  BY <1>1 DEF InquiryBegin, InquiryDma
<1>13. QED
  BY <1>5, <1>6, <1>7, <1>8, <1>9, <1>10, <1>11, <1>12 DEF Command

LEMMA TransferDirection == ASSUME Directed, Transfer PROVE Directed'
<1> USE DEF At, Return, Continue
<1>1. ASSUME step' = "start", scsiState' \in {"STATUS", "BUSFREE"} PROVE Directed'
  BY <1>1, Undirected
<1>2. \/ step' = "start" /\ scsiState' \in {"STATUS", "BUSFREE"}
      \/ /\ scsiState = "READ6" /\ scsiState' = "READ6" /\ step' \in {"block", "dma"}
         /\ phase' = "DATAIN" \/ (Reading /\ phase' = phase)
      \/ /\ scsiState = "WRITE6" /\ scsiState' = "WRITE6" /\ step' \in {"dma", "write"}
         /\ phase' = "DATAOUT" \/ (Writing /\ phase' = phase)
  <2> USE DEF Succeed, Fail
  <2>1. CASE ReadBegin \/ WriteBegin
    BY <2>1 DEF ReadBegin, WriteBegin, TransferBegin
  <2>2. CASE ReadBlock \/ ReadDma
    BY <2>2 DEF ReadBlock, ReadDma, TransferFails, TransferReset, NextBlock, pinVars, Reading
  <2>3. CASE WriteDma \/ WriteBlock
    BY <2>3 DEF WriteDma, WriteBlock, TransferFails, TransferReset, NextBlock, pinVars, Writing
  <2>4. QED
    BY <2>1, <2>2, <2>3 DEF Transfer
<1>3. QED
  BY <1>1, <1>2 DEF Directed, Reading, Writing

LEMMA NextDirection ==
    ASSUME "INQUIRY" \notin Commands, Directed, [Next]_vars PROVE Directed'
<1> USE DEF At, Return, Continue, pinVars, scsiVars
<1>1. CASE Bus
  <2>1. \/ step' \in {"start", "delay", "selwait"} /\ scsiState' # "INQUIRY"
        \/ UNCHANGED <<step, scsiState, phase>>
    BY <1>1 DEF Bus, BusFree, BusBusy, SelectBegin, SelectDecide, SelectEnd, SelectTimeout, Directed
  <2>2. QED
    BY <2>1, Undirected, SameDirection
<1>2. CASE InformationTransfer
  <2>1. CASE CommandBegin \/ StatusBegin \/ MessageBegin
    <3>1. step' = "bytes" /\ \/ scsiState' = "COMMAND" /\ phase' = "COMMAND"
                             \/ scsiState' = "STATUS" /\ phase' = "STATUS"
                             \/ scsiState' = "MESSAGE" /\ phase' = "MESSAGEIN"
      BY <2>1 DEF CommandBegin, StatusBegin, MessageBegin
    <3>2. QED
      BY <3>1, ListDirection
  <2>2. CASE CommandEnd
    <3>1. step' = "start" /\ scsiState' \in Commands \cup {"BUSFREE"}
      BY <2>2 DEF CommandEnd
    <3>2. QED
      BY <3>1, Undirected
  <2>3. CASE StatusEnd \/ MessageEnd
    BY <2>3, Undirected DEF StatusEnd, MessageEnd
  <2>4. QED
    BY <1>2, <2>1, <2>2, <2>3 DEF InformationTransfer
<1>3. CASE InvalidState \/ Reset
  BY <1>3, Undirected DEF InvalidState, Reset
<1>4. CASE NoReset \/ Environment \/ UNCHANGED vars
  <2>1. UNCHANGED <<step, scsiState, phase>>
    BY <1>4 DEF NoReset, Environment, RstEdge, Wires, ChangeCard, vars
  <2>2. QED
    BY <2>1, SameDirection
<1>5. QED
  BY <1>1, <1>2, <1>3, <1>4, CommandDirection, TransferDirection DEF Next, Firmware

\* Without INQUIRY, the I/O line shows the direction of every transfer.
THEOREM DirectionShown ==
    ASSUME "INQUIRY" \notin Commands PROVE Spec => []PhaseMatchesDirection
<1>1. Init => Directed
  BY DEF Init, Directed, Reading, Writing
<1>2. Directed => PhaseMatchesDirection
  BY DEF Directed, PhaseMatchesDirection, Receiving, Reading, Writing
<1>3. QED
  BY <1>1, <1>2, NextDirection, PTL DEF Spec

-----------------------------------------------------------------------------
(* What WRITE puts in the image of a card that has room.                   *)

LEMMA RoomToOpen ==
    ASSUME ~CardMayFill, NEW s, Sound(s), NEW l \in LUN, NEW start \in Nat,
           NEW o \in OpenLunForWrite(s, l, start), o.ok
    PROVE  o.fs.file # Absent => o.fs.file = start /\ o.fs.size >= start
<1>1. s \in FsState /\ s.dat[l] \in Nat \cup {Absent}
  BY Fields DEF Sound
<1> DEFINE unopened == [s EXCEPT !.open = TRUE, !.file = Absent, !.size = Absent]
           opened == [s EXCEPT !.open = TRUE, !.file = start, !.size = AtLeast(s.dat[l], start)]
<1>2. o.fs = unopened \/ (s.dat[l] # Absent /\ o.fs = opened)
  BY DEF OpenLunForWrite, OnFault, OnFull, Ret
<1>3. unopened.file = Absent
  BY <1>1 DEF FsState
<1>4. opened.file = start /\ opened.size = AtLeast(s.dat[l], start)
  BY <1>1 DEF FsState
<1>5. CASE o.fs = unopened
  BY <1>3, <1>5
<1>6. CASE s.dat[l] # Absent /\ o.fs = opened
  <2>1. AtLeast(s.dat[l], start) >= start
    BY <1>1, <1>6, AtLeastFacts
  <2>2. QED
    BY <1>4, <1>6, <2>1
<1>7. QED
  BY <1>2, <1>5, <1>6

LEMMA RoomToWrite ==
    ASSUME ~CardMayFill, NEW s, Sound(s), NEW l \in LUN, s.file # Absent, s.size # Absent,
           NEW o \in WriteNextSector(s, l), o.ok
    PROVE  /\ o.fs.file = s.file + 1 /\ o.fs.size # Absent
           /\ o.fs.size \in Nat /\ o.fs.size >= s.file + 1
           /\ o.fs.open = s.open
<1>1. s \in FsState /\ s.size \in Nat /\ s.file \in Nat
  BY Fields DEF Sound
<1> DEFINE t == [s EXCEPT !.file = s.file + 1, !.size = AtLeast(s.size, s.file + 1)]
<1>2. o.fs = t
  BY DEF WriteNextSector, OnFault, OnFull, Ret
<1>3. t.file = s.file + 1 /\ t.size = AtLeast(s.size, s.file + 1) /\ t.open = s.open
  BY <1>1 DEF FsState
<1>4. s.file + 1 \in Nat
  BY <1>1
<1>5. t.size \in Nat /\ t.size >= s.file + 1
  BY <1>1, <1>3, <1>4, AtLeastFacts
<1>6. QED
  BY <1>2, <1>3, <1>5, FsAssumption

\* Without faults, closing enters the length of the image in the directory.
LEMMA ClosedEntered ==
    ASSUME ~IoFaults, NEW s, Sound(s), NEW l \in LUN, s.open, s.size # Absent,
           NEW t \in CloseLun(s, l)
    PROVE  t.dat[l] = s.size
<1>1. s \in FsState
  BY DEF Sound
<1>2. PICK u : /\ u = [s EXCEPT !.file = Absent, !.size = Absent, !.dat[l] = s.size]
               /\ t = [u EXCEPT !.open = FALSE]
  BY DEF CloseLun, Closed, OnFault
<1>3. u.dat[l] = s.size
  BY <1>1, <1>2 DEF FsState
<1>4. t.dat = u.dat
  BY <1>1, <1>2 DEF FsState
<1>5. QED
  BY <1>3, <1>4

\* A transfer that lost its file ends with CHECK CONDITION.
LEMMA LostFileFails ==
    ASSUME NEW s, NEW l, s.file = Absent, NEW o \in WriteNextSector(s, l) PROVE ~o.ok
BY DEF WriteNextSector, Ret

\* The position of the file and the blocks left add up to the request.
Placed ==
    Writing /\ fs.file # Absent =>
        fs.file + blocks = cdb.lba + NumberOfBlocks /\ fs.size >= fs.file

\* WRITE begins at the block asked for.
LEMMA WriteBeginPlaced == ASSUME ~CardMayFill, Inv, WriteBegin PROVE Placed'
<1>1. Sound(fs) /\ cdb.lun \in LUN /\ cdb.lba \in Nat
  BY TypeFacts
<1>2. PICK a \in SetLunStatus(fs, cdb.lun, TRUE) :
         \/ \E reason : Fail(reason)
         \/ \E o \in OpenLunForWrite(a.fs, cdb.lun, cdb.lba) :
               /\ o.ok /\ fs' = o.fs /\ blocks' = NumberOfBlocks /\ UNCHANGED cmdVars
  BY DEF WriteBegin, TransferBegin, OpenLun
<1>3. Sound(a.fs)
  BY <1>1, SetLunStatusSound DEF SoundOutcome
<1>4. ASSUME NEW reason, Fail(reason) PROVE Placed'
  BY <1>4 DEF Fail, Return, Placed, Writing
<1>5. ASSUME NEW o \in OpenLunForWrite(a.fs, cdb.lun, cdb.lba),
             o.ok, fs' = o.fs, blocks' = NumberOfBlocks, UNCHANGED cmdVars
      PROVE  Placed'
  BY <1>1, <1>3, <1>5, RoomToOpen DEF Placed, cmdVars, NumberOfBlocks
<1>6. QED
  BY <1>2, <1>4, <1>5

\* One block of WRITE: the open image holds it, and the next one, if there is
\* one, comes after it.  After the last one the directory says so, if the card
\* does not fail.
LEMMA WriteBlockPlaced ==
    ASSUME ~CardMayFill, Inv, Placed, WriteBlock
    PROVE  /\ Placed'
           /\ ~IoFaults /\ scsiState' = "STATUS" /\ ~status'.bad =>
                 fs'.dat[cdb.lun] # Absent /\ fs'.dat[cdb.lun] >= cdb.lba + NumberOfBlocks
<1>1. Writing /\ main = "process" /\ Sound(fs) /\ cdb.lun \in LUN /\ cdb.lba \in Nat
  BY TypeFacts DEF WriteBlock, At, Writing
<1>2. blocks \in Nat /\ blocks # 0 /\ fs.open /\ FileOf(fs, cdb.lun)
  BY <1>1, TransferFacts
<1>3. PICK o \in WriteNextSector(fs, cdb.lun) :
         (o.ok /\ NextBlock(o.fs, "dma")) \/ TransferFails(o.fs)
  BY DEF WriteBlock
<1>4. CASE TransferFails(o.fs)
  BY <1>4 DEF TransferFails, Fail, Return, Bad, Placed, Writing
<1>5. CASE o.ok /\ NextBlock(o.fs, "dma")
  <2>1. fs.file # Absent /\ fs.size # Absent
    BY <1>2, <1>5, LostFileFails DEF FileOf
  <2>2. fs.file \in Nat /\ fs.file + blocks = cdb.lba + NumberOfBlocks
    BY <1>1, <2>1, Fields DEF Placed, Sound
  <2>3. /\ o.fs.file = fs.file + 1 /\ o.fs.size # Absent /\ o.fs.open
        /\ o.fs.size \in Nat /\ o.fs.size >= fs.file + 1
    BY <1>1, <1>2, <1>5, <2>1, RoomToWrite
  <2>4. CASE blocks = 1
    <3>1. fs' \in CloseLun(o.fs, cdb.lun) /\ scsiState' = "STATUS"
      BY <1>5, <2>4 DEF NextBlock, Succeed, Return
    <3>2. Sound(o.fs)
      BY <1>1, <1>2, WriteNextSectorSound
    <3>3. ~IoFaults => fs'.dat[cdb.lun] = o.fs.size
      BY <1>1, <2>3, <3>1, <3>2, ClosedEntered
    <3>4. fs.file + 1 = cdb.lba + NumberOfBlocks
      BY <2>2, <2>4
    <3>5. QED
      BY <2>3, <3>1, <3>3, <3>4 DEF Placed, Writing
  <2>5. CASE blocks # 1
    <3>1. fs' = o.fs /\ blocks' = blocks - 1 /\ cdb' = cdb /\ scsiState' = scsiState
      BY <1>5, <2>5 DEF NextBlock, Continue, cmdVars
    <3>2. NumberOfBlocks' = NumberOfBlocks
      BY <3>1 DEF NumberOfBlocks
    <3>3. o.fs.file + (blocks - 1) = cdb.lba + NumberOfBlocks
      BY <1>2, <2>2, <2>3
    <3>4. Placed'
      BY <2>3, <3>1, <3>2, <3>3 DEF Placed
    <3>5. scsiState' # "STATUS"
      BY <1>1, <3>1 DEF Writing
    <3>6. QED
      BY <3>4, <3>5
  <2>6. QED
    BY <2>4, <2>5
<1>6. QED
  BY <1>3, <1>4, <1>5

LEMMA NextPlaced == ASSUME ~CardMayFill, Inv, Placed, [Next]_vars PROVE Placed'
<1> USE DEF At, Return, Continue
<1>1. CASE WriteBegin
  BY <1>1, WriteBeginPlaced
<1>2. CASE WriteBlock
  BY <1>2, WriteBlockPlaced
<1>3. ASSUME UNCHANGED <<fs, blocks, cdb>>, Writing' => Writing PROVE Placed'
  BY <1>3 DEF Placed, NumberOfBlocks
<1>4. ASSUME ~Writing' PROVE Placed'
  BY <1>4 DEF Placed
<1>5. CASE WriteDma
  BY <1>3, <1>4, <1>5 DEF WriteDma, TransferReset, cmdVars, Writing
<1>6. CASE ReadBegin \/ ReadBlock \/ ReadDma
  <2>1. ~Writing'
    BY <1>6 DEF ReadBegin, TransferBegin, ReadBlock, ReadDma, TransferFails, TransferReset, NextBlock,
                Succeed, Fail, Writing
  <2>2. QED
    BY <1>4, <2>1
<1>7. CASE Command
  <2>1. ~Writing'
    BY <1>7 DEF Command, TestUnitReady, RezeroUnit, Seek, ReportReady, RequestSenseBegin,
                RequestSenseEnd, StartStop, Verify, TranslateBegin, TranslateEnd, SendEnd,
                ModeSenseBegin, ModeSenseEnd, ModeSelectBegin, ModeSelectEnd, FormatBegin,
                FormatDefectList, FormatEnd, InquiryBegin, InquiryDma, Succeed, Fail, Writing
  <2>2. QED
    BY <1>4, <2>1
<1>8. CASE Bus \/ InformationTransfer \/ InvalidState \/ NoReset \/ Reset
  <2>1. ~Writing' \/ (UNCHANGED <<fs, blocks, cdb>> /\ (Writing' => Writing))
    BY <1>8 DEF Bus, BusFree, BusBusy, SelectBegin, SelectDecide, SelectEnd, SelectTimeout,
                InformationTransfer, CommandBegin, CommandEnd, StatusBegin, StatusEnd, MessageBegin,
                MessageEnd, InvalidState, NoReset, Reset, cmdVars, Writing
  <2>2. QED
    BY <1>3, <1>4, <2>1
<1>9. CASE RstEdge \/ Wires \/ UNCHANGED vars
  <2>1. UNCHANGED <<fs, blocks, cdb>> /\ (Writing' => Writing)
    BY <1>9 DEF RstEdge, Wires, vars, scsiVars, cmdVars, Writing
  <2>2. QED
    BY <1>3, <2>1
<1>10. CASE ChangeCard
  <2>1. ~Writing
    BY <1>10 DEF ChangeCard, Inv, Control
  <2>2. QED
    BY <1>4, <1>10, <2>1 DEF ChangeCard, scsiVars, Writing
<1>11. QED
  BY <1>1, <1>2, <1>5, <1>6, <1>7, <1>8, <1>9, <1>10 DEF Next, Firmware, Environment, Transfer

LEMMA AlwaysPlaced == ASSUME ~CardMayFill PROVE Spec => []Placed
<1>1. Init => Placed
  BY DEF Init, Placed, Writing
<1>2. Inv /\ Placed /\ [Next]_vars => Placed'
  BY NextPlaced
<1>3. QED
  BY <1>1, <1>2, AlwaysInv, PTL DEF Spec

\* On a card with room, the position of the file, the blocks that are left
\* and the length of the image agree in every step of a WRITE, whichever call
\* fails and however long the request and the image are.
THEOREM PositionKept == ASSUME ~CardMayFill PROVE Spec => []WritePosition
<1>1. Inv /\ Placed => WritePosition
  <2>1. ASSUME Inv, Placed, Writing, fs.file # Absent
        PROVE  /\ blocks > 0 /\ fs.file + blocks = cdb.lba + NumberOfBlocks
               /\ fs.size # Absent /\ fs.size >= fs.file
    <3>1. blocks \in Nat /\ blocks # 0 /\ fs.size # Absent
      BY <2>1 DEF Inv, TypeOK, Control, FileOf
    <3>2. QED
      BY <2>1, <3>1 DEF Placed
  <2>2. QED
    BY <2>1 DEF WritePosition, Writing
<1>2. QED
  BY <1>1, AlwaysInv, AlwaysPlaced, PTL

\* On a card that has room and does not fail, GOOD for a WRITE means that its
\* last block is in the image, and that the directory says so.  (On one that
\* fails f_close may leave the old length in the directory; its result is not
\* looked at.)
THEOREM WrittenWhenGood == ASSUME ~CardMayFill, ~IoFaults PROVE Spec => WriteComplete
<1>1. ASSUME Inv, Placed, Next, scsiState = "WRITE6", scsiState' = "STATUS", ~status'.bad
      PROVE  fs'.dat[cdb.lun] # Absent /\ fs'.dat[cdb.lun] >= cdb.lba + NumberOfBlocks
  <2>1. FormatBegin \/ FormatEnd \/ Transfer
    BY <1>1, WhoFails
  <2>2. ~FormatBegin /\ ~FormatEnd /\ ~ReadBegin /\ ~ReadBlock /\ ~ReadDma
    BY <1>1 DEF FormatBegin, FormatEnd, ReadBegin, TransferBegin, ReadBlock, ReadDma, At
  <2>3. ~WriteBegin
    <3>1. ASSUME TransferBegin("WRITE6", "DATAOUT", "dma") PROVE scsiState' = scsiState \/ status' = Bad(cdb.lun)
      BY <3>1 DEF TransferBegin, Continue, Fail
    <3>2. Bad(cdb.lun).bad
      BY DEF Bad
    <3>3. QED
      BY <1>1, <3>1, <3>2 DEF WriteBegin
  <2>4. ~WriteDma
    BY <1>1 DEF WriteDma, TransferReset, Continue, Return
  <2>5. QED
    BY <1>1, <2>1, <2>2, <2>3, <2>4, WriteBlockPlaced DEF Transfer
<1>2. Inv /\ Placed /\ [Next]_vars =>
        [ scsiState = "WRITE6" /\ scsiState' = "STATUS" /\ ~status'.bad
            => fs'.dat[cdb.lun] # Absent /\ fs'.dat[cdb.lun] >= cdb.lba + NumberOfBlocks ]_vars
  BY <1>1
<1>3. QED
  BY <1>2, AlwaysInv, AlwaysPlaced, PTL DEF Spec, WriteComplete

-----------------------------------------------------------------------------
(* The files of started LUNs, on a card that is not changed, has room and  *)
(* does not fail.                                                          *)

LEMMA AdvancesItself == ASSUME fs' = fs PROVE Advances(fs, fs')
BY AdvancesSame

LEMMA StoppedAdvances ==
    ASSUME NEW s, Sound(s), NEW l, NEW t, t = [s EXCEPT !.started[l] = FALSE] PROVE Advances(s, t)
<1>1. t.dat = s.dat /\ t.dsc = s.dsc /\ \A k \in LUN : t.started[k] => s.started[k]
  BY DEF Sound, FsState
<1>2. QED
  BY <1>1, AdvancesSame

\* Closing the image, and stopping its LUN.
LEMMA CloseLunAdvances ==
    ASSUME NEW s, Sound(s), cdb.lun \in LUN, s.open => FileOf(s, cdb.lun),
           NEW t, t \in CloseLun(s, cdb.lun) \/ t \in StopLun(s)
    PROVE  Advances(s, t)
BY CloseLunSound, StopLunSound DEF Advances, Keeps

LEMMA FormatEndAdvances == ASSUME Untroubled, Inv, FormatEnd PROVE Advances(fs, fs')
<1>1. PICK o \in FormatLun(fs, cdb.lun) :
         \/ fs' = [o.fs EXCEPT !.started[cdb.lun] = FALSE]
         \/ \E p \in SetLunStatus(o.fs, cdb.lun, TRUE) : fs' = p.fs
  BY DEF FormatEnd
<1>2. Sound(o.fs) /\ Advances(fs, o.fs) /\ cdb.lun \in LUN
  BY TypeFacts, FormatLunSound, FormatLunAdvances
<1>3. Advances(o.fs, fs')
  BY <1>1, <1>2, StoppedAdvances, SetLunStatusAdvances
<1>4. QED
  BY <1>2, <1>3, AdvancesTransitive

LEMMA CommandAdvances == ASSUME Untroubled, Inv, Command PROVE Advances(fs, fs')
<1>1. CASE fs' = fs
  BY <1>1, AdvancesItself
<1>2. CASE StartStop
  <2>1. PICK o \in SetLunStatus(fs, cdb.lun, cdb.arg # 0) : fs' = o.fs
    BY <1>2 DEF StartStop
  <2>2. QED
    BY <2>1, TypeFacts, SetLunStatusAdvances
<1>3. CASE ModeSelectBegin
  <2>1. \E o \in IF fs.started[cdb.lun] THEN {Ret(fs, TRUE)} ELSE CreateLunDescriptor(fs, cdb.lun) : fs' = o.fs
    BY <1>3 DEF ModeSelectBegin
  <2>2. fs' = fs \/ \E o \in CreateLunDescriptor(fs, cdb.lun) : fs' = o.fs
    BY <2>1 DEF Ret
  <2>3. QED
    BY <2>2, TypeFacts, AdvancesItself, DescriptorAdvances
<1>4. CASE ModeSelectEnd
  <2>1. \E g \in Track : \E o \in WriteLunDescriptor(fs, cdb.lun, g) : fs' = o.fs
    BY <1>4 DEF ModeSelectEnd
  <2>2. QED
    BY <2>1, TypeFacts, DescriptorAdvances
<1>5. CASE FormatBegin
  <2>1. \E o \in IF fs.started[cdb.lun] THEN {Ret(fs, TRUE)} ELSE CreateLunImage(fs, cdb.lun) : fs' = o.fs
    BY <1>5 DEF FormatBegin
  <2>2. fs' = fs \/ \E o \in CreateLunImage(fs, cdb.lun) : fs' = o.fs
    BY <2>1 DEF Ret
  <2>3. QED
    BY <2>2, TypeFacts, AdvancesItself, CreateLunImageAdvances
<1>6. \/ fs' = fs \/ StartStop \/ ModeSelectBegin \/ ModeSelectEnd \/ FormatBegin \/ FormatEnd
  BY DEF Command, TestUnitReady, RezeroUnit, Seek, ReportReady, RequestSenseBegin, RequestSenseEnd,
         Verify, TranslateBegin, TranslateEnd, SendEnd, ModeSenseBegin, ModeSenseEnd,
         FormatDefectList, InquiryBegin, InquiryDma
<1>7. QED
  BY <1>1, <1>2, <1>3, <1>4, <1>5, <1>6, FormatEndAdvances

LEMMA TransferBeginAdvances ==
    ASSUME Untroubled, Inv, NEW op \in {"READ6", "WRITE6"}, NEW itphase, NEW next,
           TransferBegin(op, itphase, next)
    PROVE  Advances(fs, fs')
<1>1. PICK a \in SetLunStatus(fs, cdb.lun, TRUE) :
         \/ fs' = a.fs
         \/ \E o \in OpenLun(op, a.fs) : fs' = o.fs \/ (~o.ok /\ fs' \in StopLun(o.fs))
  BY DEF TransferBegin
<1>2. Sound(a.fs) /\ Advances(fs, a.fs) /\ cdb.lun \in LUN /\ cdb.lba \in Nat /\ ~a.fs.open
  <2>1. ~fs.open
    BY DEF TransferBegin, At, Inv, Control, Reading, Writing
  <2>2. SoundOutcome(fs, a) /\ Advances(fs, a.fs)
    BY TypeFacts, SetLunStatusSound, SetLunStatusAdvances
  <2>3. QED
    BY <2>1, <2>2, TypeFacts DEF SoundOutcome, SameFile
<1>3. ASSUME NEW o \in OpenLun(op, a.fs), fs' = o.fs \/ (~o.ok /\ fs' \in StopLun(o.fs))
      PROVE  Advances(fs, fs')
  <2>1. OpenOutcome(a.fs, o)
    BY <1>2, OpenLunForReadSound, OpenLunForWriteSound DEF OpenLun
  <2>2. Advances(a.fs, o.fs)
    <3>1. CASE op = "READ6"
      BY <1>2, <3>1, ReadingAdvances DEF OpenLun
    <3>2. CASE op = "WRITE6"
      BY <1>2, <2>1, <3>2, OpenLunForWriteStatus, WritingAdvances DEF OpenLun, OpenOutcome
    <3>3. QED
      BY <3>1, <3>2
  <2>3. Advances(fs, o.fs)
    BY <1>2, <2>2, AdvancesTransitive
  <2>4. ~o.ok /\ fs' \in StopLun(o.fs) => Advances(o.fs, fs')
    BY <1>2, <2>1, CloseLunAdvances DEF OpenOutcome
  <2>5. QED
    BY <1>3, <2>3, <2>4, AdvancesTransitive
<1>4. QED
  BY <1>1, <1>2, <1>3

LEMMA TransferStepAdvances ==
    ASSUME Inv, ReadBlock \/ ReadDma \/ WriteDma \/ WriteBlock
    PROVE  Advances(fs, fs')
<1>1. /\ main = "process" /\ (Reading \/ Writing)
      /\ (WriteDma \/ WriteBlock => Writing)
  BY DEF ReadBlock, ReadDma, WriteDma, WriteBlock, At, Reading, Writing
<1>2. Sound(fs) /\ cdb.lun \in LUN /\ FileOf(fs, cdb.lun)
  BY <1>1, TransferFacts
\* a step that leaves s, closed, stopped or as it is
<1>3. ASSUME NEW s, Sound(s), FileOf(s, cdb.lun), Advances(fs, s),
             fs' \in {s} \cup CloseLun(s, cdb.lun) \cup StopLun(s)
      PROVE  Advances(fs, fs')
  BY <1>2, <1>3, CloseLunAdvances, AdvancesTransitive
<1>4. CASE ReadBlock
  <2>1. PICK o \in ReadNextSector(fs, blocks - 1) : fs' \in {o.fs} \cup StopLun(o.fs)
    BY <1>4 DEF ReadBlock, TransferFails
  <2>2. Sound(o.fs) /\ FileOf(o.fs, cdb.lun) /\ Advances(fs, o.fs)
    BY <1>2, ReadNextSectorSound, ReadingAdvances
  <2>3. QED
    BY <1>3, <2>1, <2>2
<1>5. CASE ReadDma \/ WriteDma
  <2>1. fs' \in {fs} \cup CloseLun(fs, cdb.lun)
    BY <1>5 DEF ReadDma, WriteDma, TransferReset, NextBlock
  <2>2. QED
    BY <1>2, <1>3, <2>1, AdvancesSame
<1>6. CASE WriteBlock
  <2>1. PICK o \in WriteNextSector(fs, cdb.lun) :
           fs' \in {o.fs} \cup CloseLun(o.fs, cdb.lun) \cup StopLun(o.fs)
    BY <1>6 DEF WriteBlock, NextBlock, TransferFails
  <2>2. /\ Sound(o.fs) /\ Keeps(fs, o.fs) /\ FileOf(o.fs, cdb.lun)
        /\ o.fs.dsc = fs.dsc /\ o.fs.started = fs.started
    BY <1>2, WriteNextSectorSound
  <2>3. Advances(fs, o.fs)
    BY <1>2, <2>2, WritingAdvances
  <2>4. QED
    BY <1>3, <2>1, <2>2, <2>3
<1>7. QED
  BY <1>4, <1>5, <1>6

LEMMA NextAdvances == ASSUME Untroubled, ~CardSwaps, Inv, [Next]_vars PROVE Advances(fs, fs')
<1>1. CASE fs' = fs
  BY <1>1, AdvancesItself
<1>2. CASE ReadBegin \/ WriteBegin
  BY <1>2, TransferBeginAdvances DEF ReadBegin, WriteBegin
<1>3. CASE Reset
  BY <1>3, TypeFacts, FsResetAdvances DEF Reset
<1>4. ~ChangeCard
  BY DEF ChangeCard
<1>5. \/ fs' = fs \/ Command \/ ReadBegin \/ WriteBegin \/ Reset
      \/ ReadBlock \/ ReadDma \/ WriteDma \/ WriteBlock
  BY <1>4 DEF Next, Firmware, Environment, Bus, BusFree, BusBusy, SelectBegin, SelectDecide, SelectEnd,
              SelectTimeout, InformationTransfer, CommandBegin, CommandEnd, StatusBegin, StatusEnd,
              MessageBegin, MessageEnd, InvalidState, NoReset, RstEdge, Wires, Transfer, vars
<1>6. QED
  BY <1>1, <1>2, <1>3, <1>5, CommandAdvances, TransferStepAdvances

\* What START checked stays true while the LUN is started: it has its image
\* and its descriptor, on a card that is not changed, has room and does not
\* fail.
THEOREM StartedAlwaysHasFiles ==
    ASSUME ~IoFaults, ~CardMayFill, ~CardSwaps PROVE Spec => []StartedLunHasFiles
<1>1. Init => StartedLunHasFiles
  <2> SUFFICES ASSUME Init PROVE StartedLunHasFiles
    OBVIOUS
  <2>1. PICK card \in Cards, o \in UNION { Mount(Unmounted(c)) : c \in Cards } :
           o \in Mount(Unmounted(card)) /\ fs = o.fs
    BY DEF Init
  <2>2. Unmounted(card) \in FsState
    BY ScsiAssumption DEF Unmounted, FsState, AllStopped
  <2>3. Sound(Unmounted(card))
    BY <2>2 DEF Sound, Unmounted, AllStopped
  <2>4. Advances(Unmounted(card), fs)
    BY <2>1, <2>3, MountAdvances DEF Untroubled
  <2>5. \A l \in LUN : ~Unmounted(card).started[l]
    BY DEF Unmounted, AllStopped
  <2>6. QED
    BY <2>4, <2>5 DEF Advances, HasFiles, StartedLunHasFiles
<1>2. Inv /\ StartedLunHasFiles /\ [Next]_vars => StartedLunHasFiles'
  BY NextAdvances DEF Untroubled, Advances, HasFiles, StartedLunHasFiles
<1>3. QED
  BY <1>1, <1>2, AlwaysInv, PTL DEF Spec
=============================================================================
