-------------------------- MODULE ScsiCommandProofs --------------------------
(***************************************************************************)
(* The target implements the command an initiator sees (ScsiCommand), for  *)
(* every set of LUNs, cards, commands and blocks, whatever fails, as long   *)
(* as no INQUIRY asks for vital product data: the state after that one is  *)
(* undefined.                                                              *)
(***************************************************************************)
EXTENDS ScsiTargetProofs

\* INQUIRY is one of the two whose end is defined.
DefinedInquiry == scsiState = "INQUIRY" => cdb.arg \in {0, 1}

\* The two waits of a selection are where they belong.
InSelect == scsiState \in {"SELECT", "BUSBUSY"}
Waits == {"delay", "selwait"}

ViewInv == DefinedInquiry /\ (step \in Waits => InSelect)

\* A step that does not decode a command keeps the command block, and starts
\* no handler.
Elsewhere ==
    /\ cdb' = cdb
    /\ \/ scsiState' = scsiState /\ (step' = step \/ step' \notin Waits \/ InSelect)
       \/ /\ scsiState' \in {"BUSFREE", "BUSBUSY", "SELECT", "COMMAND", "STATUS", "MESSAGE"}
          /\ step' = "start"

LEMMA ElsewhereView == ASSUME ViewInv, Elsewhere PROVE ViewInv'
BY DEF ViewInv, DefinedInquiry, Elsewhere, InSelect, Waits

\* The view of the initiator, but for the reset, stays or is that of a
\* command that was carried out.
Stays == UNCHANGED <<HostStage, HostAsked, HostMoved, HostResult>> /\ (HostReset => HostReset')
Reports ==
    /\ HostStage = "execute" /\ HostStage' = "status"
    /\ HostResult' \in {"good", "check"}
    /\ HostResult' = "good" => HostMoved = HostAsked
    /\ HostAsked' = 0 /\ HostMoved' = 0 /\ (HostReset => HostReset')

LEMMA StaysNext == ASSUME Stays PROVE Host!CommandNext
BY DEF Stays, Host!CommandNext, Host!RaiseReset, Host!Raise

LEMMA ReportsNext == ASSUME Reports PROVE Host!CommandNext
BY DEF Reports, Host!CommandNext, Host!Report, Host!Raise

\* The flag and the pending edge stay, or one of them is raised.
LEMMA ResetKept == ASSUME UNCHANGED rstVars PROVE HostReset => HostReset'
BY DEF rstVars, HostReset

LEMMA ResetRaised == ASSUME nrst' = TRUE \/ pend' = TRUE PROVE HostReset'
BY DEF HostReset

\* What the view depends on.
LEMMA SameView ==
    ASSUME scsiState' = scsiState, step' = step, main' = main, cdb' = cdb, blocks' = blocks,
           status' = status, HostReset => HostReset'
    PROVE  Stays
BY DEF Stays, HostStage, HostAsked, HostMoved, HostResult, Transferring, NumberOfBlocks

\* Outside the block transfers and STATUS the view is the state of the state machine.
LEMMA StateIsView ==
    ASSUME scsiState' = scsiState, scsiState \notin {"READ6", "WRITE6", "STATUS"},
           HostReset => HostReset'
    PROVE  Stays
BY DEF Stays, HostStage, HostAsked, HostMoved, HostResult, Transferring

\* A handler is over: outside the block transfers, with CHECK CONDITION, or
\* after the last block was written.
LEMMA StatusReports ==
    ASSUME Inv, scsiState \in Handlers, scsiState' = "STATUS", HostReset => HostReset',
           \/ scsiState \notin {"READ6", "WRITE6"}
           \/ status'.bad
           \/ At("WRITE6", "write") /\ blocks = 1
    PROVE  Reports
<1>1. HostStage = "execute" /\ HostStage' = "status"
  BY DEF HostStage, Handlers
<1>2. HostAsked' = 0 /\ HostMoved' = 0 /\ HostResult' = IF status'.bad THEN "check" ELSE "good"
  BY DEF HostAsked, HostMoved, HostResult, Transferring
<1>3. CASE scsiState \notin {"READ6", "WRITE6"}
  BY <1>1, <1>2, <1>3 DEF Reports, HostMoved, HostAsked, Transferring
<1>4. CASE status'.bad
  BY <1>1, <1>2, <1>4 DEF Reports
<1>5. CASE At("WRITE6", "write") /\ blocks = 1
  <2>1. HostMoved = HostAsked
    BY <1>5, BlocksPositive DEF At, HostMoved, HostAsked, Transferring
  <2>2. QED
    BY <1>1, <1>2, <2>1 DEF Reports
<1>6. QED
  BY <1>3, <1>4, <1>5

-----------------------------------------------------------------------------
(* The initial states, the bus and the information transfer phases.        *)

LEMMA InitView == Init => Host!CommandInit
BY DEF Init, Host!CommandInit, HostStage, HostAsked, HostMoved, HostResult, HostReset, Transferring

LEMMA BusView == ASSUME Inv, ViewInv, Bus PROVE Host!CommandNext /\ Elsewhere
<1> USE DEF At, Return, Continue, cmdVars, scsiVars, pinVars, rstVars, HostReset, InSelect, Waits
<1>1. /\ scsiState \in {"BUSFREE", "BUSBUSY", "SELECT"}
      /\ scsiState' \in {"BUSFREE", "BUSBUSY", "SELECT", "COMMAND"}
      /\ (HostReset => HostReset') /\ Elsewhere
  <2>1. CASE BusFree
    BY <2>1 DEF BusFree, Elsewhere
  <2>2. CASE BusBusy
    BY <2>2 DEF BusBusy, Elsewhere
  <2>3. CASE SelectBegin
    BY <2>3 DEF SelectBegin, Elsewhere
  <2>4. CASE SelectDecide
    <3>1. InSelect /\ cdb' = cdb /\ nrst' = nrst /\ pend' = pend
      BY <2>4 DEF SelectDecide, ViewInv
    <3>2. \/ scsiState' = scsiState
          \/ scsiState' = "BUSBUSY" /\ step' = "start"
      BY <2>4 DEF SelectDecide
    <3>3. QED
      BY <3>1, <3>2 DEF Elsewhere
  <2>5. CASE SelectEnd \/ SelectTimeout
    <3>1. InSelect /\ cdb' = cdb /\ (HostReset => HostReset')
      BY <2>5 DEF SelectEnd, SelectTimeout, ViewInv
    <3>2. scsiState' = "COMMAND" /\ step' = "start"
      BY <2>5 DEF SelectEnd, SelectTimeout
    <3>3. QED
      BY <3>1, <3>2 DEF Elsewhere
  <2>6. QED
    BY <2>1, <2>2, <2>3, <2>4, <2>5 DEF Bus
<1>2. CASE scsiState' # "COMMAND"
  BY <1>1, <1>2, StaysNext DEF Stays, HostStage, HostAsked, HostMoved, HostResult, Transferring
<1>3. CASE scsiState' = "COMMAND"
  BY <1>1, <1>3 DEF Host!CommandNext, Host!SelectTarget, Host!Forget, Host!Raise,
     HostStage, HostAsked, HostMoved, HostResult, Transferring
<1>4. QED
  BY <1>1, <1>2, <1>3

LEMMA InformationTransferView ==
    ASSUME Inv, ViewInv, InformationTransfer, 2 \notin InquiryArgs
    PROVE  Host!CommandNext /\ ViewInv'
<1> USE DEF At, Return, Continue, cmdVars, scsiVars, pinVars, rstVars, HostReset
<1> USE DEF Host!CommandNext, Host!Forget, Host!Raise
<1>1. CASE CommandBegin \/ StatusBegin \/ MessageBegin
  <2>1. /\ scsiState' = scsiState /\ scsiState \in {"COMMAND", "STATUS", "MESSAGE"}
        /\ step' = "bytes" /\ cdb' = cdb /\ status' = status /\ (HostReset => HostReset')
    BY <1>1 DEF CommandBegin, StatusBegin, MessageBegin
  <2>2. Stays
    BY <2>1 DEF Stays, HostStage, HostAsked, HostMoved, HostResult, Transferring
  <2>3. QED
    BY <2>1, <2>2, StaysNext, ElsewhereView DEF Elsewhere, Waits
<1>2. CASE CommandEnd
  <2>0. PICK op \in Commands : \E c \in Cdbs(op) :
           cdb' = c /\ scsiState' = IF op = "UNKNOWN" THEN "BUSFREE" ELSE op
    BY <1>2 DEF CommandEnd
  <2>1. cdb' \in Cdbs(op) /\ scsiState' = IF op = "UNKNOWN" THEN "BUSFREE" ELSE op
    BY <2>0
  <2>2. scsiState = "COMMAND" /\ step' = "start" /\ main' = "check" /\ (HostReset => HostReset')
    BY <1>2 DEF CommandEnd
  <2>3. CASE op = "UNKNOWN"
    BY <2>1, <2>2, <2>3 DEF Host!Reject, HostStage, HostAsked, HostMoved, HostResult, Transferring,
       ViewInv, DefinedInquiry, Waits
  <2>4. CASE op # "UNKNOWN"
    <3>1. scsiState' \in Handlers
      BY <2>1, <2>4, ScsiAssumption
    <3>2. NumberOfBlocks' \in Nat
      <4>1. cdb'.arg \in Nat
        BY <2>1, CdbType
      <4>2. QED
        BY <4>1, ScsiAssumption DEF NumberOfBlocks
    <3>3. Host!Accept
      BY <2>2, <3>1, <3>2 DEF Host!Accept, Handlers, HostStage, HostAsked, HostMoved, HostResult, Transferring
    <3>4. ASSUME scsiState' = "INQUIRY" PROVE cdb'.arg \in {0, 1}
      <4>1. cdb' \in Cdbs("INQUIRY")
        BY <2>1, <3>4
      <4>2. cdb'.arg \in InquiryArgs
        BY <4>1 DEF Cdbs, Args
      <4>3. \A n \in InquiryArgs : n = 0 \/ n = 1 \/ n = 2
        BY ScsiAssumption
      <4>4. QED
        BY <4>2, <4>3
    <3>5. QED
      BY <2>2, <3>3, <3>4 DEF ViewInv, DefinedInquiry, Waits
  <2>5. QED
    BY <2>3, <2>4
<1>3. CASE StatusEnd
  <2>1. Elsewhere
    BY <1>3 DEF StatusEnd, Elsewhere
  <2>2. Host!SendStatus
    BY <1>3 DEF StatusEnd, Host!SendStatus, HostStage, HostAsked, HostMoved, HostResult, Transferring
  <2>3. QED
    BY <2>1, <2>2, ElsewhereView
<1>4. CASE MessageEnd
  <2>1. Elsewhere
    BY <1>4 DEF MessageEnd, Elsewhere
  <2>2. Host!SendMessage
    BY <1>4 DEF MessageEnd, Host!SendMessage, HostStage, HostAsked, HostMoved, HostResult, Transferring
  <2>3. QED
    BY <2>1, <2>2, ElsewhereView
<1>5. QED
  BY <1>1, <1>2, <1>3, <1>4 DEF InformationTransfer

-----------------------------------------------------------------------------
(* The commands.                                                           *)

LEMMA CommandView == ASSUME Inv, ViewInv, Command PROVE Host!CommandNext /\ Elsewhere
<1> DEFINE Outside ==
        /\ scsiState \in Handlers \ {"READ6", "WRITE6"} /\ cdb' = cdb
        /\ \/ scsiState' = scsiState /\ step' \in {"bytes", "format", "dma"}
           \/ scsiState' = "STATUS" /\ step' = "start"
<1> USE DEF At, Return, Continue, Succeed, Fail, cmdVars, scsiVars, pinVars, Handlers
<1>0. HostReset => HostReset'
  <2>1. UNCHANGED rstVars \/ InquiryDma
    BY DEF Command, TestUnitReady, RezeroUnit, Seek, ReportReady, RequestSenseBegin, RequestSenseEnd,
       StartStop, Verify, TranslateBegin, TranslateEnd, SendEnd, ModeSenseBegin, ModeSenseEnd,
       ModeSelectBegin, ModeSelectEnd, FormatBegin, FormatDefectList, FormatEnd, InquiryBegin
  <2>2. CASE InquiryDma
    <3>1. CASE nrst' = TRUE
      BY <3>1, ResetRaised
    <3>2. CASE nrst' = nrst
      BY <2>2, <3>2, ResetKept DEF InquiryDma, rstVars
    <3>3. QED
      BY <2>2, <3>1, <3>2 DEF InquiryDma
  <2>3. QED
    BY <2>1, <2>2, ResetKept
<1>1. Outside
  <2>1. CASE TestUnitReady \/ RezeroUnit \/ Seek
    BY <2>1 DEF TestUnitReady, RezeroUnit, Seek, ReportReady
  <2>2. CASE RequestSenseBegin \/ RequestSenseEnd
    BY <2>2 DEF RequestSenseBegin, RequestSenseEnd
  <2>3. CASE StartStop
    BY <2>3 DEF StartStop
  <2>4. CASE Verify
    BY <2>4 DEF Verify
  <2>5. CASE TranslateBegin \/ ModeSenseBegin
    BY <2>5 DEF TranslateBegin, ModeSenseBegin
  <2>6. CASE TranslateEnd \/ ModeSenseEnd \/ ModeSelectEnd
    BY <2>6 DEF TranslateEnd, ModeSenseEnd, SendEnd, ModeSelectEnd
  <2>7. CASE ModeSelectBegin
    BY <2>7 DEF ModeSelectBegin
  <2>8. CASE FormatBegin \/ FormatDefectList \/ FormatEnd
    BY <2>8 DEF FormatBegin, FormatDefectList, FormatEnd
  <2>9. CASE InquiryBegin
    <3>1. scsiState = "INQUIRY" /\ cdb' = cdb
      BY <2>9 DEF InquiryBegin
    <3>2. ~(cdb.arg > 1)
      BY <3>1 DEF ViewInv, DefinedInquiry
    <3>3. QED
      BY <2>9, <3>1, <3>2 DEF InquiryBegin
  <2>10. CASE InquiryDma
    BY <2>10 DEF InquiryDma
  <2>11. QED
    BY <2>1, <2>2, <2>3, <2>4, <2>5, <2>6, <2>7, <2>8, <2>9, <2>10 DEF Command
<1>2. CASE scsiState' = scsiState
  <2>1. Stays
    BY <1>0, <1>1, <1>2, StateIsView
  <2>2. QED
    BY <1>1, <1>2, <2>1, StaysNext DEF Elsewhere, Waits
<1>3. CASE scsiState' = "STATUS"
  <2>1. Reports
    BY <1>0, <1>1, <1>3, StatusReports
  <2>2. QED
    BY <1>1, <1>3, <2>1, ReportsNext DEF Elsewhere
<1>4. QED
  BY <1>1, <1>2, <1>3

-----------------------------------------------------------------------------
(* The block transfers.                                                    *)

\* A block of READ went over the bus: the next one, or GOOD.
LEMMA BlockSentView ==
    ASSUME Inv, Reading, main = "process", NextBlock(fs, "block"), ~HostReset, ~HostReset'
    PROVE  Host!CommandNext /\ Elsewhere
<1>1. /\ Transferring /\ step # "write" /\ scsiState = "READ6"
      /\ blocks \in Nat \ {0} /\ NumberOfBlocks \in Nat
  BY BlocksPositive DEF Inv, TypeOK, Control, Reading, Transferring
<1>2. HostStage = "execute" /\ HostAsked = NumberOfBlocks /\ HostMoved = NumberOfBlocks - blocks
  BY <1>1 DEF HostStage, HostAsked, HostMoved
<1>3. CASE blocks = 1
  <2>1. scsiState' = "STATUS" /\ step' = "start" /\ cdb' = cdb /\ ~status'.bad
    BY <1>3 DEF NextBlock, Succeed, Return, Good
  <2>2. HostStage' = "status" /\ HostAsked' = 0 /\ HostMoved' = 0 /\ HostResult' = "good"
    BY <2>1 DEF HostStage, HostAsked, HostMoved, HostResult, Transferring
  <2>3. Host!MoveLastBlock
    BY <1>1, <1>2, <1>3, <2>2 DEF Host!MoveLastBlock, Host!Raise
  <2>4. QED
    BY <2>1, <2>3 DEF Host!CommandNext, Elsewhere
<1>4. CASE blocks # 1
  <2>1. /\ scsiState' = scsiState /\ step' = "block" /\ main' = main
        /\ cdb' = cdb /\ blocks' = blocks - 1
    BY <1>4 DEF NextBlock, Continue, cmdVars
  <2>2. NumberOfBlocks' = NumberOfBlocks /\ Transferring'
    BY <1>1, <2>1 DEF NumberOfBlocks, Transferring
  <2>3. Host!MoveBlock
    BY <1>1, <2>1, <2>2 DEF Host!MoveBlock, Host!Raise, HostStage, HostAsked, HostMoved, HostResult
  <2>4. QED
    BY <2>1, <2>3 DEF Host!CommandNext, Elsewhere, Waits
<1>5. QED
  BY <1>3, <1>4

\* A block of WRITE went over the bus.
LEMMA BlockReceivedView ==
    ASSUME Inv, At("WRITE6", "dma"), Continue("write"), UNCHANGED <<cmdVars, blocks>>,
           HostReset => HostReset'
    PROVE  Host!CommandNext /\ Elsewhere
<1>1. /\ scsiState = "WRITE6" /\ step = "dma" /\ main = "process" /\ blocks \in Nat \ {0}
      /\ NumberOfBlocks \in Nat
  BY BlocksPositive DEF At, Inv, TypeOK, Control, Writing
<1>2. /\ scsiState' = scsiState /\ step' = "write" /\ main' = main
      /\ cdb' = cdb /\ blocks' = blocks
  BY DEF Continue, cmdVars
<1>3. NumberOfBlocks' = NumberOfBlocks /\ Transferring /\ Transferring'
  BY <1>1, <1>2 DEF NumberOfBlocks, Transferring
<1>4. Host!MoveBlock
  BY <1>1, <1>2, <1>3 DEF Host!MoveBlock, Host!Raise, HostStage, HostAsked, HostMoved, HostResult
<1>5. QED
  BY <1>2, <1>4 DEF Host!CommandNext, Elsewhere, Waits

\* It was written to the image: the next one, or GOOD.
LEMMA BlockWrittenView ==
    ASSUME Inv, At("WRITE6", "write"), NEW s, NextBlock(s, "dma"), HostReset => HostReset'
    PROVE  Host!CommandNext /\ Elsewhere
<1>1. /\ scsiState = "WRITE6" /\ step = "write" /\ main = "process" /\ blocks \in Nat \ {0}
      /\ NumberOfBlocks \in Nat
  BY BlocksPositive DEF At, Inv, TypeOK, Control, Writing
<1>2. CASE blocks = 1
  <2>1. scsiState' = "STATUS" /\ step' = "start" /\ cdb' = cdb
    BY <1>2 DEF NextBlock, Succeed, Return
  <2>2. Reports
    BY <1>1, <1>2, <2>1, StatusReports DEF Handlers
  <2>3. QED
    BY <2>1, <2>2, ReportsNext DEF Elsewhere
<1>3. CASE blocks # 1
  <2>1. /\ scsiState' = scsiState /\ step' = "dma" /\ main' = main
        /\ cdb' = cdb /\ blocks' = blocks - 1
    BY <1>3 DEF NextBlock, Continue, cmdVars
  <2>2. NumberOfBlocks' = NumberOfBlocks /\ Transferring /\ Transferring'
    BY <1>1, <2>1 DEF NumberOfBlocks, Transferring
  <2>3. HostMoved' = HostMoved
    BY <1>1, <2>1, <2>2 DEF HostMoved
  <2>4. Stays
    BY <1>1, <2>1, <2>2, <2>3 DEF Stays, HostStage, HostAsked, HostResult
  <2>5. QED
    BY <2>1, <2>4, StaysNext DEF Elsewhere, Waits
<1>4. QED
  BY <1>2, <1>3

LEMMA TransferResetView ==
    ASSUME Inv, Reading \/ Writing, TransferReset, HostReset'
    PROVE  Host!CommandNext /\ Elsewhere
<1>1. scsiState \in {"READ6", "WRITE6"} /\ scsiState' = "BUSFREE" /\ step' = "start" /\ cdb' = cdb
  BY DEF TransferReset, Return, cmdVars, Reading, Writing
<1>2. Host!Abandon
  BY <1>1 DEF Host!Abandon, Host!Forget, HostStage, HostAsked, HostMoved, HostResult, Transferring
<1>3. QED
  BY <1>1, <1>2 DEF Host!CommandNext, Elsewhere

\* READ or WRITE fails.
LEMMA FailureView ==
    ASSUME Inv, scsiState \in {"READ6", "WRITE6"}, NEW reason, Fail(reason), HostReset => HostReset'
    PROVE  Host!CommandNext /\ Elsewhere
<1>1. scsiState' = "STATUS" /\ step' = "start" /\ cdb' = cdb /\ status'.bad
  BY DEF Fail, Return, Bad
<1>2. Reports
  BY <1>1, StatusReports DEF Handlers
<1>3. QED
  BY <1>1, <1>2, ReportsNext DEF Elsewhere

\* READ has read the next block from the image.
LEMMA BlockReadView ==
    ASSUME Inv, At("READ6", "block"), Continue("dma"), cdb' = cdb, blocks' = blocks,
           HostReset => HostReset'
    PROVE  Host!CommandNext /\ Elsewhere
<1>1. /\ scsiState' = scsiState /\ scsiState = "READ6" /\ step = "block" /\ step' = "dma"
      /\ Transferring /\ Transferring'
  BY DEF At, Continue, Transferring
<1>2. Stays
  BY <1>1 DEF Stays, HostStage, HostAsked, HostMoved, HostResult, NumberOfBlocks
<1>3. QED
  BY <1>1, <1>2, StaysNext DEF Elsewhere, Waits

LEMMA TransferBeginView ==
    ASSUME Inv, NEW op \in {"READ6", "WRITE6"}, NEW itphase, NEW next \in {"block", "dma"},
           TransferBegin(op, itphase, next)
    PROVE  Host!CommandNext /\ Elsewhere
<1>1. scsiState = op /\ step = "start" /\ main = "process" /\ nrst' = nrst /\ pend' = pend
  BY DEF TransferBegin, At, rstVars
<1>2. \/ Fail("2/1C bad format") \/ Fail("0/04 drive not ready")
      \/ blocks' = NumberOfBlocks /\ Continue(next) /\ UNCHANGED cmdVars
  BY DEF TransferBegin
<1>3. CASE Fail("2/1C bad format") \/ Fail("0/04 drive not ready")
  BY <1>1, <1>3, FailureView DEF HostReset
<1>4. CASE blocks' = NumberOfBlocks /\ Continue(next) /\ UNCHANGED cmdVars
  <2>1. /\ scsiState' = scsiState /\ step' = next /\ cdb' = cdb /\ main' = main
    BY <1>4 DEF Continue, cmdVars
  <2>2. NumberOfBlocks' = NumberOfBlocks /\ NumberOfBlocks \in Nat
    BY <2>1, BlocksPositive DEF NumberOfBlocks
  <2>3. HostMoved = 0 /\ HostMoved' = 0
    BY <1>1, <1>4, <2>1, <2>2 DEF HostMoved, Transferring
  <2>4. Stays
    BY <1>1, <2>1, <2>2, <2>3 DEF Stays, HostStage, HostAsked, HostResult, HostReset
  <2>5. QED
    BY <2>1, <2>4, StaysNext DEF Elsewhere, Waits
<1>5. QED
  BY <1>2, <1>3, <1>4

LEMMA TransferView == ASSUME Inv, ViewInv, Transfer PROVE Host!CommandNext /\ Elsewhere
<1> USE DEF At, rstVars, HostReset
<1>1. CASE ReadBegin
  BY <1>1, TransferBeginView DEF ReadBegin
<1>2. CASE WriteBegin
  BY <1>2, TransferBeginView DEF WriteBegin
<1>3. CASE ReadBlock
  <2>1. PICK o \in ReadNextSector(fs, blocks - 1) :
           \/ Continue("dma") /\ UNCHANGED <<cmdVars, blocks>>
           \/ Fail("0/04 drive not ready")
    BY <1>3 DEF ReadBlock, TransferFails
  <2>2. At("READ6", "block") /\ (HostReset => HostReset')
    BY <1>3 DEF ReadBlock
  <2>3. QED
    BY <2>1, <2>2, BlockReadView, FailureView DEF cmdVars
<1>4. CASE ReadDma
  <2>1. /\ Reading /\ main = "process" /\ (HostReset => nrst') /\ (~nrst' => ~HostReset')
        /\ IF nrst' THEN TransferReset ELSE NextBlock(fs, "block")
    BY <1>4 DEF ReadDma, Reading, ResetAfterDma
  <2>2. QED
    BY <2>1, TransferResetView, BlockSentView
<1>5. CASE WriteDma
  <2>1. /\ Writing /\ At("WRITE6", "dma") /\ (HostReset => nrst')
        /\ IF nrst' THEN TransferReset ELSE Continue("write") /\ UNCHANGED <<fs, cmdVars, blocks>>
    BY <1>5 DEF WriteDma, Writing, ResetAfterDma
  <2>2. QED
    BY <2>1, TransferResetView, BlockReceivedView
<1>6. CASE WriteBlock
  <2>1. PICK o \in WriteNextSector(fs, cdb.lun) :
           NextBlock(o.fs, "dma") \/ Fail("0/04 drive not ready")
    BY <1>6 DEF WriteBlock, TransferFails
  <2>2. At("WRITE6", "write") /\ (HostReset => HostReset')
    BY <1>6 DEF WriteBlock
  <2>3. QED
    BY <2>1, <2>2, BlockWrittenView, FailureView
<1>7. QED
  BY <1>1, <1>2, <1>3, <1>4, <1>5, <1>6 DEF Transfer

-----------------------------------------------------------------------------
(* The main loop and the environment, and the theorem.                     *)

LEMMA ResetView == ASSUME Inv, Reset PROVE Host!CommandNext /\ ViewInv'
<1>1. nrst /\ scsiState' = "BUSFREE" /\ step' = "start"
  BY DEF Reset
<1>2. Host!ServeReset
  BY <1>1 DEF Host!ServeReset, Host!Forget, HostStage, HostAsked, HostMoved, HostResult, HostReset, Transferring
<1>3. QED
  BY <1>1, <1>2 DEF Host!CommandNext, ViewInv, DefinedInquiry, Waits

LEMMA NoResetView == ASSUME Inv, NoReset PROVE Host!CommandNext /\ Elsewhere
<1>1. /\ step = "start" /\ UNCHANGED <<scsiState, step, cdb, blocks, status, nrst, pend>>
  BY DEF NoReset, Inv, Control, cmdVars, rstVars
<1>2. Stays
  BY <1>1 DEF Stays, HostStage, HostAsked, HostMoved, HostResult, HostReset, Transferring, NumberOfBlocks
<1>3. QED
  BY <1>1, <1>2, StaysNext DEF Elsewhere

LEMMA OtherView ==
    ASSUME Inv, InvalidState \/ Environment \/ UNCHANGED vars
    PROVE  Host!CommandNext /\ Elsewhere
<1> USE DEF HostReset, cmdVars, scsiVars, rstVars
<1>1. CASE InvalidState
  <2>1. scsiState = "INVALID" /\ scsiState' = "INVALID" /\ step' = "start" /\ UNCHANGED <<cdb, nrst, pend>>
    BY <1>1 DEF InvalidState, At, Return
  <2>2. Stays
    BY <2>1, StateIsView
  <2>3. QED
    BY <2>1, <2>2, StaysNext DEF Elsewhere, Waits
<1>2. CASE Environment \/ UNCHANGED vars
  <2>1. UNCHANGED <<scsiState, step, main, cdb, blocks, status>>
    BY <1>2 DEF Environment, RstEdge, Wires, ChangeCard, vars
  <2>2. UNCHANGED rstVars \/ nrst' = TRUE \/ pend' = TRUE
    BY <1>2 DEF Environment, RstEdge, Wires, ChangeCard, vars
  <2>3. HostReset => HostReset'
    BY <2>2, ResetKept, ResetRaised
  <2>4. QED
    BY <2>1, <2>3, SameView, StaysNext DEF Elsewhere
<1>3. QED
  BY <1>1, <1>2

LEMMA StepView ==
    ASSUME Inv, ViewInv, 2 \notin InquiryArgs, [Next]_vars
    PROVE  Host!CommandNext /\ ViewInv'
<1>1. CASE Bus \/ Command \/ Transfer
  BY <1>1, BusView, CommandView, TransferView, ElsewhereView
<1>2. CASE InformationTransfer
  BY <1>2, InformationTransferView
<1>3. CASE Reset
  BY <1>3, ResetView
<1>4. CASE NoReset \/ InvalidState \/ Environment \/ UNCHANGED vars
  BY <1>4, NoResetView, OtherView, ElsewhereView
<1>5. QED
  BY <1>1, <1>2, <1>3, <1>4 DEF Next, Firmware

\* The target implements the command an initiator sees: the exits of all the
\* handlers of scsi.c and the loops of READ and WRITE, whatever fails.
THEOREM TargetImplementsCommand ==
    ASSUME 2 \notin InquiryArgs PROVE Spec => ImplementsCommand
<1>1. Init => ViewInv
  BY DEF Init, ViewInv, DefinedInquiry, Waits
<1>2. Inv /\ ViewInv /\ [Next]_vars => [Host!CommandNext]_(Host!cmdView) /\ ViewInv'
  BY StepView
<1>3. QED
  BY <1>1, <1>2, InitView, AlwaysInv, PTL DEF Spec, ImplementsCommand, Host!CommandSpec

=============================================================================
