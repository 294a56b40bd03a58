------------------------------ MODULE HostAdapter ------------------------------
(***************************************************************************)
(* The REQ/ACK handshake (hostadapter.c): the four transfer functions, the *)
(* lines of the bus they drive and read, the reset interrupt, and the      *)
(* initiator at the other end of the cable (external).                     *)
(*                                                                         *)
(* A list is moved by calls of hostadapterReadByte or hostadapterWriteByte *)
(* in a loop of scsi.c, a block by one call of hostadapterPerformReadDMA   *)
(* (to the host) or hostadapterPerformWriteDMA (from the host).  A message *)
(* is a list or a block; its byte i has the value i.                       *)
(*                                                                         *)
(* The target does not wait until ACK is released: whether that and the    *)
(* data bus are seen in time is left to the host, see PromptHost, HoldsData.*)
(***************************************************************************)
EXTENDS Integers, Sequences

CONSTANTS
    ListLength,   \* bytes of a list
    BlockLength,  \* bytes of a block, 256 in the code
    TocMax,       \* TOC_MAX, the polls of ACK before a DMA gives up
    PromptHost,   \* does the host release ACK before it can be asked again?
    HoldsData,    \* does it leave a byte on the bus after it releases ACK?
    Garbage       \* what else the bus may show

ASSUME HostAssumption ==
    /\ ListLength \in Nat \ {0} /\ BlockLength \in Nat \ {0} /\ TocMax \in Nat \ {0}
    /\ PromptHost \in BOOLEAN /\ HoldsData \in BOOLEAN
    /\ Garbage \notin Nat

VARIABLES
    routine,         \* the transfer function
    pc,              \* where it is: "idle" (not called), "request", "wait", "latch"
    masked,          \* was it called between __disable_irq and __enable_irq?
    currentByte, timeoutCounter,
    nrstFlag, pend,  \* the reset flag; a masked RST edge
    req, ack, bus,   \* REQ, ACK, the byte on the data bus
    sent,            \* bytes the host has sent
    taken            \* what the receiver of the message has taken

callVars == <<routine, masked>>
loopVars == <<currentByte, timeoutCounter>>
rstVars  == <<nrstFlag, pend>>
vars == <<callVars, pc, loopVars, rstVars, req, ack, bus, sent, taken>>

Lists == { "ReadByte", "WriteByte" }
Dma   == { "PerformReadDMA", "PerformWriteDMA" }
Sending == routine \in { "WriteByte", "PerformReadDMA" }
Size(r) == IF r \in Dma THEN BlockLength ELSE ListLength
Values == (0 .. ListLength - 1) \cup (0 .. BlockLength - 1) \cup {Garbage}

-----------------------------------------------------------------------------
TypeOK ==
    /\ routine \in Lists \cup Dma /\ pc \in { "idle", "request", "wait", "latch" }
    /\ masked \in BOOLEAN
    /\ currentByte \in 0 .. Size(routine) /\ timeoutCounter \in 0 .. TocMax - 1
    /\ nrstFlag \in BOOLEAN /\ pend \in BOOLEAN
    /\ req \in BOOLEAN /\ ack \in BOOLEAN /\ bus \in Values
    /\ sent \in Nat /\ taken \in Seq(Values)

\* hostadapterInitialise releases REQ and makes the data bus an input.
Init ==
    /\ routine = "ReadByte" /\ pc = "idle" /\ masked = FALSE
    /\ currentByte = 0 /\ timeoutCounter = 0
    /\ nrstFlag = FALSE /\ pend = FALSE
    /\ req = FALSE /\ ack = FALSE /\ bus = Garbage
    /\ sent = 0 /\ taken = << >>

-----------------------------------------------------------------------------
(* The target.                                                             *)

\* scsi.c asserts a phase and calls a transfer function.  (After a DMA that
\* timed out, with REQ asserted, main() serves the reset first.)
Begin(r) ==
    /\ pc = "idle" /\ ~req
    /\ routine' = r /\ pc' = "request"
    /\ masked' \in IF r \in Dma THEN BOOLEAN ELSE {FALSE}
    /\ currentByte' = 0 /\ timeoutCounter' = 0
    /\ sent' = 0 /\ taken' = << >>
    /\ UNCHANGED <<rstVars, req, ack, bus>>

\* (mutant: REQ is not asserted)
RequestNothing ==
    /\ pc = "request"
    /\ pc' = "wait" /\ timeoutCounter' = 0
    /\ UNCHANGED <<callVars, currentByte, rstVars, req, ack, bus, sent, taken>>

\* The next byte is put on the bus, if it is the target's; REQ is asserted.
Request ==
    /\ pc = "request"
    /\ PromptHost => ~ack
    /\ pc' = "wait" /\ timeoutCounter' = 0
    /\ req' = TRUE
    /\ bus' = IF Sending THEN currentByte ELSE bus
    /\ UNCHANGED <<callVars, currentByte, rstVars, ack, sent, taken>>

\* The function returns; if interrupts were disabled they are enabled again.
Return ==
    /\ pc' = "idle"
    /\ nrstFlag' = (nrstFlag \/ pend) /\ pend' = FALSE

\* (mutant: the loop ends one byte early)
NextByteOneShort ==
    /\ currentByte' = currentByte + 1
    /\ IF currentByte' + 1 >= Size(routine)
       THEN Return
       ELSE pc' = "request" /\ UNCHANGED rstVars

\* One byte is moved; after the last one the function returns.
NextByte ==
    /\ currentByte' = currentByte + 1
    /\ IF currentByte' = Size(routine)
       THEN Return
       ELSE pc' = "request" /\ UNCHANGED rstVars

\* (mutants: ACK is not waited for; the wait does not end on a reset)
AnyTime == pc = "wait"
AckOnly == pc = "wait" /\ ack

\* A byte of a list is waited for only while the reset flag is clear.
Acknowledged == pc = "wait" /\ (ack \/ (routine \in Lists /\ nrstFlag))

\* A byte was sent: REQ is released.
ByteSent ==
    /\ Acknowledged /\ Sending
    /\ req' = FALSE
    /\ NextByte
    /\ UNCHANGED <<callVars, timeoutCounter, ack, bus, sent, taken>>

\* PerformWriteDMA reads the bus, then releases REQ.
BlockByteReceived ==
    /\ Acknowledged /\ routine = "PerformWriteDMA"
    /\ taken' = Append(taken, bus)
    /\ req' = FALSE
    /\ NextByte
    /\ UNCHANGED <<callVars, timeoutCounter, ack, bus, sent>>

\* ReadByte releases REQ, then reads the bus.
ListByteAcknowledged ==
    /\ Acknowledged /\ routine = "ReadByte"
    /\ req' = FALSE /\ pc' = "latch"
    /\ UNCHANGED <<callVars, loopVars, rstVars, ack, bus, sent, taken>>

ListByteReceived ==
    /\ pc = "latch"
    /\ taken' = Append(taken, bus)
    /\ NextByte
    /\ UNCHANGED <<callVars, timeoutCounter, req, ack, bus, sent>>

\* (mutant: the polls are not compared with TOC_MAX)
PollPastMax ==
    /\ pc = "wait" /\ routine \in Dma /\ ~ack
    /\ timeoutCounter' = timeoutCounter + 1
    /\ UNCHANGED <<callVars, pc, currentByte, rstVars, req, ack, bus, sent, taken>>

\* A DMA function polls ACK.
Poll ==
    /\ pc = "wait" /\ routine \in Dma /\ ~ack
    /\ timeoutCounter + 1 # TocMax
    /\ timeoutCounter' = timeoutCounter + 1
    /\ UNCHANGED <<callVars, pc, currentByte, rstVars, req, ack, bus, sent, taken>>

\* ... and gives up: the reset flag is set, REQ stays asserted.
Timeout ==
    /\ pc = "wait" /\ routine \in Dma /\ ~ack
    /\ timeoutCounter + 1 = TocMax
    /\ pc' = "idle"
    /\ nrstFlag' = TRUE /\ pend' = FALSE
    /\ UNCHANGED <<callVars, loopVars, req, ack, bus, sent, taken>>

\* main() serves the reset: hostadapterReset, then the flag is cleared.
Reset ==
    /\ pc = "idle" /\ nrstFlag
    /\ req' = FALSE /\ nrstFlag' = FALSE
    /\ UNCHANGED <<callVars, pc, loopVars, pend, ack, bus, sent, taken>>

-----------------------------------------------------------------------------
(* The interrupt, and the host (external).                                 *)

RstEdge ==
    /\ IF masked /\ pc # "idle"
       THEN pend' = TRUE /\ UNCHANGED nrstFlag
       ELSE nrstFlag' = TRUE /\ UNCHANGED pend
    /\ UNCHANGED <<callVars, pc, loopVars, req, ack, bus, sent, taken>>

\* The host answers REQ: it takes the byte on the bus, or puts its next there.
HostAck ==
    /\ req /\ ~ack
    /\ ack' = TRUE
    /\ IF Sending
       THEN taken' = Append(taken, bus) /\ UNCHANGED <<bus, sent>>
       ELSE bus' = sent /\ sent' = sent + 1 /\ UNCHANGED taken
    /\ UNCHANGED <<callVars, pc, loopVars, rstVars, req>>

HostRelease ==
    /\ ~req /\ ack
    /\ ack' = FALSE
    /\ bus' = IF Sending \/ HoldsData THEN bus ELSE Garbage
    /\ UNCHANGED <<callVars, pc, loopVars, rstVars, req, sent, taken>>

Transfer ==
    \/ Request \/ ByteSent \/ BlockByteReceived \/ ListByteAcknowledged
    \/ ListByteReceived \/ Poll \/ Timeout
Host == HostAck \/ HostRelease

Next == (\E r \in Lists \cup Dma : Begin(r)) \/ Transfer \/ Reset \/ RstEdge \/ Host

Spec == Init /\ [][Next]_vars

\* The firmware runs; the host may stop at any point.
FairSpec == Spec /\ WF_vars(Transfer)

-----------------------------------------------------------------------------
(* What must hold.                                                         *)

\* Without a reset, REQ, ACK and the two ends' counts agree: the two are
\* never more than the one byte apart that is on the bus.
InStep ==
    ~nrstFlag /\ pc # "idle" =>
        LET moved == IF Sending THEN Len(taken) ELSE sent
            ahead == pc = "latch" \/ (req /\ ack)
        IN  /\ moved = currentByte + (IF ahead THEN 1 ELSE 0)
            /\ ~Sending => Len(taken) = currentByte
            /\ pc = "wait" <=> req
            /\ Sending /\ req => bus = currentByte
            /\ ~Sending /\ ahead => bus = currentByte

\* Bytes arrive once and in order, and a transfer that ends with the reset
\* flag clear is complete: what scsi.c relies on when it looks at the flag
\* after a transfer, and what ScsiTarget takes for granted.
Channel ==
    INSTANCE ByteChannel WITH
        Lengths <- {ListLength, BlockLength}, Values <- Values, busy <- pc # "idle",
        size <- Size(routine), cut <- nrstFlag
ImplementsChannel == Channel!ChannelSpec

\* A DMA function returns whatever the host does, and so does a list loop
\* once the reset flag is set.
Unblocked == (pc # "idle" /\ (routine \in Dma \/ nrstFlag)) ~> (pc = "idle")

\* A host that answers REQ in the end gets every transfer to its end, however
\* sloppy its timing.
ListCompletes == WF_vars(Host) => ((pc # "idle") ~> (pc = "idle"))

=============================================================================
