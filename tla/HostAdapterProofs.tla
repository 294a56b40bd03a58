-------------------------- MODULE HostAdapterProofs --------------------------
(***************************************************************************)
(* Proofs about HostAdapter, for lists and blocks of any length and any    *)
(* number of polls: the type invariant whatever the host does, and, for a  *)
(* host that keeps the timing of the bus, that the two ends stay in step   *)
(* and that the transfer functions implement ByteChannel.                  *)
(***************************************************************************)
EXTENDS HostAdapter, TLAPS

\* REQ is asserted while ACK is awaited, and after a timeout until the reset
\* is served.  The host sends one byte per REQ, and none to a sending target.
Handshake ==
    /\ pc # "idle" => currentByte < Size(routine) /\ (req <=> pc = "wait")
    /\ pc = "idle" /\ req => nrstFlag
    /\ req /\ ~ack => sent <= currentByte /\ currentByte < Size(routine)
    /\ pc # "idle" => sent <= currentByte + (IF (req /\ ack) \/ pc = "latch" THEN 1 ELSE 0)
    /\ Sending => sent = 0
    /\ pc = "latch" => routine = "ReadByte"

Inv == TypeOK /\ Handshake

LEMMA Sizes ==
    /\ ListLength \in Nat \ {0} /\ BlockLength \in Nat \ {0} /\ TocMax \in Nat \ {0}
    /\ \A r : Size(r) \in Nat \ {0}
    /\ \A r : \A n \in Nat : n < Size(r) => n \in Values
    /\ Garbage \in Values
BY HostAssumption DEF Size, Values

LEMMA InitInv == Init => Inv
<1> SUFFICES ASSUME Init PROVE Inv
  OBVIOUS
<1>1. Size(routine) \in Nat \ {0} /\ << >> \in Seq(Values) /\ Garbage \in Values
  BY Sizes
<1>2. TypeOK
  <2>1. currentByte \in 0 .. Size(routine) /\ timeoutCounter \in 0 .. TocMax - 1
    BY <1>1, Sizes DEF Init
  <2>2. QED
    BY <1>1, <2>1 DEF Init, TypeOK, Lists
<1>3. Handshake
  BY DEF Init, Handshake
<1>4. QED
  BY <1>2, <1>3 DEF Inv

\* The function goes on with the next byte or returns.
LEMMA NextByteInv ==
    ASSUME Inv, pc # "idle", NextByte, UNCHANGED <<callVars, timeoutCounter, ack, bus, sent>>,
           req' = FALSE, taken' \in Seq(Values), sent <= currentByte + 1
    PROVE  Inv'
<1>1. Size(routine) \in Nat \ {0} /\ currentByte \in Nat /\ currentByte < Size(routine)
  BY Sizes DEF Inv, TypeOK, Handshake
<1>2. routine' = routine /\ currentByte' = currentByte + 1
  BY DEF NextByte, callVars
<1>3. /\ currentByte' = Size(routine) => pc' = "idle"
      /\ currentByte' # Size(routine) => pc' = "request"
      /\ nrstFlag' \in BOOLEAN /\ pend' \in BOOLEAN
  BY DEF NextByte, Return, rstVars, Inv, TypeOK
<1>4. Size(routine') = Size(routine) /\ Sending' = Sending
  BY <1>2 DEF Sending
<1>5. TypeOK'
  <2>1. currentByte' \in 0 .. Size(routine')
    BY <1>1, <1>2, <1>4
  <2>2. pc' \in {"idle", "request"}
    BY <1>3
  <2>3. QED
    BY <1>2, <1>3, <2>1, <2>2 DEF Inv, TypeOK, callVars
<1>6. Handshake'
  BY <1>1, <1>2, <1>3, <1>4 DEF Inv, Handshake, TypeOK, callVars
<1>7. QED
  BY <1>5, <1>6 DEF Inv

LEMMA TransferInv == ASSUME Inv, Transfer PROVE Inv'
<1> USE DEF callVars, loopVars, rstVars
<1>1. CASE Request
  <2>1. currentByte \in Values
    BY <1>1, Sizes DEF Request, Inv, TypeOK, Handshake
  <2>2. QED
    BY <1>1, <2>1, Sizes DEF Request, Inv, TypeOK, Handshake, Size, Sending
<1>2. CASE ByteSent
  <2>1. taken' \in Seq(Values) /\ sent <= currentByte + 1
    BY <1>2 DEF ByteSent, Inv, TypeOK, Handshake
  <2>2. QED
    BY <1>2, <2>1, NextByteInv DEF ByteSent, Acknowledged
<1>3. CASE BlockByteReceived
  <2>1. taken' \in Seq(Values)
    BY <1>3 DEF BlockByteReceived, Inv, TypeOK
  <2>2. sent <= currentByte + 1
    BY <1>3 DEF BlockByteReceived, Acknowledged, Inv, TypeOK, Handshake
  <2>3. QED
    BY <1>3, <2>1, <2>2, NextByteInv DEF BlockByteReceived, Acknowledged
<1>4. CASE ListByteAcknowledged
  <2>1. Size(routine') = Size(routine) /\ Sending' = Sending
    BY <1>4 DEF ListByteAcknowledged, Sending
  <2>2. TypeOK'
    BY <1>4, <2>1 DEF ListByteAcknowledged, Inv, TypeOK
  <2>3. sent <= currentByte + 1 /\ currentByte < Size(routine)
    BY <1>4 DEF ListByteAcknowledged, Acknowledged, Inv, TypeOK, Handshake
  <2>4. Handshake'
    BY <1>4, <2>1, <2>3 DEF ListByteAcknowledged, Acknowledged, Inv, Handshake
  <2>5. QED
    BY <2>2, <2>4 DEF Inv
<1>5. CASE ListByteReceived
  <2>1. taken' \in Seq(Values)
    BY <1>5 DEF ListByteReceived, Inv, TypeOK
  <2>2. sent <= currentByte + 1 /\ req = FALSE
    BY <1>5 DEF ListByteReceived, Inv, TypeOK, Handshake
  <2>3. QED
    BY <1>5, <2>1, <2>2, NextByteInv DEF ListByteReceived
<1>6. CASE Poll
  BY <1>6, Sizes DEF Poll, Inv, TypeOK, Handshake, Size, Sending
<1>7. CASE Timeout
  BY <1>7, Sizes DEF Timeout, Inv, TypeOK, Handshake, Size, Sending
<1>8. QED
  BY <1>1, <1>2, <1>3, <1>4, <1>5, <1>6, <1>7 DEF Transfer

LEMMA NextInv == ASSUME Inv, [Next]_vars PROVE Inv'
<1> USE DEF callVars, loopVars, rstVars
<1>1. ASSUME NEW r \in Lists \cup Dma, Begin(r) PROVE Inv'
  <2>1. Size(r) \in Nat \ {0} /\ 0 \in 0 .. TocMax - 1
    BY Sizes
  <2>2. masked' \in BOOLEAN
    BY <1>1 DEF Begin
  <2>3. TypeOK'
    BY <1>1, <2>1, <2>2 DEF Begin, Inv, TypeOK
  <2>4. Handshake'
    BY <1>1, <2>1 DEF Begin, Inv, Handshake
  <2>5. QED
    BY <2>3, <2>4 DEF Inv
<1>2. CASE Transfer
  BY <1>2, TransferInv
<1>3. CASE Reset
  <2>1. TypeOK'
    BY <1>3 DEF Reset, Inv, TypeOK
  <2>2. Handshake'
    BY <1>3 DEF Reset, Inv, TypeOK, Handshake, Size, Sending
  <2>3. QED
    BY <2>1, <2>2 DEF Inv
<1>4. CASE RstEdge
  BY <1>4 DEF RstEdge, Inv, TypeOK, Handshake, Size, Sending
<1>5. CASE HostAck
  <2>1. sent \in Values
    BY <1>5, Sizes DEF HostAck, Inv, TypeOK, Handshake
  <2>2. taken' \in Seq(Values) /\ bus' \in Values /\ sent' \in Nat
    BY <1>5, <2>1 DEF HostAck, Inv, TypeOK
  <2>3. TypeOK'
    BY <1>5, <2>2 DEF HostAck, Inv, TypeOK, Size
  <2>4. Handshake'
    BY <1>5 DEF HostAck, Inv, TypeOK, Handshake, Size, Sending
  <2>5. QED
    BY <2>3, <2>4 DEF Inv
<1>6. CASE HostRelease
  BY <1>6, Sizes DEF HostRelease, Inv, TypeOK, Handshake, Size, Sending
<1>7. CASE UNCHANGED vars
  BY <1>7 DEF vars, Inv, TypeOK, Handshake, Size, Sending
<1>8. QED
  BY <1>1, <1>2, <1>3, <1>4, <1>5, <1>6, <1>7 DEF Next, Host

LEMMA AlwaysInv == Spec => []Inv
BY InitInv, NextInv, PTL DEF Spec

\* The two ends keep their types, whatever the host does and however it keeps
\* the timing: no count runs past its message, no poll past TOC_MAX.
THEOREM TypeCorrect == Spec => []TypeOK
BY AlwaysInv, PTL DEF Inv

-----------------------------------------------------------------------------
(* A host that keeps the timing.                                           *)

LEMMA InStepInit == Init => InStep
BY DEF Init, InStep

LEMMA InStepNext == ASSUME PromptHost, HoldsData, Inv, InStep, [Next]_vars PROVE InStep'
<1> USE DEF callVars, loopVars, rstVars
<1>1. currentByte \in Nat /\ sent \in Nat /\ taken \in Seq(Values) /\ Len(taken) \in Nat
  BY DEF Inv, TypeOK
<1>2. ASSUME NEW r \in Lists \cup Dma, Begin(r) PROVE InStep'
  BY <1>2 DEF Begin, InStep, Inv, Handshake, Sending
<1>3. CASE Request
  BY <1>1, <1>3 DEF Request, InStep, Inv, TypeOK, Handshake, Sending
<1>4. CASE ByteSent
  BY <1>1, <1>4 DEF ByteSent, Acknowledged, NextByte, Return, InStep, Inv, TypeOK, Handshake, Sending
<1>5. CASE BlockByteReceived
  BY <1>1, <1>5
     DEF BlockByteReceived, Acknowledged, NextByte, Return, InStep, Inv, TypeOK, Handshake, Sending, Lists
<1>6. CASE ListByteAcknowledged
  BY <1>1, <1>6 DEF ListByteAcknowledged, Acknowledged, InStep, Inv, TypeOK, Handshake, Sending
<1>7. CASE ListByteReceived
  BY <1>1, <1>7 DEF ListByteReceived, NextByte, Return, InStep, Inv, TypeOK, Handshake, Sending
<1>8. CASE Poll
  BY <1>1, <1>8 DEF Poll, InStep, Sending
<1>9. CASE Timeout
  BY <1>9 DEF Timeout, InStep
<1>10. CASE Reset
  BY <1>10 DEF Reset, InStep
<1>11. CASE RstEdge
  BY <1>1, <1>11 DEF RstEdge, InStep, Inv, TypeOK, Sending
<1>12. CASE HostAck
  BY <1>1, <1>12 DEF HostAck, InStep, Inv, TypeOK, Handshake, Sending
<1>13. CASE HostRelease
  BY <1>1, <1>13 DEF HostRelease, InStep, Inv, TypeOK, Handshake, Sending
<1>14. CASE UNCHANGED vars
  BY <1>14 DEF vars, InStep, Sending
<1>15. QED
  BY <1>2, <1>3, <1>4, <1>5, <1>6, <1>7, <1>8, <1>9, <1>10, <1>11, <1>12, <1>13, <1>14
     DEF Next, Transfer, Host

\* If the host releases ACK and holds its bytes as the bus demands, the two
\* ends are never out of step while the reset flag is clear.
THEOREM EndsInStep == ASSUME PromptHost, HoldsData PROVE Spec => []InStep
<1>1. Inv /\ InStep /\ [Next]_vars => InStep'
  BY InStepNext
<1>2. QED
  BY <1>1, InStepInit, AlwaysInv, PTL DEF Spec

-----------------------------------------------------------------------------
(* The transfer functions implement ByteChannel: every step of the adapter *)
(* is a step of the channel, or none.                                      *)

LEMMA ChannelInitial == Init => Channel!ChannelInit
BY DEF Init, Channel!ChannelInit, Size, Lists, Dma

\* A byte is taken, or was the last one; with the reset flag clear it is the
\* next one of the message.
LEMMA TakesByte ==
    ASSUME Inv, pc # "idle", NextByte, routine' = routine,
           taken' = Append(taken, bus),
           ~nrstFlag => bus = currentByte /\ Len(taken) = currentByte
    PROVE  Channel!Take
<1>1. /\ taken \in Seq(Values) /\ bus \in Values /\ currentByte \in Nat
      /\ nrstFlag \in BOOLEAN /\ pend \in BOOLEAN
      /\ currentByte < Size(routine)
  BY DEF Inv, TypeOK, Handshake
<1>2. nrstFlag \/ (Len(taken) < Size(routine) /\ bus = Len(taken))
  BY <1>1
<1>3. nrstFlag' \in {nrstFlag, TRUE}
  BY <1>1 DEF NextByte, Return, rstVars
<1>4. pc' # "idle" \/ nrstFlag' \/ Len(taken') = Size(routine)
  BY <1>1, <1>3 DEF NextByte, Return
<1>5. QED
  BY <1>1, <1>2, <1>3, <1>4 DEF Channel!Take

LEMMA StepRefines ==
    ASSUME Inv, InStep, Next PROVE Channel!ChannelNext \/ UNCHANGED Channel!channelVars
<1> USE DEF callVars, loopVars, rstVars
<1>1. /\ taken \in Seq(Values) /\ bus \in Values /\ currentByte \in Nat
      /\ nrstFlag \in BOOLEAN /\ pend \in BOOLEAN
  BY DEF Inv, TypeOK
<1>2. ASSUME NEW r \in Lists \cup Dma, Begin(r) PROVE Channel!Start
  <2>1. Size(r) \in {ListLength, BlockLength}
    BY DEF Size
  <2>2. QED
    BY <1>2, <2>1 DEF Begin, Channel!Start
<1>3. CASE Request
  BY <1>3 DEF Request, Channel!channelVars
<1>4. CASE ByteSent
  <2>1. taken' = taken /\ routine' = routine /\ pc # "idle"
    BY <1>4 DEF ByteSent, Acknowledged
  <2>2. nrstFlag \/ Len(taken) = currentByte + 1
    BY <1>4 DEF ByteSent, Acknowledged, InStep
  <2>3. CASE pc' = "idle"
    <3>1. nrstFlag' \in {nrstFlag, TRUE} /\ currentByte + 1 = Size(routine)
      BY <1>1, <1>4, <2>3 DEF ByteSent, NextByte, Return
    <3>2. QED
      BY <1>1, <2>1, <2>2, <2>3, <3>1 DEF Channel!Finish, Channel!ChannelNext
  <2>4. CASE pc' # "idle"
    BY <1>4, <2>1, <2>4 DEF ByteSent, NextByte, Return, Channel!channelVars
  <2>5. QED
    BY <2>3, <2>4
<1>5. CASE BlockByteReceived
  <2>1. ~nrstFlag => bus = currentByte /\ Len(taken) = currentByte
    BY <1>5 DEF BlockByteReceived, Acknowledged, InStep, Sending, Lists
  <2>2. QED
    BY <1>5, <2>1, TakesByte DEF BlockByteReceived, Acknowledged, Channel!ChannelNext
<1>6. CASE ListByteAcknowledged
  BY <1>6 DEF ListByteAcknowledged, Acknowledged, Channel!channelVars
<1>7. CASE ListByteReceived
  <2>1. ~nrstFlag => bus = currentByte /\ Len(taken) = currentByte
    BY <1>7 DEF ListByteReceived, InStep, Inv, Handshake, Sending
  <2>2. QED
    BY <1>7, <2>1, TakesByte DEF ListByteReceived, Channel!ChannelNext
<1>8. CASE Poll
  BY <1>8 DEF Poll, Channel!channelVars
<1>9. CASE Timeout
  BY <1>9 DEF Timeout, Channel!Finish, Channel!ChannelNext
<1>10. CASE Reset
  BY <1>10 DEF Reset, Channel!Clear, Channel!ChannelNext
<1>11. CASE RstEdge
  BY <1>11 DEF RstEdge, Channel!Cut, Channel!ChannelNext, Channel!channelVars
<1>12. CASE HostAck
  <2>1. CASE Sending
    <3>1. nrstFlag \/ (Len(taken) < Size(routine) /\ bus = Len(taken))
      BY <1>1, <1>12, <2>1 DEF HostAck, InStep, Inv, Handshake
    <3>2. pc # "idle" \/ nrstFlag
      BY <1>12 DEF HostAck, Inv, Handshake
    <3>3. /\ taken' = Append(taken, bus)
          /\ UNCHANGED <<routine, pc, nrstFlag>>
      BY <1>12, <2>1 DEF HostAck
    <3>4. Channel!Take
      BY <1>1, <3>1, <3>2, <3>3 DEF Channel!Take
    <3>5. QED
      BY <3>4 DEF Channel!ChannelNext
  <2>2. CASE ~Sending
    BY <1>12, <2>2 DEF HostAck, Channel!channelVars
  <2>3. QED
    BY <2>1, <2>2
<1>13. CASE HostRelease
  BY <1>13 DEF HostRelease, Channel!channelVars
<1>14. QED
  BY <1>2, <1>3, <1>4, <1>5, <1>6, <1>7, <1>8, <1>9, <1>10, <1>11, <1>12, <1>13
     DEF Next, Transfer, Host, Channel!ChannelNext

\* With such a host a message is moved whole and in order, or the reset flag is
\* set when the transfer ends: lists and blocks of any length, in both
\* directions, with resets and timeouts anywhere.
THEOREM AdapterImplementsChannel ==
    ASSUME PromptHost, HoldsData PROVE Spec => ImplementsChannel
<1>1. Inv /\ InStep /\ [Next]_vars => [Channel!ChannelNext]_(Channel!channelVars)
  <2>1. UNCHANGED vars => UNCHANGED Channel!channelVars
    BY DEF vars, callVars, rstVars, Channel!channelVars
  <2>2. QED
    BY <2>1, StepRefines
<1>2. Spec => []InStep
  BY EndsInStep
<1>3. QED
  BY <1>1, <1>2, ChannelInitial, AlwaysInv, PTL
     DEF Spec, ImplementsChannel, Channel!ChannelSpec
=============================================================================
