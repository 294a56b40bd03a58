------------------------------ MODULE ReadAhead ------------------------------
(***************************************************************************)
(* Multi-sector reading (filesystemOpenLunForRead, filesystemReadNextSector*)
(* and filesystemCloseLunForRead of filesystem.c) as scsiCommandRead6 uses *)
(* it: a buffer of SectorBufferLength sectors is filled from the image and *)
(* handed out one sector per call.                                         *)
(*                                                                         *)
(* A sector's content is its number in the image; Stale is what the buffer *)
(* held before.  The image may have any length when it is opened.          *)
(***************************************************************************)
EXTENDS Integers, Sequences

CONSTANTS
    SectorBufferLength,  \* SECTOR_BUFFER_LENGTH, 1 as the code is compiled
    Starts, Counts,      \* the requests of the host
    Lengths,             \* the lengths an image may have
    Stale

ASSUME ReadAssumption ==
    /\ SectorBufferLength \in Nat \ {0}
    /\ Starts \subseteq Nat /\ Counts \subseteq Nat \ {0} /\ Lengths \subseteq Nat
    /\ Stale \notin Nat

VARIABLES
    lunOpenFlag, sectorBuffer, sectorsInBuffer, currentBufferSector, sectorsRemaining,
    file,       \* fileObject: the read position and the length of the image
    request, reading, delivered   \* history: see SectorStream

bufferVars == <<sectorBuffer, sectorsInBuffer, currentBufferSector, sectorsRemaining>>
vars == <<lunOpenFlag, bufferVars, file, request, reading, delivered>>

Slots == 0 .. SectorBufferLength - 1
Content == (UNION { 0 .. length - 1 : length \in Lengths }) \cup {Stale}
Idle == [start |-> 0, n |-> 0, inside |-> TRUE]

TypeOK ==
    /\ lunOpenFlag \in BOOLEAN
    /\ sectorBuffer \in [Slots -> Content]
    /\ sectorsInBuffer \in Nat /\ currentBufferSector \in Nat /\ sectorsRemaining \in Nat
    /\ file \in [pos : Nat, length : Lengths \cup {0}]
    /\ request \in [start : Nat, n : Nat, inside : BOOLEAN]
    /\ reading \in BOOLEAN
    /\ delivered \in Seq(Content)

Init ==
    /\ lunOpenFlag = FALSE
    /\ sectorBuffer = [i \in Slots |-> Stale]
    /\ sectorsInBuffer = 0 /\ currentBufferSector = 0 /\ sectorsRemaining = 0
    /\ file = [pos |-> 0, length |-> 0]
    /\ request = Idle /\ reading = FALSE /\ delivered = << >>

-----------------------------------------------------------------------------
Least(m, n) == IF m < n THEN m ELSE n

\* What the buffer holds after f_read of n sectors at pos: at the end of the
\* image f_read returns fewer, and FR_OK; the rest of the buffer is stale.
Filled(pos, length, n) ==
    [i \in Slots |-> IF i < n /\ pos + i < length THEN pos + i ELSE Stale]

\* (mutants: what is left of the request is not counted down; it is not
\* compared with the size of the buffer)
FillUncounted(pos, length, remaining) ==
    /\ sectorsInBuffer' = Least(remaining, SectorBufferLength)
    /\ currentBufferSector' = 0
    /\ sectorsRemaining' = remaining
    /\ sectorBuffer' = Filled(pos, length, sectorsInBuffer')
    /\ file' = [pos |-> Least(pos + sectorsInBuffer', length), length |-> length]
FillUnclamped(pos, length, remaining) ==
    /\ sectorsInBuffer' = SectorBufferLength
    /\ currentBufferSector' = 0
    /\ sectorsRemaining' = remaining - SectorBufferLength
    /\ sectorBuffer' = Filled(pos, length, SectorBufferLength)
    /\ file' = [pos |-> Least(pos + SectorBufferLength, length), length |-> length]

\* Fill the buffer with as much of what remains of the request as it takes.
Fill(pos, length, remaining) ==
    LET n == Least(remaining, SectorBufferLength)
    IN  /\ sectorsInBuffer' = n
        /\ currentBufferSector' = 0
        /\ sectorsRemaining' = remaining - n
        /\ sectorBuffer' = Filled(pos, length, n)
        /\ file' = [pos |-> Least(pos + n, length), length |-> length]

\* (mutant: the buffer is read from the same slot again)
NextSlotStuck == currentBufferSector

\* currentBufferSector once a sector was taken from the buffer, if it had one.
NextSlot ==
    IF currentBufferSector < sectorsInBuffer
    THEN currentBufferSector + 1 ELSE currentBufferSector

-----------------------------------------------------------------------------
(* The image is opened and the buffer filled.  f_lseek does not go past the *)
(* end of a file that is open for reading.                                  *)
OpenLunForRead ==
    /\ ~lunOpenFlag
    /\ \E start \in Starts, n \in Counts, length \in Lengths :
          /\ Fill(Least(start, length), length, n)
          /\ request' = [start |-> start, n |-> n, inside |-> start + n <= length]
    /\ lunOpenFlag' = TRUE
    /\ reading' = TRUE /\ delivered' = << >>

\* The file cannot be opened or read.  The counters are set all the same.
\* (After an f_lseek that failed they are not: nothing changes.)
OpenFails ==
    /\ ~lunOpenFlag
    /\ \E n \in Counts :
          LET m == Least(n, SectorBufferLength)
          IN  sectorsInBuffer' = m /\ currentBufferSector' = 0 /\ sectorsRemaining' = n - m
    /\ UNCHANGED <<lunOpenFlag, sectorBuffer, file, request, reading, delivered>>

\* One sector is handed out, and the buffer refilled if that was its last.
\* READ calls it once per block.
ReadNextSector ==
    /\ lunOpenFlag
    /\ Len(delivered) < request.n
    /\ delivered' = Append(delivered,
                           IF currentBufferSector < sectorsInBuffer
                           THEN sectorBuffer[currentBufferSector] ELSE Stale)
    /\ IF NextSlot = sectorsInBuffer /\ sectorsRemaining # 0
       THEN Fill(file.pos, file.length, sectorsRemaining)
       ELSE /\ currentBufferSector' = NextSlot
            /\ UNCHANGED <<sectorBuffer, sectorsInBuffer, sectorsRemaining, file>>
    /\ UNCHANGED <<lunOpenFlag, request, reading>>

\* The refill fails: READ does not send the sector just copied, and closes
\* the LUN.
ReadFails ==
    /\ lunOpenFlag
    /\ Len(delivered) < request.n
    /\ NextSlot = sectorsInBuffer /\ sectorsRemaining # 0
    /\ LET m == Least(sectorsRemaining, SectorBufferLength)
       IN  sectorsInBuffer' = m /\ currentBufferSector' = 0
           /\ sectorsRemaining' = sectorsRemaining - m
    /\ lunOpenFlag' = FALSE
    /\ reading' = FALSE
    /\ UNCHANGED <<sectorBuffer, file, request, delivered>>

\* All blocks are sent, or a reset ended the transfer.
CloseLunForRead ==
    /\ lunOpenFlag
    /\ lunOpenFlag' = FALSE
    /\ reading' = FALSE
    /\ UNCHANGED <<bufferVars, file, request, delivered>>

Next == OpenLunForRead \/ OpenFails \/ ReadNextSector \/ ReadFails \/ CloseLunForRead

Spec == Init /\ [][Next]_vars

-----------------------------------------------------------------------------
(* What must hold.                                                         *)

\* While a request is served, what was delivered, what waits in the buffer and
\* what must still be read add up to the request; the buffer is refilled in
\* time, so that no call finds it empty.
CountersAgree ==
    lunOpenFlag =>
        /\ Len(delivered) + (sectorsInBuffer - currentBufferSector) + sectorsRemaining = request.n
        /\ currentBufferSector <= sectorsInBuffer /\ sectorsInBuffer <= SectorBufferLength
        /\ currentBufferSector = sectorsInBuffer => sectorsRemaining = 0

\* The buffer is invisible: a request inside the image is served with its
\* sectors in order, whatever the size of the buffer.
Stream == INSTANCE SectorStream WITH Contents <- Content
ImplementsStream == Stream!StreamSpec
=============================================================================
