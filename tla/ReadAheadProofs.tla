--------------------------- MODULE ReadAheadProofs ---------------------------
(***************************************************************************)
(* Proofs about ReadAhead, for every buffer length, every image length and *)
(* every request: the type invariant, the agreement of the counters, and   *)
(* that the buffered reads implement SectorStream.                         *)
(***************************************************************************)
EXTENDS ReadAhead, TLAPS

\* While a request inside the image is served, the file stands at the first
\* sector that is not in the buffer, and the unread slots of the buffer hold
\* the next sectors of the request.
BufferedAhead ==
    lunOpenFlag /\ request.inside =>
        /\ file.pos + sectorsRemaining = request.start + request.n
        /\ request.start + request.n <= file.length
        /\ \A i \in Slots :
              currentBufferSector <= i /\ i < sectorsInBuffer =>
                  sectorBuffer[i] = request.start + Len(delivered) + (i - currentBufferSector)

Inv == TypeOK /\ CountersAgree /\ reading = lunOpenFlag /\ BufferedAhead

-----------------------------------------------------------------------------
LEMMA LeastType ==
    ASSUME NEW m \in Nat, NEW n \in Nat
    PROVE  /\ Least(m, n) \in Nat
           /\ Least(m, n) <= m /\ Least(m, n) <= n
           /\ Least(m, n) = m \/ Least(m, n) = n
BY DEF Least

\* A sector of an image is a content, and so is Stale.
LEMMA ContentFacts ==
    /\ Stale \in Content
    /\ \A length \in Lengths \cup {0}, p \in Nat : p < length => p \in Content
BY ReadAssumption DEF Content

\* What one fill leaves behind: n sectors in the buffer, the file at q.
LEMMA FillFacts ==
    ASSUME NEW pos \in Nat, NEW length \in Lengths \cup {0}, NEW remaining \in Nat \ {0},
           Fill(pos, length, remaining)
    PROVE  \E n \in Nat \ {0}, q \in Nat, buffer \in [Slots -> Content] :
              /\ n <= SectorBufferLength /\ n <= remaining
              /\ sectorBuffer' = buffer
              /\ sectorsInBuffer' = n
              /\ currentBufferSector' = 0
              /\ sectorsRemaining' = remaining - n
              /\ file' = [pos |-> q, length |-> length]
              /\ pos + remaining <= length =>
                    q = pos + n /\ \A i \in Slots : i < n => buffer[i] = pos + i
<1> DEFINE n == Least(remaining, SectorBufferLength)
           q == Least(pos + n, length)
           buffer == Filled(pos, length, n)
<1>1. SectorBufferLength \in Nat \ {0} /\ length \in Nat
  BY ReadAssumption
<1>2. n \in Nat \ {0} /\ n <= remaining /\ n <= SectorBufferLength
  BY <1>1 DEF Least
<1>3. /\ sectorsInBuffer' = n /\ currentBufferSector' = 0
      /\ sectorsRemaining' = remaining - n
      /\ sectorBuffer' = buffer
      /\ file' = [pos |-> q, length |-> length]
  BY DEF Fill
<1> HIDE DEF n
<1>4. buffer \in [Slots -> Content]
  <2>1. ASSUME NEW i \in Slots, pos + i < length PROVE pos + i \in Content
    BY <2>1, ContentFacts DEF Slots
  <2>2. QED
    BY <2>1, ContentFacts DEF Filled
<1>5. q \in Nat /\ (pos + remaining <= length => q = pos + n)
  BY <1>1, <1>2 DEF Least
<1>6. ASSUME pos + remaining <= length, NEW i \in Slots, i < n
      PROVE  buffer[i] = pos + i
  <2>1. i \in Nat
    BY <1>1 DEF Slots
  <2>2. pos + i < length
    BY <1>1, <1>2, <1>6, <2>1
  <2>3. QED
    BY <1>6, <2>2 DEF Filled
<1> HIDE DEF q, buffer
<1>7. QED
  BY <1>2, <1>3, <1>4, <1>5, <1>6

-----------------------------------------------------------------------------
LEMMA InitInv == Init => Inv
<1> SUFFICES ASSUME Init PROVE Inv
  OBVIOUS
<1>1. TypeOK
  <2>1. sectorBuffer \in [Slots -> Content]
    BY ContentFacts DEF Init
  <2>2. delivered \in Seq(Content)
    BY DEF Init
  <2>3. /\ request \in [start : Nat, n : Nat, inside : BOOLEAN]
        /\ file \in [pos : Nat, length : Lengths \cup {0}]
    BY DEF Init, Idle
  <2>4. QED
    BY <2>1, <2>2, <2>3 DEF Init, TypeOK
<1>2. QED
  BY <1>1 DEF Init, Inv, CountersAgree, BufferedAhead

\* Opening: the first fill serves the request from its start.
LEMMA OpenInv == ASSUME Inv, OpenLunForRead PROVE Inv'
<1> SUFFICES ASSUME NEW start \in Nat, NEW n \in Nat \ {0}, NEW length \in Nat,
                    length \in Lengths, Fill(Least(start, length), length, n),
                    request' = [start |-> start, n |-> n, inside |-> start + n <= length]
             PROVE  Inv'
  BY ReadAssumption DEF OpenLunForRead
<1>1. Least(start, length) \in Nat /\ length \in Lengths \cup {0}
  BY LeastType
<1>2. PICK m \in Nat \ {0}, q \in Nat, buffer \in [Slots -> Content] :
         /\ m <= SectorBufferLength /\ m <= n
         /\ sectorBuffer' = buffer
         /\ sectorsInBuffer' = m
         /\ currentBufferSector' = 0
         /\ sectorsRemaining' = n - m
         /\ file' = [pos |-> q, length |-> length]
         /\ Least(start, length) + n <= length =>
               /\ q = Least(start, length) + m
               /\ \A i \in Slots : i < m => buffer[i] = Least(start, length) + i
  BY <1>1, FillFacts
<1>3. lunOpenFlag' = TRUE /\ reading' = TRUE /\ delivered' = << >> /\ Len(delivered') = 0
  BY DEF OpenLunForRead
<1>4. TypeOK'
  BY <1>2, <1>3 DEF TypeOK
<1>5. CountersAgree'
  BY <1>2, <1>3 DEF CountersAgree
<1>6. BufferedAhead'
  <2> SUFFICES ASSUME start + n <= length PROVE BufferedAhead'
    BY DEF BufferedAhead
  <2>1. Least(start, length) = start
    BY DEF Least
  <2>2. q = start + m /\ q + (n - m) = start + n
    BY <1>2, <2>1
  <2>3. ASSUME NEW i \in Slots, i < m PROVE buffer[i] = start + 0 + (i - 0)
    BY <1>2, <2>1, <2>3 DEF Slots
  <2>4. QED
    BY <1>2, <1>3, <2>2, <2>3 DEF BufferedAhead
<1>7. QED
  BY <1>3, <1>4, <1>5, <1>6 DEF Inv

\* A sector can be handed out: there is one in the buffer, and for a request
\* inside the image it is the next one.
LEMMA NextSectorAvailable ==
    ASSUME Inv, lunOpenFlag, Len(delivered) < request.n
    PROVE  /\ currentBufferSector < sectorsInBuffer
           /\ currentBufferSector \in Slots
           /\ sectorBuffer[currentBufferSector] \in Content
           /\ request.inside =>
                 sectorBuffer[currentBufferSector] = request.start + Len(delivered)
<1>1. /\ currentBufferSector \in Nat /\ sectorsInBuffer \in Nat /\ sectorsRemaining \in Nat
      /\ request.n \in Nat /\ request.start \in Nat /\ Len(delivered) \in Nat
      /\ SectorBufferLength \in Nat
  BY ReadAssumption DEF Inv, TypeOK
<1>2. currentBufferSector < sectorsInBuffer
  BY <1>1 DEF Inv, CountersAgree
<1>3. currentBufferSector \in Slots
  BY <1>1, <1>2 DEF Inv, CountersAgree, Slots
<1>4. sectorBuffer[currentBufferSector] \in Content
  BY <1>3 DEF Inv, TypeOK
<1>5. request.inside => sectorBuffer[currentBufferSector] = request.start + Len(delivered)
  BY <1>1, <1>2, <1>3 DEF Inv, BufferedAhead
<1>6. QED
  BY <1>2, <1>3, <1>4, <1>5

LEMMA ReadNextInv == ASSUME Inv, ReadNextSector PROVE Inv'
<1> DEFINE c == sectorBuffer[currentBufferSector]
<1>1. lunOpenFlag /\ Len(delivered) < request.n
  BY DEF ReadNextSector
<1>2. /\ currentBufferSector < sectorsInBuffer /\ c \in Content
      /\ NextSlot = currentBufferSector + 1
  BY <1>1, NextSectorAvailable DEF NextSlot
<1>3. delivered' = Append(delivered, c)
  BY <1>2 DEF ReadNextSector
<1>4. delivered \in Seq(Content) /\ Len(delivered) \in Nat
  BY DEF Inv, TypeOK
<1>5. delivered' \in Seq(Content) /\ Len(delivered') = Len(delivered) + 1
  BY <1>2, <1>3, <1>4
<1>6. /\ currentBufferSector \in Nat /\ sectorsInBuffer \in Nat /\ sectorsRemaining \in Nat
      /\ request \in [start : Nat, n : Nat, inside : BOOLEAN]
      /\ file \in [pos : Nat, length : Lengths \cup {0}]
      /\ SectorBufferLength \in Nat \ {0}
  BY ReadAssumption DEF Inv, TypeOK
<1>6a. /\ request.n \in Nat /\ request.start \in Nat /\ file.pos \in Nat
       /\ file.length \in Lengths \cup {0} /\ file.length \in Nat
  <2>1. Lengths \cup {0} \subseteq Nat
    BY ReadAssumption
  <2>2. file.pos \in Nat /\ file.length \in Lengths \cup {0}
    BY <1>6
  <2>3. request.n \in Nat /\ request.start \in Nat
    BY <1>6
  <2>4. QED
    BY <2>1, <2>2, <2>3
<1>7. UNCHANGED <<lunOpenFlag, request, reading>>
  BY DEF ReadNextSector
<1>8. Len(delivered) + (sectorsInBuffer - currentBufferSector) + sectorsRemaining = request.n
  BY <1>1 DEF Inv, CountersAgree
<1> HIDE DEF c
<1>9. CASE NextSlot = sectorsInBuffer /\ sectorsRemaining # 0
  <2>1. Fill(file.pos, file.length, sectorsRemaining)
    BY <1>9 DEF ReadNextSector
  <2>2. PICK p \in Nat, length \in Lengths \cup {0}, r \in Nat \ {0} :
           p = file.pos /\ length = file.length /\ r = sectorsRemaining
    BY <1>6, <1>6a, <1>9
  <2>2a. Fill(p, length, r) /\ length \in Nat
    BY <1>6a, <2>1, <2>2
  <2>2b. PICK m \in Nat \ {0}, q \in Nat, buffer \in [Slots -> Content] :
           /\ m <= SectorBufferLength /\ m <= r
           /\ sectorBuffer' = buffer
           /\ sectorsInBuffer' = m
           /\ currentBufferSector' = 0
           /\ sectorsRemaining' = r - m
           /\ file' = [pos |-> q, length |-> length]
           /\ p + r <= length => q = p + m /\ \A i \in Slots : i < m => buffer[i] = p + i
    BY <2>2a, FillFacts
  <2>3. TypeOK'
    BY <1>5, <1>6, <1>6a, <1>7, <2>2, <2>2a, <2>2b DEF Inv, TypeOK
  <2>4. Len(delivered) + 1 + r = request.n
    BY <1>2, <1>4, <1>6, <1>6a, <1>8, <1>9, <2>2
  <2>4a. Len(delivered) + 1 + (m - 0) + (r - m) = request.n /\ (m = 0 => r - m = 0)
    BY <1>4, <1>6a, <2>4
  <2>5. CountersAgree'
    BY <1>4, <1>5, <1>6, <1>7, <2>2b, <2>4, <2>4a DEF CountersAgree
  <2>6. BufferedAhead'
    <3> SUFFICES ASSUME request.inside PROVE BufferedAhead'
      BY <1>7 DEF BufferedAhead
    <3>1. /\ p + r = request.start + request.n
          /\ request.start + request.n <= length
      BY <1>1, <2>2 DEF Inv, BufferedAhead
    <3>2. q = p + m /\ q + (r - m) = request.start + request.n
      BY <1>6, <1>6a, <2>2, <2>2a, <2>2b, <3>1
    <3>3. p = request.start + (Len(delivered) + 1)
      <4>1. request.start \in Nat /\ request.n \in Nat /\ r \in Nat
        BY <1>6a
      <4>2. QED
        BY <1>4, <2>4, <3>1, <4>1
    <3>4. ASSUME NEW i \in Slots, i < m
          PROVE  buffer[i] = request.start + (Len(delivered) + 1) + (i - 0)
      BY <1>4, <1>6, <1>6a, <2>2, <2>2a, <2>2b, <3>1, <3>3, <3>4 DEF Slots
    <3>5. QED
      BY <1>5, <1>7, <2>2, <2>2a, <2>2b, <3>1, <3>2, <3>4 DEF BufferedAhead
  <2>7. QED
    BY <1>7, <2>3, <2>5, <2>6 DEF Inv
<1>10. CASE ~(NextSlot = sectorsInBuffer /\ sectorsRemaining # 0)
  <2>1. /\ currentBufferSector' = currentBufferSector + 1
        /\ UNCHANGED <<sectorBuffer, sectorsInBuffer, sectorsRemaining, file>>
    BY <1>2, <1>10 DEF ReadNextSector
  <2>2. TypeOK'
    BY <1>5, <1>6, <1>6a, <1>7, <2>1 DEF Inv, TypeOK
  <2>3. CountersAgree'
    BY <1>1, <1>2, <1>4, <1>5, <1>6, <1>6a, <1>7, <1>8, <1>10, <2>1 DEF Inv, CountersAgree
  <2>4. BufferedAhead'
    <3> SUFFICES ASSUME request.inside PROVE BufferedAhead'
      BY <1>7 DEF BufferedAhead
    <3>1. ASSUME NEW i \in Slots, currentBufferSector + 1 <= i, i < sectorsInBuffer
          PROVE  sectorBuffer[i]
                   = request.start + (Len(delivered) + 1) + (i - (currentBufferSector + 1))
      <4>1. i \in Nat /\ currentBufferSector <= i
        BY <1>6, <1>6a, <3>1 DEF Slots
      <4>2. sectorBuffer[i] = request.start + Len(delivered) + (i - currentBufferSector)
        BY <1>1, <3>1, <4>1 DEF Inv, BufferedAhead
      <4>3. QED
        BY <1>4, <1>6, <1>6a, <4>1, <4>2
    <3>2. /\ file.pos + sectorsRemaining = request.start + request.n
          /\ request.start + request.n <= file.length
      BY <1>1 DEF Inv, BufferedAhead
    <3>3. QED
      BY <1>5, <1>7, <2>1, <3>1, <3>2 DEF BufferedAhead
  <2>5. QED
    BY <1>7, <2>2, <2>3, <2>4 DEF Inv
<1>11. QED
  BY <1>9, <1>10

LEMMA NextInv == ASSUME Inv, [Next]_vars PROVE Inv'
<1>1. CASE OpenLunForRead
  BY <1>1, OpenInv
<1>2. CASE OpenFails
  <2>1. PICK n \in Counts :
           LET m == Least(n, SectorBufferLength)
           IN  sectorsInBuffer' = m /\ currentBufferSector' = 0 /\ sectorsRemaining' = n - m
    BY <1>2 DEF OpenFails
  <2>2. sectorsInBuffer' \in Nat /\ sectorsRemaining' \in Nat /\ currentBufferSector' \in Nat
    BY <2>1, ReadAssumption DEF Least
  <2>3. QED
    BY <1>2, <2>2 DEF OpenFails, Inv, TypeOK, CountersAgree, BufferedAhead
<1>3. CASE ReadNextSector
  BY <1>3, ReadNextInv
<1>4. CASE ReadFails
  <2>1. sectorsRemaining \in Nat
    BY DEF Inv, TypeOK
  <2>2. sectorsInBuffer' \in Nat /\ sectorsRemaining' \in Nat /\ currentBufferSector' \in Nat
    BY <1>4, <2>1, ReadAssumption DEF ReadFails, Least
  <2>3. QED
    BY <1>4, <2>2 DEF ReadFails, Inv, TypeOK, CountersAgree, BufferedAhead
<1>5. CASE CloseLunForRead
  BY <1>5 DEF CloseLunForRead, Inv, TypeOK, CountersAgree, BufferedAhead, bufferVars
<1>6. CASE UNCHANGED vars
  BY <1>6 DEF vars, bufferVars, Inv, TypeOK, CountersAgree, BufferedAhead
<1>7. QED
  BY <1>1, <1>2, <1>3, <1>4, <1>5, <1>6 DEF Next

LEMMA AlwaysInv == Spec => []Inv
BY InitInv, NextInv, PTL DEF Spec

-----------------------------------------------------------------------------
\* The buffer holds sectors or stale data, and no counter becomes negative.
THEOREM TypeCorrect == Spec => []TypeOK
BY AlwaysInv, PTL DEF Inv

\* Delivered, buffered and outstanding sectors always add up to the request,
\* and no call of filesystemReadNextSector finds the buffer empty.
THEOREM CountersAlwaysAgree == Spec => []CountersAgree
BY AlwaysInv, PTL DEF Inv

\* Buffered reading delivers what unbuffered reading would: READ sends the
\* blocks of a request inside the image in order, for every buffer length.
THEOREM ReadAheadImplementsStream == Spec => ImplementsStream
<1>1. Init => Stream!StreamInit
  BY DEF Init, Stream!StreamInit, Idle, Stream!Idle
<1>2. ASSUME Inv, [Next]_vars PROVE [Stream!StreamNext]_(Stream!streamVars)
  <2>1. CASE OpenLunForRead
    <3>1. request' \in [start : Nat, n : Nat \ {0}, inside : BOOLEAN]
      BY <2>1, ReadAssumption DEF OpenLunForRead
    <3>2. Stream!Accept
      BY <1>2, <2>1, <3>1 DEF OpenLunForRead, Inv, Stream!Accept
    <3>3. QED
      BY <3>2 DEF Stream!StreamNext
  <2>2. CASE OpenFails
    BY <2>2 DEF OpenFails, Stream!streamVars
  <2>3. CASE ReadNextSector
    <3>1. lunOpenFlag /\ Len(delivered) < request.n /\ UNCHANGED <<request, reading>>
      BY <2>3 DEF ReadNextSector
    <3>2. /\ currentBufferSector < sectorsInBuffer
          /\ sectorBuffer[currentBufferSector] \in Content
          /\ request.inside =>
                sectorBuffer[currentBufferSector] = request.start + Len(delivered)
      BY <1>2, <3>1, NextSectorAvailable
    <3>3. delivered' = Append(delivered, sectorBuffer[currentBufferSector])
      BY <2>3, <3>2 DEF ReadNextSector
    <3>4. Stream!Deliver
      BY <1>2, <3>1, <3>2, <3>3 DEF Inv, Stream!Deliver
    <3>5. QED
      BY <3>4 DEF Stream!StreamNext
  <2>4. CASE ReadFails
    BY <1>2, <2>4 DEF ReadFails, Inv, Stream!Finish, Stream!StreamNext
  <2>5. CASE CloseLunForRead
    BY <1>2, <2>5 DEF CloseLunForRead, Inv, Stream!Finish, Stream!StreamNext
  <2>6. CASE UNCHANGED vars
    BY <2>6 DEF vars, Stream!streamVars
  <2>7. QED
    BY <1>2, <2>1, <2>2, <2>3, <2>4, <2>5, <2>6 DEF Next
<1>3. QED
  BY <1>1, <1>2, AlwaysInv, PTL DEF Spec, ImplementsStream, Stream!StreamSpec
=============================================================================
