---------------------------- MODULE GeometryProofs ----------------------------
(***************************************************************************)
(* The geometry arithmetic is exact for every track, sector and word size, *)
(* not only the small ones of the runs.  The invariant is that of the runs *)
(* and two facts about what the host was told: nothing, as long as there   *)
(* is no descriptor, and of a good VERIFY that it was in range.            *)
(***************************************************************************)
EXTENDS Geometry, TLAPS

-----------------------------------------------------------------------------
(* Arithmetic.                                                             *)

\* Division with remainder.
LEMMA Division ==
    ASSUME NEW a \in Nat, NEW b \in Nat \ {0}
    PROVE  a \div b \in Nat /\ a % b \in 0 .. b - 1 /\ a = b * (a \div b) + (a % b)
BY SMT

\* Quotient and remainder are determined by what they are for.
LEMMA DivisionUnique ==
    ASSUME NEW b \in Nat \ {0}, NEW q \in Nat, NEW r \in 0 .. b - 1
    PROVE  (b * q + r) \div b = q /\ (b * q + r) % b = r
BY SMT

LEMMA Cancel ==
    ASSUME NEW n \in Nat \ {0}, NEW x \in Int, NEW y \in Int, n * x < n * y
    PROVE  x < y
BY SMT

\* Dividing by a product is dividing twice.
LEMMA DivideTwice ==
    ASSUME NEW a \in Nat, NEW s \in Nat \ {0}, NEW h \in Nat \ {0}
    PROVE  a \div (h * s) = (a \div s) \div h
<1> DEFINE t == a \div s
           c == a \div (h * s)
           r == a % s
           m == a % (h * s)
           k == t - h * c
<1>1. t \in Nat /\ r \in 0 .. s - 1 /\ a = s * t + r
  BY Division
<1>2. h * s \in Nat \ {0}
  BY SMT
<1>3. c \in Nat /\ m \in 0 .. (h * s) - 1 /\ a = (h * s) * c + m
  BY <1>2, Division
<1>4. h * c \in Nat /\ k \in Int
  BY <1>1, <1>3, SMT
<1>5. s * k = m - r
  <2> HIDE DEF t, c, r, m
  <2>1. s * k = s * t - (h * s) * c
    BY <1>1, <1>3, SMT
  <2>2. QED
    BY <2>1, <1>1, <1>3, <1>2, SMT
<1>6. k < h
  <2> HIDE DEF t, c, r, m, k
  <2>1. s * k < s * h
    BY <1>5, <1>1, <1>3, <1>4, SMT
  <2>2. QED
    BY <2>1, <1>4, Cancel
<1>7. -1 < k
  <2> HIDE DEF t, c, r, m, k
  <2>1. s * (-1) < s * k
    BY <1>5, <1>1, <1>3, <1>4, <1>2, SMT
  <2>2. QED
    BY <2>1, <1>4, Cancel
<1>8. t = h * c + k /\ k \in 0 .. h - 1
  <2> HIDE DEF t, c, r, m
  <2>1. QED
    BY <1>1, <1>3, <1>4, <1>6, <1>7, SMT
<1>9. t \div h = c
  <2> HIDE DEF t, c, r, m, k
  <2>1. QED
    BY <1>3, <1>8, DivisionUnique
<1>10. QED
  BY <1>9

-----------------------------------------------------------------------------
(* The functions.                                                          *)

LEMMA Constants ==
    /\ SectorsPerTrack \in Nat \ {0} /\ SectorSize \in Nat \ {0} /\ BlockBytes \in Nat \ {0}
    /\ MostHeads \in Nat \ {0} /\ Byte \in Nat \ {0} /\ HalfWord \in Nat \ {0} /\ Word \in Nat \ {0}
    /\ TrackBytes \in Nat \ {0}
    /\ Lba \subseteq Nat /\ Sizes \subseteq 0 .. Word - 1 /\ MostHeads < Byte
<1>1. SectorsPerTrack \in Nat \ {0} /\ SectorSize \in Nat \ {0}
  BY GeometryAssumption
<1>2. TrackBytes \in Nat \ {0}
  BY <1>1, SMT DEF TrackBytes
<1>3. QED
  BY <1>2, GeometryAssumption

LEMMA SectorsType ==
    ASSUME NEW d \in Descriptors
    PROVE  Sectors(d) \in Nat /\ Sectors(d) * SectorSize \in Nat
<1>1. d.heads \in Nat /\ d.cylinders \in Nat
  BY Constants DEF Descriptors
<1>2. d.heads * d.cylinders \in Nat
  BY <1>1, SMT
<1>3. Sectors(d) \in Nat
  BY <1>2, Constants, SMT DEF Sectors
<1>4. QED
  BY <1>3, Constants, SMT

\* A head count that divides the tracks loses none of them.
LEMMA WholeTracks ==
    ASSUME NEW n \in Nat, NEW h \in Nat \ {0}, (n \div TrackBytes) % h = 0
    PROVE  LET bytes == ((h * ((n \div TrackBytes) \div h)) * SectorsPerTrack) * SectorSize
           IN  bytes <= n /\ n < bytes + TrackBytes
<1> DEFINE t == n \div TrackBytes
           q == t \div h
           r == n % TrackBytes
<1>1. t \in Nat /\ r \in 0 .. TrackBytes - 1 /\ n = TrackBytes * t + r
  BY Constants, Division
<1>2. q \in Nat /\ t = h * q + (t % h)
  <2> HIDE DEF t
  <2>1. QED
    BY <1>1, Division
<1>3. t = h * q
  <2> HIDE DEF q
  <2>1. h * q \in Int
    BY <1>2, SMT
  <2>2. QED
    BY <1>2, <2>1, SMT
<1>4. (t * SectorsPerTrack) * SectorSize = TrackBytes * t
  <2> HIDE DEF t
  <2>1. QED
    BY <1>1, Constants, SMT DEF TrackBytes
<1>5. (t * SectorsPerTrack) * SectorSize <= n /\ n < (t * SectorsPerTrack) * SectorSize + TrackBytes
  <2> HIDE DEF t, r
  <2>1. TrackBytes * t \in Nat
    BY <1>1, Constants, SMT
  <2>2. QED
    BY <1>1, <1>4, <2>1, Constants, SMT
<1>6. QED
  BY <1>3, <1>5

\* TRANSLATE: cylinder, head and bytes give the block back.
LEMMA ThereAndBack ==
    ASSUME NEW a \in Nat, NEW h \in Nat \ {0}
    PROVE  LET cylinder == a \div (h * SectorsPerTrack)
               head == (a \div SectorsPerTrack) % h
               bytes == ((a % SectorsPerTrack) + 1) * BlockBytes
           IN  /\ head < h
               /\ a = (cylinder * h + head) * SectorsPerTrack + (bytes \div BlockBytes) - 1
<1> DEFINE t == a \div SectorsPerTrack
           s == a % SectorsPerTrack
           c == t \div h
           k == t % h
<1>1. t \in Nat /\ s \in Nat /\ a = SectorsPerTrack * t + s
  BY Constants, Division
<1>2. c \in Nat /\ k \in 0 .. h - 1 /\ t = h * c + k
  <2> HIDE DEF t
  <2>1. QED
    BY <1>1, Division
<1>3. a \div (h * SectorsPerTrack) = c
  BY Constants, DivideTwice
<1>4. ((s + 1) * BlockBytes) \div BlockBytes = s + 1
  <2> HIDE DEF s
  <2>1. s + 1 \in Nat /\ (s + 1) * BlockBytes = BlockBytes * (s + 1) + 0 /\ 0 \in 0 .. BlockBytes - 1
    BY <1>1, Constants, SMT
  <2>2. QED
    BY <2>1, Constants, DivisionUnique
<1>5. c * h + k = t
  <2> HIDE DEF t, c, k
  <2>1. QED
    BY <1>1, <1>2, SMT
<1>6. a = t * SectorsPerTrack + (s + 1) - 1
  <2> HIDE DEF t, s
  <2>1. SectorsPerTrack * t = t * SectorsPerTrack /\ t * SectorsPerTrack \in Nat
    BY <1>1, Constants, SMT
  <2>2. QED
    BY <1>1, <2>1, SMT
<1>7. k < h
  <2> HIDE DEF k
  <2>1. QED
    BY <1>2, SMT
<1>8. QED
  BY <1>3, <1>4, <1>5, <1>6, <1>7

-----------------------------------------------------------------------------
(* The invariant.                                                          *)

NothingSaid == dsc = NoDsc => agree = "no" /\ reply = NoReply
GoodInRange == reply.to = "VERIFY" /\ reply.good => reply.lba < Sectors(dsc)

IInv == TypeOK /\ SizesAgree /\ TranslationExact /\ NothingSaid /\ GoodInRange

LEMMA NoDscOther == NoDsc \notin Descriptors
BY SMT DEF NoDsc, Descriptors

LEMMA InitInvariant == Init => IInv
BY Constants DEF Init, IInv, TypeOK, SizesAgree, TranslationExact, NothingSaid, GoodInRange, NoReply

LEMMA CreateDscInvariant == IInv /\ CreateDsc => IInv'
<1> SUFFICES ASSUME IInv, CreateDsc PROVE IInv'
  OBVIOUS
<1> DEFINE tracks == size \div TrackBytes
<1>1. PICK h \in 1 .. MostHeads :
        /\ tracks % h = 0
        /\ dsc' = [cylinders |-> (tracks \div h) % HalfWord, heads |-> h]
        /\ agree' = IF tracks \div h < HalfWord THEN "created" ELSE "no"
  BY DEF CreateDsc, DividesBest
<1>2. /\ size' = size /\ reply' = reply /\ dsc = NoDsc /\ reply = NoReply
      /\ size \in 0 .. Word - 1 /\ size \in Nat
  BY Constants DEF CreateDsc, IInv, TypeOK, NothingSaid
<1>3. h \in Nat \ {0} /\ h \in 0 .. Byte - 1
  BY <1>1, Constants
<1>4. tracks \in Nat
  BY <1>2, Constants, Division
<1>5. tracks \div h \in Nat
  <2> HIDE DEF tracks
  <2>1. QED
    BY <1>3, <1>4, Division
<1>6. (tracks \div h) % HalfWord \in 0 .. HalfWord - 1
  <2> DEFINE q == tracks \div h
  <2> HIDE DEF q
  <2>1. q \in Nat
    BY <1>5 DEF q
  <2>2. q % HalfWord \in 0 .. HalfWord - 1
    BY <2>1, Constants, Division
  <2>3. QED
    BY <2>2 DEF q
<1>7. dsc' \in Descriptors
  BY <1>1, <1>3, <1>6 DEF Descriptors
<1>8. TypeOK'
  BY <1>1, <1>2, <1>7 DEF TypeOK
<1>9. agree' = "created" =>
        Sectors(dsc)' * SectorSize <= size /\ size < Sectors(dsc)' * SectorSize + TrackBytes
  <2> SUFFICES ASSUME agree' = "created"
               PROVE  Sectors(dsc)' * SectorSize <= size /\ size < Sectors(dsc)' * SectorSize + TrackBytes
    OBVIOUS
  <2>1. tracks \div h < HalfWord
    BY <1>1
  <2>2. (tracks \div h) % HalfWord = tracks \div h
    <3> DEFINE q == tracks \div h
    <3> HIDE DEF q
    <3>1. q \in 0 .. HalfWord - 1
      BY <1>5, <2>1, Constants DEF q
    <3>2. HalfWord * 0 + q = q
      BY <3>1, Constants
    <3>3. q % HalfWord = q
      BY <3>1, <3>2, DivisionUnique, Constants
    <3>4. QED
      BY <3>3 DEF q
  <2>3. Sectors(dsc)' = (h * (tracks \div h)) * SectorsPerTrack
    BY <1>1, <2>2 DEF Sectors
  <2>4. QED
    BY <2>3, <1>1, <1>2, <1>3, WholeTracks
<1>10. QED
  BY <1>1, <1>2, <1>7, <1>8, <1>9, NoDscOther
     DEF IInv, SizesAgree, TranslationExact, NothingSaid, GoodInRange, NoReply

LEMMA ModeSelectInvariant == IInv /\ ModeSelect => IInv'
BY NoDscOther DEF ModeSelect, IInv, TypeOK, SizesAgree, TranslationExact, NothingSaid, GoodInRange, NoReply

LEMMA FormatInvariant == IInv /\ Format => IInv'
<1> SUFFICES ASSUME IInv, Format PROVE IInv'
  OBVIOUS
<1>1. dsc \in Descriptors /\ dsc' = dsc /\ reply' = NoReply
  BY DEF Format, IInv, TypeOK
<1>2. Sectors(dsc) * SectorSize \in Nat /\ Sectors(dsc)' = Sectors(dsc)
  BY <1>1, SectorsType DEF Sectors
<1>3. size' = (Sectors(dsc) * SectorSize) % Word
  BY DEF Format, RequiredBytes
<1> DEFINE n == Sectors(dsc) * SectorSize
<1>4. size' \in 0 .. Word - 1
  <2> HIDE DEF n
  <2>1. n \in Nat
    BY <1>2 DEF n
  <2>2. n % Word \in 0 .. Word - 1
    BY <2>1, Constants, Division
  <2>3. QED
    BY <2>2, <1>3 DEF n
<1>5. n < Word => size' = n
  <2> HIDE DEF n
  <2> SUFFICES ASSUME n < Word PROVE size' = n
    OBVIOUS
  <2>1. n \in 0 .. Word - 1 /\ Word * 0 + n = n
    BY <1>2, Constants DEF n
  <2>2. n % Word = n
    BY <2>1, DivisionUnique, Constants
  <2>3. QED
    BY <2>2, <1>3 DEF n
<1>6. agree' \in {"formatted", "no"} /\ (agree' = "formatted" => n < Word)
  BY DEF Format
<1>7. QED
  BY <1>1, <1>2, <1>4, <1>5, <1>6, NoDscOther
     DEF IInv, TypeOK, SizesAgree, TranslationExact, NothingSaid, GoodInRange, NoReply

LEMMA WriteInvariant == IInv /\ Write => IInv'
<1> SUFFICES ASSUME IInv, Write PROVE IInv'
  OBVIOUS
<1>1. PICK lba \in Lba : (lba + 1) * SectorSize < Word /\ size' = (lba + 1) * SectorSize
  BY DEF Write
<1>2. lba + 1 \in Nat
  BY Constants
<1>3. (lba + 1) * SectorSize \in Nat
  BY <1>2, Constants, SMT
<1>4. size' \in 0 .. Word - 1
  BY <1>1, <1>3, Constants
<1>5. UNCHANGED <<dsc, reply>> /\ agree' = "no" /\ dsc # NoDsc
  BY DEF Write
<1>6. QED
  BY <1>4, <1>5 DEF IInv, TypeOK, SizesAgree, TranslationExact, NothingSaid, GoodInRange, Sectors

LEMMA VerifyInvariant == IInv /\ Verify => IInv'
<1> SUFFICES ASSUME IInv, Verify PROVE IInv'
  OBVIOUS
<1>1. PICK lba \in Lba : reply' = [to |-> "VERIFY", lba |-> lba, good |-> lba < Sectors(dsc)]
  BY DEF Verify
<1>2. lba \in Nat
  BY Constants
<1>3. UNCHANGED <<size, dsc, agree>> /\ dsc # NoDsc
  BY DEF Verify
<1>4. reply' \in [to : {"VERIFY"}, lba : Nat, good : BOOLEAN]
  BY <1>1, <1>2
<1>5. TypeOK'
  BY <1>3, <1>4 DEF IInv, TypeOK
<1>6. GoodInRange'
  BY <1>1, <1>3 DEF GoodInRange, Sectors
<1>7. TranslationExact'
  BY <1>1 DEF TranslationExact
<1>8. QED
  BY <1>3, <1>5, <1>6, <1>7 DEF IInv, SizesAgree, NothingSaid, Sectors

LEMMA TranslateInvariant == IInv /\ Translate => IInv'
<1> SUFFICES ASSUME IInv, Translate PROVE IInv'
  OBVIOUS
<1>1. PICK lba \in Lba :
          reply' = [ to |-> "TRANSLATE", lba |-> lba,
                     cylinder |-> UDiv(lba, dsc.heads * SectorsPerTrack),
                     head     |-> UMod(lba \div SectorsPerTrack, dsc.heads) % Byte,
                     bytes    |-> ((lba % SectorsPerTrack) + 1) * BlockBytes ]
  BY DEF Translate
<1>2. lba \in Nat
  BY Constants
<1>3. UNCHANGED <<size, dsc, agree>> /\ dsc # NoDsc /\ dsc \in Descriptors
  BY DEF Translate, IInv, TypeOK
<1> DEFINE h == dsc.heads
           t == lba \div SectorsPerTrack
<1>4. h \in 0 .. Byte - 1 /\ h \in Nat
  BY <1>3, Constants DEF Descriptors
<1>5. t \in Nat /\ lba % SectorsPerTrack \in Nat
  <2>1. t \in Nat /\ lba % SectorsPerTrack \in 0 .. SectorsPerTrack - 1
    BY <1>2, Constants, Division
  <2>2. QED
    BY <2>1
<1>6. UDiv(lba, h * SectorsPerTrack) \in Nat
  <2> HIDE DEF h
  <2>1. h * SectorsPerTrack \in Nat
    BY <1>4, Constants, SMT
  <2>2. QED
    BY <1>2, <2>1, Division DEF UDiv
<1>7. UMod(t, h) \in Nat /\ (h # 0 => UMod(t, h) \in 0 .. h - 1)
  <2> HIDE DEF h, t
  <2>1. CASE h = 0
    BY <2>1, <1>5 DEF UMod
  <2>2. CASE h # 0
    <3>1. t % h \in 0 .. h - 1
      BY <2>2, <1>4, <1>5, Division
    <3>2. QED
      BY <3>1, <2>2, <1>4 DEF UMod
  <2>3. QED
    BY <2>1, <2>2
<1>8. UMod(t, h) % Byte \in 0 .. Byte - 1
  <2> DEFINE x == UMod(t, h)
  <2> HIDE DEF x
  <2>1. x \in Nat
    BY <1>7 DEF x
  <2>2. x % Byte \in 0 .. Byte - 1
    BY <2>1, Constants, Division
  <2>3. QED
    BY <2>2 DEF x
<1>9. ((lba % SectorsPerTrack) + 1) * BlockBytes \in Nat
  <2> DEFINE x == (lba % SectorsPerTrack) + 1
  <2> HIDE DEF x
  <2>1. x \in Nat
    BY <1>5 DEF x
  <2>2. x * BlockBytes \in Nat
    BY <2>1, Constants, SMT
  <2>3. QED
    BY <2>2 DEF x
<1>10. TypeOK'
  BY <1>1, <1>2, <1>3, <1>6, <1>8, <1>9 DEF IInv, TypeOK
<1>11. h # 0 => UMod(t, h) % Byte = t % h /\ UDiv(lba, h * SectorsPerTrack) = lba \div (h * SectorsPerTrack)
  <2> HIDE DEF h, t
  <2> SUFFICES ASSUME h # 0
               PROVE  UMod(t, h) % Byte = t % h /\ UDiv(lba, h * SectorsPerTrack) = lba \div (h * SectorsPerTrack)
    OBVIOUS
  <2> DEFINE x == t % h
  <2>1. UMod(t, h) = x
    BY DEF UMod
  <2>2. x \in 0 .. Byte - 1
    BY <2>1, <1>7, <1>4, Constants
  <2>3. x % Byte = x
    <3> HIDE DEF x
    <3>1. Byte * 0 + x = x
      BY <2>2, Constants
    <3>2. QED
      BY <2>2, <3>1, DivisionUnique, Constants
  <2>4. h * SectorsPerTrack # 0
    BY <1>4, Constants, SMT
  <2>5. QED
    BY <2>1, <2>3, <2>4 DEF UDiv
<1>12. TranslationExact'
  <2> SUFFICES ASSUME h # 0
               PROVE  /\ reply'.head < h
                      /\ reply'.lba = (reply'.cylinder * h + reply'.head) * SectorsPerTrack
                                         + (reply'.bytes \div BlockBytes) - 1
    BY <1>3 DEF TranslationExact
  <2>1. /\ reply'.head = t % h /\ reply'.lba = lba
        /\ reply'.cylinder = lba \div (h * SectorsPerTrack)
        /\ reply'.bytes = ((lba % SectorsPerTrack) + 1) * BlockBytes
    BY <1>1, <1>11
  <2>2. h \in Nat \ {0}
    BY <1>4
  <2>3. QED
    <3> HIDE DEF h
    <3>1. /\ t % h < h
          /\ lba = ((lba \div (h * SectorsPerTrack)) * h + (t % h)) * SectorsPerTrack
                      + ((((lba % SectorsPerTrack) + 1) * BlockBytes) \div BlockBytes) - 1
      BY <1>2, <2>2, ThereAndBack
    <3>2. QED
      BY <2>1, <3>1
<1>13. GoodInRange'
  BY <1>1 DEF GoodInRange
<1>14. QED
  BY <1>3, <1>10, <1>12, <1>13 DEF IInv, SizesAgree, NothingSaid, Sectors

LEMMA ChangeCardInvariant == IInv /\ ChangeCard => IInv'
BY Constants
   DEF ChangeCard, IInv, TypeOK, SizesAgree, TranslationExact, NothingSaid, GoodInRange, NoReply

LEMMA StutterInvariant == IInv /\ UNCHANGED vars => IInv'
BY DEF vars, IInv, TypeOK, SizesAgree, TranslationExact, NothingSaid, GoodInRange, Sectors

LEMMA NextInvariant == IInv /\ [Next]_vars => IInv'
BY CreateDscInvariant, ModeSelectInvariant, FormatInvariant, WriteInvariant, VerifyInvariant,
   TranslateInvariant, ChangeCardInvariant, StutterInvariant
   DEF Next

LEMMA Invariant == Spec => []IInv
BY InitInvariant, NextInvariant, PTL DEF Spec

-----------------------------------------------------------------------------
(* The theorems.                                                           *)

\* The fields of descriptors and images keep the widths of the code.
THEOREM TypeCorrect == Spec => []TypeOK
<1>1. IInv => TypeOK
  BY DEF IInv
<1>2. QED
  BY <1>1, Invariant, PTL

\* filesystemCreateDscFromLunImage and filesystemFormatLun: descriptor and
\* image are of one size, up to a last piece of a track.
THEOREM SizesAlwaysAgree == Spec => []SizesAgree
<1>1. IInv => SizesAgree
  BY DEF IInv
<1>2. QED
  BY <1>1, Invariant, PTL

\* scsiCommandVerify: a block in range is in the image.
THEOREM VerifiedAlwaysInImage == Spec => []VerifiedInImage
<1>1. IInv => VerifiedInImage
  <2> SUFFICES ASSUME IInv, reply.to = "VERIFY", reply.good, agree # "no"
               PROVE  (reply.lba + 1) * SectorSize <= size
    BY DEF VerifiedInImage
  <2> DEFINE cap == Sectors(dsc)
  <2>1. dsc \in Descriptors /\ reply.lba < cap /\ size \in Int
    BY Constants DEF IInv, TypeOK, NothingSaid, GoodInRange
  <2>2. reply.lba \in Nat
    BY DEF IInv, TypeOK, NoReply
  <2>3. cap \in Nat /\ cap * SectorSize \in Nat
    BY <2>1, SectorsType
  <2>4. cap * SectorSize <= size
    BY <2>1, <2>3 DEF IInv, TypeOK, SizesAgree
  <2>5. QED
    <3> DEFINE x == reply.lba
    <3> HIDE DEF cap, x
    <3>1. x \in Nat /\ x + 1 <= cap
      BY <2>1, <2>2, <2>3 DEF x
    <3>2. (x + 1) * SectorSize <= cap * SectorSize /\ (x + 1) * SectorSize \in Nat
      BY <3>1, <2>3, Constants, SMT
    <3>3. (x + 1) * SectorSize <= size
      BY <3>2, <2>1, <2>3, <2>4
    <3>4. QED
      BY <3>3 DEF x
<1>2. QED
  BY <1>1, Invariant, PTL

\* scsiCommandTranslate: the reply determines the block.
THEOREM TranslationAlwaysExact == Spec => []TranslationExact
<1>1. IInv => TranslationExact
  BY DEF IInv
<1>2. QED
  BY <1>1, Invariant, PTL

\* A FORMAT with the descriptor the firmware made keeps the size of the image.
THEOREM FormatAlwaysKeepsSize == Spec => FormatKeepsSize
<1>1. IInv /\ [Next]_vars => [Format /\ agree = "created" => size' <= size /\ size - size' < TrackBytes]_vars
  <2> SUFFICES ASSUME IInv, Format, agree = "created"
               PROVE  size' <= size /\ size - size' < TrackBytes
    OBVIOUS
  <2> DEFINE n == Sectors(dsc) * SectorSize
  <2>1. dsc \in Descriptors /\ size \in 0 .. Word - 1
    BY DEF IInv, TypeOK, Format
  <2>2. n \in Nat
    BY <2>1, SectorsType
  <2>3. n <= size /\ size < n + TrackBytes
    BY DEF IInv, SizesAgree
  <2>4. size' = n
    <3>1. size' = n % Word
      BY DEF Format, RequiredBytes
    <3> HIDE DEF n
    <3>2. n \in 0 .. Word - 1 /\ Word * 0 + n = n
      BY <2>1, <2>2, <2>3, Constants
    <3>3. n % Word = n
      BY <3>2, DivisionUnique, Constants
    <3>4. QED
      BY <3>1, <3>3
  <2>5. QED
    <3> HIDE DEF n
    <3>1. QED
      BY <2>1, <2>2, <2>3, <2>4, Constants
<1>2. QED
  BY <1>1, Invariant, PTL DEF Spec, FormatKeepsSize
=============================================================================
