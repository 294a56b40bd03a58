------------------------------- MODULE Geometry -------------------------------
(***************************************************************************)
(* The arithmetic of disk geometry: the bytes of an image scsi<n>.dat and  *)
(* the cylinders and heads in its descriptor scsi<n>.dsc, made from each   *)
(* other by filesystem.c and used by the handlers of VERIFY and TRANSLATE  *)
(* in scsi.c, in the widths of the code.                                   *)
(*                                                                         *)
(* FileSystem has images in sectors and descriptors in tracks, and does    *)
(* not bound either; this module is about where that is so.                *)
(***************************************************************************)
EXTENDS Integers

CONSTANTS
    SectorsPerTrack, \* 33
    SectorSize,      \* 512
    BlockBytes,      \* 256, the size of a sector TRANSLATE takes for granted
    MostHeads,       \* 16, the most heads of a descriptor made from an image
    Byte,            \* 2^8: heads have 8 bits
    HalfWord,        \* 2^16: cylinders have 16 bits
    Word,            \* 2^32
    Sizes,           \* the sizes of images on a card
    Lba              \* the block addresses the host uses

ASSUME GeometryAssumption ==
    /\ {SectorsPerTrack, SectorSize, BlockBytes, MostHeads, Byte, HalfWord, Word} \subseteq Nat \ {0}
    /\ MostHeads < Byte
    /\ Byte * HalfWord * SectorsPerTrack <= Word   \* sectors have 32 bits
    /\ Sizes \subseteq 0 .. Word - 1
    /\ Lba \subseteq Nat

VARIABLES
    size,   \* the bytes of the image
    dsc,    \* the descriptor
    agree,  \* (history) the descriptor was "created" from the image as it is, the image was
            \* "formatted" from the descriptor as it is, or neither: "no"
    reply   \* what the host was told last of a block address

vars == <<size, dsc, agree, reply>>

Descriptors == [cylinders : 0 .. HalfWord - 1, heads : 0 .. Byte - 1]
NoDsc == [cylinders |-> -1, heads |-> -1]
NoReply == [to |-> "none"]

TrackBytes == SectorsPerTrack * SectorSize

\* requiredNumberOfSectors, lunSizeInSectors
Sectors(d) == d.heads * d.cylinders * SectorsPerTrack

\* (mutant: the product is not cut to 32 bits)
RequiredBytesUncut(d) == Sectors(d) * SectorSize

\* filesystemFormatLun: the product in bytes is one of 32 bits.
RequiredBytes(d) == (Sectors(d) * SectorSize) % Word

\* The variables have the widths of the code.
TypeOK ==
    /\ size \in 0 .. Word - 1
    /\ dsc \in Descriptors \cup {NoDsc}
    /\ agree \in {"created", "formatted", "no"}
    /\ reply \in {NoReply}
         \cup [to : {"VERIFY"}, lba : Nat, good : BOOLEAN]
         \cup [to : {"TRANSLATE"}, lba : Nat, cylinder : Nat, head : 0 .. Byte - 1, bytes : Nat]

Init ==
    /\ size \in Sizes /\ dsc = NoDsc
    /\ agree = "no" /\ reply = NoReply

-----------------------------------------------------------------------------

\* (mutant: the search takes the first head count that leaves no more than a track)
DividesNearly(h, tracks) == tracks % h <= 1

\* The head count of the search loop: the largest that divides the tracks.
DividesBest(h, tracks) ==
    tracks % h = 0 /\ \A g \in h + 1 .. MostHeads : tracks % g # 0

\* filesystemCreateDscFromLunImage, of a LUN that is started and has no
\* descriptor.  The cylinders are cut to two bytes.
CreateDsc ==
    /\ dsc = NoDsc
    /\ LET tracks == size \div TrackBytes IN
       \E h \in 1 .. MostHeads :
          /\ DividesBest(h, tracks)
          /\ dsc' = [cylinders |-> (tracks \div h) % HalfWord, heads |-> h]
          /\ agree' = IF tracks \div h < HalfWord THEN "created" ELSE "no"
    /\ UNCHANGED <<size, reply>>

\* MODE SELECT: the host writes a descriptor of its own.
ModeSelect ==
    /\ dsc' \in Descriptors
    /\ agree' = "no" /\ reply' = NoReply
    /\ UNCHANGED size

\* (mutant: the sectors are taken to have 256 bytes)
FormatShort ==
    /\ dsc # NoDsc
    /\ size' = (Sectors(dsc) * BlockBytes) % Word
    /\ agree' = IF 0 < size' THEN "formatted" ELSE "no"
    /\ reply' = NoReply
    /\ UNCHANGED dsc

\* filesystemFormatLun.  f_expand refuses a size of 0, when the image has been
\* emptied.
Format ==
    /\ dsc # NoDsc
    /\ size' = RequiredBytes(dsc)
    /\ agree' = IF 0 < size' /\ Sectors(dsc) * SectorSize < Word THEN "formatted" ELSE "no"
    /\ reply' = NoReply
    /\ UNCHANGED dsc

\* WRITE past the end of the image makes it longer.
Write ==
    /\ dsc # NoDsc
    /\ \E lba \in Lba :
          /\ (lba + 1) * SectorSize < Word
          /\ size < (lba + 1) * SectorSize
          /\ size' = (lba + 1) * SectorSize
    /\ agree' = "no"
    /\ UNCHANGED <<dsc, reply>>

\* (mutant: the block after the last is let through)
VerifyPastEnd ==
    /\ dsc # NoDsc
    /\ \E lba \in Lba : reply' = [to |-> "VERIFY", lba |-> lba, good |-> lba <= Sectors(dsc)]
    /\ UNCHANGED <<size, dsc, agree>>

\* VERIFY looks at the first block only, however many it is asked for.
Verify ==
    /\ dsc # NoDsc
    /\ \E lba \in Lba : reply' = [to |-> "VERIFY", lba |-> lba, good |-> lba < Sectors(dsc)]
    /\ UNCHANGED <<size, dsc, agree>>

\* Division on the processor: by zero it gives zero, and a remainder is what
\* the quotient leaves.
UDiv(a, b) == IF b = 0 THEN 0 ELSE a \div b
UMod(a, b) == IF b = 0 THEN a ELSE a % b

\* (mutant: the head is not reduced to the heads of a cylinder)
TranslateUnreduced ==
    /\ dsc # NoDsc
    /\ \E lba \in Lba :
          reply' = [ to |-> "TRANSLATE", lba |-> lba,
                     cylinder |-> UDiv(lba, dsc.heads * SectorsPerTrack),
                     head     |-> (lba \div SectorsPerTrack) % Byte,
                     bytes    |-> ((lba % SectorsPerTrack) + 1) * BlockBytes ]
    /\ UNCHANGED <<size, dsc, agree>>

Translate ==
    /\ dsc # NoDsc
    /\ \E lba \in Lba :
          reply' = [ to |-> "TRANSLATE", lba |-> lba,
                     cylinder |-> UDiv(lba, dsc.heads * SectorsPerTrack),
                     head     |-> UMod(lba \div SectorsPerTrack, dsc.heads) % Byte,
                     bytes    |-> ((lba % SectorsPerTrack) + 1) * BlockBytes ]
    /\ UNCHANGED <<size, dsc, agree>>

\* The card is edited or changed: any image, with or without a descriptor.
ChangeCard ==
    /\ size' \in Sizes
    /\ dsc' \in {NoDsc, dsc}
    /\ agree' = "no" /\ reply' = NoReply

Next ==
    \/ CreateDsc \/ ModeSelect \/ Format \/ Write
    \/ Verify \/ Translate \/ ChangeCard

Spec == Init /\ [][Next]_vars

-----------------------------------------------------------------------------
(* What must hold.                                                         *)

\* A descriptor made from an image, and an image made from a descriptor, are
\* of one size: what is left of the image after the last whole track is all
\* the descriptor leaves out, and FORMAT leaves out nothing.  (For an image
\* whose cylinders need more than 16 bits and a geometry of 4 GB and more it
\* does not hold: agree is "no" there.)
SizesAgree ==
    /\ agree = "created"   => Sectors(dsc) * SectorSize <= size /\ size < Sectors(dsc) * SectorSize + TrackBytes
    /\ agree = "formatted" => Sectors(dsc) * SectorSize = size

\* The block VERIFY finds in range is in the image.
VerifiedInImage ==
    reply.to = "VERIFY" /\ reply.good /\ agree # "no" => (reply.lba + 1) * SectorSize <= size

\* The cylinder, the head and the bytes from index TRANSLATE reports belong to
\* the block asked for and to no other, and the head is one of the descriptor.
TranslationExact ==
    reply.to = "TRANSLATE" /\ dsc.heads # 0 =>
        /\ reply.head < dsc.heads
        /\ reply.lba = (reply.cylinder * dsc.heads + reply.head) * SectorsPerTrack
                          + (reply.bytes \div BlockBytes) - 1

\* FORMAT of an image that was given its descriptor by the firmware makes an
\* image that is no longer, and shorter by less than a track; unless it is
\* shorter than a track, when nothing is left of it.
FormatKeepsSize ==
    [][Format /\ agree = "created" => size' <= size /\ size - size' < TrackBytes]_vars
=============================================================================
