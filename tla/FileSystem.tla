------------------------------ MODULE FileSystem ------------------------------
(***************************************************************************)
(* The LUN store of the firmware (filesystem.c): the mount state of the SD *)
(* card, which LUNs are started, the one file object used for transfers,   *)
(* and the files scsi<n>.dat (the disk image) and scsi<n>.dsc (its         *)
(* geometry) on the card.                                                  *)
(*                                                                         *)
(* A C function is an operator from a state of the store to the SET of its *)
(* outcomes [fs |-> the state it leaves, ok |-> the value it returns]; a   *)
(* caller picks one.  More than one outcome stands for what FatFs and the  *)
(* card may do: with IoFaults any FatFs call may fail, with CardMayFill    *)
(* there may be no free cluster for what a call wants to allocate, and     *)
(* without both a call fails only if the files give a reason for it.       *)
(*                                                                         *)
(* Data abstraction: an image is its length in sectors; a descriptor is    *)
(* the number of tracks (heads * cylinders) it describes.                  *)
(***************************************************************************)
EXTENDS Naturals

CONSTANTS
    LUN,              \* the logical unit numbers in use, a subset of 0..7
    SectorsPerTrack,  \* 33 in the code
    MaxTracks,        \* bound on the tracks of a geometry the host writes
    Absent,           \* there is no such file / the file object is not open
    Empty,            \* a descriptor file of length zero
    IoFaults,         \* may a FatFs call fail although the files allow it?
    CardMayFill       \* may the card have no free cluster left?

ASSUME FsAssumption ==
    /\ LUN \subseteq 0 .. 7
    /\ 0 \in LUN
    /\ SectorsPerTrack \in Nat \ {0}
    /\ MaxTracks \in Nat
    /\ Absent \notin Nat /\ Empty \notin Nat /\ Absent # Empty
    /\ IoFaults \in BOOLEAN /\ CardMayFill \in BOOLEAN

Track == 0 .. MaxTracks   \* what a geometry written by the host, or garbage, may be

VARIABLE fs  \* filesystemState, lunOpenFlag and the card's files

FsState ==
    [ mounted : BOOLEAN,                            \* fsMountState
      started : [LUN -> BOOLEAN],                   \* fsLunStatus
      open    : BOOLEAN,                            \* lunOpenFlag
      file    : Nat \cup {Absent},                  \* fileObject: its position, if open
      size    : Nat \cup {Absent},                  \* and its objsize: the image's length, if open
      dir     : BOOLEAN,                            \* is /BeebSCSI0 on the card?
      dat     : [LUN -> Nat \cup {Absent}],         \* lengths in the directory
      dsc     : [LUN -> Nat \cup {Absent, Empty}] ]

Ret(s, ok) == [fs |-> s, ok |-> ok]
OnFault(outcomes) == IF IoFaults THEN outcomes ELSE {}
OnFull(outcomes) == IF CardMayFill THEN outcomes ELSE {}
AtLeast(size, n) == IF size < n THEN n ELSE size
AllStopped == [l \in LUN |-> FALSE]

-----------------------------------------------------------------------------
(* Checking an image (filesystemCheckLunImage and what it calls).          *)

\* filesystemCreateDscFromLunImage: the geometry covers the whole tracks of
\* the image.  FA_CREATE_ALWAYS empties the file before it is written.
CreateDscFromLunImage(s, l) ==
    { [s EXCEPT !.dsc[l] = s.dat[l] \div SectorsPerTrack] }
        \cup OnFault({ s, [s EXCEPT !.dsc[l] = Empty] })
        \cup OnFull({ s, [s EXCEPT !.dsc[l] = Empty] })

\* (mutant: an image that does not open is reported as present)
CheckLunImageUnlessMissing(s, l) == { Ret(s, TRUE) }

\* The image must open; a descriptor that does not open is made anew,
\* whatever the reason it did not open.
CheckLunImage(s, l) ==
    LET missing == { Ret(s, FALSE) }
        kept    == { Ret(s, TRUE) }
        remade  == { Ret(t, TRUE) : t \in CreateDscFromLunImage(s, l) }
    IN  CASE s.dat[l] = Absent -> missing
          [] s.dat[l] # Absent /\ s.dsc[l] = Absent -> remade \cup OnFault(missing)
          [] OTHER -> kept \cup OnFault(missing \cup remade)

\* (mutant: the mount state is not looked at)
CheckLunDirectoryUnmounted(s) == { Ret([s EXCEPT !.dir = TRUE], TRUE) }

\* The directory is made when it is not there.
CheckLunDirectory(s) ==
    IF s.mounted
    THEN { Ret([s EXCEPT !.dir = TRUE], TRUE) }
           \cup OnFault({ Ret(s, FALSE), Ret([s EXCEPT !.dir = TRUE], FALSE) })
           \cup OnFull(IF s.dir THEN {} ELSE { Ret(s, FALSE) })
    ELSE { Ret(s, FALSE) }

-----------------------------------------------------------------------------
(* LUN status, mounting and the reset of the store.                        *)

\* (filesystemSetLunStatus and filesystemCheckLunDirectory both refuse a card
\* that is not mounted.)
StartLun(s, l) ==
    { Ret([c.fs EXCEPT !.started[l] = c.ok], c.ok) :
        c \in UNION { CheckLunImage(d.fs, l) : d \in { e \in CheckLunDirectory(s) : e.ok } } }
    \cup { d \in CheckLunDirectory(s) : ~d.ok }

SetLunStatus(s, l, on) ==
    CASE s.started[l] = on -> { Ret(s, TRUE) }
      [] s.started[l] /\ ~on -> { Ret([s EXCEPT !.started[l] = FALSE], TRUE) }
      [] OTHER -> StartLun(s, l)

\* Every LUN is stopped; a mounted card gets LUN 0 started, if it can be.
Mount(s) ==
    LET stopped == [s EXCEPT !.started = AllStopped]
        mounted == [stopped EXCEPT !.mounted = TRUE]
    IN  IF s.mounted
        THEN { Ret(s, FALSE) }
        ELSE { Ret(o.fs, TRUE) : o \in SetLunStatus(mounted, 0, TRUE) }
               \cup OnFault({ Ret(stopped, FALSE) })

Dismount(s) ==
    IF s.mounted THEN [s EXCEPT !.started = AllStopped, !.mounted = FALSE] ELSE s

\* The descriptors as the tests of the started LUNs leave them, and the LUNs
\* whose image was not found.  (A test touches the files of its LUN only.)
TestResults(s) ==
    LET left(l) == { c.fs.dsc[l] : c \in CheckLunImage(s, l) } \cup { s.dsc[l] }
    IN { r \in [dsc : [LUN -> UNION { left(l) : l \in LUN }], bad : SUBSET LUN] :
        \A l \in LUN :
            IF s.started[l]
            THEN \E c \in CheckLunImage(s, l) :
                     c.fs.dsc[l] = r.dsc[l] /\ (l \in r.bad <=> ~c.ok)
            ELSE r.dsc[l] = s.dsc[l] /\ l \notin r.bad }

\* (mutant: a failed test does not make the card be mounted again)
FsResetWithoutRemount(s) ==
    IF s.mounted THEN { [s EXCEPT !.dsc = r.dsc] : r \in TestResults(s) }
    ELSE { o.fs : o \in Mount(s) }

\* filesystemReset: test what is started and, if a test fails, mount again.
FsReset(s) ==
    IF s.mounted
    THEN UNION { LET t == [s EXCEPT !.dsc = r.dsc]
                 IN  IF r.bad = {} THEN { t } ELSE { o.fs : o \in Mount(Dismount(t)) } :
                 r \in TestResults(s) }
    ELSE { o.fs : o \in Mount(s) }

-----------------------------------------------------------------------------
(* Creating and formatting LUNs, and their descriptors.                    *)

\* Neither function looks at fsMountState: FatFs mounts the volume on demand.
\* Neither looks at f_close, which may fail to enter the new file.
CreateLunImage(s, l) ==
    (IF s.dat[l] # Absent THEN { Ret(s, TRUE) }
     ELSE IF s.dir THEN { Ret([s EXCEPT !.dat[l] = 0], TRUE) }
                        \cup OnFault({ Ret(s, TRUE) }) \cup OnFull({ Ret(s, FALSE) })
     ELSE { Ret(s, FALSE) })
    \cup OnFault({ Ret(s, FALSE) })

CreateLunDescriptor(s, l) ==
    (IF s.dsc[l] # Absent THEN { Ret(s, TRUE) }
     ELSE IF s.dir THEN { Ret([s EXCEPT !.dsc[l] = Empty], TRUE) }
                        \cup OnFault({ Ret(s, TRUE) }) \cup OnFull({ Ret(s, FALSE) })
     ELSE { Ret(s, FALSE) })
    \cup OnFault({ Ret(s, FALSE) })

\* The geometry found in the buffer after filesystemReadLunDescriptor.  The
\* test "fsResult != FR_OK && fsCounter == 22" lets a short or failed read
\* pass, so an empty file or a read error leaves what the buffer held before.
GeometryRead(s, l) ==
    IF s.dsc[l] \in Nat /\ ~IoFaults THEN { s.dsc[l] } ELSE Track

ReadLunDescriptor(s, l) ==
    (IF s.dsc[l] = Absent THEN {} ELSE { [ok |-> TRUE, geometry |-> g] : g \in GeometryRead(s, l) })
    \cup (IF s.dsc[l] = Absent \/ IoFaults
          THEN { [ok |-> FALSE, geometry |-> g] : g \in Track } ELSE {})

\* The same test lets a failed f_write pass, and one that found the card
\* full: TRUE, and nothing was written.
WriteLunDescriptor(s, l, g) ==
    IF s.dsc[l] = Absent
    THEN { Ret(s, FALSE) }
    ELSE { Ret([s EXCEPT !.dsc[l] = g], TRUE) }
           \cup OnFault({ Ret(s, TRUE), Ret(s, FALSE) })
           \cup OnFull(IF s.dsc[l] = Empty THEN { Ret(s, TRUE) } ELSE {})

\* The image is emptied and then expanded to g tracks; f_expand fails for
\* none.  An f_close that fails to enter the new length is not noticed.
Expanded(s, l, g) ==
    LET emptied == [s EXCEPT !.dat[l] = 0]
    IN  IF g = 0 THEN { Ret(emptied, FALSE) }
        ELSE { Ret([s EXCEPT !.dat[l] = g * SectorsPerTrack], TRUE) }
               \cup OnFault({ Ret(emptied, TRUE) })

\* f_expand also fails for want of contiguous space, and f_open for want of
\* a cluster, if the image has to be made.
FormatLun(s, l) ==
    LET failures == { Ret([s EXCEPT !.dat[l] = 0], FALSE) }
    IN  (IF s.dsc[l] = Absent THEN { Ret(s, FALSE) }
         ELSE (UNION { Expanded(s, l, g) : g \in GeometryRead(s, l) })
              \cup OnFull(failures \cup IF s.dat[l] = Absent THEN { Ret(s, FALSE) } ELSE {}))
        \cup OnFault({ Ret(s, FALSE) } \cup failures)

-----------------------------------------------------------------------------
(* Reading and writing an image.  What a read returns is ReadAhead's        *)
(* subject; here it only succeeds or fails.  A write makes the open image   *)
(* longer; the directory learns of it when the image is closed.             *)

\* f_close: the length of the image is entered in the directory.  If that
\* fails the old one stays, and no caller looks at the result.
Closed(s, l) ==
    LET entered == IF s.size = Absent THEN { s.dat[l] } ELSE { s.size } \cup OnFault({ s.dat[l] })
    IN  { [s EXCEPT !.file = Absent, !.size = Absent, !.dat[l] = n] : n \in entered }

OpenLunForRead(s, l) ==
    IF s.open \/ s.dat[l] = Absent
    THEN { Ret(s, FALSE) }
    ELSE { Ret([s EXCEPT !.open = TRUE, !.file = 0, !.size = s.dat[l]], TRUE) }
           \cup OnFault({ Ret(s, FALSE) })

\* The next sector is read ahead, if one of the request is left.  An image
\* that was only read has nothing to enter when it is closed.
ReadNextSector(s, left) ==
    IF s.open /\ s.file # Absent
    THEN { Ret(s, TRUE) }
           \cup OnFault(IF left > 0
                        THEN { Ret([s EXCEPT !.file = Absent, !.size = Absent], FALSE) } ELSE {})
    ELSE { Ret(s, FALSE) }

\* (mutant: the image is opened with FA_CREATE_ALWAYS, which empties it)
OpenLunForWriteEmptied(s, l, start) ==
    { Ret([s EXCEPT !.open = TRUE, !.file = start, !.size = start, !.dat[l] = 0], TRUE) }

\* (mutant: f_lseek to the first block is left out)
OpenLunForWriteAtZero(s, l, start) ==
    IF s.open THEN { Ret(s, FALSE) }
    ELSE { Ret([s EXCEPT !.open = TRUE, !.file = 0, !.size = s.dat[l]], TRUE) }

\* A failed f_open falls through to success.  f_lseek in write mode makes a
\* file that is too short longer, as far as the card has room, and succeeds.
OpenLunForWrite(s, l, start) ==
    LET unopened == Ret([s EXCEPT !.open = TRUE, !.file = Absent, !.size = Absent], TRUE)
        openedAt(p) == Ret([s EXCEPT !.open = TRUE, !.file = p,
                                     !.size = AtLeast(s.dat[l], p)], TRUE)
    IN  IF s.open THEN { Ret(s, FALSE) }
        ELSE IF s.dat[l] = Absent THEN { unopened }
        ELSE { openedAt(start) } \cup OnFull({ openedAt(p) : p \in s.dat[l] .. start - 1 })
               \cup OnFault({ unopened, Ret(s, FALSE) })

\* f_write returns FR_OK when the card is full, and writes less.  When it
\* fails the file is closed, but lunOpenFlag stays set.
WriteNextSector(s, l) ==
    IF s.open /\ s.file # Absent
    THEN { Ret([s EXCEPT !.file = s.file + 1, !.size = AtLeast(s.size, s.file + 1)], TRUE) }
           \cup OnFull(IF s.file < s.size THEN {} ELSE { Ret(s, TRUE) })
           \cup OnFault({ Ret(t, FALSE) : t \in Closed(s, l) })
    ELSE { Ret(s, FALSE) }

\* filesystemCloseLunForRead and filesystemCloseLunForWrite are the same.
\* (Both clear lunOpenFlag whatever f_close returns.)
CloseLun(s, l) == IF s.open THEN { [t EXCEPT !.open = FALSE] : t \in Closed(s, l) } ELSE { s }
====
