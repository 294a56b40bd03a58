--------------------------- MODULE FileSystemProofs ---------------------------
(***************************************************************************)
(* Lemmas about the operators of FileSystem: what every outcome of a       *)
(* function of filesystem.c is like, for every card and whatever fails.    *)
(***************************************************************************)
EXTENDS FileSystem, TLAPS

\* A state of the store in which no LUN is started on an unmounted card.
Sound(s) == s \in FsState /\ ((\E l \in LUN : s.started[l]) => s.mounted)

\* t has the same transfer file as s, open or closed.
SameFile(s, t) == t.open = s.open /\ t.file = s.file /\ t.size = s.size

\* t has every image s has, none of them shorter.
Keeps(s, t) == \A l \in LUN : s.dat[l] # Absent => t.dat[l] # Absent /\ t.dat[l] >= s.dat[l]

\* The transfer file, if it is open, is the image of l, and no shorter than
\* its entry in the directory.
FileOf(s, l) ==
    /\ s.file # Absent => s.size # Absent
    /\ s.size # Absent => s.dat[l] # Absent /\ s.size >= s.dat[l]

\* The outcome of a function that neither opens nor closes the transfer file
\* nor formats an image.
SoundOutcome(s, o) ==
    o.ok \in BOOLEAN /\ Sound(o.fs) /\ SameFile(s, o.fs) /\ Keeps(s, o.fs)

-----------------------------------------------------------------------------
LEMMA Constants ==
    /\ SectorsPerTrack \in Nat \ {0} /\ MaxTracks \in Nat
    /\ 0 \in LUN
BY FsAssumption

LEMMA TracksOfImage ==
    ASSUME NEW n \in Nat PROVE n \div SectorsPerTrack \in Nat
BY Constants

LEMMA SectorsOfTracks ==
    ASSUME NEW g \in Nat PROVE g * SectorsPerTrack \in Nat
BY Constants

\* The fields of a state.
LEMMA Fields ==
    ASSUME NEW s \in FsState, NEW l \in LUN
    PROVE  /\ s.mounted \in BOOLEAN /\ s.open \in BOOLEAN /\ s.dir \in BOOLEAN
           /\ s.started[l] \in BOOLEAN
           /\ s.file \in Nat \cup {Absent} /\ s.size \in Nat \cup {Absent}
           /\ s.dat[l] \in Nat \cup {Absent}
           /\ s.dsc[l] \in Nat \cup {Absent, Empty}
BY DEF FsState

\* The updates the operators are made of lead to states.
LEMMA Updates ==
    ASSUME NEW s \in FsState, NEW l \in LUN
    PROVE  /\ \A d \in Nat \cup {Absent, Empty} : [s EXCEPT !.dsc[l] = d] \in FsState
           /\ \A n \in Nat \cup {Absent} : [s EXCEPT !.dat[l] = n] \in FsState
           /\ \A b \in BOOLEAN : /\ [s EXCEPT !.started[l] = b] \in FsState
                                 /\ [s EXCEPT !.dir = b] \in FsState
                                 /\ [s EXCEPT !.mounted = b] \in FsState
           /\ [s EXCEPT !.started = AllStopped] \in FsState
BY DEF FsState, AllStopped

LEMMA RetFields ==
    ASSUME NEW s, NEW b \in BOOLEAN
    PROVE  Ret(s, b).fs = s /\ Ret(s, b).ok = b /\ Ret(s, b).ok \in BOOLEAN
BY DEF Ret

LEMMA KeepsSame ==
    ASSUME NEW s \in FsState, NEW t, t.dat = s.dat PROVE Keeps(s, t)
<1>1. \A l \in LUN : s.dat[l] \in Nat \cup {Absent}
  BY Fields
<1>2. QED
  BY <1>1 DEF Keeps

LEMMA KeepsTransitive ==
    ASSUME NEW s \in FsState, NEW t \in FsState, NEW u \in FsState, Keeps(s, t), Keeps(t, u)
    PROVE  Keeps(s, u)
<1> SUFFICES ASSUME NEW l \in LUN, s.dat[l] # Absent
             PROVE  u.dat[l] # Absent /\ u.dat[l] >= s.dat[l]
  BY DEF Keeps
<1>1. t.dat[l] # Absent /\ t.dat[l] >= s.dat[l] /\ u.dat[l] # Absent /\ u.dat[l] >= t.dat[l]
  BY DEF Keeps
<1>2. s.dat[l] \in Nat /\ t.dat[l] \in Nat /\ u.dat[l] \in Nat
  BY <1>1, Fields
<1>3. QED
  BY <1>1, <1>2

\* A function that touches no more than the status of a mounted card, the
\* directory and the descriptors has a sound outcome.
LEMMA SameRest ==
    ASSUME NEW s, Sound(s), NEW t \in FsState,
           t.dat = s.dat, SameFile(s, t),
           \/ t.mounted
           \/ t.mounted = s.mounted /\ \A l \in LUN : t.started[l] => s.started[l]
    PROVE  Sound(t) /\ Keeps(s, t)
BY KeepsSame DEF Sound

-----------------------------------------------------------------------------
(* Checking an image.                                                      *)

LEMMA CreateDscSound ==
    ASSUME NEW s, Sound(s), NEW l \in LUN, s.dat[l] # Absent,
           NEW t \in CreateDscFromLunImage(s, l)
    PROVE  SoundOutcome(s, Ret(t, TRUE)) /\ t.mounted = s.mounted
<1>1. s \in FsState /\ s.dat[l] \in Nat
  BY Fields DEF Sound
<1>2. s.dat[l] \div SectorsPerTrack \in Nat
  BY <1>1, TracksOfImage
<1>3. \/ t = s
      \/ \E d \in Nat \cup {Absent, Empty} : t = [s EXCEPT !.dsc[l] = d]
  BY <1>2 DEF CreateDscFromLunImage, OnFault, OnFull
<1>4. t \in FsState
  <2>1. \A d \in Nat \cup {Absent, Empty} : [s EXCEPT !.dsc[l] = d] \in FsState
    BY <1>1, Updates
  <2>2. QED
    BY <1>1, <1>3, <2>1
<1>5. t.dat = s.dat /\ SameFile(s, t) /\ t.mounted = s.mounted /\ t.started = s.started
  BY <1>1, <1>3 DEF FsState, SameFile
<1>6. QED
  BY <1>4, <1>5, SameRest DEF SoundOutcome, Ret

LEMMA Unchanged ==
    ASSUME NEW s, Sound(s), NEW b \in BOOLEAN
    PROVE  SoundOutcome(s, Ret(s, b)) /\ Ret(s, b).fs = s /\ Ret(s, b).ok = b
BY KeepsSame DEF SoundOutcome, Ret, Sound, SameFile

LEMMA CheckLunImageSound ==
    ASSUME NEW s, Sound(s), NEW l \in LUN, NEW o \in CheckLunImage(s, l)
    PROVE  SoundOutcome(s, o) /\ o.fs.mounted = s.mounted
<1>1. \/ \E b \in BOOLEAN : o = Ret(s, b)
      \/ s.dat[l] # Absent /\ \E t \in CreateDscFromLunImage(s, l) : o = Ret(t, TRUE)
  BY DEF CheckLunImage, OnFault
<1>2. ASSUME NEW b \in BOOLEAN, o = Ret(s, b)
      PROVE  SoundOutcome(s, o) /\ o.fs.mounted = s.mounted
  BY <1>2, Unchanged
<1>3. ASSUME s.dat[l] # Absent, NEW t \in CreateDscFromLunImage(s, l), o = Ret(t, TRUE)
      PROVE  SoundOutcome(s, o) /\ o.fs.mounted = s.mounted
  BY <1>3, CreateDscSound DEF Ret
<1>4. QED
  BY <1>1, <1>2, <1>3

LEMMA CheckLunDirectorySound ==
    ASSUME NEW s, Sound(s), NEW o \in CheckLunDirectory(s)
    PROVE  SoundOutcome(s, o) /\ o.fs.mounted = s.mounted /\ (o.ok => s.mounted)
<1> DEFINE t == [s EXCEPT !.dir = TRUE]
<1>1. \/ o = Ret(s, FALSE)
      \/ s.mounted /\ \E b \in BOOLEAN : o = Ret(t, b)
  BY DEF CheckLunDirectory, OnFault, OnFull
<1>2. s \in FsState /\ t \in FsState
  BY Updates, Constants DEF Sound
<1>3. t.dat = s.dat /\ SameFile(s, t) /\ t.mounted = s.mounted /\ t.started = s.started
  BY <1>2 DEF FsState, SameFile
<1>4. Sound(t) /\ Keeps(s, t)
  BY <1>2, <1>3, SameRest
<1> HIDE DEF t
<1>5. CASE o = Ret(s, FALSE)
  BY <1>5, Unchanged
<1>6. ASSUME s.mounted, NEW b \in BOOLEAN, o = Ret(t, b)
      PROVE  SoundOutcome(s, o) /\ o.fs.mounted = s.mounted
  BY <1>3, <1>4, <1>6 DEF SoundOutcome, Ret
<1>7. QED
  BY <1>1, <1>5, <1>6

-----------------------------------------------------------------------------
(* LUN status, mounting and the reset of the store.                        *)

LEMMA StartLunSound ==
    ASSUME NEW s, Sound(s), NEW l \in LUN, NEW o \in StartLun(s, l)
    PROVE  SoundOutcome(s, o) /\ o.fs.mounted = s.mounted
<1>1. CASE o \in CheckLunDirectory(s)
  BY <1>1, CheckLunDirectorySound
<1>2. ASSUME NEW d \in CheckLunDirectory(s), d.ok, NEW c \in CheckLunImage(d.fs, l),
             o = Ret([c.fs EXCEPT !.started[l] = c.ok], c.ok)
      PROVE  SoundOutcome(s, o) /\ o.fs.mounted = s.mounted
  <2> DEFINE t == [c.fs EXCEPT !.started[l] = c.ok]
  <2>1. SoundOutcome(s, d) /\ d.fs.mounted = s.mounted /\ s.mounted
    BY <1>2, CheckLunDirectorySound
  <2>2. SoundOutcome(d.fs, c) /\ c.fs.mounted = s.mounted
    BY <1>2, <2>1, CheckLunImageSound DEF SoundOutcome
  <2>3. s \in FsState /\ d.fs \in FsState /\ c.fs \in FsState /\ t \in FsState
    BY <2>1, <2>2, Updates DEF Sound, SoundOutcome
  <2>4. t.dat = c.fs.dat /\ SameFile(c.fs, t) /\ t.mounted = s.mounted
    BY <2>2, <2>3 DEF FsState, SameFile
  <2>5. Sound(t) /\ Keeps(c.fs, t)
    BY <2>1, <2>2, <2>3, <2>4, SameRest DEF SoundOutcome
  <2>6. Keeps(s, t)
    BY <2>1, <2>2, <2>3, <2>5, KeepsTransitive DEF SoundOutcome
  <2>7. SameFile(s, t)
    BY <2>1, <2>2, <2>4 DEF SoundOutcome, SameFile
  <2>8. c.ok \in BOOLEAN
    BY <2>2 DEF SoundOutcome
  <2> HIDE DEF t
  <2>9. o = Ret(t, c.ok)
    BY <1>2 DEF t
  <2>10. QED
    BY <2>4, <2>5, <2>6, <2>7, <2>8, <2>9 DEF SoundOutcome, Ret
<1>3. QED
  BY <1>1, <1>2 DEF StartLun

LEMMA SetLunStatusSound ==
    ASSUME NEW s, Sound(s), NEW l \in LUN, NEW on \in BOOLEAN, NEW o \in SetLunStatus(s, l, on)
    PROVE  SoundOutcome(s, o)
<1> DEFINE t == [s EXCEPT !.started[l] = FALSE]
<1>1. s \in FsState /\ t \in FsState
  BY Updates DEF Sound
<1>2. t.dat = s.dat /\ SameFile(s, t) /\ t.mounted = s.mounted
      /\ \A k \in LUN : t.started[k] => s.started[k]
  BY <1>1 DEF FsState, SameFile
<1>3. Sound(t) /\ Keeps(s, t)
  BY <1>1, <1>2, SameRest
<1>4. o = Ret(s, TRUE) \/ o = Ret(t, TRUE) \/ o \in StartLun(s, l)
  BY DEF SetLunStatus
<1> HIDE DEF t
<1>5. CASE o = Ret(s, TRUE)
  BY <1>5, Unchanged
<1>6. CASE o = Ret(t, TRUE)
  BY <1>2, <1>3, <1>6 DEF SoundOutcome, Ret
<1>7. QED
  BY <1>4, <1>5, <1>6, StartLunSound

LEMMA MountSound ==
    ASSUME NEW s, Sound(s), NEW o \in Mount(s)
    PROVE  SoundOutcome(s, o)
<1> DEFINE stopped == [s EXCEPT !.started = AllStopped]
           mounted == [stopped EXCEPT !.mounted = TRUE]
<1>1. s \in FsState /\ stopped \in FsState
  BY Updates, Constants DEF Sound
<1>2. mounted \in FsState
  BY <1>1, Updates, Constants
<1>3. /\ stopped.dat = s.dat /\ SameFile(s, stopped) /\ stopped.mounted = s.mounted
      /\ stopped.started = AllStopped
      /\ mounted.dat = s.dat /\ SameFile(s, mounted) /\ mounted.mounted
  BY <1>1 DEF FsState, SameFile
<1>4. Sound(stopped) /\ Keeps(s, stopped) /\ Sound(mounted) /\ Keeps(s, mounted)
  BY <1>1, <1>2, <1>3, SameRest DEF AllStopped
<1>5. \/ o = Ret(s, FALSE) \/ o = Ret(stopped, FALSE)
      \/ \E p \in SetLunStatus(mounted, 0, TRUE) : o = Ret(p.fs, TRUE)
  BY DEF Mount, OnFault
<1> HIDE DEF stopped, mounted
<1>6. CASE o = Ret(s, FALSE)
  BY <1>6, Unchanged
<1>7. CASE o = Ret(stopped, FALSE)
  BY <1>3, <1>4, <1>7 DEF SoundOutcome, Ret
<1>8. ASSUME NEW p \in SetLunStatus(mounted, 0, TRUE), o = Ret(p.fs, TRUE)
      PROVE  SoundOutcome(s, o)
  <2>1. SoundOutcome(mounted, p)
    BY <1>4, Constants, SetLunStatusSound
  <2>2. Keeps(s, p.fs)
    BY <1>1, <1>2, <1>4, <2>1, KeepsTransitive DEF SoundOutcome, Sound
  <2>3. QED
    BY <1>3, <1>8, <2>1, <2>2 DEF SoundOutcome, SameFile, Ret
<1>9. QED
  BY <1>5, <1>6, <1>7, <1>8

LEMMA DismountSound ==
    ASSUME NEW s, Sound(s)
    PROVE  Sound(Dismount(s)) /\ SameFile(s, Dismount(s)) /\ Keeps(s, Dismount(s))
<1> DEFINE t == [s EXCEPT !.started = AllStopped, !.mounted = FALSE]
<1>1. s \in FsState /\ t \in FsState
  BY DEF Sound, FsState, AllStopped
<1>2. t.dat = s.dat /\ SameFile(s, t) /\ t.started = AllStopped
  BY <1>1 DEF FsState, SameFile
<1>3. Sound(t) /\ Keeps(s, t)
  BY <1>1, <1>2, KeepsSame DEF Sound, AllStopped
<1> HIDE DEF t
<1>4. Dismount(s) = IF s.mounted THEN t ELSE s
  BY DEF Dismount, t
<1>5. QED
  BY <1>1, <1>2, <1>3, <1>4, KeepsSame DEF SameFile

\* The tests of filesystemReset make descriptors only.
LEMMA TestedSound ==
    ASSUME NEW s, Sound(s), NEW r \in TestResults(s)
    PROVE  LET t == [s EXCEPT !.dsc = r.dsc]
           IN  Sound(t) /\ SameFile(s, t) /\ Keeps(s, t)
<1> DEFINE t == [s EXCEPT !.dsc = r.dsc]
<1>1. s \in FsState
  BY DEF Sound
<1>2. \A l \in LUN : \A c \in CheckLunImage(s, l) : c.fs.dsc[l] \in Nat \cup {Absent, Empty}
  <2> SUFFICES ASSUME NEW l \in LUN, NEW c \in CheckLunImage(s, l)
               PROVE  c.fs.dsc[l] \in Nat \cup {Absent, Empty}
    OBVIOUS
  <2>1. c.fs \in FsState
    BY CheckLunImageSound DEF SoundOutcome, Sound
  <2>2. QED
    BY <2>1, Fields
<1>3. r.dsc \in [LUN -> Nat \cup {Absent, Empty}]
  <2>1. \A l \in LUN : s.dsc[l] \in Nat \cup {Absent, Empty}
    BY <1>1, Fields
  <2>2. \E R : r.dsc \in [LUN -> R]
    BY DEF TestResults
  <2>3. \A l \in LUN :
           \/ r.dsc[l] = s.dsc[l]
           \/ \E c \in CheckLunImage(s, l) : c.fs.dsc[l] = r.dsc[l]
    BY DEF TestResults
  <2>4. \A l \in LUN : r.dsc[l] \in Nat \cup {Absent, Empty}
    BY <1>2, <2>1, <2>3
  <2>5. QED
    BY <2>2, <2>4
<1>4. t \in FsState
  BY <1>1, <1>3 DEF FsState
<1>5. t.dat = s.dat /\ SameFile(s, t) /\ t.mounted = s.mounted /\ t.started = s.started
  BY <1>1 DEF FsState, SameFile
<1> HIDE DEF t
<1>6. Sound(t) /\ Keeps(s, t)
  BY <1>4, <1>5, SameRest
<1>7. QED
  BY <1>5, <1>6 DEF t

LEMMA FsResetSound ==
    ASSUME NEW s, Sound(s), NEW t \in FsReset(s)
    PROVE  Sound(t) /\ SameFile(s, t) /\ Keeps(s, t)
<1>1. CASE ~s.mounted
  BY <1>1, MountSound DEF FsReset, SoundOutcome
<1>2. CASE s.mounted
  <2>1. PICK r \in TestResults(s) :
           \/ t = [s EXCEPT !.dsc = r.dsc]
           \/ \E o \in Mount(Dismount([s EXCEPT !.dsc = r.dsc])) : t = o.fs
    BY <1>2 DEF FsReset
  <2> DEFINE u == [s EXCEPT !.dsc = r.dsc]
  <2>2. Sound(u) /\ SameFile(s, u) /\ Keeps(s, u)
    BY TestedSound
  <2> HIDE DEF u
  <2>3. CASE t = u
    BY <2>2, <2>3
  <2>4. ASSUME NEW o \in Mount(Dismount(u)), t = o.fs
        PROVE  Sound(t) /\ SameFile(s, t) /\ Keeps(s, t)
    <3>1. Sound(Dismount(u)) /\ SameFile(u, Dismount(u)) /\ Keeps(u, Dismount(u))
      BY <2>2, DismountSound
    <3>2. SoundOutcome(Dismount(u), o)
      BY <3>1, MountSound
    <3>3. Keeps(s, Dismount(u))
      BY <2>2, <3>1, KeepsTransitive DEF Sound
    <3>4. Keeps(s, t)
      BY <2>4, <3>1, <3>2, <3>3, KeepsTransitive DEF Sound, SoundOutcome
    <3>5. QED
      BY <2>2, <2>4, <3>1, <3>2, <3>4 DEF SoundOutcome, SameFile
  <2>5. QED
    BY <2>1, <2>3, <2>4 DEF u
<1>3. QED
  BY <1>1, <1>2

-----------------------------------------------------------------------------
(* Creating and formatting LUNs, and their descriptors.                    *)

\* A new descriptor changes nothing else.
LEMMA DscUpdateSound ==
    ASSUME NEW s, Sound(s), NEW l \in LUN, NEW d \in Nat \cup {Absent, Empty}, NEW b \in BOOLEAN
    PROVE  SoundOutcome(s, Ret([s EXCEPT !.dsc[l] = d], b))
<1> DEFINE t == [s EXCEPT !.dsc[l] = d]
<1>1. s \in FsState /\ t \in FsState
  BY Updates DEF Sound
<1>2. t.dat = s.dat /\ SameFile(s, t) /\ t.mounted = s.mounted /\ t.started = s.started
  BY <1>1 DEF FsState, SameFile
<1>3. Sound(t) /\ Keeps(s, t)
  BY <1>1, <1>2, SameRest
<1> HIDE DEF t
<1>4. QED
  BY <1>2, <1>3 DEF SoundOutcome, Ret, t

\* An image of any length leaves the rest as it was.
LEMMA DatUpdateSound ==
    ASSUME NEW s, Sound(s), NEW l \in LUN, NEW n \in Nat, NEW t, t = [s EXCEPT !.dat[l] = n]
    PROVE  /\ Sound(t) /\ SameFile(s, t) /\ t.mounted = s.mounted /\ t.started = s.started
           /\ \A k \in LUN \ {l} : t.dat[k] = s.dat[k]
           /\ t.dat[l] = n
<1>1. s \in FsState
  BY DEF Sound
<1>2. t \in FsState
  BY <1>1, Updates
<1>3. /\ SameFile(s, t) /\ t.mounted = s.mounted /\ t.started = s.started
      /\ \A k \in LUN \ {l} : t.dat[k] = s.dat[k]
      /\ t.dat[l] = n
  BY <1>1 DEF FsState, SameFile
<1>4. QED
  BY <1>2, <1>3 DEF Sound

LEMMA KeepsGrown ==
    ASSUME NEW s, Sound(s), NEW l \in LUN, NEW n \in Nat, NEW t,
           s.dat[l] = Absent \/ n >= s.dat[l],
           \A k \in LUN \ {l} : t.dat[k] = s.dat[k], t.dat[l] = n
    PROVE  Keeps(s, t)
<1>1. \A k \in LUN : s.dat[k] \in Nat \cup {Absent}
  BY Fields DEF Sound
<1>2. QED
  BY <1>1, FsAssumption DEF Keeps

LEMMA CreateLunImageSound ==
    ASSUME NEW s, Sound(s), NEW l \in LUN, NEW o \in CreateLunImage(s, l)
    PROVE  SoundOutcome(s, o)
<1> DEFINE t == [s EXCEPT !.dat[l] = 0]
<1>1. \/ \E b \in BOOLEAN : o = Ret(s, b)
      \/ s.dat[l] = Absent /\ o = Ret(t, TRUE)
  BY DEF CreateLunImage, OnFault, OnFull
<1>2. CASE s.dat[l] = Absent /\ o = Ret(t, TRUE)
  <2>1. Sound(t) /\ SameFile(s, t) /\ t.dat[l] = 0 /\ \A k \in LUN \ {l} : t.dat[k] = s.dat[k]
    BY DatUpdateSound
  <2> HIDE DEF t
  <2>2. Keeps(s, t)
    BY <1>2, <2>1, KeepsGrown
  <2>3. QED
    BY <1>2, <2>1, <2>2 DEF SoundOutcome, Ret
<1> HIDE DEF t
<1>3. QED
  BY <1>1, <1>2, Unchanged

LEMMA CreateLunDescriptorSound ==
    ASSUME NEW s, Sound(s), NEW l \in LUN, NEW o \in CreateLunDescriptor(s, l)
    PROVE  SoundOutcome(s, o)
<1>1. \/ \E b \in BOOLEAN : o = Ret(s, b)
      \/ o = Ret([s EXCEPT !.dsc[l] = Empty], TRUE)
  BY DEF CreateLunDescriptor, OnFault, OnFull
<1>2. SoundOutcome(s, Ret([s EXCEPT !.dsc[l] = Empty], TRUE))
  BY DscUpdateSound
<1>3. QED
  BY <1>1, <1>2, Unchanged

LEMMA WriteLunDescriptorSound ==
    ASSUME NEW s, Sound(s), NEW l \in LUN, NEW g \in Track, NEW o \in WriteLunDescriptor(s, l, g)
    PROVE  SoundOutcome(s, o)
<1>1. \/ \E b \in BOOLEAN : o = Ret(s, b)
      \/ o = Ret([s EXCEPT !.dsc[l] = g], TRUE)
  BY DEF WriteLunDescriptor, OnFault, OnFull
<1>2. g \in Nat
  BY Constants DEF Track
<1>3. SoundOutcome(s, Ret([s EXCEPT !.dsc[l] = g], TRUE))
  BY <1>2, DscUpdateSound
<1>4. QED
  BY <1>1, <1>3, Unchanged

LEMMA GeometryReadType ==
    ASSUME NEW s, NEW l \in LUN, NEW g \in GeometryRead(s, l) PROVE g \in Nat
BY Constants DEF GeometryRead, Track

LEMMA ReadLunDescriptorType ==
    ASSUME NEW s, NEW l \in LUN, NEW d \in ReadLunDescriptor(s, l)
    PROVE  d.ok \in BOOLEAN /\ d.geometry \in Nat
<1>1. \/ \E g \in GeometryRead(s, l) : d = [ok |-> TRUE, geometry |-> g]
      \/ \E g \in Track : d = [ok |-> FALSE, geometry |-> g]
  BY DEF ReadLunDescriptor
<1>2. ASSUME NEW g \in GeometryRead(s, l), d = [ok |-> TRUE, geometry |-> g]
      PROVE  d.ok \in BOOLEAN /\ d.geometry \in Nat
  BY <1>2, GeometryReadType
<1>3. ASSUME NEW g \in Track, d = [ok |-> FALSE, geometry |-> g]
      PROVE  d.ok \in BOOLEAN /\ d.geometry \in Nat
  BY <1>3, Constants DEF Track
<1>4. QED
  BY <1>1, <1>2, <1>3

LEMMA FormatLunOutcomes ==
    ASSUME NEW s, NEW l \in LUN, NEW o \in FormatLun(s, l)
    PROVE  \/ o = Ret(s, FALSE)
           \/ \E b \in BOOLEAN : o = Ret([s EXCEPT !.dat[l] = 0], b)
           \/ \E g \in GeometryRead(s, l) : o = Ret([s EXCEPT !.dat[l] = g * SectorsPerTrack], TRUE)
<1>1. \/ o = Ret(s, FALSE) \/ o = Ret([s EXCEPT !.dat[l] = 0], FALSE)
      \/ \E g \in GeometryRead(s, l) : o \in Expanded(s, l, g)
  BY DEF FormatLun, OnFault, OnFull
<1>2. ASSUME NEW g, o \in Expanded(s, l, g)
      PROVE  \/ \E b \in BOOLEAN : o = Ret([s EXCEPT !.dat[l] = 0], b)
             \/ o = Ret([s EXCEPT !.dat[l] = g * SectorsPerTrack], TRUE)
  BY <1>2 DEF Expanded, OnFault
<1>3. QED
  BY <1>1, <1>2

\* Formatting changes the length of the image of its LUN only.
LEMMA FormatLunSound ==
    ASSUME NEW s, Sound(s), NEW l \in LUN, NEW o \in FormatLun(s, l)
    PROVE  /\ o.ok \in BOOLEAN /\ Sound(o.fs) /\ SameFile(s, o.fs)
           /\ \A k \in LUN \ {l} : o.fs.dat[k] = s.dat[k]
<1>1. \/ o = Ret(s, FALSE)
      \/ \E n \in Nat, b \in BOOLEAN : o = Ret([s EXCEPT !.dat[l] = n], b)
  <2>1. CASE \E b \in BOOLEAN : o = Ret([s EXCEPT !.dat[l] = 0], b)
    BY <2>1
  <2>2. ASSUME NEW g \in GeometryRead(s, l), o = Ret([s EXCEPT !.dat[l] = g * SectorsPerTrack], TRUE)
        PROVE  \E n \in Nat, b \in BOOLEAN : o = Ret([s EXCEPT !.dat[l] = n], b)
    <3>1. g * SectorsPerTrack \in Nat
      BY GeometryReadType, SectorsOfTracks
    <3>2. QED
      BY <2>2, <3>1
  <2>3. QED
    BY <2>1, <2>2, FormatLunOutcomes
<1>2. CASE o = Ret(s, FALSE)
  BY <1>2, Unchanged DEF SoundOutcome
<1>3. ASSUME NEW n \in Nat, NEW b \in BOOLEAN, o = Ret([s EXCEPT !.dat[l] = n], b)
      PROVE  /\ o.ok \in BOOLEAN /\ Sound(o.fs) /\ SameFile(s, o.fs)
             /\ \A k \in LUN \ {l} : o.fs.dat[k] = s.dat[k]
  <2>1. PICK t : t = [s EXCEPT !.dat[l] = n] /\ o = Ret(t, b)
    BY <1>3
  <2>2. Sound(t) /\ SameFile(s, t) /\ \A k \in LUN \ {l} : t.dat[k] = s.dat[k]
    BY <2>1, DatUpdateSound
  <2>3. QED
    BY <2>1, <2>2 DEF Ret
<1>4. QED
  BY <1>1, <1>2, <1>3
-----------------------------------------------------------------------------
(* Reading, writing and closing an image.                                  *)

\* Opening, moving or losing the transfer file is all that has happened.
LEMMA FileUpdateSound ==
    ASSUME NEW s, Sound(s), NEW t \in FsState, t.dat = s.dat,
           t.mounted = s.mounted, t.started = s.started
    PROVE  Sound(t) /\ Keeps(s, t)
BY KeepsSame DEF Sound

\* f_close enters the length the image has, or leaves the one it had.
LEMMA ClosedSound ==
    ASSUME NEW s, Sound(s), NEW l \in LUN, FileOf(s, l), NEW t \in Closed(s, l)
    PROVE  /\ Sound(t) /\ Keeps(s, t)
           /\ t.open = s.open /\ t.file = Absent /\ t.size = Absent
           /\ t.dsc = s.dsc /\ t.started = s.started
<1>1. s \in FsState /\ s.dat[l] \in Nat \cup {Absent} /\ s.size \in Nat \cup {Absent}
  BY Fields DEF Sound
<1>2. PICK n : /\ t = [s EXCEPT !.file = Absent, !.size = Absent, !.dat[l] = n]
               /\ n = s.dat[l] \/ (s.size # Absent /\ n = s.size)
  BY DEF Closed, OnFault
<1>3. n \in Nat \cup {Absent}
  BY <1>1, <1>2
<1>4. t \in FsState
  BY <1>1, <1>2, <1>3 DEF FsState
<1>5. /\ t.open = s.open /\ t.file = Absent /\ t.size = Absent
      /\ t.dsc = s.dsc /\ t.started = s.started /\ t.mounted = s.mounted
      /\ t.dat[l] = n /\ \A k \in LUN \ {l} : t.dat[k] = s.dat[k]
  BY <1>1, <1>2 DEF FsState
<1>6. Sound(t)
  BY <1>4, <1>5 DEF Sound
<1>7. Keeps(s, t)
  <2> SUFFICES ASSUME NEW k \in LUN, s.dat[k] # Absent
               PROVE  t.dat[k] # Absent /\ t.dat[k] >= s.dat[k]
    BY DEF Keeps
  <2>1. s.dat[k] \in Nat
    BY <1>1, Fields
  <2>2. CASE k # l
    BY <1>5, <2>1, <2>2
  <2>3. CASE k = l /\ n = s.dat[l]
    BY <1>5, <2>1, <2>3
  <2>4. CASE k = l /\ s.size # Absent /\ n = s.size
    BY <1>1, <1>5, <2>1, <2>4 DEF FileOf
  <2>5. QED
    BY <1>2, <2>2, <2>3, <2>4
<1>8. QED
  BY <1>5, <1>6, <1>7

\* Opening fails without opening anything.
OpenOutcome(s, o) ==
    /\ o.ok \in BOOLEAN /\ Sound(o.fs) /\ Keeps(s, o.fs)
    /\ o.fs.open = (s.open \/ o.ok)

LEMMA OpenLunForReadSound ==
    ASSUME NEW s, Sound(s), NEW l \in LUN, NEW o \in OpenLunForRead(s, l)
    PROVE  OpenOutcome(s, o) /\ (o.ok => FileOf(o.fs, l))
<1> DEFINE t == [s EXCEPT !.open = TRUE, !.file = 0, !.size = s.dat[l]]
<1>1. o = Ret(s, FALSE) \/ (~s.open /\ s.dat[l] # Absent /\ o = Ret(t, TRUE))
  BY DEF OpenLunForRead, OnFault
<1>2. s.open \in BOOLEAN /\ s.dat[l] \in Nat \cup {Absent}
  BY Fields DEF Sound
<1>3. /\ Sound(t) /\ Keeps(s, t) /\ t.open = TRUE
      /\ t.file = 0 /\ t.size = s.dat[l] /\ t.dat = s.dat
  <2>1. s \in FsState /\ t \in FsState
    BY <1>2 DEF Sound, FsState
  <2>2. /\ t.open = TRUE /\ t.file = 0 /\ t.size = s.dat[l] /\ t.dat = s.dat
        /\ t.mounted = s.mounted /\ t.started = s.started
    BY <2>1 DEF FsState
  <2> HIDE DEF t
  <2>3. QED
    BY <2>1, <2>2, FileUpdateSound
<1> HIDE DEF t
<1>4. CASE o = Ret(s, FALSE)
  BY <1>2, <1>4, Unchanged DEF SoundOutcome, OpenOutcome
<1>5. CASE s.dat[l] # Absent /\ o = Ret(t, TRUE)
  <2>1. FileOf(t, l)
    BY <1>2, <1>3, <1>5 DEF FileOf
  <2>2. QED
    BY <1>2, <1>3, <1>5, <2>1 DEF Ret, OpenOutcome
<1>6. QED
  BY <1>1, <1>4, <1>5

LEMMA ReadNextSectorSound ==
    ASSUME NEW s, Sound(s), NEW l \in LUN, FileOf(s, l), NEW left, NEW o \in ReadNextSector(s, left)
    PROVE  /\ o.ok \in BOOLEAN /\ Sound(o.fs) /\ Keeps(s, o.fs) /\ o.fs.open = s.open
           /\ FileOf(o.fs, l)
<1> DEFINE P(u) == Sound(u) /\ Keeps(s, u) /\ u.open = s.open /\ FileOf(u, l)
           t == [s EXCEPT !.open = s.open, !.file = Absent, !.size = Absent]
<1>1. s \in FsState /\ s.open \in BOOLEAN
  BY DEF Sound, FsState
<1>2. t = [s EXCEPT !.file = Absent, !.size = Absent]
  BY <1>1 DEF FsState
<1>3. (\E b \in BOOLEAN : o = Ret(s, b)) \/ o = Ret(t, FALSE)
  BY <1>2 DEF ReadNextSector, OnFault
<1>4. P(s)
  BY <1>1, KeepsSame
<1>5. P(t)
  <2>1. Sound(t) /\ Keeps(s, t) /\ t.open = s.open /\ t.file = Absent /\ t.size = Absent
    <3>1. t \in FsState
      BY <1>1 DEF FsState
    <3>2. /\ t.open = s.open /\ t.file = Absent /\ t.size = Absent /\ t.dat = s.dat
          /\ t.mounted = s.mounted /\ t.started = s.started
      BY <1>1 DEF FsState
    <3> HIDE DEF t
    <3>3. QED
      BY <3>1, <3>2, FileUpdateSound
  <2> HIDE DEF t
  <2>2. QED
    BY <2>1 DEF FileOf
<1> HIDE DEF t, P
<1>6. o.ok \in BOOLEAN /\ (o.fs = s \/ o.fs = t)
  <2>1. CASE \E b \in BOOLEAN : o = Ret(s, b)
    BY <2>1, RetFields
  <2>2. CASE o = Ret(t, FALSE)
    BY <2>2, RetFields
  <2>3. QED
    BY <1>3, <2>1, <2>2
<1>7. P(o.fs)
  BY <1>4, <1>5, <1>6
<1>8. QED
  BY <1>6, <1>7 DEF P

LEMMA AtLeastFacts ==
    ASSUME NEW m \in Nat, NEW n \in Nat
    PROVE  AtLeast(m, n) \in Nat /\ AtLeast(m, n) >= m /\ AtLeast(m, n) >= n
BY DEF AtLeast

LEMMA OpenLunForWriteSound ==
    ASSUME NEW s, Sound(s), NEW l \in LUN, NEW start \in Nat, NEW o \in OpenLunForWrite(s, l, start)
    PROVE  OpenOutcome(s, o) /\ (o.ok => FileOf(o.fs, l))
<1>1. s.dat[l] \in Nat \cup {Absent} /\ s.open \in BOOLEAN
  BY Fields DEF Sound
<1>2. \A p \in s.dat[l] .. start - 1 : s.dat[l] # Absent => p \in Nat
  BY <1>1
<1>3. \/ o = Ret(s, FALSE)
      \/ ~s.open /\ \E t : /\ t = [s EXCEPT !.open = TRUE, !.file = Absent, !.size = Absent]
                           /\ o = Ret(t, TRUE)
      \/ ~s.open /\ s.dat[l] # Absent /\ \E p \in Nat : \E t :
            /\ t = [s EXCEPT !.open = TRUE, !.file = p, !.size = AtLeast(s.dat[l], p)]
            /\ o = Ret(t, TRUE)
  BY <1>2 DEF OpenLunForWrite, OnFault, OnFull
<1>4. CASE o = Ret(s, FALSE)
  <2>1. OpenOutcome(s, o) /\ ~o.ok
    BY <1>1, <1>4, Unchanged DEF SoundOutcome, OpenOutcome
  <2>2. QED
    BY <2>1
<1>5. ASSUME NEW t, t = [s EXCEPT !.open = TRUE, !.file = Absent, !.size = Absent],
             o = Ret(t, TRUE)
      PROVE  OpenOutcome(s, o) /\ FileOf(o.fs, l)
  <2>1. Sound(t) /\ Keeps(s, t) /\ t.open = TRUE /\ t.file = Absent /\ t.size = Absent
    <3>1. s \in FsState /\ t \in FsState
      BY <1>5 DEF Sound, FsState
    <3>2. /\ t.open = TRUE /\ t.file = Absent /\ t.size = Absent /\ t.dat = s.dat
          /\ t.mounted = s.mounted /\ t.started = s.started
      BY <1>5, <3>1 DEF FsState
    <3>3. QED
      BY <3>1, <3>2, FileUpdateSound
  <2>2. QED
    BY <1>1, <1>5, <2>1 DEF Ret, OpenOutcome, FileOf
<1>6. ASSUME s.dat[l] # Absent, NEW p \in Nat, NEW t, o = Ret(t, TRUE),
             t = [s EXCEPT !.open = TRUE, !.file = p, !.size = AtLeast(s.dat[l], p)]
      PROVE  OpenOutcome(s, o) /\ FileOf(o.fs, l)
  <2>1. PICK n \in Nat : n = AtLeast(s.dat[l], p) /\ n >= s.dat[l]
    BY <1>1, <1>6, AtLeastFacts
  <2>2. t = [s EXCEPT !.open = TRUE, !.file = p, !.size = n]
    BY <1>6, <2>1
  <2>3. Sound(t) /\ Keeps(s, t) /\ t.open = TRUE /\ t.size = n /\ t.dat = s.dat
    <3>1. s \in FsState /\ t \in FsState
      BY <2>2 DEF Sound, FsState
    <3>2. /\ t.open = TRUE /\ t.size = n /\ t.dat = s.dat
          /\ t.mounted = s.mounted /\ t.started = s.started
      BY <2>2, <3>1 DEF FsState
    <3>3. QED
      BY <3>1, <3>2, FileUpdateSound
  <2>4. FileOf(t, l)
    BY <1>6, <2>1, <2>3, FsAssumption DEF FileOf
  <2>5. QED
    BY <1>1, <1>6, <2>3, <2>4 DEF Ret, OpenOutcome
<1>7. QED
  BY <1>3, <1>4, <1>5, <1>6

LEMMA WriteNextSectorSound ==
    ASSUME NEW s, Sound(s), NEW l \in LUN, FileOf(s, l), NEW o \in WriteNextSector(s, l)
    PROVE  /\ o.ok \in BOOLEAN /\ Sound(o.fs) /\ Keeps(s, o.fs) /\ o.fs.open = s.open
           /\ FileOf(o.fs, l)
           /\ o.fs.dsc = s.dsc /\ o.fs.started = s.started
<1> DEFINE P(t) == /\ Sound(t) /\ Keeps(s, t) /\ t.open = s.open /\ FileOf(t, l)
                   /\ t.dsc = s.dsc /\ t.started = s.started
           Moved(t) == t = [s EXCEPT !.file = s.file + 1, !.size = AtLeast(s.size, s.file + 1)]
<1>1. /\ s \in FsState /\ s.open \in BOOLEAN
      /\ s.file \in Nat \cup {Absent} /\ s.size \in Nat \cup {Absent}
      /\ s.dat[l] \in Nat \cup {Absent}
  BY Fields DEF Sound
<1>2. \/ \E b \in BOOLEAN : o = Ret(s, b)
      \/ \E t \in Closed(s, l) : o = Ret(t, FALSE)
      \/ s.open /\ s.file # Absent /\ \E t : Moved(t) /\ o = Ret(t, TRUE)
  BY DEF WriteNextSector, OnFault, OnFull
<1>3. P(s)
  BY <1>1, KeepsSame
<1>4. ASSUME NEW t \in Closed(s, l) PROVE P(t)
  BY ClosedSound DEF FileOf
<1>5. ASSUME s.open, s.file # Absent, NEW t, Moved(t)
      PROVE  P(t)
  <2>1. s.size # Absent /\ s.dat[l] # Absent /\ s.size >= s.dat[l]
    BY <1>5 DEF FileOf
  <2>2. PICK p \in Nat : p = s.file + 1
    BY <1>1, <1>5
  <2>3. PICK n \in Nat : n = AtLeast(s.size, p) /\ n >= s.size
    BY <1>1, <2>1, AtLeastFacts
  <2>4. t = [s EXCEPT !.open = s.open, !.file = p, !.size = n]
    BY <1>1, <1>5, <2>2, <2>3 DEF FsState
  <2>5. /\ Sound(t) /\ Keeps(s, t) /\ t.open = s.open /\ t.size = n /\ t.dat = s.dat
        /\ t.dsc = s.dsc /\ t.started = s.started
    <3>1. t \in FsState
      BY <1>1, <2>4 DEF FsState
    <3>2. /\ t.open = s.open /\ t.size = n /\ t.dat = s.dat /\ t.dsc = s.dsc
          /\ t.mounted = s.mounted /\ t.started = s.started
      BY <1>1, <2>4 DEF FsState
    <3>3. QED
      BY <3>1, <3>2, FileUpdateSound
  <2>6. n >= s.dat[l]
    BY <1>1, <2>1, <2>3
  <2>7. FileOf(t, l)
    BY <2>1, <2>5, <2>6, FsAssumption DEF FileOf
  <2>8. QED
    BY <2>5, <2>7
<1> HIDE DEF P, Moved
<1>6. o.ok \in BOOLEAN
  BY <1>2, RetFields
<1>7. P(o.fs)
  <2>1. CASE \E b \in BOOLEAN : o = Ret(s, b)
    <3>1. o.fs = s
      BY <2>1 DEF Ret
    <3>2. QED
      BY <1>3, <3>1
  <2>2. ASSUME NEW t, P(t), \E b \in BOOLEAN : o = Ret(t, b) PROVE P(o.fs)
    <3>1. o.fs = t
      BY <2>2 DEF Ret
    <3>2. QED
      BY <2>2, <3>1
  <2>3. QED
    BY <1>2, <1>4, <1>5, <2>1, <2>2
<1>8. QED
  BY <1>6, <1>7 DEF P

LEMMA CloseLunSound ==
    ASSUME NEW s, Sound(s), NEW l \in LUN, s.open => FileOf(s, l), NEW t \in CloseLun(s, l)
    PROVE  /\ Sound(t) /\ Keeps(s, t) /\ ~t.open
           /\ t.dsc = s.dsc /\ t.started = s.started
<1>1. CASE ~s.open
  BY <1>1, KeepsSame DEF CloseLun, Sound
<1>2. CASE s.open
  <2>1. PICK u \in Closed(s, l) : t = [u EXCEPT !.open = FALSE]
    BY <1>2 DEF CloseLun
  <2>2. Sound(u) /\ Keeps(s, u) /\ u.dsc = s.dsc /\ u.started = s.started
    BY <1>2, ClosedSound
  <2>3. u \in FsState /\ t \in FsState
    BY <2>1, <2>2 DEF Sound, FsState
  <2>4. /\ ~t.open /\ t.dat = u.dat /\ t.dsc = u.dsc
        /\ t.started = u.started /\ t.mounted = u.mounted
    BY <2>1, <2>3 DEF FsState
  <2>5. QED
    BY <2>2, <2>3, <2>4 DEF Sound, Keeps
<1>3. QED
  BY <1>1, <1>2

-----------------------------------------------------------------------------
(* What the calls do to the status of the LUNs, and on what grounds.       *)

LEMMA CreateDscStatus ==
    ASSUME NEW s, Sound(s), NEW l \in LUN, NEW t \in CreateDscFromLunImage(s, l)
    PROVE  t.dat = s.dat /\ t.started = s.started
<1>1. s \in FsState
  BY DEF Sound
<1>2. t = s \/ \E d : t = [s EXCEPT !.dsc[l] = d]
  BY DEF CreateDscFromLunImage, OnFault, OnFull
<1>3. QED
  BY <1>1, <1>2 DEF FsState

\* An image that is not there is never found.
LEMMA CheckLunImageStatus ==
    ASSUME NEW s, Sound(s), NEW l \in LUN, NEW o \in CheckLunImage(s, l)
    PROVE  /\ o.fs.dat = s.dat /\ o.fs.started = s.started
           /\ o.ok => s.dat[l] # Absent
<1>1. \/ o = Ret(s, FALSE)
      \/ s.dat[l] # Absent /\ o = Ret(s, TRUE)
      \/ s.dat[l] # Absent /\ \E t \in CreateDscFromLunImage(s, l) : o = Ret(t, TRUE)
  BY DEF CheckLunImage, OnFault
<1>2. QED
  BY <1>1, CreateDscStatus DEF Ret

LEMMA CheckLunDirectoryStatus ==
    ASSUME NEW s, Sound(s), NEW o \in CheckLunDirectory(s)
    PROVE  o.fs.dat = s.dat /\ o.fs.started = s.started
<1>1. s \in FsState
  BY DEF Sound
<1>2. \/ o = Ret(s, FALSE)
      \/ s.mounted /\ \E b \in BOOLEAN : o = Ret([s EXCEPT !.dir = TRUE], b)
  BY DEF CheckLunDirectory, OnFault, OnFull
<1>3. QED
  BY <1>1, <1>2 DEF FsState, Ret

\* u is s but for the status of l, which is on only if the image is there.
StartedFor(s, l, u, ok) ==
    /\ u.dat = s.dat
    /\ \A k \in LUN \ {l} : u.started[k] = s.started[k]
    /\ u.started[l] => s.started[l] \/ (ok /\ s.dat[l] # Absent)

LEMMA StartLunStatus ==
    ASSUME NEW s, Sound(s), NEW l \in LUN, NEW o \in StartLun(s, l)
    PROVE  StartedFor(s, l, o.fs, o.ok)
<1>1. CASE o \in CheckLunDirectory(s)
  BY <1>1, CheckLunDirectoryStatus DEF StartedFor
<1>2. ASSUME NEW d \in CheckLunDirectory(s), d.ok, NEW c \in CheckLunImage(d.fs, l),
             o = Ret([c.fs EXCEPT !.started[l] = c.ok], c.ok)
      PROVE  StartedFor(s, l, o.fs, o.ok)
  <2>1. Sound(d.fs) /\ d.fs.dat = s.dat /\ d.fs.started = s.started
    BY CheckLunDirectorySound, CheckLunDirectoryStatus DEF SoundOutcome
  <2>2. c.fs \in FsState
    BY <2>1, CheckLunImageSound DEF SoundOutcome, Sound
  <2>3. c.fs.dat = s.dat /\ c.fs.started = s.started /\ (c.ok => s.dat[l] # Absent)
    BY <2>1, CheckLunImageStatus
  <2>4. PICK u : u = [c.fs EXCEPT !.started[l] = c.ok]
    OBVIOUS
  <2>5. /\ u.dat = c.fs.dat /\ u.started[l] = c.ok
        /\ \A k \in LUN \ {l} : u.started[k] = c.fs.started[k]
    BY <2>2, <2>4 DEF FsState
  <2>6. o.fs = u /\ o.ok = c.ok
    BY <1>2, <2>4 DEF Ret
  <2>7. QED
    BY <2>3, <2>5, <2>6 DEF StartedFor
<1>3. QED
  BY <1>1, <1>2 DEF StartLun

LEMMA SetLunStatusOn ==
    ASSUME NEW s, Sound(s), NEW l \in LUN, NEW o \in SetLunStatus(s, l, TRUE)
    PROVE  StartedFor(s, l, o.fs, o.ok) /\ (~o.ok => ~o.fs.started[l])
<1>1. s.started[l] \in BOOLEAN
  BY Fields DEF Sound
<1>2. CASE s.started[l]
  <2>1. o = Ret(s, TRUE)
    BY <1>1, <1>2 DEF SetLunStatus
  <2>2. QED
    BY <2>1 DEF Ret, StartedFor
<1>3. CASE ~s.started[l]
  <2>1. o \in StartLun(s, l)
    BY <1>1, <1>3 DEF SetLunStatus
  <2>2. StartedFor(s, l, o.fs, o.ok)
    BY <2>1, StartLunStatus
  <2>3. QED
    BY <1>3, <2>2 DEF StartedFor
<1>4. QED
  BY <1>2, <1>3

\* Mounting starts no LUN but 0, and that one only if its image is there.
LEMMA MountStatus ==
    ASSUME NEW s, Sound(s), ~s.mounted, NEW o \in Mount(s), NEW l \in LUN, o.fs.started[l]
    PROVE  s.dat[l] # Absent
<1> DEFINE stopped == [s EXCEPT !.started = AllStopped]
           mounted == [stopped EXCEPT !.mounted = TRUE]
<1>1. s \in FsState /\ stopped \in FsState
  BY Updates, Constants DEF Sound
<1>2. mounted \in FsState
  BY <1>1, Updates, Constants
<1>3. /\ stopped.started = AllStopped
      /\ mounted.started = AllStopped /\ mounted.dat = s.dat /\ mounted.mounted
  BY <1>1 DEF FsState
<1>4. \/ o = Ret(stopped, FALSE)
      \/ \E p \in SetLunStatus(mounted, 0, TRUE) : o = Ret(p.fs, TRUE)
  BY DEF Mount, OnFault
<1> HIDE DEF stopped, mounted
<1>5. ~AllStopped[l] /\ ~AllStopped[0]
  BY Constants DEF AllStopped
<1>6. PICK p \in SetLunStatus(mounted, 0, TRUE) : o = Ret(p.fs, TRUE)
  <2>1. o # Ret(stopped, FALSE)
    BY <1>3, <1>5 DEF Ret
  <2>2. QED
    BY <1>4, <2>1
<1>7. Sound(mounted)
  BY <1>2, <1>3 DEF Sound
<1>8. StartedFor(mounted, 0, p.fs, p.ok)
  BY <1>6, <1>7, Constants, SetLunStatusOn
<1>9. QED
  BY <1>3, <1>5, <1>6, <1>8 DEF StartedFor, Ret

\* After the reset of the store the image of every started LUN is there.
LEMMA FsResetStatus ==
    ASSUME NEW s, Sound(s), NEW t \in FsReset(s), NEW l \in LUN, t.started[l]
    PROVE  s.dat[l] # Absent
<1>1. CASE ~s.mounted
  BY <1>1, MountStatus DEF FsReset
<1>2. CASE s.mounted
  <2>1. PICK r \in TestResults(s) :
           \/ r.bad = {} /\ t = [s EXCEPT !.dsc = r.dsc]
           \/ \E o \in Mount(Dismount([s EXCEPT !.dsc = r.dsc])) : t = o.fs
    BY <1>2 DEF FsReset
  <2>2. PICK u : u = [s EXCEPT !.dsc = r.dsc]
    OBVIOUS
  <2>3. Sound(u)
    BY <2>2, TestedSound
  <2>4. u.dat = s.dat /\ u.started = s.started /\ u.mounted
    BY <1>2, <2>2 DEF Sound, FsState
  <2>5. CASE r.bad = {} /\ t = u
    <3>1. \E c \in CheckLunImage(s, l) : c.ok
      BY <2>4, <2>5 DEF TestResults
    <3>2. QED
      BY <3>1, CheckLunImageStatus
  <2>6. ASSUME NEW o \in Mount(Dismount(u)), t = o.fs PROVE s.dat[l] # Absent
    <3>1. PICK v : v = Dismount(u)
      OBVIOUS
    <3>2. Sound(v)
      BY <2>3, <3>1, DismountSound
    <3>3. v.dat = u.dat /\ ~v.mounted
      BY <2>3, <2>4, <3>1 DEF Dismount, Sound, FsState
    <3>4. QED
      BY <2>4, <2>6, <3>1, <3>2, <3>3, MountStatus
  <2>7. QED
    BY <2>1, <2>2, <2>5, <2>6
<1>3. QED
  BY <1>1, <1>2

LEMMA CreateLunImageStatus ==
    ASSUME NEW s, Sound(s), NEW l \in LUN, NEW o \in CreateLunImage(s, l)
    PROVE  o.fs.started = s.started
<1>1. s \in FsState
  BY DEF Sound
<1>2. o.fs = s \/ o.fs = [s EXCEPT !.dat[l] = 0]
  BY DEF CreateLunImage, OnFault, OnFull, Ret
<1>3. QED
  BY <1>1, <1>2 DEF FsState

-----------------------------------------------------------------------------
(* The files of started LUNs, while FatFs and the card do what they are    *)
(* asked.                                                                  *)

Untroubled == ~IoFaults /\ ~CardMayFill

HasFiles(s, l) == s.dat[l] # Absent /\ s.dsc[l] # Absent

\* t has every file s has, and every LUN that was started since has both.
Advances(s, t) ==
    \A l \in LUN : /\ s.dat[l] # Absent => t.dat[l] # Absent
                   /\ s.dsc[l] # Absent => t.dsc[l] # Absent
                   /\ t.started[l] => s.started[l] \/ HasFiles(t, l)

LEMMA AdvancesTransitive ==
    ASSUME NEW s, NEW t, NEW u, Advances(s, t), Advances(t, u) PROVE Advances(s, u)
BY DEF Advances, HasFiles

LEMMA AdvancesSame ==
    ASSUME NEW s, NEW t, t.dat = s.dat, t.dsc = s.dsc,
           \A l \in LUN : t.started[l] => s.started[l] \/ HasFiles(s, l)
    PROVE  Advances(s, t)
BY DEF Advances, HasFiles

\* A function that makes or rewrites a descriptor or an image.
LEMMA AdvancesFile ==
    ASSUME NEW s, NEW l \in LUN, NEW t, t.started = s.started,
           \A k \in LUN \ {l} : t.dat[k] = s.dat[k] /\ t.dsc[k] = s.dsc[k],
           t.dat[l] = s.dat[l] \/ t.dat[l] # Absent,
           t.dsc[l] = s.dsc[l] \/ t.dsc[l] # Absent
    PROVE  Advances(s, t)
BY DEF Advances, HasFiles

LEMMA CheckLunImageAdvances ==
    ASSUME Untroubled, NEW s, Sound(s), NEW l \in LUN, NEW o \in CheckLunImage(s, l)
    PROVE  /\ Advances(s, o.fs) /\ o.fs.started = s.started
           /\ HasFiles(s, l) => o.ok
           /\ o.ok => HasFiles(o.fs, l)
<1>1. s \in FsState /\ s.dat[l] \in Nat \cup {Absent}
  BY Fields DEF Sound
<1>2. CASE s.dat[l] = Absent \/ s.dsc[l] # Absent
  <2>1. o.fs = s /\ (HasFiles(s, l) <=> o.ok)
    BY <1>2, FsAssumption DEF CheckLunImage, OnFault, Ret, Untroubled, HasFiles
  <2>2. QED
    BY <2>1, AdvancesSame
<1>3. CASE s.dat[l] # Absent /\ s.dsc[l] = Absent
  <2> DEFINE n == s.dat[l] \div SectorsPerTrack
             t == [s EXCEPT !.dsc[l] = n]
  <2>1. n \in Nat /\ n # Absent
    BY <1>1, <1>3, TracksOfImage, FsAssumption
  <2>2. CreateDscFromLunImage(s, l) = {t}
    BY DEF CreateDscFromLunImage, OnFault, OnFull, Untroubled
  <2>3. o = Ret(t, TRUE)
    BY <1>3, <2>2 DEF CheckLunImage, OnFault, Untroubled
  <2>4. /\ t.dat = s.dat /\ t.started = s.started /\ t.dsc[l] = n
        /\ \A k \in LUN \ {l} : t.dsc[k] = s.dsc[k]
    BY <1>1 DEF FsState
  <2> HIDE DEF t, n
  <2>5. Advances(s, t)
    BY <2>1, <2>4, AdvancesFile
  <2>6. QED
    BY <1>3, <2>1, <2>3, <2>4, <2>5 DEF Ret, HasFiles
<1>4. QED
  BY <1>2, <1>3

LEMMA CheckLunDirectoryAdvances ==
    ASSUME NEW s, Sound(s), NEW o \in CheckLunDirectory(s)
    PROVE  o.fs.dat = s.dat /\ o.fs.dsc = s.dsc /\ o.fs.started = s.started
<1>1. s \in FsState
  BY DEF Sound
<1>2. o = Ret(s, FALSE) \/ \E b \in BOOLEAN : o = Ret([s EXCEPT !.dir = TRUE], b)
  BY DEF CheckLunDirectory, OnFault, OnFull
<1>3. QED
  BY <1>1, <1>2 DEF FsState, Ret

LEMMA StartLunAdvances ==
    ASSUME Untroubled, NEW s, Sound(s), NEW l \in LUN, NEW o \in StartLun(s, l)
    PROVE  Advances(s, o.fs)
<1>1. CASE o \in CheckLunDirectory(s)
  BY <1>1, CheckLunDirectoryAdvances, AdvancesSame
<1>2. ASSUME NEW d \in CheckLunDirectory(s), NEW c \in CheckLunImage(d.fs, l),
             o = Ret([c.fs EXCEPT !.started[l] = c.ok], c.ok)
      PROVE  Advances(s, o.fs)
  <2>1. Sound(d.fs)
    BY CheckLunDirectorySound DEF SoundOutcome
  <2>2. c.fs \in FsState
    BY <2>1, CheckLunImageSound DEF SoundOutcome, Sound
  <2>3. Advances(s, d.fs)
    BY CheckLunDirectoryAdvances, AdvancesSame
  <2>4. Advances(d.fs, c.fs) /\ (c.ok => HasFiles(c.fs, l))
    BY <2>1, CheckLunImageAdvances
  <2>5. PICK u : u = [c.fs EXCEPT !.started[l] = c.ok]
    OBVIOUS
  <2>6. /\ u.dat = c.fs.dat /\ u.dsc = c.fs.dsc /\ u.started[l] = c.ok
        /\ \A k \in LUN \ {l} : u.started[k] = c.fs.started[k]
    BY <2>2, <2>5 DEF FsState
  <2>7. Advances(c.fs, u)
    BY <2>4, <2>6, AdvancesSame
  <2>8. Advances(s, u)
    BY <2>3, <2>4, <2>7, AdvancesTransitive
  <2>9. QED
    BY <1>2, <2>5, <2>8 DEF Ret
<1>3. QED
  BY <1>1, <1>2 DEF StartLun

LEMMA SetLunStatusAdvances ==
    ASSUME Untroubled, NEW s, Sound(s), NEW l \in LUN, NEW on \in BOOLEAN,
           NEW o \in SetLunStatus(s, l, on)
    PROVE  Advances(s, o.fs)
<1>1. s \in FsState
  BY DEF Sound
<1>2. PICK t : t = [s EXCEPT !.started[l] = FALSE]
  OBVIOUS
<1>3. t.dat = s.dat /\ t.dsc = s.dsc /\ \A k \in LUN : t.started[k] => s.started[k]
  BY <1>1, <1>2 DEF FsState
<1>4. o = Ret(s, TRUE) \/ o = Ret(t, TRUE) \/ o \in StartLun(s, l)
  BY <1>2 DEF SetLunStatus
<1>5. Ret(s, TRUE).fs = s /\ Ret(t, TRUE).fs = t
  BY DEF Ret
<1>6. QED
  BY <1>3, <1>4, <1>5, AdvancesSame, StartLunAdvances

LEMMA MountAdvances ==
    ASSUME Untroubled, NEW s, Sound(s), NEW o \in Mount(s) PROVE Advances(s, o.fs)
<1> DEFINE mounted == [[s EXCEPT !.started = AllStopped] EXCEPT !.mounted = TRUE]
<1>1. s \in FsState
  BY DEF Sound
<1>2. mounted \in FsState
  BY <1>1, Updates, Constants
<1>3. /\ mounted.started = AllStopped /\ mounted.dat = s.dat /\ mounted.dsc = s.dsc
      /\ mounted.mounted
  BY <1>1 DEF FsState
<1>4. o = Ret(s, FALSE) \/ \E p \in SetLunStatus(mounted, 0, TRUE) : o = Ret(p.fs, TRUE)
  BY DEF Mount, OnFault, Untroubled
<1> HIDE DEF mounted
<1>5. CASE o = Ret(s, FALSE)
  BY <1>5, AdvancesSame DEF Ret
<1>6. ASSUME NEW p \in SetLunStatus(mounted, 0, TRUE), o = Ret(p.fs, TRUE) PROVE Advances(s, o.fs)
  <2>1. Sound(mounted)
    BY <1>2, <1>3 DEF Sound
  <2>2. Advances(s, mounted)
    BY <1>3, AdvancesSame DEF AllStopped
  <2>3. Advances(mounted, p.fs)
    BY <2>1, Constants, SetLunStatusAdvances
  <2>4. QED
    BY <1>6, <2>2, <2>3, AdvancesTransitive DEF Ret
<1>7. QED
  BY <1>4, <1>5, <1>6

LEMMA FsResetAdvances ==
    ASSUME Untroubled, NEW s, Sound(s), NEW t \in FsReset(s) PROVE Advances(s, t)
<1>1. CASE ~s.mounted
  BY <1>1, MountAdvances DEF FsReset
<1>2. CASE s.mounted
  <2>1. PICK r \in TestResults(s) :
           \/ t = [s EXCEPT !.dsc = r.dsc]
           \/ \E o \in Mount(Dismount([s EXCEPT !.dsc = r.dsc])) : t = o.fs
    BY <1>2 DEF FsReset
  <2>2. PICK u : u = [s EXCEPT !.dsc = r.dsc]
    OBVIOUS
  <2>3. Sound(u)
    BY <2>2, TestedSound
  <2>4. u.dat = s.dat /\ u.started = s.started /\ u.dsc = r.dsc
    BY <2>2 DEF Sound, FsState
  <2>5. Advances(s, u)
    <3> SUFFICES ASSUME NEW l \in LUN, s.dsc[l] # Absent PROVE r.dsc[l] # Absent
      BY <2>4 DEF Advances
    <3>1. r.dsc[l] = s.dsc[l] \/ \E c \in CheckLunImage(s, l) : c.fs.dsc[l] = r.dsc[l]
      BY DEF TestResults
    <3>2. QED
      BY <3>1, CheckLunImageAdvances DEF Advances
  <2>6. ASSUME NEW o \in Mount(Dismount(u)), t = o.fs PROVE Advances(s, t)
    <3>1. PICK v : v = Dismount(u)
      OBVIOUS
    <3>2. Sound(v)
      BY <2>3, <3>1, DismountSound
    <3>3. v.dat = u.dat /\ v.dsc = u.dsc /\ (v.started = u.started \/ v.started = AllStopped)
      BY <2>3, <3>1 DEF Dismount, Sound, FsState
    <3>4. Advances(u, v)
      BY <3>3, AdvancesSame DEF AllStopped
    <3>5. Advances(v, t)
      BY <2>6, <3>1, <3>2, MountAdvances
    <3>6. QED
      BY <2>5, <3>4, <3>5, AdvancesTransitive
  <2>7. QED
    BY <2>1, <2>2, <2>5, <2>6
<1>3. QED
  BY <1>1, <1>2

LEMMA CreateLunImageAdvances ==
    ASSUME NEW s, Sound(s), NEW l \in LUN, NEW o \in CreateLunImage(s, l)
    PROVE  Advances(s, o.fs)
<1>1. s \in FsState
  BY DEF Sound
<1>2. o.fs = s \/ o.fs = [s EXCEPT !.dat[l] = 0]
  BY DEF CreateLunImage, OnFault, OnFull, Ret
<1>3. CASE o.fs = s
  BY <1>3, AdvancesSame
<1>4. CASE o.fs = [s EXCEPT !.dat[l] = 0]
  <2>1. /\ o.fs.started = s.started /\ o.fs.dsc = s.dsc /\ o.fs.dat[l] = 0
        /\ \A k \in LUN \ {l} : o.fs.dat[k] = s.dat[k]
    BY <1>1, <1>4 DEF FsState
  <2>2. 0 # Absent
    BY FsAssumption
  <2>3. QED
    BY <2>1, <2>2, AdvancesFile
<1>5. QED
  BY <1>2, <1>3, <1>4

\* Descriptors that are made empty, or written by the host.
LEMMA DescriptorAdvances ==
    ASSUME NEW s, Sound(s), NEW l \in LUN, NEW o,
           \/ o \in CreateLunDescriptor(s, l)
           \/ \E g \in Track : o \in WriteLunDescriptor(s, l, g)
    PROVE  Advances(s, o.fs)
<1>1. s \in FsState
  BY DEF Sound
<1>2. o.fs = s \/ \E n \in Track \cup {Empty} : o.fs = [s EXCEPT !.dsc[l] = n]
  <2>1. CASE o \in CreateLunDescriptor(s, l)
    <3>1. (\E b \in BOOLEAN : o = Ret(s, b)) \/ o = Ret([s EXCEPT !.dsc[l] = Empty], TRUE)
      BY <2>1 DEF CreateLunDescriptor, OnFault, OnFull
    <3>2. QED
      BY <3>1 DEF Ret
  <2>2. ASSUME NEW g \in Track, o \in WriteLunDescriptor(s, l, g)
        PROVE  o.fs = s \/ o.fs = [s EXCEPT !.dsc[l] = g]
    BY <2>2 DEF WriteLunDescriptor, OnFault, OnFull, Ret
  <2>3. QED
    BY <2>1, <2>2
<1>3. CASE o.fs = s
  BY <1>3, AdvancesSame
<1>4. ASSUME NEW n \in Track \cup {Empty}, o.fs = [s EXCEPT !.dsc[l] = n] PROVE Advances(s, o.fs)
  <2>1. /\ o.fs.started = s.started /\ o.fs.dat = s.dat /\ o.fs.dsc[l] = n
        /\ \A k \in LUN \ {l} : o.fs.dsc[k] = s.dsc[k]
    BY <1>1, <1>4 DEF FsState
  <2>2. n # Absent
    BY FsAssumption DEF Track
  <2>3. QED
    BY <2>1, <2>2, AdvancesFile
<1>5. QED
  BY <1>2, <1>3, <1>4

LEMMA FormatLunAdvances ==
    ASSUME NEW s, Sound(s), NEW l \in LUN, NEW o \in FormatLun(s, l)
    PROVE  Advances(s, o.fs)
<1>1. s \in FsState
  BY DEF Sound
<1>2. GeometryRead(s, l) \subseteq Nat
  BY GeometryReadType DEF GeometryRead, Track
<1>3. \/ o.fs = s \/ o.fs = [s EXCEPT !.dat[l] = 0]
      \/ \E g \in GeometryRead(s, l) : o.fs = [s EXCEPT !.dat[l] = g * SectorsPerTrack]
  BY FormatLunOutcomes DEF Ret
<1>4. o.fs = s \/ \E n \in Nat : o.fs = [s EXCEPT !.dat[l] = n]
  <2>1. \A g \in GeometryRead(s, l) : g * SectorsPerTrack \in Nat
    BY <1>2, SectorsOfTracks
  <2>2. QED
    BY <1>3, <2>1
<1>5. CASE o.fs = s
  BY <1>5, AdvancesSame
<1>6. ASSUME NEW n \in Nat, o.fs = [s EXCEPT !.dat[l] = n] PROVE Advances(s, o.fs)
  <2>1. /\ o.fs.started = s.started /\ o.fs.dsc = s.dsc /\ o.fs.dat[l] = n
        /\ \A k \in LUN \ {l} : o.fs.dat[k] = s.dat[k]
    BY <1>1, <1>6 DEF FsState
  <2>2. n # Absent
    BY FsAssumption
  <2>3. QED
    BY <2>1, <2>2, AdvancesFile
<1>7. QED
  BY <1>4, <1>5, <1>6

\* Opening, moving along and closing the transfer file.
LEMMA ReadingAdvances ==
    ASSUME NEW s, Sound(s), NEW l \in LUN, NEW left, NEW o,
           o \in OpenLunForRead(s, l) \/ o \in ReadNextSector(s, left)
    PROVE  Advances(s, o.fs)
<1>1. s \in FsState
  BY DEF Sound
<1>2. \/ o.fs = s \/ o.fs = [s EXCEPT !.open = TRUE, !.file = 0, !.size = s.dat[l]]
      \/ o.fs = [s EXCEPT !.file = Absent, !.size = Absent]
  BY DEF OpenLunForRead, ReadNextSector, OnFault, Ret
<1>3. o.fs.dat = s.dat /\ o.fs.dsc = s.dsc /\ o.fs.started = s.started
  BY <1>1, <1>2 DEF FsState
<1>4. QED
  BY <1>3, AdvancesSame

LEMMA OpenLunForWriteStatus ==
    ASSUME NEW s, Sound(s), NEW l \in LUN, NEW start, NEW o \in OpenLunForWrite(s, l, start)
    PROVE  o.fs.dsc = s.dsc /\ o.fs.started = s.started
<1>1. s \in FsState
  BY DEF Sound
<1> DEFINE opened(p, n) == [s EXCEPT !.open = TRUE, !.file = p, !.size = n]
<1>2. \/ o = Ret(s, FALSE) \/ o = Ret(opened(Absent, Absent), TRUE)
      \/ o = Ret(opened(start, AtLeast(s.dat[l], start)), TRUE)
      \/ \E p \in s.dat[l] .. start - 1 : o = Ret(opened(p, AtLeast(s.dat[l], p)), TRUE)
  BY DEF OpenLunForWrite, OnFault, OnFull
<1>3. \A p, n : opened(p, n).dsc = s.dsc /\ opened(p, n).started = s.started
  BY <1>1 DEF FsState
<1> HIDE DEF opened
<1>4. QED
  BY <1>2, <1>3 DEF Ret

LEMMA WritingAdvances ==
    ASSUME NEW s, Sound(s), NEW t, Keeps(s, t), t.dsc = s.dsc, t.started = s.started
    PROVE  Advances(s, t)
BY DEF Advances, Keeps
=============================================================================
