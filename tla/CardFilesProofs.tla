-------------------------- MODULE CardFilesProofs ---------------------------
(***************************************************************************)
(* Proofs about CardFiles, for every size of the volume, of a FAT sector   *)
(* and of the image, with any disk error and any loss of power: the types; *)
(* that the tables FatFs sees and those on the card differ in at most the  *)
(* one sector of its window; and that both are those of a file system.     *)
(*                                                                         *)
(* The invariant has four parts: IInv, how the window stands to the card;  *)
(* TypeOK; Control, which calls a command makes and where the first one is; *)
(* and Chains, that there are chains c of the files in memory (Files: they *)
(* do not meet, they cover the files, and the file object is where the call *)
(* under way needs it) and chains d of the files on the card (DiskChains). *)
(* A step leaves the card's tables alone or, when it writes the window back, *)
(* makes them those in memory (CardMoves), so that d stays or becomes c.   *)
(***************************************************************************)
EXTENDS CardFiles, FunctionTheorems, TLAPS

Shape ==
    /\ disk.fat = [c \in Cluster |-> disk.fat[c]]
    /\ mem.fat = [c \in Cluster |-> mem.fat[c]]
    /\ disk = [x \in {"fat", "entry", "data"} |-> disk[x]]
    /\ mem = [x \in {"fat", "entry"} |-> mem[x]]

IInv == Shape /\ OneSectorBehind

-----------------------------------------------------------------------------
(* The window.                                                             *)

\* sync_window brings the card up to date with the sector, and no other.
LEMMA StoredTables ==
    ASSUME NEW s, Shape
    PROVE  /\ Stored(s) = [x \in {"fat", "entry", "data"} |-> Stored(s)[x]]
           /\ Stored(s).fat = [c \in Cluster |-> IF FatSector(c) = s THEN mem.fat[c] ELSE disk.fat[c]]
           /\ Stored(s).entry = IF s = Directory THEN mem.entry ELSE disk.entry
BY DEF Shape, Stored

\* When the window leaves a sector the card is up to date.
LEMMA LeftInStep ==
    ASSUME IInv, NEW s, NEW around \in BOOLEAN, Leave(s, around),
           win.sect # s \/ around
    PROVE  /\ disk' = [x \in {"fat", "entry", "data"} |-> disk'[x]]
           /\ disk'.fat = [c \in Cluster |-> disk'.fat[c]]
           /\ \A c \in Cluster : disk'.fat[c] = mem.fat[c]
           /\ disk'.entry = mem.entry
<1>1. CASE win.dirty
  <2>1. disk' = Stored(win.sect)
    BY <1>1 DEF Leave
  <2>2. QED
    BY <2>1, StoredTables DEF IInv, OneSectorBehind, Shape
<1>2. CASE ~win.dirty
  <2>1. disk' = disk
    BY <1>2 DEF Leave
  <2>2. QED
    BY <2>1, <1>2 DEF IInv, OneSectorBehind, Shape
<1>3. QED
  BY <1>1, <1>2

\* A table that differs from the one in memory in sector s only.
DiffersAt(m, s) ==
    /\ m = [x \in {"fat", "entry"} |-> m[x]]
    /\ m.fat = [c \in Cluster |-> m.fat[c]]
    /\ \A c \in Cluster : FatSector(c) # s => m.fat[c] = mem.fat[c]
    /\ s # Directory => m.entry = mem.entry

LEMMA ChangeInvariant ==
    ASSUME IInv, NEW s, NEW m, NEW around \in BOOLEAN, DiffersAt(m, s), ChangeAfter(s, m, around)
    PROVE  IInv'
<1>1. mem' = m /\ win' = [sect |-> s, dirty |-> TRUE] /\ Leave(s, around)
  BY DEF ChangeAfter
<1>2. CASE win.sect # s \/ around
  BY <1>1, <1>2, LeftInStep DEF IInv, Shape, OneSectorBehind, DiffersAt
<1>3. CASE ~(win.sect # s \/ around)
  <2>1. disk' = disk
    BY <1>1, <1>3 DEF Leave
  <2>2. /\ \A c \in Cluster : FatSector(c) # s => mem.fat[c] = disk.fat[c]
        /\ s # Directory => mem.entry = disk.entry
    BY <1>3 DEF IInv, OneSectorBehind
  <2>3. OneSectorBehind'
    BY <1>1, <2>1, <2>2 DEF OneSectorBehind, DiffersAt
  <2>4. Shape'
    BY <1>1, <2>1 DEF IInv, Shape, DiffersAt
  <2>5. QED
    BY <2>3, <2>4 DEF IInv
<1>4. QED
  BY <1>2, <1>3

LEMMA LookInvariant ==
    ASSUME IInv, NEW s, NEW around \in BOOLEAN, LookAfter(s, around)
    PROVE  IInv'
<1>1. mem' = mem /\ win' = [sect |-> s, dirty |-> win.dirty /\ win.sect = s /\ ~around] /\ Leave(s, around)
  BY DEF LookAfter
<1>2. CASE win.sect # s \/ around
  BY <1>1, <1>2, LeftInStep DEF IInv, Shape, OneSectorBehind
<1>3. CASE ~(win.sect # s \/ around)
  <2>1. disk' = disk
    BY <1>1, <1>3 DEF Leave
  <2>2. (\E c \in Cluster : mem.fat[c] # disk.fat[c]) \/ mem.entry # disk.entry => win.dirty
    BY DEF IInv, OneSectorBehind
  <2>3. QED
    BY <1>1, <1>3, <2>1, <2>2 DEF IInv, Shape, OneSectorBehind
<1>4. QED
  BY <1>2, <1>3

LEMMA WindowErrorInvariant ==
    ASSUME IInv, NEW s, NEW around \in BOOLEAN, WindowErrorAfter(s, around)
    PROVE  IInv'
<1>1. CASE UNCHANGED <<disk, win>>
  BY <1>1 DEF WindowErrorAfter, IInv, Shape, OneSectorBehind
<1>2. CASE Leave(s, around) /\ win' = [sect |-> Nowhere, dirty |-> FALSE]
  BY <1>2, LeftInStep DEF WindowErrorAfter, IInv, Shape, OneSectorBehind
<1>3. QED
  BY <1>1, <1>2 DEF WindowErrorAfter

LEMMA FindInvariant ==
    ASSUME IInv, Find \/ FindError
    PROVE  IInv'
BY LookInvariant, WindowErrorInvariant DEF Find, FindError

LEMMA SyncInvariant ==
    ASSUME IInv, Sync, mem' = mem
    PROVE  IInv'
<1>1. CASE win.dirty
  <2>1. disk' = Stored(win.sect)
    BY <1>1 DEF Sync
  <2>2. QED
    BY <2>1, StoredTables DEF IInv, OneSectorBehind, Shape
<1>2. CASE ~win.dirty
  <2>1. disk' = disk
    BY <1>2 DEF Sync
  <2>2. QED
    BY <2>1, <1>2 DEF IInv, OneSectorBehind, Shape
<1>3. QED
  BY <1>1, <1>2

\* Sectors of data are written past the window.
LEMMA DataInvariant ==
    ASSUME IInv, NEW c, NEW v, disk' = [disk EXCEPT !.data[c] = v], UNCHANGED <<mem, win>>
    PROVE  IInv'
BY DEF IInv, Shape, OneSectorBehind

LEMMA UnchangedInvariant ==
    ASSUME IInv, UNCHANGED <<disk, mem, win>>
    PROVE  IInv'
BY DEF IInv, Shape, OneSectorBehind

LEMMA RemountInvariant ==
    ASSUME IInv, Remount
    PROVE  IInv'
BY DEF IInv, Shape, OneSectorBehind, Remount, TablesOf

-----------------------------------------------------------------------------
(* What the calls change.                                                  *)

LEMMA PutFatDiffers ==
    ASSUME IInv, NEW c, NEW v
    PROVE  DiffersAt(PutFat(c, v), FatSector(c))
BY DEF IInv, Shape, DiffersAt, PutFat

LEMMA DirectoryIsNoFat ==
    ASSUME NEW c \in Cluster
    PROVE  FatSector(c) # Directory
<1>1. (c - 1) \div EntriesPerSector \in Nat
  BY FatAssumption, SMT DEF Cluster
<1>2. QED
  BY <1>1, SMT DEF FatSector, Directory

LEMMA EntryDiffers ==
    ASSUME IInv, NEW f, NEW e
    PROVE  DiffersAt([mem EXCEPT !.entry[f] = e], Directory)
BY DirectoryIsNoFat DEF IInv, Shape, DiffersAt

-----------------------------------------------------------------------------
(* The steps.                                                              *)

LEMMA OpenInvariant == IInv /\ Open => IInv'
BY FindInvariant DEF Open

LEMMA ReadInvariant == IInv /\ Read => IInv'
BY FindInvariant DEF Read

LEMMA TruncateInvariant == IInv /\ Truncate => IInv'
BY FindInvariant, ChangeInvariant, EntryDiffers DEF Truncate

LEMMA FreeClusterInvariant == IInv /\ FreeCluster => IInv'
BY ChangeInvariant, PutFatDiffers, WindowErrorInvariant DEF FreeCluster, Change, WindowError

LEMMA ReopenInvariant == IInv /\ Reopen => IInv'
BY LookInvariant, WindowErrorInvariant DEF Reopen, Look, WindowError

LEMMA FollowInvariant == IInv /\ Follow => IInv'
BY LookInvariant, WindowErrorInvariant, UnchangedInvariant DEF Follow, Look, WindowError

LEMMA GrowInvariant == IInv /\ Grow => IInv'
BY ChangeInvariant, PutFatDiffers, LookInvariant, WindowErrorInvariant DEF Grow, WindowError

LEMMA LinkInvariant == IInv /\ Link => IInv'
BY ChangeInvariant, PutFatDiffers, WindowErrorInvariant DEF Link, Change, WindowError

LEMMA TransferInvariant == IInv /\ Transfer => IInv'
BY DataInvariant, UnchangedInvariant DEF Transfer

LEMMA ExpandBeginInvariant == IInv /\ ExpandBegin => IInv'
BY LookInvariant, WindowErrorInvariant DEF ExpandBegin, WindowError

LEMMA ExpandLinkInvariant == IInv /\ ExpandLink => IInv'
BY ChangeInvariant, PutFatDiffers, WindowErrorInvariant, UnchangedInvariant
   DEF ExpandLink, Change, WindowError

LEMMA CloseInvariant == IInv /\ Close => IInv'
<1>1. IInv /\ CloseBuffer => IInv'
  BY DataInvariant, UnchangedInvariant DEF CloseBuffer
<1>2. IInv /\ CloseEntry => IInv'
  BY ChangeInvariant, EntryDiffers, WindowErrorInvariant DEF CloseEntry, Change, WindowError
<1>3. IInv /\ CloseFlush => IInv'
  BY SyncInvariant, UnchangedInvariant DEF CloseFlush
<1>4. IInv /\ CloseUnchanged => IInv'
  BY UnchangedInvariant DEF CloseUnchanged
<1>5. QED
  BY <1>1, <1>2, <1>3, <1>4 DEF Close

LEMMA FatStepInvariant == IInv /\ FatStep => IInv'
<1>1. IInv /\ (TransferError \/ Arrived \/ NotOpen) => IInv'
  BY UnchangedInvariant DEF TransferError, Arrived, NotOpen
<1>2. QED
  BY <1>1, OpenInvariant, ReadInvariant, TruncateInvariant, FreeClusterInvariant, ReopenInvariant,
     FollowInvariant,
     GrowInvariant, LinkInvariant, TransferInvariant, ExpandBeginInvariant, ExpandLinkInvariant,
     CloseInvariant DEF FatStep

LEMMA HostInvariant == IInv /\ Host => IInv'
BY UnchangedInvariant DEF Host, Write, Format, ModeSelect, Start, Reset, Begin

LEMMA NextInvariant == IInv /\ [Next]_vars => IInv'
<1>1. IInv /\ Inspect => IInv'
  BY FindInvariant DEF Inspect
<1>2. IInv /\ (Interrupt \/ Restart \/ Finish) => IInv'
  BY UnchangedInvariant DEF Interrupt, Restart, Finish
<1>3. IInv /\ (RemountAfterReset \/ PowerFail) => IInv'
  BY RemountInvariant DEF RemountAfterReset, PowerFail, Mount
<1>4. IInv /\ UNCHANGED vars => IInv'
  BY UnchangedInvariant DEF vars, fatVars
<1>5. QED
  BY <1>1, <1>2, <1>3, <1>4, FatStepInvariant, HostInvariant DEF Next, Firmware

LEMMA InitInvariant == Init => IInv
<1> SUFFICES ASSUME Init PROVE IInv
  OBVIOUS
<1>1. PICK dsc \in Cluster \ {1} :
          disk = [ fat |-> [c \in Cluster |-> IF c \in {1, dsc} THEN EOC ELSE Free],
                   entry |-> [f \in File |-> [sclust |-> IF f = "dat" THEN 1 ELSE dsc, size |-> 1]],
                   data |-> [c \in Cluster |-> 0] ]
  BY DEF Init
<1>2. mem = [fat |-> disk.fat, entry |-> disk.entry]
  BY DEF Init, TablesOf
<1>3. disk = [x \in {"fat", "entry", "data"} |-> disk[x]] /\ disk.fat = [c \in Cluster |-> disk.fat[c]]
  BY <1>1
<1>4. mem = [x \in {"fat", "entry"} |-> mem[x]] /\ mem.fat = disk.fat /\ mem.entry = disk.entry
  BY <1>2
<1>5. QED
  BY <1>3, <1>4 DEF IInv, Shape, OneSectorBehind

\* move_window and sync_window: what the card does not have yet of the tables
\* is in the sector of the window.
THEOREM OneSectorAlwaysBehind == Spec => []OneSectorBehind
<1>1. IInv => OneSectorBehind
  BY DEF IInv
<1>2. QED
  BY <1>1, InitInvariant, NextInvariant, PTL DEF Spec

-----------------------------------------------------------------------------
(* Chains of clusters, and what a table entry that is changed does to them. *)

\* The chains of the files in the table fat, from their first clusters on, are c:
\* no chain meets itself or the other, and each ends with EOC.
ChainsOf(fat, first, c) ==
    /\ c \in [File -> Seq(Cluster)]
    /\ \A f, g \in File : \A i \in 1 .. Len(c[f]), j \in 1 .. Len(c[g]) :
          c[f][i] = c[g][j] => f = g /\ i = j
    /\ \A f \in File : Linked(fat, first[f], c[f])

\* Cluster x is in no chain.
Apart(x, c) == \A f \in File : \A i \in 1 .. Len(c[f]) : c[f][i] # x

\* A chain is one of the sequences the properties quantify over.
LEMMA ChainIsWalk ==
    ASSUME NEW w \in Seq(Cluster), \A i, j \in 1 .. Len(w) : w[i] = w[j] => i = j
    PROVE  w \in Walks
<1>1. Len(w) \in Nat /\ w \in [1 .. Len(w) -> Cluster] /\ DOMAIN w = 1 .. Len(w)
  OBVIOUS
<1>2. w \in Injection(1 .. Len(w), 1 .. NClusters)
  BY <1>1, Fun_IsInj DEF Cluster
<1>3. ExistsInjection(1 .. Len(w), 1 .. NClusters)
  BY <1>2 DEF ExistsInjection
<1>4. Len(w) \in 0 .. NClusters
  BY <1>1, <1>3, FatAssumption, Fun_NatInjLeq
<1>5. QED
  BY <1>1, <1>4 DEF Walks

\* What the table says is free is in no chain.
LEMMA FreeIsApart ==
    ASSUME NEW fat, NEW first, NEW c, ChainsOf(fat, first, c), NEW x \in Cluster, fat[x] = Free
    PROVE  Apart(x, c)
<1> SUFFICES ASSUME NEW f \in File, NEW i \in 1 .. Len(c[f]), c[f][i] = x PROVE FALSE
  BY DEF Apart
<1>1. c[f] \in Seq(Cluster) /\ Linked(fat, first[f], c[f])
  BY DEF ChainsOf
<1>2. fat[c[f][i]] = Nth(c[f], i + 1)
  BY <1>1 DEF Linked
<1>3. Nth(c[f], i + 1) \in 1 .. EOC
  BY <1>1, FatAssumption DEF Nth, Cluster, EOC
<1>4. QED
  BY <1>2, <1>3 DEF Free

\* A file that loses its first cluster has no chain; the other keeps its own.
LEMMA ForgetChain ==
    ASSUME NEW fat, NEW first, NEW c, ChainsOf(fat, first, c), NEW gist, 
           \A f \in File : gist[f] = 0 \/ gist[f] = first[f]
    PROVE  ChainsOf(fat, gist, [f \in File |-> IF gist[f] = 0 THEN << >> ELSE c[f]])
BY DEF ChainsOf, Linked

\* An entry of the table that is in no chain may be set.
LEMMA SetApart ==
    ASSUME NEW fat, NEW first, NEW c, ChainsOf(fat, first, c), NEW fat2, NEW x, Apart(x, c),
           \A y \in Cluster : y # x => fat2[y] = fat[y]
    PROVE  ChainsOf(fat2, first, c)
BY DEF ChainsOf, Linked, Apart

\* create_chain: a cluster marked EOC, in no chain, is linked to the end of one.
LEMMA AppendCluster ==
    ASSUME NEW fat, NEW first, NEW c, ChainsOf(fat, first, c), NEW x \in Cluster, Apart(x, c),
           fat[x] = EOC,
           NEW f \in File, Len(c[f]) # 0,
           NEW fat2, \A y \in Cluster : fat2[y] = IF y = c[f][Len(c[f])] THEN x ELSE fat[y]
    PROVE  ChainsOf(fat2, first, [c EXCEPT ![f] = Append(@, x)])
<1> DEFINE e == [c EXCEPT ![f] = Append(@, x)]
<1>1. /\ c \in [File -> Seq(Cluster)] /\ e \in [File -> Seq(Cluster)]
      /\ e[f] = Append(c[f], x) /\ \A g \in File : g # f => e[g] = c[g]
  BY DEF ChainsOf
<1>2. /\ Len(c[f]) \in Nat \ {0} /\ Len(e[f]) = Len(c[f]) + 1
      /\ \A i \in 1 .. Len(c[f]) : e[f][i] = c[f][i] 
      /\ e[f][Len(c[f]) + 1] = x
  BY <1>1
<1>3. ASSUME NEW g \in File, NEW h \in File, NEW i \in 1 .. Len(e[g]), NEW j \in 1 .. Len(e[h]),
             e[g][i] = e[h][j]
      PROVE  g = h /\ i = j
  BY <1>1, <1>2, <1>3 DEF ChainsOf, Apart
<1>4. ASSUME NEW g \in File PROVE Linked(fat2, first[g], e[g])
  <2>1. CASE g = f
    <3>1. Linked(fat, first[f], c[f])
      BY DEF ChainsOf
    <3>2. first[f] = c[f][1] /\ Len(e[f]) # 0 /\ e[f][1] = c[f][1]
      BY <3>1, <1>1, <1>2 DEF Linked
    <3>3. ASSUME NEW i \in 1 .. Len(c[f]), i < Len(c[f])
          PROVE  fat2[e[f][i]] = Nth(e[f], i + 1)
      <4>1. c[f][i] \in Cluster /\ c[f][i] # c[f][Len(c[f])]
        BY <3>3, <1>2 DEF ChainsOf
      <4>2. fat[c[f][i]] = c[f][i + 1]
        BY <3>1, <3>3, <1>1 DEF Linked, Nth
      <4>3. Nth(e[f], i + 1) = c[f][i + 1]
        BY <3>3, <1>1, <1>2 DEF Nth
      <4>4. QED
        BY <4>1, <4>2, <4>3, <3>3, <1>2
    <3>4. c[f][Len(c[f])] \in Cluster /\ x # c[f][Len(c[f])]
      BY <1>2 DEF ChainsOf, Apart
    <3>5. fat2[e[f][Len(c[f])]] = Nth(e[f], Len(c[f]) + 1)
      BY <3>4, <1>1, <1>2 DEF Nth
    <3>6. fat2[e[f][Len(c[f]) + 1]] = Nth(e[f], Len(c[f]) + 2)
      BY <3>4, <1>1, <1>2 DEF Nth
    <3>7. ASSUME NEW i \in 1 .. Len(e[f]) PROVE fat2[e[f][i]] = Nth(e[f], i + 1)
      BY <3>3, <3>5, <3>6, <1>1, <1>2
    <3>8. QED
      BY <3>2, <3>7, <2>1 DEF Linked
  <2>2. CASE g # f
    BY <2>2, <1>1, <1>2 DEF ChainsOf, Linked, Nth, Apart
  <2>3. QED BY <2>1, <2>2
<1> HIDE DEF e
<1>5. ChainsOf(fat2, first, e)
  BY <1>1, <1>3, <1>4 DEF ChainsOf
<1> QED
  BY <1>5 DEF e

\* The first cluster of a file.
LEMMA FirstCluster ==
    ASSUME NEW fat, NEW first, NEW c, ChainsOf(fat, first, c), NEW x \in Cluster, Apart(x, c),
           NEW f \in File, first[f] = 0,
           NEW fat2, fat2[x] = EOC, \A y \in Cluster : y # x => fat2[y] = fat[y],
           NEW gist, gist[f] = x, \A g \in File : g # f => gist[g] = first[g]
    PROVE  ChainsOf(fat2, gist, [c EXCEPT ![f] = <<x>>])
<1> DEFINE e == [c EXCEPT ![f] = <<x>>]
<1>1. /\ c \in [File -> Seq(Cluster)] /\ e \in [File -> Seq(Cluster)]
      /\ e[f] = <<x>> /\ Len(e[f]) = 1 /\ e[f][1] = x /\ \A g \in File : g # f => e[g] = c[g]
  BY DEF ChainsOf
<1>2. ASSUME NEW g \in File, NEW h \in File, NEW i \in 1 .. Len(e[g]), NEW j \in 1 .. Len(e[h]),
             e[g][i] = e[h][j]
      PROVE  g = h /\ i = j
  BY <1>1, <1>2 DEF ChainsOf, Apart
<1>3. ASSUME NEW g \in File PROVE Linked(fat2, gist[g], e[g])
  <2>1. CASE g = f
    <3>1. x # 0 /\ Len(e[f]) # 0 /\ Nth(e[f], 2) = EOC
      BY <1>1, FatAssumption DEF Cluster, Nth
    <3>2. \A i \in 1 .. Len(e[f]) : fat2[e[f][i]] = Nth(e[f], i + 1)
      BY <1>1, <3>1
    <3>3. QED
      BY <2>1, <1>1, <3>1, <3>2 DEF Linked
  <2>2. CASE g # f
    BY <2>2, <1>1 DEF ChainsOf, Linked, Nth, Apart
  <2>3. QED BY <2>1, <2>2
<1> HIDE DEF e
<1>4. ChainsOf(fat2, gist, e)
  BY <1>1, <1>2, <1>3 DEF ChainsOf
<1> QED
  BY <1>4 DEF e

\* remove_chain: the first cluster of a chain is given up.
LEMMA DropHead ==
    ASSUME NEW fat, NEW first, NEW c, ChainsOf(fat, first, c), NEW f \in File, first[f] # 0,
           NEW fat2, \A y \in Cluster : y # first[f] => fat2[y] = fat[y],
           NEW gist, gist[f] = IF fat[first[f]] = EOC THEN 0 ELSE fat[first[f]],
           \A g \in File : g # f => gist[g] = first[g]
    PROVE  ChainsOf(fat2, gist, [c EXCEPT ![f] = Tail(@)])
<1> DEFINE e == [c EXCEPT ![f] = Tail(@)]
<1>1. c \in [File -> Seq(Cluster)] /\ Linked(fat, first[f], c[f])
  BY DEF ChainsOf
<1>2. first[f] = c[f][1] /\ Len(c[f]) \in Nat /\ Len(c[f]) > 0 /\ c[f] \in Seq(Cluster)
  BY <1>1 DEF Linked
<1>3. /\ e \in [File -> Seq(Cluster)]
      /\ e[f] = Tail(c[f]) /\ \A g \in File : g # f => e[g] = c[g]
      /\ Len(e[f]) = Len(c[f]) - 1 /\ \A i \in 1 .. Len(e[f]) : e[f][i] = c[f][i + 1]
  BY <1>1, <1>2
<1>4. ASSUME NEW g \in File, NEW h \in File, NEW i \in 1 .. Len(e[g]), NEW j \in 1 .. Len(e[h]),
             e[g][i] = e[h][j]
      PROVE  g = h /\ i = j
  BY <1>1, <1>2, <1>3, <1>4 DEF ChainsOf
<1>5. ASSUME NEW g \in File PROVE Linked(fat2, gist[g], e[g])
  <2>1. CASE g = f
    <3>1. fat[c[f][1]] = Nth(c[f], 2)
      BY <1>1, <1>2 DEF Linked
    <3>2. gist[f] = IF Len(e[f]) = 0 THEN 0 ELSE e[f][1]
      <4>1. CASE Len(c[f]) = 1
        <5>1. fat[c[f][1]] = EOC
          BY <3>1, <4>1, <1>1 DEF Nth
        <5>2. Len(e[f]) = 0
          BY <4>1, <1>3
        <5>3. QED
          BY <5>1, <5>2, <1>2
      <4>2. CASE Len(c[f]) > 1
        <5>9. 2 \in 1 .. Len(c[f])
          BY <4>2, <1>2
        <5>0. Nth(c[f], 2) = c[f][2]
          BY <5>9 DEF Nth
        <5>1. fat[c[f][1]] = c[f][2] /\ c[f][2] \in Cluster
          BY <3>1, <5>0, <5>9, <1>2
        <5>2. c[f][2] # EOC
          BY <5>1, FatAssumption DEF Cluster, EOC
        <5>3. Len(e[f]) # 0 /\ e[f][1] = c[f][2]
          BY <4>2, <1>1, <1>2, <1>3
        <5>4. QED
          BY <5>1, <5>2, <5>3, <1>2
      <4>3. Len(c[f]) = 1 \/ Len(c[f]) > 1
        <5>1. \A n \in Nat : n > 0 => n = 1 \/ n > 1
          OBVIOUS
        <5>2. QED
          BY <5>1, <1>2
      <4>4. QED
        BY <4>1, <4>2, <4>3
    <3>3. ASSUME NEW i \in 1 .. Len(e[f]) PROVE fat2[e[f][i]] = Nth(e[f], i + 1)
      <4>1. e[f][i] = c[f][i + 1] /\ i + 1 \in 1 .. Len(c[f]) /\ c[f][i + 1] # c[f][1] /\ c[f][i + 1] \in Cluster
        BY <1>1, <1>2, <1>3 DEF ChainsOf
      <4>2. fat[c[f][i + 1]] = Nth(c[f], i + 2)
        BY <4>1, <1>1 DEF Linked
      <4>3. Nth(e[f], i + 1) = Nth(c[f], i + 2)
        BY <1>1, <1>2, <1>3 DEF Nth
      <4>4. QED
        BY <4>1, <4>2, <4>3, <1>2
    <3>4. QED
      BY <3>2, <3>3, <2>1 DEF Linked
  <2>2. CASE g # f
    <3>1. ASSUME NEW i \in 1 .. Len(c[g]) PROVE c[g][i] # c[f][1] /\ c[g][i] \in Cluster
      BY <2>2, <1>1, <1>2 DEF ChainsOf
    <3>2. Linked(fat, first[g], c[g])
      BY DEF ChainsOf
    <3>3. QED
      BY <2>2, <1>1, <1>2, <1>3, <3>1, <3>2 DEF Linked
  <2>3. QED BY <2>1, <2>2
<1> HIDE DEF e
<1>6. ChainsOf(fat2, gist, e)
  BY <1>3, <1>4, <1>5 DEF ChainsOf
<1> QED
  BY <1>6 DEF e

\* The n clusters from x on are linked in their order, apart from the chains.
Row(fat, c, x, n) ==
    /\ n > 0 /\ x + n - 1 <= NClusters
    /\ \A y \in x .. x + n - 1 : Apart(y, c) /\ fat[y] = IF y = x + n - 1 THEN EOC ELSE y + 1

\* f_expand: a block of clusters that are linked becomes the chain of a file.
LEMMA TakeBlock ==
    ASSUME NEW fat, NEW first, NEW c, ChainsOf(fat, first, c), NEW f \in File, first[f] = 0,
           NEW x \in Cluster, NEW n \in Nat, Row(fat, c, x, n),
           NEW gist, gist[f] = x, \A g \in File : g # f => gist[g] = first[g]
    PROVE  \E w \in Seq(Cluster) : Len(w) = n /\ ChainsOf(fat, gist, [c EXCEPT ![f] = w])
<1>0. /\ n > 0 /\ x + n - 1 <= NClusters
      /\ \A y \in x .. x + n - 1 : Apart(y, c) /\ fat[y] = IF y = x + n - 1 THEN EOC ELSE y + 1
  BY DEF Row
<1> DEFINE w == [i \in 1 .. n |-> x + i - 1]
           e == [c EXCEPT ![f] = w]
<1>1. w \in Seq(Cluster) /\ Len(w) = n /\ \A i \in 1 .. n : w[i] = x + i - 1
  BY <1>0, FatAssumption DEF Cluster
<1> HIDE DEF w
<1>2. /\ c \in [File -> Seq(Cluster)] /\ e \in [File -> Seq(Cluster)]
      /\ e[f] = w /\ \A g \in File : g # f => e[g] = c[g]
  BY <1>1 DEF ChainsOf
<1> HIDE DEF e
<1>3. \A i \in 1 .. n : w[i] \in x .. x + n - 1
  <2> SUFFICES ASSUME NEW i \in 1 .. n PROVE w[i] \in x .. x + n - 1
    OBVIOUS
  <2>1. w[i] = x + i - 1 /\ x \in Nat
    BY <1>1 DEF Cluster
  <2> QED
    BY <2>1, <1>0
<1>4. ASSUME NEW g \in File, NEW h \in File, NEW i \in 1 .. Len(e[g]), NEW j \in 1 .. Len(e[h]),
             e[g][i] = e[h][j]
      PROVE  g = h /\ i = j
  <2>1. CASE g = f /\ h = f
    BY <2>1, <1>0, <1>1, <1>2, <1>4, FatAssumption DEF Cluster
  <2>2. CASE g = f /\ h # f
    BY <2>2, <1>0, <1>1, <1>2, <1>3, <1>4 DEF Apart
  <2>3. CASE g # f /\ h = f
    BY <2>3, <1>0, <1>1, <1>2, <1>3, <1>4 DEF Apart
  <2>4. CASE g # f /\ h # f
    BY <2>4, <1>2, <1>4 DEF ChainsOf
  <2>5. QED
    BY <2>1, <2>2, <2>3, <2>4
<1>5. ASSUME NEW g \in File PROVE Linked(fat, gist[g], e[g])
  <2>1. CASE g = f
    <3>1. Len(w) # 0 /\ gist[f] = w[1]
      BY <1>0, <1>1, FatAssumption DEF Cluster
    <3>2. ASSUME NEW i \in 1 .. n PROVE fat[w[i]] = Nth(w, i + 1)
      <4>1. fat[w[i]] = IF w[i] = x + n - 1 THEN EOC ELSE w[i] + 1
        BY <1>0, <1>3
      <4>2. Nth(w, i + 1) = IF i = n THEN EOC ELSE x + i
        BY <1>0, <1>1, <3>1, FatAssumption DEF Nth, Cluster
      <4>3. w[i] = x + i - 1 /\ x \in Nat
        BY <1>1 DEF Cluster
      <4>4. w[i] = x + n - 1 <=> i = n
        BY <4>3
      <4>5. w[i] + 1 = x + i
        BY <4>3
      <4>6. QED
        BY <4>1, <4>2, <4>4, <4>5
    <3>3. Linked(fat, gist[f], w)
      BY <3>1, <3>2, <1>1 DEF Linked
    <3>4. QED
      BY <3>3, <2>1, <1>2
  <2>2. CASE g # f
    BY <2>2, <1>2 DEF ChainsOf
  <2>3. QED BY <2>1, <2>2
<1>6. ChainsOf(fat, gist, e)
  BY <1>2, <1>4, <1>5 DEF ChainsOf
<1> QED
  BY <1>1, <1>6 DEF e

-----------------------------------------------------------------------------
(* The calls of a command, and where the first one is.                     *)

\* The calls a command is made of, with what they are called with.
CallSet ==
    [call : {"open", "read", "truncate", "inspect"}, file : File]
      \cup [call : {"seek", "expand"}, end : Nat]
      \cup [call : {"write"}, end : Nat, value : Value]
      \cup [call : {"put"}, end : {1}, value : Value]
      \cup [call : {"close"}]
      \cup [call : {"report"}, file : File, at : Nat, n : Nat, value : Value]

Doing(S) == Len(todo) > 0 /\ todo[1].call \in S

\* Block x of file f may hold value v.
Admits(f, x, v) == kept[f][x] = {} \/ v \in kept[f][x]

\* f_open with FA_CREATE_ALWAYS forgets what was kept of the file; f_write of a
\* descriptor writes one it may hold.
CallOK(k) ==
    /\ k.call = "truncate" => \A x \in Blocks : kept[k.file][x] = {}
    /\ k.call = "put" => (0 \in Blocks => Admits("dsc", 0, k.value))

\* What comes after a call.
Follows(a, b) ==
    /\ a.call = "open" => b.call = IF a.file = "dat" THEN "seek" ELSE "put"
    /\ a.call = "read" => b.call \in {"read", "truncate", "inspect", "open"}
    /\ a.call = "truncate" => b.call = IF a.file = "dat" THEN "expand" ELSE "put"
    /\ a.call = "seek" =>
          /\ b.call = "write"
          /\ \A x \in Blocks : a.end <= x /\ x < b.end => Admits("dat", x, b.value)
    /\ a.call \in {"write", "put", "expand"} => b.call = "close"
    /\ a.call = "close" => b.call \in {"close", "report"}
    /\ a.call \notin {"inspect", "report"}

\* What is reported is what the calls before did.
Matches(k, r) ==
    /\ k.call \notin {"expand", "truncate", "inspect"}
    /\ k.call = "seek" => k.end = r.at
    /\ k.call = "write" => r.file = "dat" /\ k.value = r.value /\ k.end = r.at + r.n
    /\ k.call = "put" => r.file = "dsc" /\ k.value = r.value /\ r.at = 0 /\ r.n = 1

\* The calls that are still to make.
Queue ==
    /\ todo \in Seq(CallSet)
    /\ \A i \in 1 .. Len(todo) : CallOK(todo[i])
    /\ \A i \in 1 .. Len(todo) - 1 : Follows(todo[i], todo[i + 1])
    /\ \A i, j \in 1 .. Len(todo) : todo[j].call = "report" =>
          Matches(todo[i], todo[j]) /\ (todo[i].call = "close" => j = i + 1)

\* What the call under way relies on.
Turn ==
    /\ Doing({"seek"}) => fp.open /\ fp.file = "dat"
    /\ Doing({"put"}) => fp.open /\ fp.file = "dsc"
    /\ Doing({"write"}) /\ fp.open => fp.file = "dat"
    /\ Doing({"expand"}) => fp.open /\ fp.fptr = 0 /\ fp.sclust = 0 /\ mem.entry[fp.file].sclust = 0

\* Where in the call it is.
Stage ==
    /\ at \in {"free", "reopen"} =>
         /\ Doing({"truncate"}) /\ ~fp.open /\ fp.file = todo[1].file /\ mem.entry[fp.file].sclust = 0
    /\ at = "free" => fp.clust # 0
    /\ at \in {"grow", "data"} => Doing(Advancing) /\ fp.open
    /\ at = "link" => Doing(Advancing \cup {"expand"}) /\ fp.open
    /\ at = "flush" => Doing({"close"}) /\ fp.open
    /\ Idle => Len(todo) = 0

\* Which call is under way, and where in it FatFs is.
Control == Queue /\ Turn /\ Stage

\* The arguments of a call.
LEMMA CallFields ==
    ASSUME NEW k \in CallSet
    PROVE  /\ k.call \in Calls
           /\ k.call \in {"open", "read", "truncate", "inspect", "report"} => k.file \in File
           /\ k.call \in Advancing \cup {"expand"} => k.end \in Nat
           /\ k.call = "put" => k.end = 1
           /\ k.call \in {"write", "put", "report"} => k.value \in Value
           /\ k.call = "report" => k.at \in Nat /\ k.n \in Nat
BY DEF CallSet, Calls, Advancing

\* The call under way is one of those of a command.
LEMMA FirstCall ==
    ASSUME Queue, todo # << >>
    PROVE  /\ Len(todo) \in Nat /\ Len(todo) > 0 /\ todo[1] \in CallSet
           /\ 1 \in 1 .. Len(todo)
BY DEF Queue

\* A call returns: the rest is still in order.
LEMMA TailQueue ==
    ASSUME Queue, todo # << >>, todo' = Tail(todo), kept' = kept
    PROVE  /\ Queue'
           /\ Len(todo') = Len(todo) - 1
           /\ Len(todo') > 0 => todo'[1] = todo[2] /\ Follows(todo[1], todo[2])
<1>1. /\ todo' \in Seq(CallSet) /\ Len(todo') = Len(todo) - 1 /\ Len(todo) \in Nat /\ Len(todo) > 0
      /\ \A i \in 1 .. Len(todo) - 1 : todo'[i] = todo[i + 1]
  BY DEF Queue
<1>2. ASSUME NEW i \in 1 .. Len(todo') PROVE CallOK(todo[i])'
  <2>1. CallOK(todo[i + 1]) /\ todo'[i] = todo[i + 1]
    BY <1>1 DEF Queue
  <2>2. QED
    BY <2>1 DEF CallOK, Admits
<1>3. ASSUME NEW i \in 1 .. Len(todo') - 1 PROVE Follows(todo[i], todo[i + 1])'
  <2>1. Follows(todo[i + 1], todo[i + 2]) /\ todo'[i] = todo[i + 1] /\ todo'[i + 1] = todo[i + 2]
    BY <1>1 DEF Queue
  <2>2. QED
    BY <2>1 DEF Follows, Admits
<1>4. ASSUME NEW i \in 1 .. Len(todo'), NEW j \in 1 .. Len(todo'), todo'[j].call = "report"
      PROVE  Matches(todo'[i], todo'[j]) /\ (todo'[i].call = "close" => j = i + 1)
  BY <1>1, <1>4 DEF Queue
<1>5. Queue'
  BY <1>1, <1>2, <1>3, <1>4 DEF Queue
<1>6. Len(todo') > 0 => todo'[1] = todo[2] /\ Follows(todo[1], todo[2])
  BY <1>1 DEF Queue
<1>7. QED
  BY <1>1, <1>5, <1>6

\* What is left after an error: the files are closed.
LEMMA CloseQueue ==
    ASSUME NEW n \in {1, 2}, todo' = [i \in 1 .. n |-> [call |-> "close"]]
    PROVE  Queue' /\ Len(todo') = n /\ todo'[1].call = "close" /\ \A i \in 1 .. Len(todo') : todo'[i].call = "close"
<1>1. [call |-> "close"] \in CallSet /\ [call |-> "close"].call = "close"
  BY DEF CallSet
<1>2. todo' \in Seq(CallSet) /\ Len(todo') = n /\ \A i \in 1 .. n : todo'[i] = [call |-> "close"]
  BY <1>1
<1>3. QED
  BY <1>1, <1>2 DEF Queue, CallOK, Follows

FileObject ==
    [ file : File, open : BOOLEAN, sclust : {0} \cup Cluster, clust : 0 .. EOC,
      new : {0} \cup Cluster, fptr : Nat, size : Nat, modified : BOOLEAN,
      buf : Value \cup {Nothing} ]

\* The types the control of the calls relies on.
Typed ==
    /\ fp \in FileObject /\ mem = [fat |-> mem.fat, entry |-> mem.entry] /\ mem.entry = [f \in File |-> mem.entry[f]]
    /\ at \in {"start", "free", "reopen", "grow", "link", "data", "flush"}

\* One lemma per action of FatFs follows: it keeps Control.
LEMMA AbandonControl ==
    ASSUME Typed, Control, NEW what, Abandons(what), ~Idle, cmd' = cmd, kept' = kept
    PROVE  Control'
<1>1. PICK n \in {1, 2} : todo' = [i \in 1 .. n |-> [call |-> "close"]]
  BY DEF Abandons
<1>2. Queue' /\ Len(todo') = n /\ todo'[1].call = "close"
  BY <1>1, CloseQueue
<1>3. Turn'
  BY <1>2 DEF Turn, Doing
<1>4. Stage'
  BY <1>2 DEF Stage, Abandons, Idle
<1>5. QED
  BY <1>2, <1>3, <1>4 DEF Control

\* While calls are to be made a command is under way.
LEMMA NotIdle == ASSUME Control, todo # << >> PROVE ~Idle
BY FirstCall DEF Control, Stage

LEMMA OpenControl ==
    ASSUME Typed, Control, Open, cmd' = cmd, kept' = kept
    PROVE  Control'
<1> DEFINE f == todo[1].file
<1>1. Queue /\ todo # << >> /\ todo[1].call = "open" /\ at = "start" /\ ~Idle
  BY NotIdle DEF Control, Open, Call
<1>2. f \in File /\ Len(todo) > 0
  BY <1>1, FirstCall, CallFields
<1>3. CASE OpenFails /\ f = "dsc"
  BY <1>3, <1>1, AbandonControl DEF OpenFails, Aborts
<1>4. CASE OpenFails /\ f # "dsc"
  <2>1. f = "dat"
    BY <1>2, <1>4 DEF File
  <2>2. todo' = SubSeq(todo, 3, Len(todo)) /\ at' = at /\ fp' = NoFile
    BY <1>4 DEF OpenFails
  <2>3. /\ todo \in Seq(CallSet) /\ Len(todo) \in Nat /\ Len(todo) > 0
        /\ todo' \in Seq(CallSet)
        /\ Len(todo') = IF Len(todo) >= 3 THEN Len(todo) - 2 ELSE 0
        /\ \A i \in 1 .. Len(todo') : todo'[i] = todo[i + 2]
    BY <2>2, <1>1 DEF Queue
  <2>4. ASSUME NEW i \in 1 .. Len(todo') PROVE CallOK(todo[i])'
    <3>1. CallOK(todo[i + 2]) /\ todo'[i] = todo[i + 2]
      BY <1>1, <2>3 DEF Queue
    <3>2. QED
      BY <3>1 DEF CallOK, Admits
  <2>5. ASSUME NEW i \in 1 .. Len(todo') - 1 PROVE Follows(todo[i], todo[i + 1])'
    <3>1. Follows(todo[i + 2], todo[i + 3]) /\ todo'[i] = todo[i + 2] /\ todo'[i + 1] = todo[i + 3]
      BY <1>1, <2>3 DEF Queue
    <3>2. QED
      BY <3>1 DEF Follows, Admits
  <2>6. ASSUME NEW i \in 1 .. Len(todo'), NEW j \in 1 .. Len(todo'), todo'[j].call = "report"
        PROVE  Matches(todo'[i], todo'[j]) /\ (todo'[i].call = "close" => j = i + 1)
    <3>1. /\ i + 2 \in 1 .. Len(todo) /\ j + 2 \in 1 .. Len(todo)
          /\ todo'[i] = todo[i + 2] /\ todo'[j] = todo[j + 2]
      BY <2>3
    <3>2. Matches(todo[i + 2], todo[j + 2]) /\ (todo[i + 2].call = "close" => j + 2 = i + 2 + 1)
      BY <3>1, <1>1, <2>6 DEF Queue
    <3>3. QED
      BY <3>1, <3>2
  <2>7. Queue'
    BY <2>3, <2>4, <2>5, <2>6 DEF Queue
  <2>8. Len(todo') > 0 => todo'[1].call = "write"
    <3>1. Len(todo') > 0 => Follows(todo[1], todo[2]) /\ Follows(todo[2], todo[3]) /\ todo'[1] = todo[3]
      BY <1>1, <2>3 DEF Queue
    <3>2. QED
      BY <3>1, <1>1, <2>1 DEF Follows
  <2>9. Turn' /\ Stage'
    BY <2>8, <2>2, <1>1 DEF Turn, Stage, Doing, NoFile, Idle
  <2>10. QED
    BY <2>7, <2>9 DEF Control
<1>5. CASE fp' = Opened(f, mem.entry[f]) /\ Returns
  <2>1. Queue' /\ (Len(todo') > 0 => todo'[1] = todo[2] /\ Follows(todo[1], todo[2]))
    BY <1>1, <1>5, TailQueue DEF Returns
  <2>2. fp'.open /\ fp'.file = f
    BY <1>5 DEF Opened, NoFile
  <2>3. Turn' /\ Stage'
    BY <2>1, <2>2, <1>1, <1>2, <1>5 DEF Turn, Stage, Doing, Follows, File, Returns, Idle
  <2>4. QED
    BY <2>1, <2>3 DEF Control
<1>6. QED
  BY <1>3, <1>4, <1>5 DEF Open

LEMMA ReadControl ==
    ASSUME Typed, Control, Read, cmd' = cmd, kept' = kept
    PROVE  Control'
<1>1. Queue /\ todo # << >> /\ todo[1].call = "read" /\ at = "start" /\ ~Idle
  BY NotIdle DEF Control, Read, Call
<1>2. CASE Aborts
  BY <1>1, <1>2, AbandonControl DEF Aborts
<1>3. CASE Returns
  <2>1. Queue' /\ (Len(todo') > 0 => todo'[1] = todo[2] /\ Follows(todo[1], todo[2]))
    BY <1>1, <1>3, TailQueue DEF Returns
  <2>2. Turn' /\ Stage'
    BY <2>1, <1>1, <1>3 DEF Turn, Stage, Doing, Follows, Returns, Idle
  <2>3. QED
    BY <2>1, <2>2 DEF Control
<1>4. QED
  BY <1>2, <1>3 DEF Read

\* No call returns.
LEMMA SameQueue ==
    ASSUME Queue, todo' = todo, kept' = kept
    PROVE  Queue'
<1>1. ASSUME NEW i PROVE CallOK(todo[i])' <=> CallOK(todo[i])
  BY DEF CallOK, Admits
<1>2. ASSUME NEW i PROVE Follows(todo[i], todo[i + 1])' <=> Follows(todo[i], todo[i + 1])
  BY DEF Follows, Admits
<1>3. QED
  BY <1>1, <1>2 DEF Queue

LEMMA TruncateControl ==
    ASSUME Typed, Control, Truncate, cmd' = cmd, kept' = kept
    PROVE  Control'
<1> DEFINE f == todo[1].file
<1>1. Queue /\ todo # << >> /\ todo[1].call = "truncate" /\ at = "start" /\ ~Idle
  BY NotIdle DEF Control, Truncate, Call
<1>2. f \in File /\ Len(todo) > 0
  BY <1>1, FirstCall, CallFields
<1>3. CASE Aborts
  BY <1>1, <1>3, AbandonControl DEF Aborts
<1>4. CASE /\ fp' = [NoFile EXCEPT !.file = f, !.clust = mem.entry[f].sclust]
           /\ IF mem.entry[f].sclust = 0 THEN GoesOn("reopen") ELSE GoesOn("free")
           /\ ChangeAfter(Directory, [mem EXCEPT !.entry[f] = [sclust |-> 0, size |-> 0]], TRUE)
  <2>1. todo' = todo /\ at' \in {"reopen", "free"} /\ (at' = "free" => mem.entry[f].sclust # 0)
    BY <1>4 DEF GoesOn
  <2>2. ~fp'.open /\ fp'.file = f /\ fp'.clust = mem.entry[f].sclust
    BY <1>4 DEF NoFile
  <2>3. mem'.entry[f].sclust = 0
    BY <1>4, <1>2 DEF ChangeAfter, Typed
  <2>4. Turn' /\ Stage'
    BY <2>1, <2>2, <2>3, <1>1, <1>2 DEF Turn, Stage, Doing, Idle
  <2>5. QED
    BY <2>1, <2>4, <1>1, SameQueue DEF Control
<1>5. QED
  BY <1>3, <1>4 DEF Truncate

LEMMA FreeClusterControl ==
    ASSUME Typed, Control, FreeCluster, cmd' = cmd, kept' = kept
    PROVE  Control'
<1>1. Queue /\ todo # << >> /\ Len(todo) > 0 /\ todo[1].call = "truncate" /\ at = "free" /\ ~Idle
  BY NotIdle, FirstCall DEF Control, FreeCluster, Call
<1>2. CASE Aborts
  BY <1>1, <1>2, AbandonControl DEF Aborts
<1>3. CASE /\ Change(FatSector(fp.clust), PutFat(fp.clust, Free))
           /\ fp' = [fp EXCEPT !.clust = mem.fat[fp.clust]]
           /\ IF mem.fat[fp.clust] \in Cluster THEN GoesOn("free") ELSE GoesOn("reopen")
  <2>1. todo' = todo /\ at' \in {"reopen", "free"} /\ (at' = "free" => mem.fat[fp.clust] \in Cluster)
    BY <1>3 DEF GoesOn
  <2>2. fp'.open = fp.open /\ fp'.file = fp.file /\ fp'.clust = mem.fat[fp.clust]
    BY <1>3 DEF Typed, FileObject
  <2>3. mem'.entry = mem.entry
    BY <1>3 DEF Change, ChangeAfter, PutFat, Typed
  <2>4. 0 \notin Cluster
    BY FatAssumption DEF Cluster
  <2>5. Turn' /\ Stage'
    BY <2>1, <2>2, <2>3, <2>4, <1>1 DEF Turn, Stage, Doing, Idle, Control
  <2>6. QED
    BY <2>1, <2>5, <1>1, SameQueue DEF Control
<1>4. QED
  BY <1>2, <1>3 DEF FreeCluster

LEMMA ReopenControl ==
    ASSUME Typed, Control, Reopen, cmd' = cmd, kept' = kept
    PROVE  Control'
<1>1. Queue /\ todo # << >> /\ Len(todo) > 0 /\ todo[1].call = "truncate" /\ at = "reopen" /\ ~Idle
  BY NotIdle, FirstCall DEF Control, Reopen, Call
<1>2. CASE Aborts
  BY <1>1, <1>2, AbandonControl DEF Aborts
<1>3. CASE /\ Look(Directory)
           /\ fp' = [Opened(fp.file, mem.entry[fp.file]) EXCEPT !.modified = TRUE]
           /\ Returns
  <2>1. Queue' /\ (Len(todo') > 0 => todo'[1] = todo[2] /\ Follows(todo[1], todo[2]))
    BY <1>1, <1>3, TailQueue DEF Returns
  <2>2. fp.file = todo[1].file /\ mem.entry[fp.file].sclust = 0
    BY <1>1 DEF Control, Stage
  <2>3. fp'.open /\ fp'.file = fp.file /\ fp'.fptr = 0 /\ fp'.sclust = mem.entry[fp.file].sclust
    BY <1>3 DEF Opened, NoFile
  <2>4. fp.file \in File /\ mem' = mem
    BY <1>3 DEF Typed, FileObject, Look, LookAfter
  <2>5. Turn' /\ Stage'
    BY <2>1, <2>2, <2>3, <2>4, <1>1, <1>3 DEF Turn, Stage, Doing, Follows, File, Returns, Idle
  <2>6. QED
    BY <2>1, <2>5 DEF Control
<1>4. QED
  BY <1>2, <1>3 DEF Reopen

\* A call goes on at another place with the same file.
LEMMA GoesOnControl ==
    ASSUME Control, Doing(Advancing \cup {"expand"}), fp.open,
           NEW where \in {"start", "grow", "data", "link"},
           GoesOn(where), where \in {"grow", "data"} => Doing(Advancing),
           fp'.open = fp.open, fp'.file = fp.file, mem'.entry = mem.entry,
           Doing({"expand"}) => fp'.fptr = fp.fptr /\ fp'.sclust = fp.sclust,
           cmd' = cmd, kept' = kept
    PROVE  Control'
<1>1. todo' = todo /\ at' = where
  BY DEF GoesOn
<1>2. Turn' /\ Stage'
  BY <1>1 DEF Turn, Stage, Doing, Idle, Control, Advancing
<1>3. QED
  BY <1>1, <1>2, SameQueue DEF Control

\* A call that moves or extends the file returns.
LEMMA ReturnControl ==
    ASSUME Control, todo # << >>, todo[1].call \in Advancing \cup {"expand"}, todo' = Tail(todo),
           at' = "start",
           fp'.open = fp.open, fp'.file = fp.file, cmd' = cmd, kept' = kept
    PROVE  Control'
<1>1. Queue' /\ (Len(todo') > 0 => todo'[1] = todo[2] /\ Follows(todo[1], todo[2])) /\ Len(todo) > 0 /\ ~Idle
  BY TailQueue, FirstCall, NotIdle DEF Control
<1>2. Turn' /\ Stage'
  BY <1>1 DEF Turn, Stage, Doing, Follows, Idle, Control, Advancing
<1>3. QED
  BY <1>1, <1>2 DEF Control

LEMMA FollowControl ==
    ASSUME Typed, Control, Follow, cmd' = cmd, kept' = kept
    PROVE  Control'
<1>1. Queue /\ todo # << >> /\ Doing(Advancing) /\ fp.open /\ ~Idle
  BY NotIdle, FirstCall DEF Control, Follow, Doing
<1>2. CASE Aborts
  BY <1>1, <1>2, AbandonControl DEF Aborts
<1>3. CASE fp' \in {fp, [fp EXCEPT !.clust = fp.sclust], [fp EXCEPT !.clust = mem.fat[fp.clust]]}
           /\ (GoesOn("grow") \/ GoesOn("data")) /\ mem' = mem
  <2>1. fp'.open = fp.open /\ fp'.file = fp.file /\ fp'.fptr = fp.fptr /\ fp'.sclust = fp.sclust
    BY <1>3 DEF Typed, FileObject
  <2>2. QED
    BY <2>1, <1>1, <1>3, GoesOnControl DEF Doing
<1>4. QED
  BY <1>2, <1>3 DEF Follow, Look, LookAfter

\* What a call settles at its end leaves the file open as it was.
LEMMA SettledSame ==
    ASSUME Typed
    PROVE  /\ Settled.open = fp.open /\ Settled.file = fp.file /\ Settled.sclust = fp.sclust
           /\ Settled.fptr = fp.fptr /\ Settled.clust = fp.clust /\ Settled.buf = fp.buf
           /\ Settled.new = fp.new /\ Settled.size \in {fp.size, fp.fptr} /\ Settled.size >= fp.size
           /\ Settled \in FileObject
<1>1. fp.size \in Nat /\ fp.fptr \in Nat /\ fp \in FileObject
  BY DEF Typed, FileObject
<1>2. CASE Settled = fp
  BY <1>1, <1>2
<1>3. CASE Settled = [fp EXCEPT !.size = IF @ > fp.fptr THEN @ ELSE fp.fptr, !.modified = TRUE]
  <2> DEFINE n == IF fp.size > fp.fptr THEN fp.size ELSE fp.fptr
  <2>1. n \in {fp.size, fp.fptr} /\ n >= fp.size /\ n \in Nat
    BY <1>1
  <2>2. Settled = [fp EXCEPT !.size = n, !.modified = TRUE]
    BY <1>3
  <2> HIDE DEF n
  <2>3. QED
    BY <1>1, <2>1, <2>2 DEF FileObject
<1>4. QED
  BY <1>2, <1>3 DEF Settled

LEMMA GrowControl ==
    ASSUME Typed, Control, Grow, cmd' = cmd, kept' = kept
    PROVE  Control'
<1>1. Queue /\ todo # << >> /\ Doing(Advancing) /\ fp.open /\ ~Idle /\ todo[1].call \in Advancing
  BY NotIdle, FirstCall DEF Control, Grow, Doing, Stage
<1>2. CASE Aborts
  BY <1>1, <1>2, AbandonControl DEF Aborts
<1>3. CASE fp' = Settled /\ ReturnsIncomplete
  BY <1>1, <1>3, SettledSame, ReturnControl DEF ReturnsIncomplete
<1>4. ASSUME NEW c \in Cluster, NEW around \in BOOLEAN,
             ChangeAfter(FatSector(c), PutFat(c, EOC), around),
             IF fp.fptr = 0
             THEN fp' = [fp EXCEPT !.sclust = c, !.clust = c] /\ GoesOn("data")
             ELSE fp' = [fp EXCEPT !.new = c] /\ GoesOn("link")
      PROVE  Control'
  <2>1. fp'.open = fp.open /\ fp'.file = fp.file /\ ~Doing({"expand"})
    BY <1>1, <1>4 DEF Typed, FileObject, Doing, Advancing
  <2>2. mem'.entry = mem.entry
    BY <1>4 DEF ChangeAfter, PutFat, Typed
  <2>3. QED
    BY <2>1, <2>2, <1>1, <1>4, GoesOnControl DEF Doing
<1>5. QED
  BY <1>2, <1>3, <1>4 DEF Grow

LEMMA LinkControl ==
    ASSUME Typed, Control, Link, cmd' = cmd, kept' = kept
    PROVE  Control'
<1>1. Queue /\ todo # << >> /\ Doing(Advancing) /\ fp.open /\ ~Idle /\ todo[1].call \in Advancing
  BY NotIdle, FirstCall DEF Control, Link, Doing, Stage
<1>2. CASE Aborts
  BY <1>1, <1>2, AbandonControl DEF Aborts
<1>3. CASE /\ Change(FatSector(fp.clust), PutFat(fp.clust, fp.new))
           /\ fp' = [fp EXCEPT !.clust = fp.new, !.new = 0] /\ GoesOn("data")
  <2>1. fp'.open = fp.open /\ fp'.file = fp.file /\ ~Doing({"expand"})
    BY <1>1, <1>3 DEF Typed, FileObject, Doing, Advancing
  <2>2. mem'.entry = mem.entry
    BY <1>3 DEF Change, ChangeAfter, PutFat, Typed
  <2>3. QED
    BY <2>1, <2>2, <1>1, <1>3, GoesOnControl DEF Doing
<1>4. QED
  BY <1>2, <1>3 DEF Link

LEMMA TransferControl ==
    ASSUME Typed, Control, Transfer, cmd' = cmd, kept' = kept
    PROVE  Control'
<1>1. Queue /\ todo # << >> /\ Doing(Advancing) /\ fp.open /\ ~Idle /\ todo[1].call \in Advancing
  BY NotIdle, FirstCall DEF Control, Transfer, Doing, Stage
<1>2. fp'.open = fp.open /\ fp'.file = fp.file /\ ~Doing({"expand"})
  <2>1. Advanced.open = fp.open /\ Advanced.file = fp.file
    BY DEF Typed, FileObject, Advanced
  <2>2. [Advanced EXCEPT !.buf = todo[1].value].open = fp.open /\ [Advanced EXCEPT !.buf = todo[1].value].file = fp.file
    BY DEF Typed, FileObject, Advanced
  <2>3. [fp EXCEPT !.fptr = @ + 1].open = fp.open /\ [fp EXCEPT !.fptr = @ + 1].file = fp.file
    BY DEF Typed, FileObject
  <2>4. ~Doing({"expand"})
    BY <1>1 DEF Doing, Advancing
  <2>5. QED
    BY <2>1, <2>2, <2>3, <2>4 DEF Transfer
<1>3. QED
  BY <1>1, <1>2, GoesOnControl DEF Doing, Transfer

LEMMA ArrivedControl ==
    ASSUME Typed, Control, Arrived, cmd' = cmd, kept' = kept
    PROVE  Control'
BY SettledSame, ReturnControl DEF Arrived, Returns

LEMMA GivesUpControl ==
    ASSUME Typed, Control, TransferError \/ NotOpen \/ Interrupt, cmd' = cmd, kept' = kept
    PROVE  Control'
BY NotIdle, AbandonControl DEF TransferError, NotOpen, Interrupt, Aborts, Call

LEMMA ExpandBeginControl ==
    ASSUME Typed, Control, ExpandBegin, cmd' = cmd, kept' = kept
    PROVE  Control'
<1>1. Queue /\ todo # << >> /\ Doing({"expand"}) /\ fp.open /\ ~Idle /\ todo[1].call = "expand"
  BY NotIdle, FirstCall DEF Control, ExpandBegin, Doing, Turn, Call
<1>2. CASE Aborts
  BY <1>1, <1>2, AbandonControl DEF Aborts
<1>3. ASSUME NEW c, fp' = [fp EXCEPT !.clust = c, !.new = c], GoesOn("link"), mem' = mem
      PROVE  Control'
  <2>1. fp'.open = fp.open /\ fp'.file = fp.file /\ fp'.fptr = fp.fptr /\ fp'.sclust = fp.sclust
    BY <1>3 DEF Typed, FileObject
  <2>2. QED
    BY <2>1, <1>1, <1>3, GoesOnControl DEF Doing
<1>4. QED
  BY <1>2, <1>3 DEF ExpandBegin, LookAfter

LEMMA ExpandLinkControl ==
    ASSUME Typed, Control, ExpandLink, cmd' = cmd, kept' = kept
    PROVE  Control'
<1>1. Queue /\ todo # << >> /\ Doing({"expand"}) /\ fp.open /\ ~Idle /\ todo[1].call = "expand"
  BY NotIdle, FirstCall DEF Control, ExpandLink, Doing, Turn, Call
<1>2. CASE Aborts
  BY <1>1, <1>2, AbandonControl DEF Aborts
<1>3. CASE Returns /\ fp' = [fp EXCEPT !.sclust = fp.new, !.new = 0, !.size = todo[1].end, !.modified = TRUE]
  <2>1. fp'.open = fp.open /\ fp'.file = fp.file
    BY <1>3 DEF Typed, FileObject
  <2>2. QED
    BY <2>1, <1>1, <1>3, ReturnControl DEF Returns
<1>4. ASSUME NEW v, Change(FatSector(fp.clust), PutFat(fp.clust, v)),
             fp' = [fp EXCEPT !.clust = @ + 1], GoesOn("link")
      PROVE  Control'
  <2>1. fp'.open = fp.open /\ fp'.file = fp.file /\ fp'.fptr = fp.fptr /\ fp'.sclust = fp.sclust
    BY <1>4 DEF Typed, FileObject
  <2>2. mem'.entry = mem.entry
    BY <1>4 DEF Change, ChangeAfter, PutFat, Typed
  <2>3. QED
    BY <2>1, <2>2, <1>1, <1>4, GoesOnControl DEF Doing
<1>5. QED
  BY <1>2, <1>3, <1>4 DEF ExpandLink

\* f_close returns, or goes on.
LEMMA CloseControl ==
    ASSUME Typed, Control, Close, cmd' = cmd, kept' = kept
    PROVE  Control'
<1>1. Queue /\ todo # << >> /\ Len(todo) > 0 /\ ~Idle /\ todo[1].call = "close" /\ at \in {"start", "flush"}
  BY NotIdle, FirstCall
     DEF Control, Close, CloseBuffer, CloseEntry, CloseFlush, CloseUnchanged, Call
<1>2. CASE todo' = Tail(todo) /\ at' = "start"
  <2>1. Queue' /\ (Len(todo') > 0 => todo'[1] = todo[2] /\ Follows(todo[1], todo[2]))
    BY <1>1, <1>2, TailQueue
  <2>2. Turn' /\ Stage'
    BY <2>1, <1>1, <1>2 DEF Turn, Stage, Doing, Follows, Idle
  <2>3. QED
    BY <2>1, <2>2 DEF Control
<1>3. CASE todo' = todo /\ at' = "start"
  <2>1. Turn' /\ Stage'
    BY <1>1, <1>3 DEF Turn, Stage, Doing, Idle
  <2>2. QED
    BY <2>1, <1>1, <1>3, SameQueue DEF Control
<1>4. CASE todo' = todo /\ at' = "flush" /\ fp' = fp /\ fp.open
  <2>1. Turn' /\ Stage'
    BY <1>1, <1>4 DEF Turn, Stage, Doing, Idle
  <2>2. QED
    BY <2>1, <1>1, <1>4, SameQueue DEF Control
<1>5. QED
  BY <1>2, <1>3, <1>4
     DEF Close, CloseBuffer, CloseEntry, CloseFlush, CloseUnchanged, Returns, ReturnsIncomplete,
         GoesOn

\* Before a command FatFs has nothing to do.
LEMMA IdleStart ==
    ASSUME Typed, Control, Len(todo) = 0
    PROVE  at = "start"
BY DEF Typed, Control, Stage, Doing

\* A queue of calls that is new.
LEMMA NewQueue ==
    ASSUME Queue', at' = "start", cmd' # "none" \/ Len(todo') = 0,
           Len(todo') > 0 => todo'[1].call \in {"open", "read", "truncate"}
    PROVE  Control'
BY DEF Control, Turn, Stage, Doing, Idle

\* The calls that look for the image and the descriptor.
LEMMA CheckQueue ==
    ASSUME todo' = CheckLunImage
    PROVE  Queue' /\ todo'[1].call = "read" /\ Len(todo') = 2
<1>1. /\ [call |-> "read", file |-> "dat"] \in CallSet
      /\ [call |-> "inspect", file |-> "dsc"] \in CallSet
  BY DEF CallSet, File
<1>2. /\ todo' \in Seq(CallSet) /\ Len(todo') = 2
      /\ todo'[1] = [call |-> "read", file |-> "dat"] /\ todo'[2] = [call |-> "inspect", file |-> "dsc"]
  BY <1>1 DEF CheckLunImage
<1>3. QED
  BY <1>2 DEF Queue, CallOK, Follows

\* One lemma per command of the host.
LEMMA WriteControl ==
    ASSUME Typed, TypeOK, Control, Write
    PROVE  Control'
<1>0. PICK p \in Blocks, v \in Written : \E n \in 1 .. MaxSize - p :
        /\ Begin("WRITE",
                 << [call |-> "open", file |-> "dat"], [call |-> "seek", end |-> p],
                    [call |-> "write", end |-> p + n, value |-> v], [call |-> "close"],
                    Report("dat", p, n, v) >>)
        /\ kept' = MayHold("dat", p, n, v)
  BY DEF Write
<1>1. PICK n \in 1 .. MaxSize - p :
        /\ Begin("WRITE",
                 << [call |-> "open", file |-> "dat"], [call |-> "seek", end |-> p],
                    [call |-> "write", end |-> p + n, value |-> v], [call |-> "close"],
                    Report("dat", p, n, v) >>)
        /\ kept' = MayHold("dat", p, n, v)
  BY <1>0
<1>2. p \in Nat /\ n \in Nat /\ p + n \in Nat /\ v \in Value
  BY CardAssumption DEF Blocks
<1>3. /\ [call |-> "open", file |-> "dat"] \in CallSet
      /\ [call |-> "seek", end |-> p] \in CallSet
      /\ [call |-> "write", end |-> p + n, value |-> v] \in CallSet
      /\ [call |-> "close"] \in CallSet
      /\ Report("dat", p, n, v) \in CallSet
  BY <1>2 DEF CallSet, File, Report
<1>4. /\ todo' \in Seq(CallSet) /\ Len(todo') = 5
      /\ todo'[1] = [call |-> "open", file |-> "dat"] /\ todo'[2] = [call |-> "seek", end |-> p]
      /\ todo'[3] = [call |-> "write", end |-> p + n, value |-> v] /\ todo'[4] = [call |-> "close"]
      /\ todo'[5] = Report("dat", p, n, v)
  BY <1>1, <1>3 DEF Begin
<1>5. \A x \in Blocks : p <= x /\ x < p + n => Admits("dat", x, v)'
  <2> SUFFICES ASSUME NEW x \in Blocks, p <= x /\ x < p + n PROVE Admits("dat", x, v)'
    OBVIOUS
  <2>1. x \in p .. p + n - 1
    BY <1>2, CardAssumption DEF Blocks
  <2>2. kept'["dat"][x] = IF kept["dat"][x] # {} THEN kept["dat"][x] \cup {v} ELSE kept["dat"][x]
    BY <1>1, <2>1 DEF MayHold, TypeOK, File
  <2>3. QED
    BY <2>2 DEF Admits
<1>6. \A i \in 1 .. 5 : CallOK(todo[i])'
  BY <1>4 DEF CallOK, Report
<1>7. \A i \in 1 .. 4 : Follows(todo[i], todo[i + 1])'
  BY <1>4, <1>5 DEF Follows, Report
<1>8. \A i, j \in 1 .. 5 : todo'[j].call = "report" =>
          Matches(todo'[i], todo'[j]) /\ (todo'[i].call = "close" => j = i + 1)
  BY <1>4 DEF Matches, Report
<1>9. Queue'
  BY <1>4, <1>6, <1>7, <1>8 DEF Queue
<1>10. QED
  BY <1>1, <1>4, <1>9, NewQueue, IdleStart DEF Begin, Idle, Control, Stage

LEMMA FormatControl ==
    ASSUME Typed, TypeOK, Control, Format
    PROVE  Control'
<1> DEFINE ahead == IF started THEN << >> ELSE << [call |-> "read", file |-> "dat"] >>
           calls(n) == << [call |-> "read", file |-> "dsc"], [call |-> "truncate", file |-> "dat"],
                          [call |-> "expand", end |-> n], [call |-> "close"] >>
<1>1. PICK n \in 0 .. MaxSize : Begin("FORMAT", ahead \o calls(n))
  BY DEF Format
<1>2. /\ [call |-> "read", file |-> "dsc"] \in CallSet /\ [call |-> "read", file |-> "dat"] \in CallSet
      /\ [call |-> "truncate", file |-> "dat"] \in CallSet
      /\ [call |-> "expand", end |-> n] \in CallSet
      /\ [call |-> "close"] \in CallSet
  BY CardAssumption DEF CallSet, File
<1>3. \A x \in Blocks : kept'["dat"][x] = {}
  BY DEF Format, TypeOK, Unwritten, File
<1>4. CASE started
  <2>1. /\ todo' \in Seq(CallSet) /\ Len(todo') = 4
        /\ todo'[1] = [call |-> "read", file |-> "dsc"] /\ todo'[2] = [call |-> "truncate", file |-> "dat"]
        /\ todo'[3] = [call |-> "expand", end |-> n] /\ todo'[4] = [call |-> "close"]
    BY <1>1, <1>2, <1>4 DEF Begin
  <2>2. Queue'
    BY <2>1, <1>3 DEF Queue, CallOK, Follows
  <2>3. QED
    BY <1>1, <2>1, <2>2, NewQueue, IdleStart DEF Begin, Idle, Control, Stage
<1>5. CASE ~started
  <2>1. /\ todo' \in Seq(CallSet) /\ Len(todo') = 5
        /\ todo'[1] = [call |-> "read", file |-> "dat"]
        /\ todo'[2] = [call |-> "read", file |-> "dsc"] /\ todo'[3] = [call |-> "truncate", file |-> "dat"]
        /\ todo'[4] = [call |-> "expand", end |-> n] /\ todo'[5] = [call |-> "close"]
    BY <1>1, <1>2, <1>5 DEF Begin
  <2>2. Queue'
    BY <2>1, <1>3 DEF Queue, CallOK, Follows
  <2>3. QED
    BY <1>1, <2>1, <2>2, NewQueue, IdleStart DEF Begin, Idle, Control, Stage
<1>6. QED
  BY <1>4, <1>5

LEMMA ModeSelectControl ==
    ASSUME Typed, TypeOK, Control, ModeSelect
    PROVE  Control'
<1> DEFINE ahead == IF started THEN << >> ELSE << [call |-> "read", file |-> "dsc"] >>
           calls(v) == << [call |-> "open", file |-> "dsc"], [call |-> "put", end |-> 1, value |-> v],
                          [call |-> "close"], Report("dsc", 0, 1, v) >>
<1>1. PICK v \in Written : Begin("MODESELECT", ahead \o calls(v)) /\ kept' = MayHold("dsc", 0, 1, v)
  BY DEF ModeSelect
<1>2. /\ [call |-> "read", file |-> "dsc"] \in CallSet /\ [call |-> "open", file |-> "dsc"] \in CallSet
      /\ [call |-> "put", end |-> 1, value |-> v] \in CallSet
      /\ [call |-> "close"] \in CallSet /\ Report("dsc", 0, 1, v) \in CallSet
  BY CardAssumption DEF CallSet, File, Report
<1>3. 0 \in Blocks => Admits("dsc", 0, v)'
  BY <1>1 DEF MayHold, TypeOK, Admits, File
<1>4. CASE started
  <2>1. /\ todo' \in Seq(CallSet) /\ Len(todo') = 4
        /\ todo'[1] = [call |-> "open", file |-> "dsc"] /\ todo'[2] = [call |-> "put", end |-> 1, value |-> v]
        /\ todo'[3] = [call |-> "close"] /\ todo'[4] = Report("dsc", 0, 1, v)
    BY <1>1, <1>2, <1>4 DEF Begin
  <2>2. \A i, j \in 1 .. 4 : todo'[j].call = "report" =>
          Matches(todo'[i], todo'[j]) /\ (todo'[i].call = "close" => j = i + 1)
    BY <2>1 DEF Matches, Report
  <2>3. Queue'
    BY <2>1, <2>2, <1>3 DEF Queue, CallOK, Follows, Report
  <2>4. QED
    BY <1>1, <2>1, <2>3, NewQueue, IdleStart DEF Begin, Idle, Control, Stage
<1>5. CASE ~started
  <2>1. /\ todo' \in Seq(CallSet) /\ Len(todo') = 5 /\ todo'[1] = [call |-> "read", file |-> "dsc"]
        /\ todo'[2] = [call |-> "open", file |-> "dsc"] /\ todo'[3] = [call |-> "put", end |-> 1, value |-> v]
        /\ todo'[4] = [call |-> "close"] /\ todo'[5] = Report("dsc", 0, 1, v)
    BY <1>1, <1>2, <1>5 DEF Begin
  <2>2. \A i, j \in 1 .. 5 : todo'[j].call = "report" =>
          Matches(todo'[i], todo'[j]) /\ (todo'[i].call = "close" => j = i + 1)
    BY <2>1 DEF Matches, Report
  <2>3. Queue'
    BY <2>1, <2>2, <1>3 DEF Queue, CallOK, Follows, Report
  <2>4. QED
    BY <1>1, <2>1, <2>3, NewQueue, IdleStart DEF Begin, Idle, Control, Stage
<1>6. QED
  BY <1>4, <1>5

LEMMA CheckControl ==
    ASSUME Typed, Control, Start \/ Reset \/ Restart \/ RemountAfterReset \/ PowerFail
    PROVE  Control'
<1>1. todo' = CheckLunImage /\ cmd' # "none"
  BY DEF Start, Reset, Restart, RemountAfterReset, PowerFail, Mount, Begin
<1>2. at' = "start"
  <2>1. CASE Start \/ Reset
    BY <2>1, IdleStart DEF Start, Reset, Begin, Control, Stage
  <2>2. CASE RemountAfterReset \/ PowerFail
    BY <2>2 DEF RemountAfterReset, PowerFail, Mount, Remount
  <2>3. CASE Restart
    BY <2>3, IdleStart DEF Restart, Over, Call
  <2>4. QED
    BY <2>1, <2>2, <2>3
<1>3. QED
  BY <1>1, <1>2, CheckQueue, NewQueue

LEMMA FinishControl ==
    ASSUME Typed, Control, Finish
    PROVE  Control'
<1>1. todo' = << >> /\ at' = "start"
  BY IdleStart DEF Finish, Over, Call
<1>2. Queue' /\ Len(todo') = 0
  BY <1>1 DEF Queue
<1>3. QED
  BY <1>1, <1>2, NewQueue

LEMMA InspectControl ==
    ASSUME Typed, TypeOK, Control, Inspect
    PROVE  Control'
<1>1. Queue /\ todo # << >> /\ todo[1].call = "inspect" /\ at = "start" /\ ~Idle
  BY NotIdle DEF Control, Inspect, Call
<1>2. CASE Returns /\ UNCHANGED <<cmd, kept>>
  <2>1. Queue' /\ (Len(todo') > 0 => todo'[1] = todo[2] /\ Follows(todo[1], todo[2]))
    BY <1>1, <1>2, TailQueue DEF Returns
  <2>2. Turn' /\ Stage'
    BY <2>1, <1>1, <1>2 DEF Turn, Stage, Doing, Follows, Returns, Idle
  <2>3. QED
    BY <2>1, <2>2 DEF Control
<1>3. CASE /\ cmd' = IF cmd = "START" THEN "CREATE" ELSE "RECREATE"
           /\ todo' = << [call |-> "truncate", file |-> "dsc"], [call |-> "put", end |-> 1, value |-> 0],
                         [call |-> "close"] >>
           /\ kept' = [kept EXCEPT !["dsc"] = Unwritten]
           /\ UNCHANGED <<at, failed>>
  <2>1. /\ [call |-> "truncate", file |-> "dsc"] \in CallSet /\ [call |-> "put", end |-> 1, value |-> 0] \in CallSet
        /\ [call |-> "close"] \in CallSet
    BY FatAssumption DEF CallSet, File, Value
  <2>2. /\ todo' \in Seq(CallSet) /\ Len(todo') = 3 /\ todo'[1] = [call |-> "truncate", file |-> "dsc"]
        /\ todo'[2] = [call |-> "put", end |-> 1, value |-> 0] /\ todo'[3] = [call |-> "close"]
    BY <1>3, <2>1
  <2>3. \A x \in Blocks : kept'["dsc"][x] = {}
    BY <1>3 DEF TypeOK, Unwritten, File
  <2>4. Queue'
    BY <2>2, <2>3 DEF Queue, CallOK, Admits, Follows
  <2>5. QED
    BY <2>2, <2>4, <1>1, <1>3, NewQueue
<1>4. QED
  BY <1>2, <1>3 DEF Inspect

\* Control is kept by every step of FatFs, and by every step.
LEMMA FatStepControl ==
    ASSUME Typed, Control, FatStep, cmd' = cmd, kept' = kept
    PROVE  Control'
BY OpenControl, ReadControl, TruncateControl, FreeClusterControl, ReopenControl, FollowControl,
   GrowControl, LinkControl,
   TransferControl, ArrivedControl, GivesUpControl, ExpandBeginControl, ExpandLinkControl, CloseControl DEF FatStep

LEMMA NextControl ==
    ASSUME Typed, TypeOK, Control, [Next]_vars
    PROVE  Control'
<1>1. CASE UNCHANGED vars
  <2>1. Queue'
    BY <1>1, SameQueue DEF Control, vars, fatVars
  <2>2. QED
    BY <2>1, <1>1 DEF vars, fatVars, Control, Turn, Stage, Doing, Idle
<1>2. QED
  BY <1>1, FatStepControl, InspectControl, GivesUpControl, CheckControl, FinishControl,
     WriteControl, FormatControl,
     ModeSelectControl DEF Next, Firmware, Host, Interrupt

-----------------------------------------------------------------------------
(* The chains in memory, and what each step makes of them.                 *)

\* The first cluster of the chain of a file as it is worked on.
First(f) ==
    IF f # fp.file \/ (~fp.open /\ at # "free") THEN mem.entry[f].sclust
    ELSE IF fp.open THEN fp.sclust ELSE fp.clust
Firsts == [f \in File |-> First(f)]
Entries == [f \in File |-> mem.entry[f].sclust]

\* The chains in memory are c: those of the directory, and that of the file that is open or emptied.
MemChains(c) ==
    /\ ChainsOf(mem.fat, Firsts, c)
    /\ \A f \in File :
          IF mem.entry[f].sclust = 0 THEN mem.entry[f].size = 0
          ELSE mem.entry[f].sclust = First(f) /\ mem.entry[f].size <= Len(c[f])

\* Where the file object is in its chain.
Position(c) ==
    /\ fp.open => fp.size <= Len(c[fp.file]) /\ fp.fptr <= Len(c[fp.file])
    /\ at = "data" => fp.fptr < Len(c[fp.file]) /\ fp.clust = c[fp.file][fp.fptr + 1]
    /\ at = "grow" => fp.fptr = Len(c[fp.file]) /\ (fp.fptr > 0 => fp.clust = c[fp.file][fp.fptr])
    /\ at = "link" /\ Doing(Advancing) =>
         /\ fp.fptr = Len(c[fp.file]) /\ fp.fptr > 0 /\ fp.clust = c[fp.file][fp.fptr]
         /\ fp.new \in Cluster /\ mem.fat[fp.new] = EOC /\ Apart(fp.new, c)
    /\ at = "start" /\ fp.open /\ fp.fptr > 0 /\ Doing(Advancing) => fp.clust = c[fp.file][fp.fptr]
    /\ fp.buf # Nothing =>
         /\ fp.open /\ at = "start" /\ fp.fptr = 1 /\ fp.clust = c[fp.file][1]
         /\ ~Doing({"seek", "write"})
    /\ Doing({"put"}) => fp.fptr = 0 \/ fp.buf = todo[1].value

\* The block f_expand has found: linked up to fp.clust, free from there on.
Block(c) ==
    at = "link" /\ Doing({"expand"}) =>
        /\ fp.new \in Cluster /\ fp.new <= fp.clust /\ fp.clust <= fp.new + todo[1].end - 1
        /\ \A x \in Cluster :
              /\ fp.new <= x /\ x < fp.clust => mem.fat[x] = x + 1 /\ Apart(x, c)
              /\ fp.clust <= x /\ x <= fp.new + todo[1].end - 1 => mem.fat[x] = Free

\* The files in memory.
Files(c) == MemChains(c) /\ Position(c) /\ Block(c)

\* The chains of the directory.
Entered(c) == [f \in File |-> IF mem.entry[f].sclust = 0 THEN << >> ELSE c[f]]

\* The types the lemmas on the chains need.
LEMMA Types ==
    ASSUME TypeOK
    PROVE  /\ Typed
           /\ mem.fat \in [Cluster -> 0 .. EOC]
           /\ mem.entry \in [File -> [sclust : {0} \cup Cluster, size : Nat]]
           /\ mem = [fat |-> mem.fat, entry |-> mem.entry]
BY DEF TypeOK, FatTypeOK, Tables, Typed, FileObject

\* The chains of the directory are chains that do not meet and cover the files.
LEMMA EnteredChains ==
    ASSUME TypeOK, NEW c, MemChains(c)
    PROVE  /\ ChainsOf(mem.fat, Entries, Entered(c))
           /\ \A f \in File : mem.entry[f].size <= Len(Entered(c)[f])
<1>1. \A f \in File : Entries[f] = 0 \/ Entries[f] = Firsts[f]
  BY DEF MemChains, Entries, Firsts
<1>2. Entered(c) = [f \in File |-> IF Entries[f] = 0 THEN << >> ELSE c[f]]
  BY DEF Entered, Entries
<1>3. ChainsOf(mem.fat, Entries, Entered(c))
  BY <1>1, <1>2, ForgetChain DEF MemChains
<1>4. ASSUME NEW f \in File PROVE mem.entry[f].size <= Len(Entered(c)[f])
  <2>1. CASE mem.entry[f].sclust = 0
    BY <2>1 DEF MemChains, Entered
  <2>2. CASE mem.entry[f].sclust # 0
    BY <2>2 DEF MemChains, Entered
  <2>3. QED
    BY <2>1, <2>2
<1>5. QED
  BY <1>3, <1>4

\* The file object is let go of, or a file is opened anew.
LEMMA Forgotten ==
    ASSUME TypeOK, NEW c, Files(c), mem' = mem, at' = "start", fp'.buf = Nothing,
           fp'.fptr = 0, fp'.file \in File,
           fp'.open => fp'.sclust = mem.entry[fp'.file].sclust /\ fp'.size = mem.entry[fp'.file].size
    PROVE  \E e : e = Entered(c) /\ Files(e)'
<1>1. PICK e : e = Entered(c)
  OBVIOUS
<1>2. ChainsOf(mem.fat, Entries, e) /\ \A f \in File : mem.entry[f].size <= Len(e[f])
  BY <1>1, EnteredChains DEF Files
<1>3. \A f \in File : First(f)' = mem.entry[f].sclust
  BY DEF First
<1>4. Firsts' = Entries
  BY <1>3 DEF Firsts, Entries
<1>5. MemChains(e)'
  <2>1. \A f \in File : mem.entry[f].sclust = 0 => mem.entry[f].size = 0
    BY DEF Files, MemChains
  <2>2. QED
    BY <1>2, <1>3, <1>4, <2>1 DEF MemChains
<1>6. Position(e)'
  <2>1. Len(e[fp'.file]) \in Nat
    BY <1>2 DEF ChainsOf
  <2>2. QED
    BY <1>2, <2>1 DEF Position
<1>7. Block(e)'
  BY DEF Block
<1>8. QED
  BY <1>1, <1>5, <1>6, <1>7 DEF Files

LEMMA NoFileForgotten ==
    ASSUME TypeOK, NEW c, Files(c), mem' = mem, at' = "start", fp' = NoFile
    PROVE  \E e : e = Entered(c) /\ Files(e)'
BY Forgotten DEF NoFile, File

\* One lemma per action of FatFs follows: the chains after it.
LEMMA OpenFiles ==
    ASSUME TypeOK, Control, NEW c, Files(c), Open
    PROVE  \E e : e = Entered(c) /\ Files(e)'
<1> DEFINE f == todo[1].file
<1>1. f \in File /\ at = "start"
  BY FirstCall, CallFields DEF Control, Open, Call
<1>2. mem' = mem
  BY DEF Open, Find, FindError, LookAfter, WindowErrorAfter
<1>3. CASE OpenFails
  BY <1>1, <1>2, <1>3, NoFileForgotten DEF OpenFails, Aborts, Abandons
<1>4. CASE fp' = Opened(f, mem.entry[f]) /\ Returns
  <2>1. /\ fp'.buf = Nothing /\ fp'.fptr = 0 /\ fp'.file = f
        /\ fp'.sclust = mem.entry[f].sclust /\ fp'.size = mem.entry[f].size
    BY <1>4 DEF Opened, NoFile
  <2>2. QED
    BY <2>1, <1>1, <1>2, <1>4, Forgotten DEF Returns
<1>5. QED
  BY <1>3, <1>4 DEF Open

LEMMA ReadFiles ==
    ASSUME TypeOK, Control, NEW c, Files(c), Read
    PROVE  \E e : e = Entered(c) /\ Files(e)'
<1>1. mem' = mem /\ at' = "start" /\ fp' = NoFile
  BY DEF Read, Find, FindError, LookAfter, WindowErrorAfter, Aborts, Abandons, Returns
<1>2. QED
  BY <1>1, NoFileForgotten

LEMMA InspectFiles ==
    ASSUME TypeOK, Control, NEW c, Files(c), Inspect
    PROVE  \E e : e = Entered(c) /\ Files(e)'
<1>1. mem' = mem /\ at' = "start" /\ fp' = NoFile
  BY DEF Inspect, Call, Find, FindError, LookAfter, WindowErrorAfter, Returns
<1>2. QED
  BY <1>1, NoFileForgotten

LEMMA LetGoFiles ==
    ASSUME TypeOK, Control, NEW c, Files(c), Restart \/ Finish
    PROVE  \E e : e = Entered(c) /\ Files(e)'
<1>1. at = "start"
  BY IdleStart, Types DEF Restart, Finish, Over, Call
<1>2. mem' = mem /\ at' = "start" /\ fp' = NoFile
  BY <1>1 DEF Restart, Finish
<1>3. QED
  BY <1>2, NoFileForgotten

LEMMA TruncateFiles ==
    ASSUME TypeOK, Control, NEW c, Files(c), Truncate
    PROVE  \E e : e = Entered(c) /\ Files(e)'
<1> DEFINE f == todo[1].file
<1>1. f \in File /\ at = "start"
  BY FirstCall, CallFields DEF Control, Truncate, Call
<1>2. CASE Aborts
  <2>1. mem' = mem /\ at' = "start" /\ fp' = NoFile
    BY <1>2, <1>1
       DEF Truncate, Aborts, Abandons, Find, FindError, LookAfter, WindowErrorAfter, GoesOn
  <2>2. QED
    BY <2>1, NoFileForgotten
<1>3. CASE /\ fp' = [NoFile EXCEPT !.file = f, !.clust = mem.entry[f].sclust]
           /\ IF mem.entry[f].sclust = 0 THEN GoesOn("reopen") ELSE GoesOn("free")
           /\ ChangeAfter(Directory, [mem EXCEPT !.entry[f] = [sclust |-> 0, size |-> 0]], TRUE)
  <2>1. PICK e : e = Entered(c)
    OBVIOUS
  <2>2. ChainsOf(mem.fat, Entries, e) /\ \A g \in File : mem.entry[g].size <= Len(e[g])
    BY <2>1, EnteredChains DEF Files
  <2>3. mem'.fat = mem.fat /\ mem'.entry = [mem.entry EXCEPT ![f] = [sclust |-> 0, size |-> 0]]
    BY <1>3, Types DEF ChangeAfter
  <2>4. /\ mem'.entry[f].sclust = 0 /\ mem'.entry[f].size = 0
        /\ \A g \in File : g # f => mem'.entry[g] = mem.entry[g]
    BY <2>3, <1>1, Types
  <2>5. fp'.file = f /\ ~fp'.open /\ fp'.clust = mem.entry[f].sclust /\ fp'.buf = Nothing /\ fp'.fptr = 0
    BY <1>3 DEF NoFile
  <2>6. at' = IF mem.entry[f].sclust = 0 THEN "reopen" ELSE "free"
    BY <1>3 DEF GoesOn
  <2>7. \A g \in File : First(g)' = mem.entry[g].sclust
    BY <2>4, <2>5, <2>6, <1>1 DEF First
  <2>8. Firsts' = Entries
    BY <2>7 DEF Firsts, Entries
  <2>9. MemChains(e)'
    <3>1. \A g \in File : mem.entry[g].sclust = 0 => mem.entry[g].size = 0
      BY DEF Files, MemChains
    <3>2. QED
      BY <2>2, <2>3, <2>4, <2>7, <2>8, <3>1 DEF MemChains
  <2>10. Position(e)' /\ Block(e)'
    BY <2>5, <2>6 DEF Position, Block
  <2>11. QED
    BY <2>1, <2>9, <2>10 DEF Files
<1>4. QED
  BY <1>2, <1>3 DEF Truncate

\* The chains stay what they are while the file object keeps its chain.
LEMMA SameChains ==
    ASSUME NEW c, MemChains(c), mem' = mem, at # "free", at' # "free",
           fp'.file = fp.file, fp'.open = fp.open, fp'.sclust = fp.sclust
    PROVE  MemChains(c)' /\ Firsts' = Firsts
<1>1. \A f \in File : First(f)' = First(f)
  BY DEF First
<1>2. Firsts' = Firsts
  BY <1>1 DEF Firsts
<1>3. QED
  BY <1>1, <1>2 DEF MemChains

\* After an error the files are closed and nothing else is called.
LEMMA ClosesOnly ==
    ASSUME NEW what, Abandons(what)
    PROVE  ~Doing(Advancing)' /\ ~Doing({"seek", "write"})' /\ ~Doing({"expand"})' /\ ~Doing({"put"})' /\ ~Doing({"report"})' /\ at' = "start"
<1>1. PICK n \in {1, 2} : todo' = [i \in 1 .. n |-> [call |-> "close"]]
  BY DEF Abandons
<1>2. todo'[1].call = "close"
  BY <1>1, CloseQueue
<1>3. QED
  BY <1>2 DEF Doing, Advancing, Abandons

LEMMA AbandonFiles ==
    ASSUME TypeOK, NEW c, Files(c), mem' = mem, NEW what, Abandons(what), at # "free",
           fp' \in {fp, [fp EXCEPT !.new = 0]}
    PROVE  Files(c)'
<1>1. /\ fp'.file = fp.file /\ fp'.open = fp.open /\ fp'.sclust = fp.sclust /\ fp'.fptr = fp.fptr
      /\ fp'.size = fp.size /\ fp'.buf = fp.buf /\ fp'.clust = fp.clust
  BY Types DEF Typed, FileObject
<1>2. MemChains(c)'
  BY <1>1, ClosesOnly, SameChains DEF Files
<1>3. Position(c)'
  BY <1>1, ClosesOnly DEF Files, Position
<1>4. Block(c)'
  BY ClosesOnly DEF Block
<1>5. QED
  BY <1>2, <1>3, <1>4 DEF Files

LEMMA GivesUpFiles ==
    ASSUME TypeOK, Control, NEW c, Files(c), TransferError \/ NotOpen \/ Interrupt
    PROVE  Files(c)'
BY AbandonFiles DEF TransferError, NotOpen, Interrupt, Aborts, Call

LEMMA ReopenFiles ==
    ASSUME TypeOK, Control, NEW c, Files(c), Reopen
    PROVE  \E e : e = Entered(c) /\ Files(e)'
<1>1. mem' = mem /\ at = "reopen" /\ fp.file \in File
  BY Types DEF Reopen, Look, LookAfter, WindowError, WindowErrorAfter, Call, Typed, FileObject
<1>2. CASE fp' = NoFile /\ Aborts
  BY <1>1, <1>2, NoFileForgotten DEF Aborts, Abandons
<1>3. CASE /\ fp' = [Opened(fp.file, mem.entry[fp.file]) EXCEPT !.modified = TRUE]
           /\ Returns
  <2>1. /\ fp'.buf = Nothing /\ fp'.fptr = 0 /\ fp'.file = fp.file
        /\ fp'.sclust = mem.entry[fp.file].sclust /\ fp'.size = mem.entry[fp.file].size
    BY <1>3 DEF Opened, NoFile
  <2>2. QED
    BY <2>1, <1>1, <1>3, Forgotten DEF Returns
<1>4. QED
  BY <1>2, <1>3 DEF Reopen

LEMMA FreeClusterFiles ==
    ASSUME TypeOK, Control, NEW c, Files(c), FreeCluster
    PROVE  \/ \E e : e = Entered(c) /\ Files(e)'
           \/ \E e : e = [c EXCEPT ![fp.file] = Tail(@)] /\ Files(e)'
<1>1. at = "free" /\ fp.file \in File /\ ~fp.open /\ mem.entry[fp.file].sclust = 0 /\ fp.clust # 0
  BY Types DEF FreeCluster, Call, Typed, FileObject, Control, Stage
<1>2. CASE fp' = NoFile /\ Aborts /\ mem' = mem
  BY <1>1, <1>2, NoFileForgotten DEF Aborts, Abandons
<1>3. CASE /\ Change(FatSector(fp.clust), PutFat(fp.clust, Free))
           /\ fp' = [fp EXCEPT !.clust = mem.fat[fp.clust]]
           /\ IF mem.fat[fp.clust] \in Cluster THEN GoesOn("free") ELSE GoesOn("reopen")
  <2>1. PICK e : e = [c EXCEPT ![fp.file] = Tail(@)]
    OBVIOUS
  <2>2. Firsts[fp.file] = fp.clust /\ fp.clust # 0 /\ ChainsOf(mem.fat, Firsts, c)
    BY <1>1 DEF Firsts, First, Files, MemChains
  <2>3. fp.clust \in Cluster /\ mem.fat[fp.clust] \in Cluster \cup {EOC} /\ c[fp.file] \in Seq(Cluster)
    <3>1. Linked(mem.fat, fp.clust, c[fp.file]) /\ c[fp.file] \in Seq(Cluster)
      BY <2>2, <1>1 DEF ChainsOf
    <3>2. Len(c[fp.file]) \in Nat /\ Len(c[fp.file]) # 0 /\ fp.clust = c[fp.file][1]
      BY <3>1, <2>2 DEF Linked
    <3>3. mem.fat[fp.clust] = Nth(c[fp.file], 2)
      BY <3>1, <3>2 DEF Linked
    <3>4. QED
      BY <3>1, <3>2, <3>3 DEF Nth
  <2>4. mem'.entry = mem.entry /\ mem'.fat = [mem.fat EXCEPT ![fp.clust] = 0]
    BY <1>3, Types DEF Change, ChangeAfter, PutFat, Free
  <2>5. fp'.clust = mem.fat[fp.clust] /\ fp'.file = fp.file /\ ~fp'.open /\ fp'.buf = fp.buf /\ fp'.fptr = fp.fptr
    BY <1>1, <1>3, Types DEF Typed, FileObject
  <2>6. at' = IF mem.fat[fp.clust] = EOC THEN "reopen" ELSE "free"
    <3>1. EOC \notin Cluster
      BY FatAssumption DEF EOC, Cluster
    <3>2. QED
      BY <3>1, <2>3, <1>3 DEF GoesOn
  <2>7. \A g \in File : First(g)' = IF g # fp.file THEN First(g)
                                    ELSE IF mem.fat[fp.clust] = EOC THEN 0 ELSE mem.fat[fp.clust]
    BY <1>1, <2>4, <2>5, <2>6 DEF First
  <2>8. /\ Firsts'[fp.file] = IF mem.fat[Firsts[fp.file]] = EOC THEN 0 ELSE mem.fat[Firsts[fp.file]]
        /\ \A g \in File : g # fp.file => Firsts'[g] = Firsts[g]
    <3>1. \A g \in File : Firsts'[g] = First(g)' /\ Firsts[g] = First(g)
      BY DEF Firsts
    <3>2. QED
      BY <3>1, <1>1, <2>2, <2>7
  <2>9. \A y \in Cluster : y # Firsts[fp.file] => mem'.fat[y] = mem.fat[y]
    BY <2>2, <2>4, Types
  <2>10. ChainsOf(mem'.fat, Firsts', e)
    <3>1. Firsts[fp.file] # 0
      BY <2>2
    <3>2. ASSUME NEW f \in File,
                 f = fp.file PROVE ChainsOf(mem'.fat, Firsts', [c EXCEPT ![f] = Tail(@)])
      <4>1. Firsts[f] # 0 /\ ChainsOf(mem.fat, Firsts, c)
        BY <3>1, <3>2, <2>2
      <4>2. Firsts'[f] = IF mem.fat[Firsts[f]] = EOC THEN 0 ELSE mem.fat[Firsts[f]]
        BY <3>2, <2>8
      <4>3. \A g \in File : g # f => Firsts'[g] = Firsts[g]
        BY <3>2, <2>8
      <4>4. \A y \in Cluster : y # Firsts[f] => mem'.fat[y] = mem.fat[y]
        BY <3>2, <2>9
      <4>5. QED
        BY <4>1, <4>2, <4>3, <4>4, DropHead
    <3>3. QED
      BY <3>2, <2>1, <1>1
  <2>11. MemChains(e)'
    <3>1. ASSUME NEW g \in File
          PROVE  IF mem.entry[g].sclust = 0 THEN mem.entry[g].size = 0
                 ELSE mem.entry[g].sclust = First(g)' /\ mem.entry[g].size <= Len(e[g])
      <4>1. c \in [File -> Seq(Cluster)]
        BY <2>2 DEF ChainsOf
      <4>2. g # fp.file => e[g] = c[g]
        BY <2>1, <4>1
      <4>3. IF mem.entry[g].sclust = 0 THEN mem.entry[g].size = 0
            ELSE mem.entry[g].sclust = First(g) /\ mem.entry[g].size <= Len(c[g])
        BY DEF Files, MemChains
      <4>4. QED
        BY <4>2, <4>3, <1>1, <2>7
    <3>2. QED
      BY <3>1, <2>4, <2>10 DEF MemChains
  <2>12. fp.buf = Nothing
    BY <1>1 DEF Files, Position
  <2>13. todo' = todo /\ Doing({"truncate"})
    BY <1>1, <1>3 DEF GoesOn, Control, Stage
  <2>14. Position(e)' /\ Block(e)'
    BY <1>1, <2>5, <2>6, <2>12, <2>13 DEF Position, Block, Doing
  <2>15. QED
    BY <2>1, <2>11, <2>14 DEF Files
<1>4. QED
  BY <1>2, <1>3 DEF FreeCluster, WindowError, WindowErrorAfter

LEMMA FollowFiles ==
    ASSUME TypeOK, Control, NEW c, Files(c), Follow
    PROVE  Files(c)'
<1>1. todo # << >> /\ Doing(Advancing) /\ todo[1].call \in Advancing /\ at = "start" /\ fp.open /\ fp.file \in File
  BY FirstCall, Types DEF Control, Follow, Doing, Typed, FileObject
<1>2. mem' = mem
  BY DEF Follow, Look, LookAfter, WindowError, WindowErrorAfter
<1>3. CASE Aborts /\ fp' = fp
  BY <1>1, <1>2, <1>3, AbandonFiles DEF Aborts
<1>4. c[fp.file] \in Seq(Cluster) /\ Linked(mem.fat, fp.sclust, c[fp.file]) /\ fp.fptr \in Nat /\ fp.fptr <= Len(c[fp.file])
  BY <1>1, Types DEF Files, MemChains, ChainsOf, Firsts, First, Position, Typed, FileObject
<1>5. fp.buf = Nothing \/ fp.fptr = 1
  BY DEF Files, Position
<1>6. ASSUME fp' = fp, GoesOn("grow"), fp.fptr = Len(c[fp.file]), fp.buf = Nothing,
             fp.fptr > 0 => fp.clust = c[fp.file][fp.fptr]
      PROVE  Files(c)'
  <2>1. MemChains(c)'
    BY <1>1, <1>2, <1>6, SameChains DEF Files, GoesOn
  <2>2. Position(c)' /\ Block(c)'
    BY <1>1, <1>2, <1>6 DEF Files, Position, Block, GoesOn, Doing
  <2>3. QED
    BY <2>1, <2>2 DEF Files
<1>7. ASSUME NEW n \in Cluster, fp' = [fp EXCEPT !.clust = n], GoesOn("data"),
             n = c[fp.file][fp.fptr + 1],
             fp.fptr < Len(c[fp.file]), fp.buf = Nothing
      PROVE  Files(c)'
  <2>1. /\ fp'.file = fp.file /\ fp'.open = fp.open /\ fp'.sclust = fp.sclust /\ fp'.fptr = fp.fptr
        /\ fp'.size = fp.size /\ fp'.buf = fp.buf /\ fp'.clust = n
    BY <1>7, Types DEF Typed, FileObject
  <2>2. MemChains(c)'
    BY <2>1, <1>1, <1>2, <1>7, SameChains DEF Files, GoesOn
  <2>3. Position(c)' /\ Block(c)'
    BY <2>1, <1>1, <1>2, <1>7 DEF Files, Position, Block, GoesOn, Doing
  <2>4. QED
    BY <2>2, <2>3 DEF Files
<1>8. fp.buf = Nothing
  <2>1. fp.buf # Nothing => fp.fptr = 1
    BY DEF Files, Position
  <2>2. fp.fptr < todo[1].end
    BY DEF Follow
  <2>3. todo[1].call = "put" => todo[1].end = 1
    BY <1>1, FirstCall, CallFields DEF Control
  <2>4. CASE todo[1].call = "put"
    BY <2>1, <2>2, <2>3, <2>4
  <2>5. CASE todo[1].call # "put"
    BY <2>5, <1>1 DEF Files, Position, Doing, Advancing
  <2>6. QED
    BY <2>4, <2>5
<1>9. CASE fp.fptr = 0
  <2>1. Len(c[fp.file]) \in Nat /\ (fp.sclust = 0 <=> Len(c[fp.file]) = 0) /\ (fp.sclust # 0 => fp.sclust = c[fp.file][1] /\ fp.sclust \in Cluster)
    BY <1>4, FatAssumption DEF Linked, Cluster
  <2>2. CASE fp.sclust = 0
    BY <2>1, <2>2, <1>3, <1>6, <1>8, <1>9 DEF Follow
  <2>3. CASE fp.sclust # 0
    BY <2>1, <2>3, <1>3, <1>7, <1>8, <1>9 DEF Follow
  <2>4. QED
    BY <2>2, <2>3
<1>10. CASE fp.fptr > 0
  <2>1. fp.clust = c[fp.file][fp.fptr] /\ fp.fptr \in 1 .. Len(c[fp.file])
    BY <1>1, <1>4, <1>10 DEF Files, Position
  <2>2. mem.fat[fp.clust] = Nth(c[fp.file], fp.fptr + 1)
    BY <2>1, <1>4 DEF Linked
  <2>3. CASE mem.fat[fp.clust] = EOC
    <3>1. fp.fptr = Len(c[fp.file])
      <4>1. EOC \notin Cluster
        BY FatAssumption DEF EOC, Cluster
      <4>2. QED
        BY <4>1, <2>1, <2>2, <2>3, <1>4 DEF Nth
    <3>2. QED
      BY <3>1, <2>1, <2>3, <1>3, <1>6, <1>8, <1>10 DEF Follow
  <2>4. CASE mem.fat[fp.clust] # EOC
    <3>1. fp.fptr < Len(c[fp.file]) /\ mem.fat[fp.clust] = c[fp.file][fp.fptr + 1] /\ mem.fat[fp.clust] \in Cluster
      BY <2>1, <2>2, <2>4, <1>4 DEF Nth
    <3>2. QED
      BY <3>1, <2>4, <1>3, <1>7, <1>8, <1>10 DEF Follow
  <2>5. QED
    BY <2>3, <2>4
<1>11. QED
  BY <1>4, <1>9, <1>10

\* What PutFat changes.
LEMMA PutFatFacts ==
    ASSUME TypeOK, NEW x \in Cluster, NEW v
    PROVE  /\ PutFat(x, v).entry = mem.entry
           /\ PutFat(x, v).fat[x] = v /\ \A y \in Cluster : y # x => PutFat(x, v).fat[y] = mem.fat[y]
BY Types DEF PutFat

\* f_lseek or f_write returns with the file as Settled makes it.
LEMMA SettledFiles ==
    ASSUME TypeOK, Control, NEW c, Files(c), mem' = mem, fp' = Settled, Doing(Advancing),
           todo # << >>,
           todo' = Tail(todo), kept' = kept, at' = "start", at \in {"start", "grow"}, fp.open
    PROVE  Files(c)'
<1>1. /\ fp'.file = fp.file /\ fp'.open = fp.open /\ fp'.sclust = fp.sclust /\ fp'.fptr = fp.fptr
      /\ fp'.size \in {fp.size, fp.fptr} /\ fp'.buf = fp.buf /\ fp'.clust = fp.clust
  BY Types, SettledSame
<1>2. MemChains(c)'
  BY <1>1, SameChains DEF Files
<1>3. /\ todo[1].call = "seek" /\ Doing({"seek", "write", "put"})' => Doing({"write"})'
      /\ todo[1].call \in {"write", "put"} => ~Doing({"seek", "write", "put"})'
      /\ ~Doing({"put"})'
  BY TailQueue DEF Control, Follows, Doing, Advancing
<1>4. fp.buf # Nothing => ~Doing({"seek", "write"})'
  BY <1>3 DEF Files, Position, Doing, Advancing
<1>5. Position(c)'
  BY <1>1, <1>3, <1>4 DEF Files, Position, Doing, Advancing
<1>6. Block(c)'
  BY DEF Block
<1>7. QED
  BY <1>2, <1>5, <1>6 DEF Files

LEMMA ArrivedFiles ==
    ASSUME TypeOK, Control, NEW c, Files(c), Arrived, kept' = kept
    PROVE  Files(c)'
BY SettledFiles, FirstCall DEF Arrived, Returns, Control, Doing

\* Every chain of c is the beginning of one of e.
Longer(c, e) == \A f \in File : \A i \in 1 .. Len(c[f]) : i <= Len(e[f]) /\ e[f][i] = c[f][i]

LEMMA GrowFiles ==
    ASSUME TypeOK, Control, NEW c, Files(c), Grow, kept' = kept
    PROVE  \E e : Longer(c, e) /\ Files(e)'
<1>1. todo # << >> /\ Doing(Advancing) /\ todo[1].call \in Advancing /\ at = "grow" /\ fp.open /\ fp.file \in File
  BY FirstCall, Types DEF Control, Stage, Grow, Doing, Typed, FileObject
<1>2. /\ c[fp.file] \in Seq(Cluster) /\ ChainsOf(mem.fat, Firsts, c) /\ Firsts[fp.file] = fp.sclust
      /\ c \in [File -> Seq(Cluster)]
  BY <1>1 DEF Files, MemChains, ChainsOf, Firsts, First
<1>3. /\ fp.fptr = Len(c[fp.file]) /\ fp.buf = Nothing /\ fp.size <= Len(c[fp.file]) /\ fp.fptr \in Nat
      /\ fp.fptr > 0 => fp.clust = c[fp.file][fp.fptr]
  BY <1>1, Types DEF Files, Position, Typed, FileObject
<1>4. Longer(c, c)
  BY <1>2 DEF Longer
<1>5. CASE Aborts /\ fp' = fp /\ mem' = mem
  <2>1. Files(c)'
    BY <1>1, <1>5, AbandonFiles DEF Aborts
  <2>2. QED
    BY <2>1, <1>4
<1>6. CASE fp' = Settled /\ ReturnsIncomplete /\ mem' = mem
  <2>1. Files(c)'
    BY <1>1, <1>6, SettledFiles DEF ReturnsIncomplete
  <2>2. QED
    BY <2>1, <1>4
<1>7. ASSUME NEW x \in Cluster, mem.fat[x] = Free, mem' = PutFat(x, EOC), fp.fptr = 0,
             fp' = [fp EXCEPT !.sclust = x, !.clust = x], GoesOn("data")
      PROVE  \E e : Longer(c, e) /\ Files(e)'
  <2>1. PICK e : e = [c EXCEPT ![fp.file] = <<x>>]
    OBVIOUS
  <2>2. /\ fp'.file = fp.file /\ fp'.open = fp.open /\ fp'.sclust = x /\ fp'.fptr = fp.fptr
        /\ fp'.size = fp.size /\ fp'.buf = fp.buf /\ fp'.clust = x
    BY <1>7, Types DEF Typed, FileObject
  <2>3. Apart(x, c)
    BY <1>2, <1>7, FreeIsApart
  <2>4. Len(c[fp.file]) = 0 /\ fp.sclust = 0
    BY <1>1, <1>2, <1>3, <1>7 DEF ChainsOf, Linked
  <2>5. mem'.entry = mem.entry /\ mem'.fat[x] = EOC /\ \A y \in Cluster : y # x => mem'.fat[y] = mem.fat[y]
    BY <1>7, PutFatFacts
  <2>6. \A g \in File : First(g)' = IF g = fp.file THEN x ELSE First(g)
    BY <1>1, <2>2, <2>5 DEF First
  <2>7. Firsts'[fp.file] = x /\ \A g \in File : g # fp.file => Firsts'[g] = Firsts[g]
    BY <2>6, <1>1 DEF Firsts
  <2>8. ChainsOf(mem'.fat, Firsts', e)
    <3>1. ASSUME NEW f \in File,
                 f = fp.file PROVE ChainsOf(mem'.fat, Firsts', [c EXCEPT ![f] = <<x>>])
      <4>1. Firsts[f] = 0
        BY <3>1, <2>4, <1>2
      <4>2. Firsts'[f] = x
        BY <3>1, <2>7
      <4>3. \A g \in File : g # f => Firsts'[g] = Firsts[g]
        BY <3>1, <2>7
      <4>4. mem'.fat[x] = EOC
        BY <2>5
      <4>5. \A y \in Cluster : y # x => mem'.fat[y] = mem.fat[y]
        BY <2>5
      <4>6. ChainsOf(mem.fat, Firsts, c)
        BY <1>2
      <4>7. QED
        BY <4>1, <4>2, <4>3, <4>4, <4>5, <4>6, <2>3, FirstCluster
    <3>2. QED
      BY <3>1, <2>1, <1>1
  <2>9. e[fp.file] = <<x>> /\ Len(e[fp.file]) = 1 /\ e[fp.file][1] = x /\ \A g \in File : g # fp.file => e[g] = c[g]
    BY <2>1, <1>1, <1>2
  <2>10. MemChains(e)'
    <3>1. ASSUME NEW g \in File
          PROVE  IF mem.entry[g].sclust = 0 THEN mem.entry[g].size = 0
                 ELSE mem.entry[g].sclust = First(g)' /\ mem.entry[g].size <= Len(e[g])
      <4>1. IF mem.entry[g].sclust = 0 THEN mem.entry[g].size = 0
            ELSE mem.entry[g].sclust = First(g) /\ mem.entry[g].size <= Len(c[g])
        BY DEF Files, MemChains
      <4>2. g = fp.file => mem.entry[g].sclust = 0
        BY <4>1, <2>4, <1>1 DEF First
      <4>3. QED
        BY <4>1, <4>2, <2>6, <2>9
    <3>2. QED
      BY <3>1, <2>5, <2>8 DEF MemChains
  <2>11. Position(e)'
    <3>1. at' = "data" /\ todo' = todo /\ fp'.fptr = 0 /\ fp'.buf = Nothing /\ fp'.size <= 0 /\ fp'.open
      BY <2>2, <2>4, <1>1, <1>3, <1>7 DEF GoesOn
    <3>2. 0 < Len(e[fp'.file]) /\ fp'.clust = e[fp'.file][0 + 1] /\ 0 <= Len(e[fp'.file])
      BY <2>2, <2>9
    <3>3. fp'.size <= Len(e[fp'.file])
      BY <3>1, <2>2, <2>9, Types DEF Typed, FileObject
    <3>4. QED
      BY <3>1, <3>2, <3>3 DEF Position
  <2>12. Block(e)'
    BY <1>7 DEF Block, GoesOn
  <2>13. Longer(c, e)
    BY <2>4, <2>9, <1>2 DEF Longer
  <2>14. QED
    BY <2>10, <2>11, <2>12, <2>13 DEF Files
<1>8. ASSUME NEW x \in Cluster, mem.fat[x] = Free, mem' = PutFat(x, EOC), fp.fptr # 0,
             fp' = [fp EXCEPT !.new = x], GoesOn("link")
      PROVE  \E e : Longer(c, e) /\ Files(e)'
  <2>1. /\ fp'.file = fp.file /\ fp'.open = fp.open /\ fp'.sclust = fp.sclust /\ fp'.fptr = fp.fptr
        /\ fp'.size = fp.size /\ fp'.buf = fp.buf /\ fp'.clust = fp.clust /\ fp'.new = x
    BY <1>8, Types DEF Typed, FileObject
  <2>2. Apart(x, c)
    BY <1>2, <1>8, FreeIsApart
  <2>3. mem'.entry = mem.entry /\ mem'.fat[x] = EOC /\ \A y \in Cluster : y # x => mem'.fat[y] = mem.fat[y]
    BY <1>8, PutFatFacts
  <2>4. \A g \in File : First(g)' = First(g)
    BY <1>1, <2>1, <2>3 DEF First
  <2>5. Firsts' = Firsts
    BY <2>4 DEF Firsts
  <2>6. ChainsOf(mem'.fat, Firsts', c)
    BY <1>2, <2>2, <2>3, <2>5, SetApart
  <2>7. MemChains(c)'
    BY <2>3, <2>4, <2>6 DEF Files, MemChains
  <2>8. Position(c)'
    <3>1. at' = "link" /\ todo' = todo /\ fp'.buf = Nothing
      BY <2>1, <1>3, <1>8 DEF GoesOn
    <3>2. fp'.fptr = Len(c[fp'.file]) /\ fp'.fptr > 0 /\ fp'.clust = c[fp'.file][fp'.fptr]
      BY <2>1, <1>3, <1>8
    <3>3. fp'.new \in Cluster /\ mem'.fat[fp'.new] = EOC /\ Apart(fp'.new, c)
      BY <2>1, <2>2, <2>3
    <3>4. fp'.size <= Len(c[fp'.file]) /\ fp'.fptr <= Len(c[fp'.file])
      BY <2>1, <1>3
    <3>5. ~Doing({"put"})' \/ fp'.fptr = 0 \/ fp'.buf = todo'[1].value
      <4>1. Doing({"put"}) => fp.fptr = 0 \/ fp.buf = todo[1].value
        BY DEF Files, Position
      <4>2. QED
        BY <4>1, <2>1, <3>1 DEF Doing
    <3>6. QED
      BY <3>1, <3>2, <3>3, <3>4, <3>5 DEF Position
  <2>9. Block(c)'
    BY <1>1, <1>8 DEF Block, GoesOn, Doing, Advancing
  <2>10. QED
    BY <2>7, <2>8, <2>9, <1>4 DEF Files
<1>9. QED
  BY <1>5, <1>6, <1>7, <1>8 DEF Grow, ChangeAfter, LookAfter, WindowError, WindowErrorAfter

LEMMA LinkFiles ==
    ASSUME TypeOK, Control, NEW c, Files(c), Link, kept' = kept
    PROVE  \E e : Longer(c, e) /\ Files(e)'
<1>1. todo # << >> /\ Doing(Advancing) /\ todo[1].call \in Advancing /\ at = "link" /\ fp.open /\ fp.file \in File
  BY FirstCall, Types DEF Control, Stage, Link, Doing, Typed, FileObject
<1>2. /\ c[fp.file] \in Seq(Cluster) /\ ChainsOf(mem.fat, Firsts, c) /\ Firsts[fp.file] = fp.sclust
      /\ c \in [File -> Seq(Cluster)]
  BY <1>1 DEF Files, MemChains, ChainsOf, Firsts, First
<1>3. /\ fp.fptr = Len(c[fp.file]) /\ fp.buf = Nothing /\ fp.size <= Len(c[fp.file]) /\ fp.fptr \in Nat /\ fp.fptr > 0
      /\ fp.clust = c[fp.file][fp.fptr] /\ fp.new \in Cluster /\ mem.fat[fp.new] = EOC /\ Apart(fp.new, c)
  BY <1>1, Types DEF Files, Position, Typed, FileObject
<1>4. CASE Aborts /\ fp' = [fp EXCEPT !.new = 0] /\ mem' = mem
  <2>1. Files(c)'
    BY <1>1, <1>4, AbandonFiles DEF Aborts
  <2>2. QED
    BY <2>1, <1>2 DEF Longer
<1>5. CASE /\ Change(FatSector(fp.clust), PutFat(fp.clust, fp.new))
           /\ fp' = [fp EXCEPT !.clust = fp.new, !.new = 0] /\ GoesOn("data")
  <2>1. PICK e : e = [c EXCEPT ![fp.file] = Append(@, fp.new)]
    OBVIOUS
  <2>2. /\ fp'.file = fp.file /\ fp'.open = fp.open /\ fp'.sclust = fp.sclust /\ fp'.fptr = fp.fptr
        /\ fp'.size = fp.size /\ fp'.buf = fp.buf /\ fp'.clust = fp.new
    BY <1>5, Types DEF Typed, FileObject
  <2>3. fp.clust \in Cluster
    BY <1>2, <1>3
  <2>4. mem'.entry = mem.entry /\ mem'.fat[fp.clust] = fp.new /\ \A y \in Cluster : y # fp.clust => mem'.fat[y] = mem.fat[y]
    BY <1>5, <2>3, PutFatFacts DEF Change, ChangeAfter
  <2>5. \A g \in File : First(g)' = First(g)
    BY <1>1, <1>5, <2>2, <2>4 DEF First
  <2>6. Firsts' = Firsts
    BY <2>5 DEF Firsts
  <2>7. ChainsOf(mem'.fat, Firsts', e)
    <3>1. ASSUME NEW f \in File,
                 f = fp.file PROVE ChainsOf(mem'.fat, Firsts, [c EXCEPT ![f] = Append(@, fp.new)])
      <4>1. \A y \in Cluster : mem'.fat[y] = IF y = c[f][Len(c[f])] THEN fp.new ELSE mem.fat[y]
        BY <3>1, <2>4, <1>3
      <4>2. Len(c[f]) # 0
        BY <3>1, <1>3
      <4>3. ChainsOf(mem.fat, Firsts, c)
        BY <1>2
      <4>4. fp.new \in Cluster /\ mem.fat[fp.new] = EOC /\ Apart(fp.new, c)
        BY <1>3
      <4>5. QED
        BY <4>1, <4>2, <4>3, <4>4, AppendCluster
    <3>2. QED
      BY <3>1, <2>1, <2>6, <1>1
  <2>8. /\ Len(e[fp.file]) = Len(c[fp.file]) + 1 /\ e[fp.file][fp.fptr + 1] = fp.new
        /\ \A i \in 1 .. Len(c[fp.file]) : e[fp.file][i] = c[fp.file][i]
        /\ \A g \in File : g # fp.file => e[g] = c[g]
    <3>1. e[fp.file] = Append(c[fp.file], fp.new) /\ \A g \in File : g # fp.file => e[g] = c[g]
      BY <2>1, <1>1, <1>2
    <3>2. \A w \in Seq(Cluster) : /\ Len(Append(w, fp.new)) = Len(w) + 1 /\ Append(w, fp.new)[Len(w) + 1] = fp.new
                                 /\ \A i \in 1 .. Len(w) : Append(w, fp.new)[i] = w[i]
      OBVIOUS
    <3>3. QED
      BY <3>1, <3>2, <1>2, <1>3
  <2>9. Longer(c, e)
    <3> SUFFICES ASSUME NEW f \in File, NEW i \in 1 .. Len(c[f]) PROVE i <= Len(e[f]) /\ e[f][i] = c[f][i]
      BY DEF Longer
    <3>1. Len(c[f]) \in Nat
      BY <1>2
    <3>2. CASE f = fp.file
      BY <3>1, <3>2, <2>8
    <3>3. CASE f # fp.file
      BY <3>1, <3>3, <2>8
    <3>4. QED
      BY <3>2, <3>3
  <2>10. MemChains(e)'
    <3>1. ASSUME NEW g \in File
          PROVE  IF mem.entry[g].sclust = 0 THEN mem.entry[g].size = 0
                 ELSE mem.entry[g].sclust = First(g)' /\ mem.entry[g].size <= Len(e[g])
      <4>1. IF mem.entry[g].sclust = 0 THEN mem.entry[g].size = 0
            ELSE mem.entry[g].sclust = First(g) /\ mem.entry[g].size <= Len(c[g])
        BY DEF Files, MemChains
      <4>2. Len(c[g]) <= Len(e[g]) /\ Len(c[g]) \in Nat /\ Len(e[g]) \in Nat /\ mem.entry[g].size \in Nat
        <5>1. Len(c[g]) \in Nat /\ mem.entry[g].size \in Nat
          BY <1>2, Types
        <5>2. CASE g = fp.file
          BY <5>1, <5>2, <2>8
        <5>3. CASE g # fp.file
          BY <5>1, <5>3, <2>8
        <5>4. QED
          BY <5>1, <5>2, <5>3
      <4>3. QED
        BY <4>1, <4>2, <2>5
    <3>2. QED
      BY <3>1, <2>4, <2>7 DEF MemChains
  <2>11. Position(e)'
    <3>1. at' = "data" /\ todo' = todo /\ fp'.buf = Nothing
      BY <2>2, <1>3, <1>5 DEF GoesOn
    <3>2. fp'.fptr < Len(e[fp'.file]) /\ fp'.clust = e[fp'.file][fp'.fptr + 1]
      BY <2>2, <2>8, <1>3
    <3>3. fp'.size <= Len(e[fp'.file]) /\ fp'.fptr <= Len(e[fp'.file])
      <4>1. Len(c[fp.file]) \in Nat /\ fp.size \in Nat
        BY <1>2, Types DEF Typed, FileObject
      <4>2. QED
        BY <4>1, <2>2, <2>8, <1>3
    <3>4. ~Doing({"put"})' \/ fp'.fptr = 0 \/ fp'.buf = todo'[1].value
      <4>1. Doing({"put"}) => fp.fptr = 0 \/ fp.buf = todo[1].value
        BY DEF Files, Position
      <4>2. QED
        BY <4>1, <2>2, <3>1 DEF Doing
    <3>5. QED
      BY <3>1, <3>2, <3>3, <3>4 DEF Position
  <2>12. Block(e)'
    BY <1>5 DEF Block, GoesOn
  <2>13. QED
    BY <2>9, <2>10, <2>11, <2>12 DEF Files
<1>6. QED
  BY <1>4, <1>5 DEF Link, WindowError, WindowErrorAfter

LEMMA TransferFiles ==
    ASSUME TypeOK, Control, NEW c, Files(c), Transfer
    PROVE  Files(c)'
<1>1. todo # << >> /\ Doing(Advancing) /\ at = "data" /\ fp.open /\ fp.file \in File /\ at' = "start" /\ todo' = todo
  BY FirstCall, Types DEF Control, Stage, Transfer, Doing, Typed, FileObject, GoesOn
<1>2. /\ fp.fptr < Len(c[fp.file]) /\ fp.clust = c[fp.file][fp.fptr + 1] /\ fp.buf = Nothing
      /\ fp.size <= Len(c[fp.file]) /\ fp.fptr \in Nat /\ fp.size \in Nat /\ Len(c[fp.file]) \in Nat
  BY <1>1, Types DEF Files, MemChains, ChainsOf, Position, Typed, FileObject
<1>3. mem' = mem
  BY DEF Transfer
<1>4. /\ fp'.file = fp.file /\ fp'.open = fp.open /\ fp'.sclust = fp.sclust /\ fp'.fptr = fp.fptr + 1
      /\ fp'.size \in {fp.size, fp.fptr + 1} /\ fp'.clust = fp.clust
      /\ fp'.buf = IF todo[1].call = "put" THEN todo[1].value ELSE fp.buf
  BY Types DEF Typed, FileObject, Transfer, Advanced
<1>5. MemChains(c)'
  BY <1>1, <1>3, <1>4, SameChains DEF Files
<1>6. todo[1].call = "put" => fp.fptr = 0
  <2>1. Doing({"put"}) => fp.fptr = 0 \/ fp.buf = todo[1].value
    BY DEF Files, Position
  <2>2. todo[1].call = "put" => todo[1].value \in Value
    BY <1>1, FirstCall, CallFields DEF Control
  <2>3. Nothing \notin Value
    BY FatAssumption DEF Nothing, Value
  <2>4. QED
    BY <2>1, <2>2, <2>3, <1>1, <1>2 DEF Doing
<1>7. Position(c)'
  <2>1. /\ fp'.size <= Len(c[fp'.file]) /\ fp'.fptr <= Len(c[fp'.file])
        /\ fp'.clust = c[fp'.file][fp'.fptr]
    BY <1>2, <1>4
  <2>2. fp'.buf # Nothing => fp'.open /\ fp'.fptr = 1 /\ fp'.clust = c[fp'.file][1] /\ ~Doing({"seek", "write"})'
    BY <1>1, <1>2, <1>4, <1>6 DEF Doing
  <2>3. Doing({"put"})' => fp'.buf = todo'[1].value
    BY <1>1, <1>4 DEF Doing
  <2>4. QED
    BY <1>1, <2>1, <2>2, <2>3 DEF Position
<1>8. Block(c)'
  BY <1>1 DEF Block
<1>9. QED
  BY <1>5, <1>7, <1>8 DEF Files

LEMMA ExpandBeginFiles ==
    ASSUME TypeOK, Control, NEW c, Files(c), ExpandBegin
    PROVE  Files(c)'
<1>1. /\ todo # << >> /\ Doing({"expand"}) /\ todo[1].call = "expand" /\ at = "start" /\ todo[1].end \in Nat
      /\ fp.open /\ fp.fptr = 0 /\ mem' = mem /\ fp.file \in File
  BY FirstCall, CallFields, Types
     DEF Control, Turn, ExpandBegin, Call, Doing, LookAfter, WindowError, WindowErrorAfter, Typed, FileObject
<1>2. fp.buf = Nothing
  BY <1>1 DEF Files, Position
<1>3. CASE Aborts /\ fp' = fp
  BY <1>1, <1>3, AbandonFiles DEF Aborts
<1>4. ASSUME NEW x \in FreeBlocks(todo[1].end), fp' = [fp EXCEPT !.clust = x, !.new = x],
             GoesOn("link")
      PROVE  Files(c)'
  <2>1. /\ fp'.file = fp.file /\ fp'.open = fp.open /\ fp'.sclust = fp.sclust /\ fp'.fptr = fp.fptr
        /\ fp'.size = fp.size /\ fp'.buf = fp.buf /\ fp'.clust = x /\ fp'.new = x
    BY <1>4, Types DEF Typed, FileObject
  <2>2. at' = "link" /\ todo' = todo
    BY <1>4 DEF GoesOn
  <2>3. MemChains(c)'
    BY <1>1, <2>1, <2>2, SameChains DEF Files
  <2>4. Position(c)'
    <3>1. fp.size <= Len(c[fp.file]) /\ fp.fptr <= Len(c[fp.file])
      BY <1>1 DEF Files, Position
    <3>2. ~Doing(Advancing)' /\ ~Doing({"put"})'
      BY <1>1, <2>2 DEF Doing, Advancing
    <3>3. fp'.buf = Nothing /\ at' = "link" /\ fp'.size <= Len(c[fp'.file]) /\ fp'.fptr <= Len(c[fp'.file])
      BY <3>1, <1>2, <2>1, <2>2
    <3>4. QED
      BY <3>2, <3>3 DEF Position
  <2>5. Block(c)'
    <3>1. /\ x \in Cluster /\ todo[1].end > 0 /\ NClusters \in Nat
          /\ \A k \in 0 .. todo[1].end - 1 : mem.fat[1 + ((x + k - 1) % NClusters)] = Free
      BY FatAssumption DEF FreeBlocks
    <3>2. ASSUME NEW y \in Cluster, x <= y, y <= x + todo[1].end - 1 PROVE mem.fat[y] = Free
      <4>1. y - x \in 0 .. todo[1].end - 1 /\ x + (y - x) - 1 = y - 1 /\ y - 1 \in 0 .. NClusters - 1
        BY <3>1, <3>2, <1>1 DEF Cluster
      <4>2. mem.fat[1 + ((y - 1) % NClusters)] = Free
        BY <3>1, <4>1
      <4>3. (y - 1) % NClusters = y - 1
        BY <3>1, <4>1
      <4>4. QED
        BY <4>2, <4>3 DEF Cluster
    <3>3. x <= x + todo[1].end - 1 /\ x <= x /\ \A y \in Cluster : ~(x <= y /\ y < x)
      BY <3>1, <1>1 DEF Cluster
    <3>4. QED
      BY <1>1, <2>1, <2>2, <3>1, <3>2, <3>3 DEF Block
  <2>6. QED
    BY <2>3, <2>4, <2>5 DEF Files
<1>5. QED
  BY <1>3, <1>4 DEF ExpandBegin

LEMMA ExpandLinkFiles ==
    ASSUME TypeOK, Control, NEW c, Files(c), ExpandLink, kept' = kept
    PROVE  \E e : /\ \A f \in File : mem.entry[f].sclust # 0 => e[f] = c[f]
                  /\ Files(e)'
<1> DEFINE last == fp.new + todo[1].end - 1
<1>1. /\ todo # << >> /\ Doing({"expand"}) /\ todo[1].call = "expand" /\ at = "link" /\ todo[1].end \in Nat
      /\ fp.open /\ fp.fptr = 0 /\ fp.sclust = 0 /\ fp.file \in File /\ mem.entry[fp.file].sclust = 0
  BY FirstCall, CallFields, Types
     DEF Control, Turn, ExpandLink, Call, Doing, Typed, FileObject
<1>2. fp.buf = Nothing
  BY <1>1 DEF Files, Position
<1>3. /\ ChainsOf(mem.fat, Firsts, c) /\ c \in [File -> Seq(Cluster)] /\ Firsts[fp.file] = 0
  BY <1>1 DEF Files, MemChains, ChainsOf, Firsts, First
<1>4. /\ fp.new \in Cluster /\ fp.new <= fp.clust /\ fp.clust <= last
      /\ \A x \in Cluster :
           /\ fp.new <= x /\ x < fp.clust => mem.fat[x] = x + 1 /\ Apart(x, c)
           /\ fp.clust <= x /\ x <= last => mem.fat[x] = Free
  BY <1>1 DEF Files, Block
<1>5. CASE Aborts /\ fp' = [fp EXCEPT !.new = 0] /\ mem' = mem
  <2>1. Files(c)'
    BY <1>1, <1>5, AbandonFiles DEF Aborts
  <2>2. QED
    BY <2>1
<1>6. ASSUME NEW v, fp.clust \in Cluster, mem' = PutFat(fp.clust, v)
      PROVE  /\ mem'.entry = mem.entry /\ mem'.fat[fp.clust] = v
             /\ \A y \in Cluster : y # fp.clust => mem'.fat[y] = mem.fat[y]
             /\ Apart(fp.clust, c)
  <2>1. mem.fat[fp.clust] = Free
    BY <1>4, <1>6 DEF Cluster
  <2>2. Apart(fp.clust, c)
    BY <2>1, <1>3, <1>6, FreeIsApart
  <2>3. QED
    BY <2>2, <1>6, PutFatFacts
<1>7. CASE /\ fp.clust \in Cluster /\ fp.clust # last /\ mem' = PutFat(fp.clust, fp.clust + 1)
           /\ fp' = [fp EXCEPT !.clust = @ + 1] /\ GoesOn("link")
  <2>1. /\ fp'.file = fp.file /\ fp'.open = fp.open /\ fp'.sclust = fp.sclust /\ fp'.fptr = fp.fptr
        /\ fp'.size = fp.size /\ fp'.buf = fp.buf /\ fp'.clust = fp.clust + 1 /\ fp'.new = fp.new
    BY <1>7, Types DEF Typed, FileObject
  <2>2. at' = "link" /\ todo' = todo
    BY <1>7 DEF GoesOn
  <2>3. /\ mem'.entry = mem.entry /\ mem'.fat[fp.clust] = fp.clust + 1
        /\ \A y \in Cluster : y # fp.clust => mem'.fat[y] = mem.fat[y]
        /\ Apart(fp.clust, c)
    BY <1>6, <1>7
  <2>4. \A g \in File : First(g)' = First(g)
    BY <1>1, <2>1, <2>3 DEF First
  <2>5. Firsts' = Firsts
    BY <2>4 DEF Firsts
  <2>6. ChainsOf(mem'.fat, Firsts', c)
    BY <1>3, <2>3, <2>5, SetApart
  <2>7. MemChains(c)'
    BY <2>3, <2>4, <2>6 DEF Files, MemChains
  <2>8. Position(c)'
    <3>1. fp.size <= Len(c[fp.file]) /\ fp.fptr <= Len(c[fp.file])
      BY <1>1 DEF Files, Position
    <3>2. ~Doing(Advancing)' /\ ~Doing({"put"})'
      BY <1>1, <2>2 DEF Doing, Advancing
    <3>3. fp'.buf = Nothing /\ at' = "link" /\ fp'.size <= Len(c[fp'.file]) /\ fp'.fptr <= Len(c[fp'.file])
      BY <3>1, <1>2, <2>1, <2>2
    <3>4. QED
      BY <3>2, <3>3 DEF Position
  <2>9. Block(c)'
    <3>1. fp.new <= fp.clust + 1 /\ fp.clust + 1 <= last
      <4>1. fp.new \in Nat /\ fp.clust \in Nat /\ last \in Int
        BY <1>1, <1>4, <1>7 DEF Cluster
      <4>2. fp.new <= fp.clust /\ fp.clust <= last /\ fp.clust # last
        BY <1>4, <1>7
      <4>3. QED
        BY <4>1, <4>2
    <3>2. ASSUME NEW x \in Cluster
          PROVE  /\ fp.new <= x /\ x < fp.clust + 1 => mem'.fat[x] = x + 1 /\ Apart(x, c)
                 /\ fp.clust + 1 <= x /\ x <= last => mem'.fat[x] = Free
      <4>1. CASE x = fp.clust
        BY <4>1, <2>3, <1>7 DEF Cluster
      <4>2. CASE x # fp.clust
        <5>1. mem'.fat[x] = mem.fat[x]
          BY <4>2, <2>3
        <5>2. (x < fp.clust + 1 => x < fp.clust) /\ (fp.clust + 1 <= x => fp.clust <= x)
          BY <4>2, <1>7 DEF Cluster
        <5>3. QED
          BY <5>1, <5>2, <1>4
      <4>3. QED
        BY <4>1, <4>2
    <3>3. QED
      BY <3>1, <3>2, <2>1, <2>2, <1>4 DEF Block
  <2>10. QED
    BY <2>7, <2>8, <2>9 DEF Files
<1>8. CASE /\ fp.clust \in Cluster /\ fp.clust = last /\ mem' = PutFat(fp.clust, EOC)
           /\ fp' = [fp EXCEPT !.sclust = fp.new, !.new = 0, !.size = todo[1].end, !.modified = TRUE]
           /\ Returns
  <2>1. /\ fp'.file = fp.file /\ fp'.open = fp.open /\ fp'.sclust = fp.new /\ fp'.fptr = fp.fptr
        /\ fp'.size = todo[1].end /\ fp'.buf = fp.buf
    BY <1>8, Types DEF Typed, FileObject
  <2>2. /\ mem'.entry = mem.entry /\ mem'.fat[fp.clust] = EOC
        /\ \A y \in Cluster : y # fp.clust => mem'.fat[y] = mem.fat[y]
        /\ Apart(fp.clust, c)
    BY <1>6, <1>8
  <2>3. \A g \in File : First(g)' = IF g = fp.file THEN fp.new ELSE First(g)
    BY <1>1, <2>1, <2>2 DEF First
  <2>4. Firsts'[fp.file] = fp.new /\ \A g \in File : g # fp.file => Firsts'[g] = Firsts[g]
    BY <2>3, <1>1 DEF Firsts
  <2>5. todo[1].end > 0 /\ last <= NClusters /\ NClusters \in Nat
    BY <1>1, <1>4, <1>8, FatAssumption DEF Cluster
  <2>6. ASSUME NEW y \in fp.new .. last
        PROVE  Apart(y, c) /\ mem'.fat[y] = IF y = last THEN EOC ELSE y + 1
    <3>1. y \in Cluster /\ fp.new <= y
      BY <1>1, <1>4, <2>5 DEF Cluster
    <3>2. CASE y = last
      BY <3>2, <2>2, <1>8
    <3>3. CASE y # last
      <4>1. y < fp.clust
        BY <3>3, <1>8, <1>1, <1>4 DEF Cluster
      <4>2. mem.fat[y] = y + 1 /\ Apart(y, c)
        BY <4>1, <3>1, <1>4
      <4>3. y # fp.clust
        BY <3>3, <1>8
      <4>4. mem'.fat[y] = mem.fat[y]
        BY <4>3, <3>1, <2>2
      <4>5. mem'.fat[y] = y + 1
        BY <4>2, <4>4
      <4>6. QED
        BY <4>2, <4>5, <3>3
    <3>4. QED
      BY <3>2, <3>3
  <2>7. ChainsOf(mem'.fat, Firsts, c)
    BY <1>3, <1>8, <2>2, SetApart
  <2>8. PICK w \in Seq(Cluster) : Len(w) = todo[1].end /\ ChainsOf(mem'.fat, Firsts', [c EXCEPT ![fp.file] = w])
    <3>1. ASSUME NEW f \in File, f = fp.file, NEW x \in Cluster, x = fp.new, NEW n \in Nat,
                 n = todo[1].end
          PROVE  \E w \in Seq(Cluster) : Len(w) = n /\ ChainsOf(mem'.fat, Firsts', [c EXCEPT ![f] = w])
      <4>1. Firsts[f] = 0
        BY <3>1, <1>3
      <4>2. Firsts'[f] = x
        BY <3>1, <2>4
      <4>3. \A g \in File : g # f => Firsts'[g] = Firsts[g]
        BY <3>1, <2>4
      <4>4. Row(mem'.fat, c, x, n)
        BY <3>1, <2>5, <2>6 DEF Row
      <4>5. QED
        BY <4>1, <4>2, <4>3, <4>4, <2>7, TakeBlock
    <3>2. QED
      BY <3>1, <1>1, <1>4
  <2>9. PICK e : e = [c EXCEPT ![fp.file] = w]
    OBVIOUS
  <2>10. e[fp.file] = w /\ \A g \in File : g # fp.file => e[g] = c[g]
    BY <2>9, <1>1, <1>3
  <2>11. MemChains(e)'
    <3>1. ASSUME NEW g \in File
          PROVE  IF mem.entry[g].sclust = 0 THEN mem.entry[g].size = 0
                 ELSE mem.entry[g].sclust = First(g)' /\ mem.entry[g].size <= Len(e[g])
      <4>1. IF mem.entry[g].sclust = 0 THEN mem.entry[g].size = 0
            ELSE mem.entry[g].sclust = First(g) /\ mem.entry[g].size <= Len(c[g])
        BY DEF Files, MemChains
      <4>2. QED
        BY <4>1, <2>3, <2>10, <1>1
    <3>2. QED
      BY <3>1, <2>2, <2>8, <2>9 DEF MemChains
  <2>12. at' = "start" /\ ~Doing(Advancing)' /\ ~Doing({"put"})' /\ ~Doing({"expand"})'
    BY <1>1, <1>8, TailQueue DEF Returns, Control, Follows, Doing, Advancing
  <2>13. Position(e)'
    <3>1. fp'.size <= Len(e[fp'.file]) /\ fp'.fptr <= Len(e[fp'.file])
      BY <1>1, <2>1, <2>8, <2>10
    <3>2. QED
      BY <3>1, <1>2, <2>1, <2>12 DEF Position
  <2>14. Block(e)'
    BY <2>12 DEF Block
  <2>15. QED
    BY <1>1, <2>10, <2>11, <2>13, <2>14 DEF Files
<1>9. QED
  BY <1>5, <1>7, <1>8 DEF ExpandLink, Change, ChangeAfter, WindowError, WindowErrorAfter

\* f_close returns, or goes on after the buffer is written.
LEMMA ClosedFiles ==
    ASSUME TypeOK, Control, NEW c, Files(c), Call("close", at), at \in {"start", "flush"},
           at' = "start", mem' = mem, kept' = kept,
           todo' \in {todo, Tail(todo)},
           fp'.file = fp.file, fp'.open = fp.open, fp'.sclust = fp.sclust, fp'.fptr = fp.fptr,
           fp'.size = fp.size, fp'.clust = fp.clust, fp'.buf \in {fp.buf, Nothing}
    PROVE  Files(c)'
<1>1. todo # << >> /\ todo[1].call = "close" /\ Len(todo) > 0
  BY FirstCall DEF Call, Control
<1>2. ~Doing(Advancing)' /\ ~Doing({"seek", "write"})' /\ ~Doing({"put"})' /\ ~Doing({"expand"})'
  <2>1. CASE todo' = todo
    BY <2>1, <1>1 DEF Doing, Advancing
  <2>2. CASE todo' = Tail(todo)
    BY <2>2, <1>1, TailQueue DEF Doing, Advancing, Control, Follows
  <2>3. QED
    BY <2>1, <2>2
<1>3. MemChains(c)'
  BY SameChains DEF Files
<1>4. Position(c)'
  BY <1>2 DEF Files, Position
<1>5. Block(c)'
  BY DEF Block
<1>6. QED
  BY <1>3, <1>4, <1>5 DEF Files

LEMMA CloseBufferFiles ==
    ASSUME TypeOK, Control, NEW c, Files(c), CloseBuffer, kept' = kept
    PROVE  Files(c)'
<1>1. /\ Call("close", at) /\ at = "start" /\ at' = "start" /\ mem' = mem /\ todo' \in {todo, Tail(todo)}
  BY DEF CloseBuffer, Call, GoesOn, ReturnsIncomplete
<1>2. /\ fp'.file = fp.file /\ fp'.open = fp.open /\ fp'.sclust = fp.sclust /\ fp'.fptr = fp.fptr
      /\ fp'.size = fp.size /\ fp'.clust = fp.clust /\ fp'.buf \in {fp.buf, Nothing}
  BY Types DEF CloseBuffer, Typed, FileObject
<1>3. QED
  BY <1>1, <1>2, ClosedFiles

LEMMA CloseEntryFiles ==
    ASSUME TypeOK, Control, NEW c, Files(c), CloseEntry, kept' = kept
    PROVE  Files(c)'
<1>1. Call("close", at) /\ at = "start" /\ fp.open /\ fp.buf = Nothing /\ fp.file \in File /\ Doing({"close"}) /\ todo[1].call = "close"
  BY FirstCall, Types DEF CloseEntry, Call, Typed, FileObject, Control, Doing
<1>2. CASE fp' = fp /\ ReturnsIncomplete /\ mem' = mem
  BY <1>1, <1>2, ClosedFiles DEF ReturnsIncomplete
<1>3. CASE /\ mem' = [mem EXCEPT !.entry[fp.file] = [sclust |-> fp.sclust, size |-> fp.size]]
           /\ fp' = fp /\ GoesOn("flush")
  <2>1. /\ mem'.fat = mem.fat /\ mem'.entry[fp.file].sclust = fp.sclust /\ mem'.entry[fp.file].size = fp.size
        /\ \A g \in File : g # fp.file => mem'.entry[g] = mem.entry[g]
    BY <1>1, <1>3, Types
  <2>2. at' = "flush" /\ todo' = todo
    BY <1>3 DEF GoesOn
  <2>3. \A g \in File : First(g)' = First(g)
    BY <1>1, <1>3, <2>1 DEF First
  <2>4. Firsts' = Firsts
    BY <2>3 DEF Firsts
  <2>5. /\ fp.size <= Len(c[fp.file]) /\ fp.size \in Nat /\ First(fp.file) = fp.sclust
        /\ Linked(mem.fat, fp.sclust, c[fp.file]) /\ c[fp.file] \in Seq(Cluster)
    BY <1>1, Types DEF Files, MemChains, ChainsOf, Firsts, First, Position, Typed, FileObject
  <2>6. fp.sclust = 0 => fp.size = 0
    <3>1. fp.sclust = 0 => Len(c[fp.file]) = 0
      BY <2>5, FatAssumption DEF Linked, Cluster
    <3>2. QED
      BY <3>1, <2>5
  <2>7. MemChains(c)'
    <3>1. ASSUME NEW g \in File
          PROVE  IF mem'.entry[g].sclust = 0 THEN mem'.entry[g].size = 0
                 ELSE mem'.entry[g].sclust = First(g)' /\ mem'.entry[g].size <= Len(c[g])
      <4>1. IF mem.entry[g].sclust = 0 THEN mem.entry[g].size = 0
            ELSE mem.entry[g].sclust = First(g) /\ mem.entry[g].size <= Len(c[g])
        BY DEF Files, MemChains
      <4>2. CASE g = fp.file
        BY <4>2, <2>1, <2>3, <2>5, <2>6
      <4>3. CASE g # fp.file
        BY <4>1, <4>3, <2>1, <2>3
      <4>4. QED
        BY <4>2, <4>3
    <3>2. ChainsOf(mem'.fat, Firsts', c)
      BY <2>1, <2>4 DEF Files, MemChains
    <3>3. QED
      BY <3>1, <3>2 DEF MemChains
  <2>8. Position(c)'
    BY <1>1, <1>3, <2>2 DEF Files, Position, Doing
  <2>9. Block(c)'
    BY <2>2 DEF Block
  <2>10. QED
    BY <2>7, <2>8, <2>9 DEF Files
<1>4. QED
  BY <1>2, <1>3 DEF CloseEntry, Change, ChangeAfter, WindowError, WindowErrorAfter

LEMMA CloseFlushFiles ==
    ASSUME TypeOK, Control, NEW c, Files(c), CloseFlush, kept' = kept
    PROVE  Files(c)' \/ (fp' = NoFile /\ \E e : e = Entered(c) /\ Files(e)')
<1>1. Call("close", at) /\ at = "flush" /\ mem' = mem
  BY DEF CloseFlush, Call
<1>2. CASE fp' = NoFile /\ Returns
  BY <1>1, <1>2, NoFileForgotten DEF Returns
<1>3. CASE fp' = [fp EXCEPT !.modified = FALSE] /\ ReturnsIncomplete
  <2>1. /\ fp'.file = fp.file /\ fp'.open = fp.open /\ fp'.sclust = fp.sclust /\ fp'.fptr = fp.fptr
        /\ fp'.size = fp.size /\ fp'.clust = fp.clust /\ fp'.buf \in {fp.buf, Nothing}
    BY <1>3, Types DEF Typed, FileObject
  <2>2. QED
    BY <2>1, <1>1, <1>3, ClosedFiles DEF ReturnsIncomplete
<1>4. QED
  BY <1>2, <1>3 DEF CloseFlush

LEMMA CloseUnchangedFiles ==
    ASSUME TypeOK, NEW c, Files(c), CloseUnchanged
    PROVE  \E e : e = Entered(c) /\ Files(e)'
BY NoFileForgotten DEF CloseUnchanged, Returns

\* The host asks when nothing is under way, for calls that begin with f_open.
LEMMA HostCalls ==
    ASSUME Host
    PROVE  /\ Idle /\ UNCHANGED <<disk, mem, win, locked, fp, at, failed, started>>
           /\ todo'[1].call \in {"open", "read"}
<1>1. CASE Write
  BY <1>1 DEF Write, Begin
<1>2. CASE Format
  <2>1. \E n \in 0 .. MaxSize :
          Begin("FORMAT",
                (IF started THEN << >> ELSE << [call |-> "read", file |-> "dat"] >>)
                \o << [call |-> "read", file |-> "dsc"], [call |-> "truncate", file |-> "dat"],
                      [call |-> "expand", end |-> n], [call |-> "close"] >>)
    BY <1>2 DEF Format
  <2>2. CASE started
    BY <2>1, <2>2 DEF Begin
  <2>3. CASE ~started
    BY <2>1, <2>3 DEF Begin
  <2>4. QED
    BY <2>2, <2>3
<1>3. CASE ModeSelect
  <2>1. \E v \in Written :
          Begin("MODESELECT",
                   (IF started THEN << >> ELSE << [call |-> "read", file |-> "dsc"] >>)
                   \o << [call |-> "open", file |-> "dsc"], [call |-> "put", end |-> 1, value |-> v],
                         [call |-> "close"], Report("dsc", 0, 1, v) >>)
    BY <1>3 DEF ModeSelect
  <2>2. CASE started
    BY <2>1, <2>2 DEF Begin
  <2>3. CASE ~started
    BY <2>1, <2>3 DEF Begin
  <2>4. QED
    BY <2>2, <2>3
<1>4. CASE Start \/ Reset
  BY <1>4, CheckQueue DEF Start, Reset, Begin
<1>5. QED
  BY <1>1, <1>2, <1>3, <1>4 DEF Host

LEMMA HostFiles ==
    ASSUME TypeOK, Control, NEW c, Files(c), Host
    PROVE  Files(c)'
<1>1. mem' = mem /\ fp' = fp /\ at = "start" /\ at' = "start"
  BY HostCalls, IdleStart, Types DEF Control, Stage
<1>2. ~Doing(Advancing)' /\ ~Doing({"seek", "write"})' /\ ~Doing({"put"})' /\ ~Doing({"expand"})'
  BY HostCalls DEF Doing, Advancing
<1>3. MemChains(c)'
  BY <1>1, SameChains DEF Files
<1>4. Position(c)'
  BY <1>1, <1>2 DEF Files, Position
<1>5. Block(c)'
  BY <1>1 DEF Block
<1>6. QED
  BY <1>3, <1>4, <1>5 DEF Files

\* A step that changes nothing of FatFs.
LEMMA StillFiles ==
    ASSUME NEW c, Files(c), UNCHANGED <<mem, fp, at, todo>>
    PROVE  Files(c)'
<1>1. Firsts' = Firsts /\ \A f \in File : First(f)' = First(f)
  BY DEF Firsts, First
<1>2. MemChains(c)'
  BY <1>1 DEF Files, MemChains
<1>3. Position(c)' /\ Block(c)'
  BY DEF Files, Position, Block, Doing
<1>4. QED
  BY <1>2, <1>3 DEF Files

\* The chains on the card.
DiskFirsts == [f \in File |-> disk.entry[f].sclust]
\* The chains d on the card do not meet, cover their files, and no file that has blocks is without a chain.
DiskChains(d) ==
    /\ ChainsOf(disk.fat, DiskFirsts, d)
    /\ \A f \in File : /\ disk.entry[f].size <= Len(d[f])
                       /\ disk.entry[f].sclust = 0 => disk.entry[f].size = 0

\* Power comes back: the files in memory are those on the card.
LEMMA MountFiles ==
    ASSUME TypeOK, NEW d, DiskChains(d), Mount
    PROVE  Files(d)'
<1>1. /\ mem'.fat = disk.fat /\ mem'.entry = disk.entry /\ fp' = NoFile /\ at' = "start" /\ ~fp'.open /\ fp'.buf = Nothing
      /\ fp'.fptr = 0
  BY DEF Mount, Remount, TablesOf, NoFile
<1>2. \A f \in File : First(f)' = disk.entry[f].sclust
  BY <1>1 DEF First
<1>3. Firsts' = DiskFirsts
  BY <1>2 DEF Firsts, DiskFirsts
<1>4. MemChains(d)'
  BY <1>1, <1>2, <1>3 DEF DiskChains, MemChains
<1>5. Position(d)' /\ Block(d)'
  BY <1>1 DEF Position, Block
<1>6. QED
  BY <1>4, <1>5 DEF Files

-----------------------------------------------------------------------------
(* The types, and what each step writes to the card.                       *)

\* The sector of the table a cluster is in is one of the volume's.
LEMMA DivMonotone ==
    ASSUME NEW a \in Nat, NEW b \in Nat, a <= b, NEW n \in Nat \ {0}
    PROVE  a \div n <= b \div n
<1> DEFINE p == a \div n
           q == b \div n
<1>1. p \in Nat /\ q \in Nat /\ n * p <= a /\ b < n * q + n
  BY SMT
<1> HIDE DEF p, q
<1>2. ASSUME q < p PROVE FALSE
  <2>1. PICK k \in Nat : p = (q + 1) + k
    <3>1. p - (q + 1) \in Nat /\ p = (q + 1) + (p - (q + 1))
      BY <1>1, <1>2
    <3>2. QED
      BY <3>1
  <2>2. n * p = n * q + n + n * k /\ n * k \in Nat /\ n * q \in Nat /\ n * p \in Nat
    BY <1>1, <2>1, SMT
  <2>3. QED
    BY <1>1, <2>2
<1>3. p <= q
  BY <1>1, <1>2
<1>4. QED
  BY <1>3 DEF p, q

\* The sectors of the window.
LEMMA SectorRange ==
    /\ Nowhere \in Nat /\ Directory \in Directory .. Nowhere /\ Nowhere \in Directory .. Nowhere
    /\ \A c \in Cluster : FatSector(c) \in Directory .. Nowhere
    /\ \A s \in Fat : s \in Directory .. Nowhere
<1>1. /\ NClusters \in Nat \ {0} /\ EntriesPerSector \in Nat \ {0}
      /\ NClusters - 1 \in Nat
  BY FatAssumption
<1>2. \A c \in Cluster : c - 1 \in Nat /\ c - 1 <= NClusters - 1 /\ (c - 1) \div EntriesPerSector \in Nat
  BY <1>1, SMT DEF Cluster
<1>3. (NClusters - 1) \div EntriesPerSector \in Nat /\ NClusters \in Cluster /\ 1 \in Cluster
  BY <1>1, SMT DEF Cluster
<1>4. \A c \in Cluster : (c - 1) \div EntriesPerSector <= (NClusters - 1) \div EntriesPerSector
  BY <1>1, <1>2, DivMonotone
<1> DEFINE top == (NClusters - 1) \div EntriesPerSector
<1>5. \A c \in Cluster : FatSector(c) \in Nat /\ FatSector(c) <= 1 + top
  BY <1>2, <1>3, <1>4 DEF FatSector
<1>6. Nowhere = 2 + top
  BY <1>3 DEF Nowhere, FatSector
<1>7. FatSector(NClusters) = 1 + top
  BY DEF FatSector
<1> HIDE DEF top
<1>8. top \in Nat
  BY <1>3 DEF top
<1>9. \A s \in Fat : s \in Nat /\ s <= 1 + top
  BY <1>3, <1>5, <1>7, <1>8 DEF Fat
<1>10. QED
  BY <1>5, <1>6, <1>8, <1>9 DEF Directory

\* The card is brought up to date with the tables in memory.
Synced == disk'.fat = mem.fat /\ disk'.entry = mem.entry /\ disk'.data = disk.data

\* The types of the card and of the window.
CardRanges ==
    /\ TablesOf(disk) \in Tables /\ disk.data \in [Cluster -> Value] /\ mem \in Tables
    /\ win \in [sect : Directory .. Nowhere, dirty : BOOLEAN]

\* The types of the file object and of the call under way.
FileRanges ==
    /\ locked \subseteq File /\ fp \in FileObject
    /\ at \in {"start", "free", "reopen", "grow", "link", "data", "flush"}
    /\ failed \subseteq {"error", "incomplete"}

Ranges == CardRanges /\ FileRanges

LEMMA TypedRanges == TypeOK => Ranges
BY DEF TypeOK, FatTypeOK, Ranges, CardRanges, FileRanges, FileObject

\* sync_window: the tables differ in the window's sector only, so that writing it
\* back leaves no difference.
LEMMA StoredSynced ==
    ASSUME IInv, win.dirty, disk' = Stored(win.sect)
    PROVE  Synced
<1>1. Stored(win.sect).data = disk.data
  BY DEF IInv, Shape, Stored
<1>2. disk'.fat = mem.fat /\ disk'.entry = mem.entry
  BY StoredTables DEF IInv, OneSectorBehind, Shape
<1>3. QED
  BY <1>1, <1>2 DEF Synced

LEMMA LeaveSynced ==
    ASSUME IInv, NEW s, NEW around, Leave(s, around)
    PROVE  disk' = disk \/ Synced
BY StoredSynced DEF Leave

LEMMA SyncSynced ==
    ASSUME IInv, Sync
    PROVE  disk' = disk \/ Synced
BY StoredSynced DEF Sync

\* move_window leaves the card alone or brings it up to date.
LEMMA CardStays ==
    ASSUME CardRanges, disk' = disk \/ Synced
    PROVE  TablesOf(disk)' \in Tables /\ disk'.data \in [Cluster -> Value]
<1>1. CASE disk' = disk
  BY <1>1 DEF CardRanges, TablesOf
<1>2. CASE Synced
  BY <1>2 DEF CardRanges, TablesOf, Synced, Tables
<1>3. QED
  BY <1>1, <1>2

LEMMA LookRanges ==
    ASSUME IInv, CardRanges, NEW s \in Directory .. Nowhere, NEW around \in BOOLEAN,
           LookAfter(s, around)
    PROVE  CardRanges' /\ mem' = mem /\ (disk' = disk \/ Synced)
BY LeaveSynced, CardStays DEF LookAfter, CardRanges

LEMMA ChangeRanges ==
    ASSUME IInv, CardRanges, NEW s \in Directory .. Nowhere, NEW m \in Tables,
           NEW around \in BOOLEAN, ChangeAfter(s, m, around)
    PROVE  CardRanges' /\ (disk' = disk \/ Synced)
BY LeaveSynced, CardStays DEF ChangeAfter, CardRanges

LEMMA ErrorRanges ==
    ASSUME IInv, CardRanges, NEW s, NEW around, WindowErrorAfter(s, around)
    PROVE  CardRanges' /\ mem' = mem /\ (disk' = disk \/ Synced)
<1>1. disk' = disk \/ Synced
  BY LeaveSynced DEF WindowErrorAfter
<1>2. win' \in [sect : Directory .. Nowhere, dirty : BOOLEAN]
  <2>1. Nowhere \in Directory .. Nowhere
    BY SectorRange
  <2>2. win' = win \/ win' = [sect |-> Nowhere, dirty |-> FALSE]
    BY DEF WindowErrorAfter
  <2>3. CASE win' = win
    BY <2>3 DEF CardRanges
  <2>4. CASE win' = [sect |-> Nowhere, dirty |-> FALSE]
    BY <2>1, <2>4
  <2>5. QED
    BY <2>2, <2>3, <2>4
<1>3. QED
  BY <1>1, <1>2, CardStays DEF WindowErrorAfter, CardRanges

LEMMA FindRanges ==
    ASSUME IInv, CardRanges, Find \/ FindError
    PROVE  CardRanges' /\ mem' = mem /\ (disk' = disk \/ Synced)
BY LookRanges, ErrorRanges, SectorRange DEF Find, FindError

LEMMA SyncRanges ==
    ASSUME IInv, CardRanges, Sync, mem' = mem
    PROVE  CardRanges' /\ (disk' = disk \/ Synced)
BY SyncSynced, CardStays DEF Sync, CardRanges

LEMMA StillRanges ==
    ASSUME CardRanges, UNCHANGED <<disk, mem, win>>
    PROVE  CardRanges'
BY DEF CardRanges, TablesOf

LEMMA BlockPut ==
    ASSUME NEW g \in [Cluster -> Value], NEW x, NEW v \in Value
    PROVE  [g EXCEPT ![x] = v] \in [Cluster -> Value]
OBVIOUS

LEMMA DataRanges ==
    ASSUME IInv, CardRanges, UNCHANGED <<mem, win>>, NEW x, NEW v \in Value,
           disk' = [disk EXCEPT !.data[x] = v]
    PROVE  /\ CardRanges' /\ disk'.fat = disk.fat /\ disk'.entry = disk.entry
           /\ \A y \in Cluster : y # x => disk'.data[y] = disk.data[y]
           /\ x \in Cluster => disk'.data[x] = v
<1>1. /\ disk'.fat = disk.fat /\ disk'.entry = disk.entry /\ disk'.data = [disk.data EXCEPT ![x] = v]
  <2>1. disk = [z \in {"fat", "entry", "data"} |-> disk[z]]
    BY DEF IInv, Shape
  <2>2. QED
    BY <2>1
<1>2. disk'.data \in [Cluster -> Value]
  <2>1. disk.data \in [Cluster -> Value]
    BY DEF CardRanges
  <2>2. [disk.data EXCEPT ![x] = v] \in [Cluster -> Value]
    BY <2>1, BlockPut
  <2>3. QED
    BY <1>1, <2>2
<1>3. TablesOf(disk)' = TablesOf(disk)
  BY <1>1 DEF TablesOf
<1>4. \A y \in Cluster : y # x => disk'.data[y] = disk.data[y]
  BY <1>1 DEF CardRanges
<1>5. x \in Cluster => disk'.data[x] = v
  BY <1>1 DEF CardRanges
<1>6. CardRanges'
  BY <1>2, <1>3 DEF CardRanges
<1>7. QED
  BY <1>1, <1>4, <1>5, <1>6

LEMMA PutFatRanges ==
    ASSUME CardRanges, NEW x, NEW v \in 0 .. EOC
    PROVE  PutFat(x, v) \in Tables
BY DEF CardRanges, PutFat, Tables

LEMMA EntryRanges ==
    ASSUME CardRanges, NEW f, NEW s \in {0} \cup Cluster, NEW n \in Nat
    PROVE  [mem EXCEPT !.entry[f] = [sclust |-> s, size |-> n]] \in Tables
BY DEF CardRanges, Tables

\* How a call ends or goes on, as to where FatFs is and what went wrong.
Going == at \in {"start", "free", "reopen", "grow", "link", "data", "flush"} /\ failed \subseteq {"error", "incomplete"}

LEMMA GoingOn ==
    ASSUME FileRanges, \/ Returns \/ ReturnsIncomplete \/ Aborts \/ Abandons("incomplete")
                       \/ \E where \in {"start", "free", "reopen", "grow", "link", "data", "flush"} : GoesOn(where)
    PROVE  Going'
BY DEF FileRanges, Going, Returns, ReturnsIncomplete, Aborts, Abandons, GoesOn

LEMMA NoFileRanges == NoFile \in FileObject
BY FatAssumption DEF NoFile, FileObject, File, EOC, Nothing

LEMMA GoesTo ==
    ASSUME FileRanges, \/ Returns \/ ReturnsIncomplete \/ Aborts \/ Abandons("incomplete")
                       \/ GoesOn("free") \/ GoesOn("reopen") \/ GoesOn("grow") \/ GoesOn("link") \/ GoesOn("data")
                       \/ GoesOn("flush") \/ GoesOn("start")
    PROVE  Going'
BY GoingOn

LEMMA FileRangesFrom ==
    ASSUME Going', fp' \in FileObject, locked' \subseteq File
    PROVE  FileRanges'
BY DEF FileRanges, Going

LEMMA OpenedRanges ==
    ASSUME CardRanges, NEW f \in File
    PROVE  Opened(f, mem.entry[f]) \in FileObject /\ [Opened(f, mem.entry[f]) EXCEPT !.modified = TRUE] \in FileObject
BY NoFileRanges DEF CardRanges, Tables, Opened, NoFile, FileObject

\* One lemma per action of FatFs follows: the types it leaves, and what it did to the card.
LEMMA OpenRanges ==
    ASSUME IInv, Ranges, Control, Open
    PROVE  Ranges' /\ (disk' = disk \/ Synced)
<1> DEFINE f == todo[1].file
<1>1. f \in File
  BY FirstCall, CallFields DEF Control, Open, Call
<1>2. CardRanges' /\ (disk' = disk \/ Synced)
  BY FindRanges DEF Open, Ranges
<1>3. CASE OpenFails
  <2>1. fp' = NoFile /\ locked' = locked /\ (Aborts \/ UNCHANGED <<at, failed>>)
    BY <1>3 DEF OpenFails
  <2>2. Going'
    BY <2>1, GoesTo DEF Ranges, FileRanges, Going
  <2>3. QED
    BY <2>1, <2>2, <1>2, FileRangesFrom, NoFileRanges DEF Ranges, FileRanges
<1>4. CASE fp' = Opened(f, mem.entry[f]) /\ locked' = locked \cup {f} /\ Returns
  BY <1>1, <1>2, <1>4, GoesTo, FileRangesFrom, OpenedRanges DEF Ranges, FileRanges
<1>5. QED
  BY <1>3, <1>4 DEF Open

LEMMA ReadRanges ==
    ASSUME IInv, Ranges, Read
    PROVE  Ranges' /\ (disk' = disk \/ Synced)
<1>1. CardRanges' /\ (disk' = disk \/ Synced)
  BY FindRanges DEF Read, Ranges
<1>2. Going' /\ fp' = NoFile /\ locked' = locked
  BY GoesTo DEF Read, Ranges
<1>3. QED
  BY <1>1, <1>2, FileRangesFrom, NoFileRanges DEF Ranges, FileRanges

LEMMA InspectRanges ==
    ASSUME IInv, Ranges, Inspect
    PROVE  Ranges' /\ (disk' = disk \/ Synced)
<1>1. CardRanges' /\ (disk' = disk \/ Synced)
  BY FindRanges DEF Inspect, Ranges
<1>2. Going' /\ fp' = NoFile /\ locked' = locked
  <2>1. Returns \/ UNCHANGED <<at, failed>>
    BY DEF Inspect
  <2>2. QED
    BY <2>1, GoesTo DEF Inspect, Ranges, FileRanges, Going
<1>3. QED
  BY <1>1, <1>2, FileRangesFrom, NoFileRanges DEF Ranges, FileRanges

LEMMA FieldRanges ==
    ASSUME NEW o \in FileObject
    PROVE  /\ \A n \in Nat : [o EXCEPT !.fptr = n] \in FileObject /\ [o EXCEPT !.size = n] \in FileObject
           /\ [o EXCEPT !.modified = TRUE] \in FileObject
           /\ \A v \in Value : [o EXCEPT !.buf = v] \in FileObject
BY DEF FileObject

LEMMA EmptiedRanges ==
    ASSUME NEW f \in File, NEW k \in 0 .. EOC
    PROVE  [NoFile EXCEPT !.file = f, !.clust = k] \in FileObject
BY NoFileRanges DEF FileObject

LEMMA TruncateRanges ==
    ASSUME IInv, Ranges, Control, Truncate
    PROVE  Ranges' /\ (disk' = disk \/ Synced)
<1> DEFINE f == todo[1].file
<1>1. f \in File
  BY FirstCall, CallFields DEF Control, Truncate, Call
<1>2. CASE (Find \/ FindError) /\ fp' = NoFile /\ Aborts
  BY <1>2, FindRanges, GoesTo, FileRangesFrom, NoFileRanges DEF Ranges, FileRanges, Truncate
<1>3. CASE /\ fp' = [NoFile EXCEPT !.file = f, !.clust = mem.entry[f].sclust]
           /\ IF mem.entry[f].sclust = 0 THEN GoesOn("reopen") ELSE GoesOn("free")
           /\ ChangeAfter(Directory, [mem EXCEPT !.entry[f] = [sclust |-> 0, size |-> 0]], TRUE)
  <2>1. CardRanges' /\ (disk' = disk \/ Synced)
    BY <1>3, EntryRanges, ChangeRanges, SectorRange DEF Ranges
  <2>2. Going'
    BY <1>3, GoesTo DEF Ranges
  <2>3. fp' \in FileObject
    <3>1. mem.entry[f].sclust \in 0 .. EOC
      <4>1. mem.entry[f].sclust \in {0} \cup Cluster
        BY <1>1 DEF Ranges, CardRanges, Tables
      <4>2. {0} \cup Cluster \subseteq 0 .. EOC
        BY FatAssumption DEF Cluster, EOC
      <4>3. QED
        BY <4>1, <4>2
    <3>2. [NoFile EXCEPT !.file = f, !.clust = mem.entry[f].sclust] \in FileObject
      <4> HIDE DEF f
      <4>1. QED
        BY <3>1, <1>1, EmptiedRanges
    <3>3. QED
      BY <3>2, <1>3
  <2>4. QED
    BY <2>1, <2>2, <2>3, FileRangesFrom DEF Ranges, FileRanges, Truncate
<1>4. QED
  BY <1>2, <1>3 DEF Truncate

LEMMA FreeClusterRanges ==
    ASSUME IInv, Ranges, fp.clust \in Cluster, FreeCluster
    PROVE  Ranges' /\ (disk' = disk \/ Synced)
<1>1. FatSector(fp.clust) \in Directory .. Nowhere /\ Free \in 0 .. EOC /\ mem.fat[fp.clust] \in 0 .. EOC
  BY SectorRange, FatAssumption DEF Free, EOC, Ranges, CardRanges, Tables
<1>2. CardRanges' /\ (disk' = disk \/ Synced)
  BY <1>1, PutFatRanges, ChangeRanges, ErrorRanges DEF FreeCluster, Change, WindowError, Ranges
<1>3. Going' /\ locked' = locked
  BY GoesTo DEF FreeCluster, Ranges
<1>4. fp' \in FileObject
  BY <1>1, NoFileRanges DEF FreeCluster, Ranges, FileRanges, FileObject
<1>5. QED
  BY <1>2, <1>3, <1>4, FileRangesFrom DEF Ranges, FileRanges

LEMMA ReopenRanges ==
    ASSUME IInv, Ranges, Reopen
    PROVE  Ranges' /\ (disk' = disk \/ Synced)
<1>1. CardRanges' /\ (disk' = disk \/ Synced)
  BY LookRanges, ErrorRanges, SectorRange DEF Reopen, Look, WindowError, Ranges
<1>2. Going' /\ locked' \subseteq File
  BY GoesTo DEF Reopen, Ranges, FileRanges, FileObject
<1>3. fp' \in FileObject
  <2>1. fp.file \in File
    BY DEF Ranges, FileRanges, FileObject
  <2>2. QED
    BY <2>1, NoFileRanges, OpenedRanges DEF Reopen, Ranges
<1>4. QED
  BY <1>1, <1>2, <1>3, FileRangesFrom DEF Ranges

LEMMA FollowRanges ==
    ASSUME IInv, Ranges, fp.fptr > 0 => fp.clust \in Cluster, Follow
    PROVE  Ranges' /\ (disk' = disk \/ Synced)
<1>1. fp.fptr > 0 => FatSector(fp.clust) \in Directory .. Nowhere /\ mem.fat[fp.clust] \in 0 .. EOC
  BY SectorRange DEF Ranges, CardRanges, Tables
<1>2. CardRanges' /\ (disk' = disk \/ Synced)
  BY <1>1, LookRanges, ErrorRanges, StillRanges DEF Follow, Look, WindowError, Ranges
<1>3. Going' /\ locked' = locked
  BY GoesTo DEF Follow, Ranges
<1>4. fp' \in FileObject
  <2>1. fp.sclust \in 0 .. EOC /\ fp \in FileObject
    BY FatAssumption DEF Ranges, FileRanges, FileObject, Cluster, EOC
  <2>2. fp' = fp \/ fp' = [fp EXCEPT !.clust = fp.sclust] \/ (fp.fptr > 0 /\ fp' = [fp EXCEPT !.clust = mem.fat[fp.clust]])
    BY DEF Follow
  <2>3. QED
    BY <2>1, <2>2, <1>1 DEF FileObject
<1>5. QED
  BY <1>2, <1>3, <1>4, FileRangesFrom DEF Ranges, FileRanges

LEMMA SettledRanges == ASSUME FileRanges PROVE Settled \in FileObject
BY DEF Settled, FileRanges, FileObject

LEMMA GrowRanges ==
    ASSUME IInv, Ranges, Grow
    PROVE  Ranges' /\ (disk' = disk \/ Synced)
<1>1. EOC \in 0 .. EOC /\ \A x \in Cluster : x \in 0 .. EOC
  BY FatAssumption DEF EOC, Cluster
<1>2. CardRanges' /\ (disk' = disk \/ Synced)
  <2>1. CASE \E x \in Cluster : \E around \in BOOLEAN : ChangeAfter(FatSector(x), PutFat(x, EOC), around)
    <3>1. PICK x \in Cluster, around \in BOOLEAN : ChangeAfter(FatSector(x), PutFat(x, EOC), around)
      BY <2>1
    <3>2. FatSector(x) \in Directory .. Nowhere /\ PutFat(x, EOC) \in Tables
      BY <1>1, SectorRange, PutFatRanges DEF Ranges
    <3>3. QED
      BY <3>1, <3>2, ChangeRanges DEF Ranges
  <2>2. CASE \E s \in Fat, around \in BOOLEAN : LookAfter(s, around)
    BY <2>2, SectorRange, LookRanges DEF Ranges
  <2>3. CASE \E s \in Fat : WindowError(s)
    BY <2>3, ErrorRanges DEF Ranges, WindowError
  <2>4. QED
    BY <2>1, <2>2, <2>3 DEF Grow
<1>3. Going' /\ locked' = locked
  BY GoesTo DEF Grow, Ranges
<1>4. fp' \in FileObject
  <2>1. fp \in FileObject /\ Settled \in FileObject
    BY SettledRanges DEF Ranges, FileRanges
  <2>2. \/ fp' = fp \/ fp' = Settled
        \/ \E x \in Cluster : fp' = [fp EXCEPT !.sclust = x, !.clust = x] \/ fp' = [fp EXCEPT !.new = x]
    BY DEF Grow
  <2>3. QED
    BY <2>1, <2>2, <1>1 DEF FileObject
<1>5. QED
  BY <1>2, <1>3, <1>4, FileRangesFrom DEF Ranges, FileRanges

LEMMA LinkRanges ==
    ASSUME IInv, Ranges, fp.clust \in Cluster, fp.new \in Cluster, Link
    PROVE  Ranges' /\ (disk' = disk \/ Synced)
<1>1. FatSector(fp.clust) \in Directory .. Nowhere /\ fp.new \in 0 .. EOC
  BY SectorRange, FatAssumption DEF EOC, Cluster
<1>2. CardRanges' /\ (disk' = disk \/ Synced)
  BY <1>1, PutFatRanges, ChangeRanges, ErrorRanges DEF Link, Change, WindowError, Ranges
<1>3. Going' /\ locked' = locked
  BY GoesTo DEF Link, Ranges
<1>4. fp' \in FileObject
  BY <1>1 DEF Link, Ranges, FileRanges, FileObject
<1>5. QED
  BY <1>2, <1>3, <1>4, FileRangesFrom DEF Ranges, FileRanges

\* Data goes past the window, to a cluster.
Stores(x, v) == x \in Cluster /\ v \in Value /\ disk' = [disk EXCEPT !.data[x] = v] /\ UNCHANGED <<mem, win>>

LEMMA TransferRanges ==
    ASSUME IInv, Ranges, Control, fp.clust \in Cluster, Transfer
    PROVE  Ranges' /\ (disk' = disk \/ (todo[1].call = "write" /\ Stores(fp.clust, todo[1].value)))
<1>1. todo[1].call \in {"write", "put"} => todo[1].value \in Value
  BY FirstCall, CallFields DEF Control, Transfer
<1>2. disk' = disk \/ (todo[1].call = "write" /\ Stores(fp.clust, todo[1].value))
  BY <1>1 DEF Transfer, Stores
<1>3. CardRanges'
  BY <1>2, DataRanges, StillRanges DEF Transfer, Stores, Ranges
<1>4. Going' /\ locked' = locked
  BY GoesTo DEF Transfer, Ranges
<1>5. fp' \in FileObject
  <2>1. Advanced \in FileObject /\ fp \in FileObject
    <3>0. fp \in FileObject /\ fp.fptr \in Nat /\ fp.size \in Nat
      BY DEF Ranges, FileRanges, FileObject
    <3>1. fp \in FileObject /\ fp.fptr \in Nat /\ fp.size \in Nat /\ fp.fptr + 1 \in Nat
      BY <3>0
    <3>2. PICK n \in Nat : n = IF fp.size > fp.fptr THEN fp.size ELSE fp.fptr + 1
      BY <3>1
    <3>3. [fp EXCEPT !.fptr = @ + 1, !.size = n, !.modified = TRUE] \in FileObject
      <4>1. [fp EXCEPT !.fptr = @ + 1] \in FileObject
        BY <3>1, FieldRanges
      <4>2. [fp EXCEPT !.fptr = @ + 1, !.size = n] \in FileObject
        BY <4>1, FieldRanges
      <4>3. QED
        BY <4>2, FieldRanges
    <3>4. QED
      BY <3>1, <3>2, <3>3 DEF Advanced
  <2>2. CASE todo[1].call = "put" /\ fp' = [Advanced EXCEPT !.buf = todo[1].value]
    <3>1. PICK v \in Value : v = todo[1].value
      BY <1>1, <2>2
    <3>2. QED
      BY <2>1, <2>2, <3>1, FieldRanges
  <2>3. fp' = [fp EXCEPT !.fptr = @ + 1] => fp' \in FileObject
    <3>1. fp.fptr + 1 \in Nat
      BY <2>1 DEF FileObject
    <3>2. QED
      BY <2>1, <3>1, FieldRanges
  <2>4. QED
    BY <2>1, <2>2, <2>3 DEF Transfer
<1>6. QED
  BY <1>2, <1>3, <1>4, <1>5, FileRangesFrom DEF Ranges, FileRanges

LEMMA ExpandBeginRanges ==
    ASSUME IInv, Ranges, ExpandBegin
    PROVE  Ranges' /\ (disk' = disk \/ Synced)
<1>1. CardRanges' /\ (disk' = disk \/ Synced)
  <2>1. CASE \E s \in Fat, around \in BOOLEAN : LookAfter(s, around)
    BY <2>1, SectorRange, LookRanges DEF Ranges
  <2>2. CASE \E s \in Fat : WindowError(s)
    BY <2>2, ErrorRanges DEF Ranges, WindowError
  <2>3. QED
    BY <2>1, <2>2 DEF ExpandBegin
<1>2. Going' /\ locked' = locked
  BY GoesTo DEF ExpandBegin, Ranges
<1>3. fp' \in FileObject
  <2>1. \A x \in Cluster : x \in 0 .. EOC
    BY FatAssumption DEF EOC, Cluster
  <2>2. fp' = fp \/ \E x \in Cluster : fp' = [fp EXCEPT !.clust = x, !.new = x]
    BY DEF ExpandBegin, FreeBlocks
  <2>3. QED
    BY <2>1, <2>2 DEF Ranges, FileRanges, FileObject
<1>4. QED
  BY <1>1, <1>2, <1>3, FileRangesFrom DEF Ranges, FileRanges

LEMMA ExpandLinkRanges ==
    ASSUME IInv, Ranges, fp.new \in Cluster, todo[1].end \in Nat, ExpandLink
    PROVE  Ranges' /\ (disk' = disk \/ Synced)
<1>1. \A x \in Cluster : x + 1 \in 0 .. EOC /\ EOC \in 0 .. EOC
  BY FatAssumption DEF EOC, Cluster
<1>2. CardRanges' /\ (disk' = disk \/ Synced)
  <2>1. CASE fp.clust \notin Cluster
    BY <2>1, StillRanges DEF ExpandLink, Ranges
  <2>2. CASE fp.clust \in Cluster /\ WindowError(FatSector(fp.clust))
    BY <2>2, ErrorRanges DEF Ranges, WindowError
  <2>3. ASSUME NEW v \in 0 .. EOC, fp.clust \in Cluster,
               Change(FatSector(fp.clust), PutFat(fp.clust, v))
        PROVE  CardRanges' /\ (disk' = disk \/ Synced)
    <3>1. FatSector(fp.clust) \in Directory .. Nowhere /\ PutFat(fp.clust, v) \in Tables
      BY <2>3, SectorRange, PutFatRanges DEF Ranges
    <3>2. QED
      BY <2>3, <3>1, ChangeRanges DEF Change, Ranges
  <2>4. QED
    BY <2>1, <2>2, <2>3, <1>1 DEF ExpandLink
<1>3. Going' /\ locked' = locked
  BY GoesTo DEF ExpandLink, Ranges
<1>4. fp' \in FileObject
  <2>1. \/ fp' = [fp EXCEPT !.new = 0]
        \/ fp' = [fp EXCEPT !.sclust = fp.new, !.new = 0, !.size = todo[1].end, !.modified = TRUE]
        \/ fp.clust \in Cluster /\ fp' = [fp EXCEPT !.clust = @ + 1]
    BY DEF ExpandLink
  <2>2. CASE fp.clust \in Cluster /\ fp' = [fp EXCEPT !.clust = @ + 1]
    BY <1>1, <2>2 DEF Ranges, FileRanges, FileObject
  <2>3. QED
    BY <2>1, <2>2 DEF Ranges, FileRanges, FileObject
<1>5. QED
  BY <1>2, <1>3, <1>4, FileRangesFrom DEF Ranges, FileRanges

LEMMA CloseBufferRanges ==
    ASSUME IInv, Ranges, fp.clust \in Cluster, CloseBuffer
    PROVE  Ranges' /\ (disk' = disk \/ Stores(fp.clust, fp.buf))
<1>1. fp.buf \in Value
  BY DEF CloseBuffer, Ranges, FileRanges, FileObject
<1>2. disk' = disk \/ Stores(fp.clust, fp.buf)
  BY <1>1 DEF CloseBuffer, Stores
<1>3. CardRanges'
  BY <1>2, DataRanges, StillRanges DEF CloseBuffer, Stores, Ranges
<1>4. Going' /\ locked' = locked
  BY GoesTo DEF CloseBuffer, Ranges
<1>5. fp' \in FileObject
  BY DEF CloseBuffer, Ranges, FileRanges, FileObject
<1>6. QED
  BY <1>2, <1>3, <1>4, <1>5, FileRangesFrom DEF Ranges, FileRanges

LEMMA CloseEntryRanges ==
    ASSUME IInv, Ranges, CloseEntry
    PROVE  Ranges' /\ (disk' = disk \/ Synced)
<1>1. fp.sclust \in {0} \cup Cluster /\ fp.size \in Nat
  BY DEF Ranges, FileRanges, FileObject
<1>2. CardRanges' /\ (disk' = disk \/ Synced)
  BY <1>1, EntryRanges, ChangeRanges, ErrorRanges, SectorRange
     DEF CloseEntry, Change, WindowError, Ranges
<1>3. Going' /\ locked' = locked /\ fp' = fp
  BY GoesTo DEF CloseEntry, Ranges
<1>4. QED
  BY <1>2, <1>3, FileRangesFrom DEF Ranges, FileRanges

LEMMA CloseFlushRanges ==
    ASSUME IInv, Ranges, CloseFlush
    PROVE  Ranges' /\ (disk' = disk \/ Synced)
<1>1. CardRanges' /\ (disk' = disk \/ Synced)
  BY SyncRanges, StillRanges DEF CloseFlush, Ranges
<1>2. Going' /\ locked' \subseteq File
  BY GoesTo DEF CloseFlush, Ranges, FileRanges
<1>3. fp' \in FileObject
  BY NoFileRanges DEF CloseFlush, Ranges, FileRanges, FileObject
<1>4. QED
  BY <1>1, <1>2, <1>3, FileRangesFrom DEF Ranges

LEMMA CloseUnchangedRanges ==
    ASSUME Ranges, CloseUnchanged
    PROVE  Ranges'
<1>1. CardRanges'
  BY StillRanges DEF CloseUnchanged, Ranges
<1>2. Going' /\ locked' \subseteq File /\ fp' = NoFile
  BY GoesTo DEF CloseUnchanged, Ranges, FileRanges
<1>3. QED
  BY <1>1, <1>2, FileRangesFrom, NoFileRanges DEF Ranges

LEMMA QuietRanges ==
    ASSUME Ranges, TransferError \/ NotOpen \/ Arrived \/ Interrupt
    PROVE  Ranges'
<1>1. CardRanges'
  BY StillRanges DEF TransferError, NotOpen, Arrived, Interrupt, Ranges
<1>2. Going' /\ locked' = locked
  BY GoesTo DEF TransferError, NotOpen, Arrived, Interrupt, Ranges
<1>3. fp' \in FileObject
  BY SettledRanges DEF TransferError, NotOpen, Arrived, Interrupt, Ranges, FileRanges
<1>4. QED
  BY <1>1, <1>2, <1>3, FileRangesFrom DEF Ranges, FileRanges

LEMMA LetGoRanges ==
    ASSUME Ranges, Restart \/ Finish
    PROVE  Ranges'
<1>1. CardRanges'
  BY StillRanges DEF Restart, Finish, Ranges
<1>2. Going' /\ locked' = locked /\ fp' = NoFile
  BY DEF Restart, Finish, Ranges, FileRanges, Going
<1>3. QED
  BY <1>1, <1>2, FileRangesFrom, NoFileRanges DEF Ranges, FileRanges

LEMMA MountRanges ==
    ASSUME Ranges, Mount
    PROVE  Ranges'
<1>1. CardRanges'
  BY SectorRange DEF Mount, Remount, Ranges, CardRanges, TablesOf
<1>2. Going' /\ locked' = {} /\ fp' = NoFile
  BY DEF Mount, Remount, Going
<1>3. QED
  BY <1>1, <1>2, FileRangesFrom, NoFileRanges DEF Ranges

LEMMA SameRanges ==
    ASSUME Ranges, UNCHANGED <<disk, mem, win, locked, fp, at, failed>>
    PROVE  Ranges'
BY StillRanges DEF Ranges, FileRanges

\* The clusters the calls go to.
LEMMA PositionClusters ==
    ASSUME TypeOK, Control, NEW c, Files(c)
    PROVE  /\ FreeCluster => fp.clust \in Cluster
           /\ Follow => (fp.fptr > 0 => fp.clust \in Cluster)
           /\ Link => fp.clust \in Cluster /\ fp.new \in Cluster
           /\ Transfer => fp.clust \in Cluster
           /\ CloseBuffer => fp.clust \in Cluster
           /\ ExpandLink => fp.new \in Cluster /\ todo[1].end \in Nat
<1>1. /\ fp.file \in File /\ fp.fptr \in Nat /\ ChainsOf(mem.fat, Firsts, c) /\ c[fp.file] \in Seq(Cluster)
      /\ Len(c[fp.file]) \in Nat
  BY Types DEF Typed, FileObject, Files, MemChains, ChainsOf
<1>2. \A i \in 1 .. Len(c[fp.file]) : c[fp.file][i] \in Cluster
  BY <1>1
<1>3. FreeCluster => fp.clust \in Cluster
  <2>1. ASSUME FreeCluster PROVE fp.clust \in Cluster
    <3>1. at = "free" /\ ~fp.open /\ fp.clust # 0
      BY <2>1 DEF FreeCluster, Call, Control, Stage
    <3>2. Firsts[fp.file] = fp.clust
      BY <3>1, <1>1 DEF Firsts, First
    <3>3. Linked(mem.fat, fp.clust, c[fp.file])
      BY <3>2, <1>1 DEF ChainsOf
    <3>4. QED
      BY <3>1, <3>3, <1>1, <1>2 DEF Linked
  <2>2. QED
    BY <2>1
<1>4. Follow => (fp.fptr > 0 => fp.clust \in Cluster)
  <2>1. ASSUME Follow, fp.fptr > 0 PROVE fp.clust \in Cluster
    <3>1. at = "start" /\ fp.open /\ Doing(Advancing)
      BY <2>1, FirstCall DEF Follow, Doing, Control
    <3>2. fp.clust = c[fp.file][fp.fptr] /\ fp.fptr \in 1 .. Len(c[fp.file])
      BY <2>1, <3>1, <1>1 DEF Files, Position
    <3>3. QED
      BY <3>2, <1>2
  <2>2. QED
    BY <2>1
<1>5. Link => fp.clust \in Cluster /\ fp.new \in Cluster
  <2>1. ASSUME Link PROVE fp.clust \in Cluster /\ fp.new \in Cluster
    <3>1. at = "link" /\ Doing(Advancing)
      BY <2>1, FirstCall DEF Link, Doing, Control
    <3>2. fp.clust = c[fp.file][fp.fptr] /\ fp.fptr \in 1 .. Len(c[fp.file]) /\ fp.new \in Cluster
      BY <3>1, <1>1 DEF Files, Position
    <3>3. QED
      BY <3>2, <1>2
  <2>2. QED
    BY <2>1
<1>6. Transfer => fp.clust \in Cluster
  <2>1. ASSUME Transfer PROVE fp.clust \in Cluster
    <3>1. fp.clust = c[fp.file][fp.fptr + 1] /\ fp.fptr + 1 \in 1 .. Len(c[fp.file])
      BY <2>1, <1>1 DEF Transfer, Files, Position
    <3>2. QED
      BY <3>1, <1>2
  <2>2. QED
    BY <2>1
<1>7. CloseBuffer => fp.clust \in Cluster
  <2>1. ASSUME CloseBuffer PROVE fp.clust \in Cluster
    <3>1. fp.clust = c[fp.file][1] /\ 1 \in 1 .. Len(c[fp.file])
      BY <2>1, <1>1 DEF CloseBuffer, Files, Position
    <3>2. QED
      BY <3>1, <1>2
  <2>2. QED
    BY <2>1
<1>8. ExpandLink => fp.new \in Cluster /\ todo[1].end \in Nat
  BY FirstCall, CallFields DEF ExpandLink, Call, Control, Doing, Files, Block
<1>9. QED
  BY <1>3, <1>4, <1>5, <1>6, <1>7, <1>8

\* What a step does to the card.
CardStep ==
    \/ disk' = disk
    \/ Synced
    \/ Transfer /\ todo[1].call = "write" /\ Stores(fp.clust, todo[1].value)
    \/ CloseBuffer /\ Stores(fp.clust, fp.buf)

LEMMA FatStepRanges ==
    ASSUME IInv, TypeOK, Control, NEW c, Files(c), FatStep
    PROVE  Ranges' /\ CardStep
<1>1. Ranges
  BY TypedRanges
<1>2. ASSUME Open \/ Read \/ Truncate \/ FreeCluster \/ Reopen \/ Follow PROVE Ranges' /\ CardStep
  BY <1>1, <1>2, PositionClusters, OpenRanges, ReadRanges, TruncateRanges, FreeClusterRanges,
     ReopenRanges, FollowRanges
     DEF CardStep
<1>3. ASSUME Grow \/ Link \/ ExpandBegin \/ ExpandLink PROVE Ranges' /\ CardStep
  BY <1>1, <1>3, PositionClusters, GrowRanges, LinkRanges, ExpandBeginRanges, ExpandLinkRanges
     DEF CardStep
<1>4. ASSUME Transfer PROVE Ranges' /\ CardStep
  BY <1>1, <1>4, PositionClusters, TransferRanges DEF CardStep
<1>5. ASSUME TransferError \/ NotOpen \/ Arrived PROVE Ranges' /\ CardStep
  <2>1. disk' = disk
    BY <1>5 DEF TransferError, NotOpen, Arrived
  <2>2. QED
    BY <2>1, <1>1, <1>5, QuietRanges DEF CardStep
<1>6. ASSUME Close PROVE Ranges' /\ CardStep
  <2>1. ASSUME CloseBuffer PROVE Ranges' /\ CardStep
    BY <1>1, <2>1, PositionClusters, CloseBufferRanges DEF CardStep
  <2>2. ASSUME CloseEntry \/ CloseFlush PROVE Ranges' /\ CardStep
    BY <1>1, <2>2, CloseEntryRanges, CloseFlushRanges DEF CardStep
  <2>3. ASSUME CloseUnchanged PROVE Ranges' /\ CardStep
    <3>1. disk' = disk
      BY <2>3 DEF CloseUnchanged
    <3>2. QED
      BY <3>1, <1>1, <2>3, CloseUnchangedRanges DEF CardStep
  <2>4. QED
    BY <1>6, <2>1, <2>2, <2>3 DEF Close
<1>7. QED
  BY <1>2, <1>3, <1>4, <1>5, <1>6 DEF FatStep

LEMMA NextRanges ==
    ASSUME IInv, TypeOK, Control, NEW c, Files(c), [Next]_vars
    PROVE  Ranges' /\ CardStep
<1>1. Ranges
  BY TypedRanges
<1>2. ASSUME Inspect PROVE Ranges' /\ CardStep
  BY <1>1, <1>2, InspectRanges DEF CardStep
<1>3. ASSUME Interrupt PROVE Ranges' /\ CardStep
  BY <1>1, <1>3, QuietRanges DEF CardStep, Interrupt
<1>4. ASSUME Restart \/ Finish PROVE Ranges' /\ CardStep
  BY <1>1, <1>4, LetGoRanges DEF CardStep, Restart, Finish
<1>5. ASSUME RemountAfterReset \/ PowerFail PROVE Ranges' /\ CardStep
  BY <1>1, <1>5, MountRanges DEF CardStep, RemountAfterReset, PowerFail, Mount, Remount
<1>6. ASSUME Host PROVE Ranges' /\ CardStep
  BY <1>1, <1>6, HostCalls, SameRanges DEF CardStep
<1>7. ASSUME UNCHANGED vars PROVE Ranges' /\ CardStep
  BY <1>1, <1>7, SameRanges DEF CardStep, vars, fatVars
<1>8. QED
  BY <1>2, <1>3, <1>4, <1>5, <1>6, <1>7, FatStepRanges DEF Next, Firmware

\* The types of what is kept.
LEMMA MayHoldRange ==
    ASSUME NEW f \in File, NEW p, NEW n, NEW v \in Value,
           kept \in [File -> [Blocks -> SUBSET Value]]
    PROVE  MayHold(f, p, n, v) \in [File -> [Blocks -> SUBSET Value]]
BY DEF MayHold

LEMMA UnwrittenRange ==
    ASSUME NEW f \in File, kept \in [File -> [Blocks -> SUBSET Value]]
    PROVE  [kept EXCEPT ![f] = Unwritten] \in [File -> [Blocks -> SUBSET Value]]
BY DEF Unwritten

LEMMA ToldRange ==
    ASSUME Control, Over, kept \in [File -> [Blocks -> SUBSET Value]]
    PROVE  Told \in [File -> [Blocks -> SUBSET Value]]
<1>1. CASE failed # {} \/ todo = << >>
  BY <1>1 DEF Told
<1>2. CASE ~(failed # {} \/ todo = << >>)
  <2>1. todo[1].file \in File /\ todo[1].value \in Value
    BY <1>2, FirstCall, CallFields DEF Control, Over, Call
  <2>2. [kept EXCEPT ![todo[1].file] =
             [b \in Blocks |-> IF b \in todo[1].at .. todo[1].at + todo[1].n - 1 THEN {todo[1].value} ELSE @[b]]]
          \in [File -> [Blocks -> SUBSET Value]]
    BY <2>1
  <2>3. QED
    BY <2>2, <1>2 DEF Told
<1>3. QED
  BY <1>1, <1>2

Commands == {"none", "WRITE", "FORMAT", "MODESELECT", "START", "CREATE", "RESET", "RECREATE"}
\* The types of the command under way.
CommandRanges == started \in BOOLEAN /\ cmd \in Commands /\ kept \in [File -> [Blocks -> SUBSET Value]]

LEMMA NextCommands ==
    ASSUME CommandRanges, Control, [Next]_vars
    PROVE  CommandRanges'
<1>1. CASE UNCHANGED <<started, cmd, kept>>
  BY <1>1 DEF CommandRanges
<1>2. CASE Inspect
  BY <1>2, UnwrittenRange DEF CommandRanges, Commands, Inspect, File
<1>3. CASE Restart \/ Mount
  BY <1>3 DEF CommandRanges, Commands, Restart, Mount
<1>4. CASE Finish
  <2>1. started' \in BOOLEAN
    BY <1>4 DEF Finish, CommandRanges
  <2>2. QED
    BY <1>4, <2>1, ToldRange DEF CommandRanges, Commands, Finish
<1>5. CASE Write
  BY <1>5, MayHoldRange, CardAssumption DEF Write, Begin, CommandRanges, Commands, File
<1>6. CASE ModeSelect
  <2>1. PICK v \in Value : kept' = MayHold("dsc", 0, 1, v)
    BY <1>6, CardAssumption DEF ModeSelect
  <2>2. started' = started /\ cmd' = "MODESELECT" /\ "dsc" \in File
    BY <1>6 DEF ModeSelect, Begin, File
  <2>3. QED
    BY <2>1, <2>2, MayHoldRange DEF CommandRanges, Commands
<1>7. CASE Format
  BY <1>7, UnwrittenRange DEF Format, Begin, CommandRanges, Commands, File
<1>8. CASE Start \/ Reset
  BY <1>8 DEF Start, Reset, Begin, CommandRanges, Commands
<1>9. QED
  BY <1>1, <1>2, <1>3, <1>4, <1>5, <1>6, <1>7, <1>8
     DEF Next, Firmware, Host, Interrupt, RemountAfterReset, PowerFail, vars, fatVars

\* Every step keeps the types and leaves the card alone, brings it up to date, or
\* writes one block of data.
LEMMA NextTypes ==
    ASSUME IInv, TypeOK, Control, NEW c, Files(c), [Next]_vars
    PROVE  TypeOK' /\ Control' /\ CardStep
<1>1. Ranges' /\ CardStep
  BY NextRanges
<1>2. Control'
  BY NextControl, Types
<1>3. CommandRanges'
  <2>1. CommandRanges
    BY DEF TypeOK, CommandRanges, Commands
  <2>2. QED
    BY <2>1, NextCommands
<1>4. \A i \in DOMAIN todo' : todo'[i].call \in Calls
  <2>1. todo' \in Seq(CallSet)
    BY <1>2 DEF Control, Queue
  <2>2. \A i \in DOMAIN todo' : todo'[i] \in CallSet
    BY <2>1
  <2>3. QED
    BY <2>2, CallFields
<1>5. QED
  BY <1>1, <1>2, <1>3, <1>4
     DEF TypeOK, FatTypeOK, Ranges, CardRanges, FileRanges, FileObject, CommandRanges, Commands

-----------------------------------------------------------------------------
(* A step keeps the chains; the invariant.                                 *)

\* The chain of a file in c is the beginning of its chain in e.
Agrees(c, e, f) == Len(c[f]) <= Len(e[f]) /\ \A i \in 1 .. Len(c[f]) : e[f][i] = c[f][i]

\* A step keeps the chains of the files in the directory, and those of a file that is written and stays open.
Keeps(c, e) ==
    \A f \in File : mem.entry[f].sclust # 0 \/ (Doing({"write", "close"}) /\ fp'.open) => Agrees(c, e, f)

\* Chains are sequences of clusters.
LEMMA ChainTypes ==
    ASSUME NEW c, Files(c)
    PROVE  c \in [File -> Seq(Cluster)] /\ \A f \in File : c[f] \in Seq(Cluster) /\ Len(c[f]) \in Nat
BY DEF Files, MemChains, ChainsOf

\* One lemma per way a chain may change.
LEMMA EnteredKeeps ==
    ASSUME NEW c, Files(c), NEW e, e = Entered(c), ~(Doing({"write", "close"}) /\ fp'.open)
    PROVE  Keeps(c, e)
<1>1. \A f \in File : mem.entry[f].sclust # 0 => e[f] = c[f]
  BY DEF Entered
<1>2. QED
  BY <1>1, ChainTypes DEF Keeps, Agrees

LEMMA SameKeeps ==
    ASSUME NEW c, Files(c)
    PROVE  Keeps(c, c)
BY ChainTypes DEF Keeps, Agrees

LEMMA LongerKeeps ==
    ASSUME TypeOK, NEW c, Files(c), NEW e, Files(e)', Longer(c, e)
    PROVE  Keeps(c, e)
<1>1. \A f \in File : Len(e[f]) \in Nat
  BY DEF Files, MemChains, ChainsOf
<1>2. ASSUME NEW f \in File PROVE Len(c[f]) <= Len(e[f])
  <2>1. Len(c[f]) \in Nat /\ Len(e[f]) \in Nat
    BY <1>1, ChainTypes
  <2>2. CASE Len(c[f]) = 0
    BY <2>1, <2>2
  <2>3. CASE Len(c[f]) # 0
    <3>1. Len(c[f]) \in 1 .. Len(c[f])
      BY <2>1, <2>3
    <3>2. QED
      BY <3>1 DEF Longer
  <2>4. QED
    BY <2>2, <2>3
<1>3. QED
  BY <1>2 DEF Keeps, Agrees, Longer

LEMMA FreeClusterKeeps ==
    ASSUME TypeOK, Control, NEW c, Files(c), FreeCluster
    PROVE  \E e : Keeps(c, e) /\ Files(e)'
<1>1. ~Doing({"write", "close"})
  BY DEF FreeCluster, Call, Doing
<1>2. CASE \E e : e = Entered(c) /\ Files(e)'
  BY <1>1, <1>2, EnteredKeeps
<1>3. CASE \E e : e = [c EXCEPT ![fp.file] = Tail(@)] /\ Files(e)'
  <2>1. PICK e : e = [c EXCEPT ![fp.file] = Tail(@)] /\ Files(e)'
    BY <1>3
  <2>2. mem.entry[fp.file].sclust = 0
    BY DEF FreeCluster, Call, Control, Stage
  <2>3. \A f \in File : f # fp.file => e[f] = c[f]
    BY <2>1, ChainTypes
  <2>4. Keeps(c, e)
    BY <1>1, <2>2, <2>3, ChainTypes DEF Keeps, Agrees
  <2>5. QED
    BY <2>1, <2>4
<1>4. QED
  BY <1>2, <1>3, FreeClusterFiles

LEMMA ExpandLinkKeeps ==
    ASSUME TypeOK, Control, NEW c, Files(c), ExpandLink, kept' = kept
    PROVE  \E e : Keeps(c, e) /\ Files(e)'
<1>1. PICK e : (\A f \in File : mem.entry[f].sclust # 0 => e[f] = c[f]) /\ Files(e)'
  BY ExpandLinkFiles
<1>2. ~Doing({"write", "close"})
  BY DEF ExpandLink, Call, Doing
<1>3. Keeps(c, e)
  BY <1>1, <1>2, ChainTypes DEF Keeps, Agrees
<1>4. QED
  BY <1>1, <1>3

LEMMA FatStepKeeps ==
    ASSUME TypeOK, Control, NEW c, Files(c), FatStep, kept' = kept
    PROVE  \E e : Keeps(c, e) /\ Files(e)'
<1>1. CASE Open \/ Read \/ Truncate \/ Reopen
  <2>1. ~Doing({"write", "close"})
    BY <1>1 DEF Open, Read, Truncate, Reopen, Call, Doing
  <2>2. QED
    BY <1>1, <2>1, OpenFiles, ReadFiles, TruncateFiles, ReopenFiles, EnteredKeeps
<1>2. CASE Follow \/ Transfer \/ TransferError \/ Arrived \/ NotOpen \/ ExpandBegin \/ CloseBuffer \/ CloseEntry
  <2>1. Files(c)'
    BY <1>2, FollowFiles, TransferFiles, GivesUpFiles, ArrivedFiles, ExpandBeginFiles,
       CloseBufferFiles, CloseEntryFiles
  <2>2. QED
    BY <2>1, SameKeeps
<1>3. CASE Grow \/ Link
  BY <1>3, GrowFiles, LinkFiles, LongerKeeps
<1>4. CASE CloseFlush
  BY <1>4, CloseFlushFiles, SameKeeps, EnteredKeeps DEF NoFile
<1>5. CASE CloseUnchanged
  <2>1. ~fp'.open
    BY <1>5 DEF CloseUnchanged, NoFile
  <2>2. QED
    BY <1>5, <2>1, CloseUnchangedFiles, EnteredKeeps
<1>6. QED
  BY <1>1, <1>2, <1>3, <1>4, <1>5, FreeClusterKeeps, ExpandLinkKeeps DEF FatStep, Close

LEMMA NextKeeps ==
    ASSUME TypeOK, Control, NEW c, Files(c), [Next]_vars
    PROVE  Mount \/ \E e : Keeps(c, e) /\ Files(e)'
<1>1. ASSUME FatStep /\ UNCHANGED <<started, cmd, kept>> PROVE \E e : Keeps(c, e) /\ Files(e)'
  BY <1>1, FatStepKeeps
<1>2. ASSUME Inspect \/ Restart \/ Finish PROVE \E e : Keeps(c, e) /\ Files(e)'
  <2>1. ~fp'.open
    <3>1. fp' = NoFile
      BY <1>2 DEF Inspect, Restart, Finish
    <3>2. QED
      BY <3>1 DEF NoFile
  <2>2. \E e : e = Entered(c) /\ Files(e)'
    BY <1>2, InspectFiles, LetGoFiles
  <2>3. QED
    BY <2>1, <2>2, EnteredKeeps
<1>3. ASSUME Interrupt \/ Host \/ UNCHANGED vars PROVE \E e : Keeps(c, e) /\ Files(e)'
  <2>1. Files(c)'
    BY <1>3, GivesUpFiles, HostFiles, StillFiles DEF vars, fatVars
  <2>2. QED
    BY <2>1, SameKeeps
<1>4. QED
  BY <1>1, <1>2, <1>3 DEF Next, Firmware, RemountAfterReset, PowerFail

\* The card is written back: its chains are those of the directory in memory.
LEMMA SyncedChains ==
    ASSUME TypeOK, NEW c, Files(c), Synced
    PROVE  \E e : e = Entered(c) /\ DiskChains(e)'
<1>1. PICK e : e = Entered(c)
  OBVIOUS
<1>2. ChainsOf(mem.fat, Entries, e) /\ \A f \in File : mem.entry[f].size <= Len(e[f])
  BY <1>1, EnteredChains DEF Files
<1>3. DiskFirsts' = Entries
  BY DEF Synced, DiskFirsts, Entries
<1>4. \A f \in File : mem.entry[f].sclust = 0 => mem.entry[f].size = 0
  BY DEF Files, MemChains
<1>5. disk'.fat = mem.fat /\ disk'.entry = mem.entry
  BY DEF Synced
<1>6. DiskChains(e)'
  BY <1>2, <1>3, <1>4, <1>5 DEF DiskChains
<1>7. QED
  BY <1>1, <1>6

LEMMA SameDiskChains ==
    ASSUME NEW d, DiskChains(d), disk'.fat = disk.fat, disk'.entry = disk.entry
    PROVE  DiskChains(d)'
<1>1. DiskFirsts' = DiskFirsts
  BY DEF DiskFirsts
<1>2. QED
  BY <1>1 DEF DiskChains

\* How the chains d on the card change with a step, c being those in memory.
CardMoves(c, d, e) ==
    IF Synced THEN e = Entered(c) ELSE e = d /\ disk'.fat = disk.fat /\ disk'.entry = disk.entry

\* A step leaves the chains on the card what they were or makes them those in memory.
LEMMA StepDiskChains ==
    ASSUME IInv, TypeOK, NEW c, Files(c), NEW d, DiskChains(d), CardStep
    PROVE  \E e : CardMoves(c, d, e) /\ DiskChains(e)'
<1>1. CASE Synced
  BY <1>1, SyncedChains DEF CardMoves
<1>2. CASE ~Synced
  <2>1. disk'.fat = disk.fat /\ disk'.entry = disk.entry
    <3>1. ASSUME NEW x, NEW v, Stores(x, v) PROVE disk'.fat = disk.fat /\ disk'.entry = disk.entry
      BY <3>1, TypedRanges, DataRanges DEF Stores, Ranges
    <3>2. QED
      BY <3>1, <1>2 DEF CardStep
  <2>2. QED
    BY <1>2, <2>1, SameDiskChains DEF CardMoves
<1>3. QED
  BY <1>1, <1>2

\* Both sets of tables are those of a file system.
Chains == \E c, d : Files(c) /\ DiskChains(d)
\* The inductive invariant.
CardInv == IInv /\ TypeOK /\ Control /\ Chains

\* Every step keeps it.
LEMMA CardNext == CardInv /\ [Next]_vars => CardInv'
<1> SUFFICES ASSUME CardInv, [Next]_vars PROVE CardInv'
  OBVIOUS
<1>1. IInv /\ TypeOK /\ Control
  BY DEF CardInv
<1>2. PICK c, d : Files(c) /\ DiskChains(d)
  BY DEF CardInv, Chains
<1>3. IInv'
  BY <1>1, NextInvariant
<1>4. TypeOK' /\ Control' /\ CardStep
  BY <1>1, <1>2, NextTypes
<1>5. \E e : DiskChains(e)'
  BY <1>1, <1>2, <1>4, StepDiskChains
<1>6. \E e : Files(e)'
  <2>1. CASE Mount
    BY <1>1, <1>2, <2>1, MountFiles
  <2>2. CASE ~Mount
    BY <1>1, <1>2, <2>2, NextKeeps
  <2>3. QED
    BY <2>1, <2>2
<1>7. Chains'
  BY <1>5, <1>6 DEF Chains
<1>8. QED
  BY <1>3, <1>4, <1>7 DEF CardInv

\* The card of the start: two chains of one cluster.
LEMMA StartChains ==
    ASSUME NEW x \in Cluster, NEW y \in Cluster, x # y, NEW first,
           first["dat"] = x, first["dsc"] = y, NEW fat, fat[x] = EOC, fat[y] = EOC
    PROVE  \E c : ChainsOf(fat, first, c) /\ \A f \in File : Len(c[f]) = 1 /\ c[f][1] = first[f]
<1>1. PICK c : c = [f \in File |-> << first[f] >>]
  OBVIOUS
<1>2. \A f \in File : first[f] \in Cluster /\ first[f] # 0 /\ fat[first[f]] = EOC
  BY FatAssumption DEF File, Cluster
<1>3. /\ c \in [File -> Seq(Cluster)]
      /\ \A f \in File : Len(c[f]) = 1 /\ c[f][1] = first[f]
  BY <1>1, <1>2
<1>4. ASSUME NEW f \in File, NEW g \in File, NEW i \in 1 .. Len(c[f]), NEW j \in 1 .. Len(c[g]),
             c[f][i] = c[g][j]
      PROVE  f = g /\ i = j
  BY <1>3, <1>4 DEF File
<1>5. ASSUME NEW f \in File PROVE Linked(fat, first[f], c[f])
  <2>1. Nth(c[f], 2) = EOC
    BY <1>3 DEF Nth
  <2>2. \A i \in 1 .. Len(c[f]) : fat[c[f][i]] = Nth(c[f], i + 1)
    BY <1>2, <1>3, <2>1
  <2>3. QED
    BY <1>2, <1>3, <2>2 DEF Linked
<1>6. ChainsOf(fat, first, c)
  BY <1>3, <1>4, <1>5 DEF ChainsOf
<1>7. QED
  BY <1>3, <1>6

\* The card at the start: an image and a descriptor of one block each.
LEMMA StartInv ==
    ASSUME Init
    PROVE  IInv /\ TypeOK /\ Control /\ \E c : Files(c) /\ DiskChains(c)
<1>1. PICK dsc \in Cluster \ {1} :
          disk = [ fat |-> [c \in Cluster |-> IF c \in {1, dsc} THEN EOC ELSE Free],
                   entry |-> [f \in File |-> [sclust |-> IF f = "dat" THEN 1 ELSE dsc, size |-> 1]],
                   data |-> [c \in Cluster |-> 0] ]
  BY DEF Init
<1>2. /\ mem = TablesOf(disk) /\ win = [sect |-> Nowhere, dirty |-> FALSE] /\ locked = {} /\ fp = NoFile
      /\ todo = << >> /\ at = "start" /\ failed = {} /\ started = TRUE /\ cmd = "none"
      /\ kept = [f \in File |-> [Unwritten EXCEPT ![0] = {0}]]
  BY DEF Init
<1>3. 1 \in Cluster /\ dsc \in Cluster /\ dsc # 1 /\ 0 \in Value /\ EOC \in 0 .. EOC /\ Free \in 0 .. EOC
  BY FatAssumption DEF Cluster, Value, EOC, Free
<1>4. IInv
  BY InitInvariant
<1>5. /\ disk.fat = [c \in Cluster |-> IF c \in {1, dsc} THEN EOC ELSE Free]
      /\ disk.entry = [f \in File |-> [sclust |-> IF f = "dat" THEN 1 ELSE dsc, size |-> 1]]
      /\ disk.data = [c \in Cluster |-> 0]
  BY <1>1
<1>6. mem.fat = disk.fat /\ mem.entry = disk.entry /\ mem = [fat |-> disk.fat, entry |-> disk.entry]
  BY <1>2 DEF TablesOf
<1>7. TypeOK
  <2>1. disk.fat \in [Cluster -> 0 .. EOC]
    BY <1>3, <1>5
  <2>2. disk.entry \in [File -> [sclust : {0} \cup Cluster, size : Nat]]
    BY <1>3, <1>5
  <2>3. TablesOf(disk) \in Tables /\ mem \in Tables
    BY <2>1, <2>2, <1>6 DEF TablesOf, Tables
  <2>4. disk.data \in [Cluster -> Value]
    BY <1>3, <1>5
  <2>5. win \in [sect : Directory .. Nowhere, dirty : BOOLEAN]
    BY <1>2, SectorRange
  <2>6. fp \in FileObject
    BY <1>2, NoFileRanges
  <2>7. kept \in [File -> [Blocks -> SUBSET Value]]
    BY <1>2, <1>3 DEF Unwritten
  <2>8. QED
    BY <2>3, <2>4, <2>5, <2>6, <2>7, <1>2 DEF TypeOK, FatTypeOK, FileObject
<1>8. Control
  <2>1. Queue
    BY <1>2 DEF Queue
  <2>2. Turn /\ Stage
    BY <1>2 DEF Turn, Stage, Doing, Idle
  <2>3. QED
    BY <2>1, <2>2 DEF Control
<1>9. \E c : Files(c) /\ DiskChains(c)
  <2>1. \A f \in File : mem.entry[f].sclust = (IF f = "dat" THEN 1 ELSE dsc) /\ mem.entry[f].size = 1
    BY <1>5, <1>6
  <2>2. ~fp.open /\ fp.buf = Nothing
    BY <1>2 DEF NoFile
  <2>3. \A f \in File : First(f) = mem.entry[f].sclust
    BY <1>2, <2>2 DEF First
  <2>4. Firsts["dat"] = 1 /\ Firsts["dsc"] = dsc
    BY <2>1, <2>3 DEF Firsts, File
  <2>5. mem.fat[1] = EOC /\ mem.fat[dsc] = EOC
    BY <1>3, <1>5, <1>6
  <2>6. PICK c : ChainsOf(mem.fat, Firsts, c) /\ \A f \in File : Len(c[f]) = 1 /\ c[f][1] = Firsts[f]
    BY <1>3, <2>4, <2>5, StartChains
  <2>7. MemChains(c)
    <3>1. \A f \in File : mem.entry[f].sclust # 0
      BY <1>3, <2>1, FatAssumption DEF Cluster
    <3>2. QED
      BY <2>1, <2>3, <2>6, <3>1 DEF MemChains
  <2>8. Position(c) /\ Block(c)
    BY <1>2, <2>2 DEF Position, Block, Doing, NoFile
  <2>9. DiskFirsts = Firsts
    <3>1. \A f \in File : First(f) = disk.entry[f].sclust
      BY <1>6, <2>3
    <3>2. QED
      BY <3>1 DEF DiskFirsts, Firsts
  <2>10. DiskChains(c)
    <3>1. \A f \in File : disk.entry[f].size <= Len(c[f]) /\ disk.entry[f].sclust # 0
      BY <1>3, <1>6, <2>1, <2>6, FatAssumption DEF Cluster
    <3>2. QED
      BY <3>1, <1>6, <2>6, <2>9 DEF DiskChains
  <2>11. QED
    BY <2>7, <2>8, <2>10 DEF Files
<1>10. QED
  BY <1>4, <1>7, <1>8, <1>9

\* The invariant holds at the start.
LEMMA CardInit == Init => CardInv
BY StartInv DEF CardInv, Chains

\* A chain of a file is one of the walks over the card.
LEMMA ChainOfFile ==
    ASSUME NEW t, NEW c, ChainsOf(t.fat, [f \in File |-> t.entry[f].sclust], c), NEW f \in File
    PROVE  c[f] \in Walks /\ IsChain(t, f, c[f])
<1>1. c[f] \in Walks
  BY ChainIsWalk DEF ChainsOf
<1>2. QED
  BY <1>1 DEF ChainsOf, IsChain

\* Chains that are apart are a file system.
LEMMA SoundChains ==
    ASSUME NEW t, NEW c, ChainsOf(t.fat, [f \in File |-> t.entry[f].sclust], c),
           \A f \in File : t.entry[f].size <= Len(c[f])
    PROVE  SoundTables(t)
<1>1. "dat" \in File /\ "dsc" \in File /\ c \in [File -> Seq(Cluster)]
  BY DEF File, ChainsOf
<1>2. PICK a \in Seq(Cluster), b \in Seq(Cluster) : a = c["dat"] /\ b = c["dsc"]
  BY <1>1
<1>3. a \in Walks /\ b \in Walks /\ IsChain(t, "dat", a) /\ IsChain(t, "dsc", b)
  BY <1>1, <1>2, ChainOfFile
<1>5. DOMAIN a = 1 .. Len(a) /\ DOMAIN b = 1 .. Len(b)
  BY <1>2
<1>6. \A i \in DOMAIN a, j \in DOMAIN b : a[i] # b[j]
  BY <1>1, <1>2, <1>5 DEF ChainsOf
<1>7. t.entry["dat"].size <= Len(a) /\ t.entry["dsc"].size <= Len(b)
  BY <1>1, <1>2
<1>8. QED
  BY <1>3, <1>6, <1>7 DEF SoundTables

\* The invariant is stronger than NoCrossLinks.
LEMMA ChainsSound ==
    ASSUME CardInv
    PROVE  NoCrossLinks
<1>1. PICK c, d : Files(c) /\ DiskChains(d)
  BY DEF CardInv, Chains
<1>2. SoundTables(mem)
  <2>1. ChainsOf(mem.fat, Entries, Entered(c)) /\ \A f \in File : mem.entry[f].size <= Len(Entered(c)[f])
    BY <1>1, EnteredChains DEF CardInv, Files
  <2>2. QED
    BY <2>1, SoundChains DEF Entries
<1>3. SoundTables(TablesOf(disk))
  <2>1. TablesOf(disk).fat = disk.fat /\ TablesOf(disk).entry = disk.entry
    BY DEF TablesOf
  <2>2. ChainsOf(disk.fat, DiskFirsts, d) /\ \A f \in File : disk.entry[f].size <= Len(d[f])
    BY <1>1 DEF DiskChains
  <2>3. ChainsOf(TablesOf(disk).fat, [f \in File |-> TablesOf(disk).entry[f].sclust], d)
    BY <2>1, <2>2 DEF DiskFirsts
  <2>4. QED
    BY <2>1, <2>2, <2>3, SoundChains
<1>4. QED
  BY <1>2, <1>3 DEF NoCrossLinks

\* The card, the tables in memory, the window and the file object always have their
\* types: f_open, f_lseek, f_write, f_expand and f_close enter no cluster number that
\* is out of range in the table or the directory, because each is at a cluster of
\* the chain it follows (PositionClusters).
THEOREM AlwaysTypeOK == Spec => []TypeOK
<1>1. CardInv => TypeOK
  BY DEF CardInv
<1>2. QED
  BY <1>1, CardInit, CardNext, PTL DEF Spec

\* Wherever power fails and whatever access fails, in any of f_open, f_lseek,
\* f_write, f_expand and f_close, the tables on the card and those in memory are
\* a file system: the chain of the image and that of the descriptor end, cover
\* their files and do not meet.
THEOREM NeverCrossLinked == Spec => []NoCrossLinks
<1>1. CardInv => NoCrossLinks
  BY ChainsSound
<1>2. QED
  BY <1>1, CardInit, CardNext, PTL DEF Spec

=============================================================================
