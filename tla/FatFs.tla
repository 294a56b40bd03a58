-------------------------------- MODULE FatFs --------------------------------
(***************************************************************************)
(* FatFs (stm32/fatfs/ff.c) as the LUN store uses it, down to the sectors  *)
(* it writes: the file allocation table and the directory on the card, the *)
(* one sector of them FatFs holds in memory (fs->win), the open file, and  *)
(* the table of open files (Files[]).                                      *)
(*                                                                         *)
(* A call of FatFs is a sequence of steps, and a step writes at most one   *)
(* sector of the card, so that power may fail between any two writes.      *)
(* "todo" are the calls the firmware is about to make (the first one is    *)
(* under way), "at" says where in the first one it is; the last one is the *)
(* report to the host.                                                     *)
(*                                                                         *)
(* Abstractions: a FAT16 volume; their directory is one sector and both    *)
(* files are in it; a cluster is one sector of data; which free cluster    *)
(* the search finds is left open.  With DiskErrors any access of the card  *)
(* may fail.                                                               *)
(***************************************************************************)
EXTENDS Naturals, Sequences

CONSTANTS
    NClusters,        \* the clusters of the volume
    EntriesPerSector, \* entries of the FAT in one of its sectors
    MaxValue,         \* sectors of data hold a value of 0 .. MaxValue
    DiskErrors        \* may disk_read and disk_write fail?

ASSUME FatAssumption ==
    /\ NClusters \in Nat \ {0} /\ EntriesPerSector \in Nat \ {0} /\ MaxValue \in Nat
    /\ DiskErrors \in BOOLEAN

Cluster == 1 .. NClusters
Free    == 0                 \* FAT entry of a free cluster; "no cluster" elsewhere
EOC     == NClusters + 1     \* any value >= n_fatent: the end of a chain
Value   == 0 .. MaxValue
Nothing == MaxValue + 1      \* the sector buffer of the file is not dirty
File    == {"dat", "dsc"}

\* The sectors FatFs keeps its tables in.
Directory    == 0
FatSector(c) == 1 + (c - 1) \div EntriesPerSector
Fat          == FatSector(1) .. FatSector(NClusters)
Nowhere      == 1 + FatSector(NClusters)

VARIABLES
    disk,    \* what the card holds: FAT, directory entries, data
    mem,     \* FAT and directory as FatFs sees them: the card, but for the window
    win,     \* fs->winsect and fs->wflag
    locked,  \* the files that are open for writing in Files[]
    fp,      \* the file object
    todo, at,\* what FatFs is asked to do, and where in the first call it is
    failed   \* what went wrong: a call returned an "error" the firmware acts on; a
             \* count was short, f_close failed or the WRITE was broken off ("incomplete")

fatVars == <<disk, mem, win, locked, fp, todo, at, failed>>

Tables == [ fat : [Cluster -> 0 .. EOC], entry : [File -> [sclust : {0} \cup Cluster, size : Nat]] ]
NoFile == [ file |-> "dat", open |-> FALSE, sclust |-> 0, clust |-> 0, new |-> 0, fptr |-> 0,
            size |-> 0, modified |-> FALSE, buf |-> Nothing ]
TablesOf(d) == [fat |-> d.fat, entry |-> d.entry]

Calls == {"open", "read", "truncate", "seek", "write", "put", "expand", "close", "inspect", "report"}

FatTypeOK ==
    /\ TablesOf(disk) \in Tables /\ disk.data \in [Cluster -> Value] /\ mem \in Tables
    /\ win \in [sect : Directory .. Nowhere, dirty : BOOLEAN]
    /\ locked \subseteq File
    /\ fp \in [ file : File, open : BOOLEAN, sclust : {0} \cup Cluster, clust : 0 .. EOC,
                new : {0} \cup Cluster, fptr : Nat, size : Nat, modified : BOOLEAN,
                buf : Value \cup {Nothing} ]
    /\ \A i \in DOMAIN todo : todo[i].call \in Calls
    /\ at \in {"start", "free", "reopen", "grow", "link", "data", "flush"}
    /\ failed \subseteq {"error", "incomplete"}

-----------------------------------------------------------------------------
(* The window.                                                             *)

\* sync_window: the card with sector s as it is in memory.
Stored(s) ==
    [ disk EXCEPT !.entry = IF s = Directory THEN mem.entry ELSE @,
                  !.fat = [c \in Cluster |-> IF FatSector(c) = s THEN mem.fat[c] ELSE @[c]] ]

\* (mutant: the window is left without being written back)
LeaveDropped(s, around) == disk' = disk

\* move_window to sector s, straight or through other sectors: a dirty sector
\* is written back when it is left.
Leave(s, around) ==
    disk' = IF win.dirty /\ (win.sect # s \/ around) THEN Stored(win.sect) ELSE disk

\* The window shows sector s, and s is changed so that the tables are m.
LookAfter(s, around) ==
    /\ Leave(s, around) /\ mem' = mem
    /\ win' = [sect |-> s, dirty |-> win.dirty /\ win.sect = s /\ ~around]
ChangeAfter(s, m, around) ==
    /\ Leave(s, around) /\ mem' = m
    /\ win' = [sect |-> s, dirty |-> TRUE]
Look(s) == LookAfter(s, FALSE)
Change(s, m) == ChangeAfter(s, m, FALSE)

\* move_window to s fails: the dirty sector cannot be written and stays in
\* the window, or it was written and s cannot be read.
WindowErrorAfter(s, around) ==
    /\ DiskErrors /\ (win.sect # s \/ around)
    /\ mem' = mem
    /\ \/ win.dirty /\ UNCHANGED <<disk, win>>
       \/ Leave(s, around) /\ win' = [sect |-> Nowhere, dirty |-> FALSE]
WindowError(s) == WindowErrorAfter(s, FALSE)

\* follow_path: the entry of a file is found through the root directory.
Find == LookAfter(Directory, TRUE)
FindError == WindowErrorAfter(Directory, TRUE)

PutFat(c, v) == [mem EXCEPT !.fat[c] = v]

-----------------------------------------------------------------------------
(* The calls.                                                              *)

Call(name, where) == todo # << >> /\ todo[1].call = name /\ at = where

\* The call returns FR_OK, or goes on at another place.
Returns == todo' = Tail(todo) /\ at' = "start" /\ failed' = failed
GoesOn(where) == at' = where /\ UNCHANGED <<todo, failed>>

\* f_lseek and f_write return FR_OK on a full card; nobody looks at f_close.
ReturnsIncomplete == todo' = Tail(todo) /\ at' = "start" /\ failed' = failed \cup {"incomplete"}

\* The call returns an error: of the calls that are left the firmware makes
\* only f_close, after a failed f_write twice.
Abandons(what) ==
    /\ todo' = [ i \in 1 .. IF todo[1].call = "write" /\ what = "error" THEN 2 ELSE 1
                   |-> [call |-> "close"] ]
    /\ at' = "start" /\ failed' = failed \cup {what}
Aborts == Abandons("error")

\* f_open returns an error.  filesystemOpenLunForWrite skips the f_lseek and
\* reports success all the same.
OpenFails ==
    /\ fp' = NoFile /\ locked' = locked
    /\ IF todo[1].file = "dsc" THEN Aborts
       ELSE todo' = SubSeq(todo, 3, Len(todo)) /\ UNCHANGED <<at, failed>>

Opened(f, entry) ==
    [ NoFile EXCEPT !.file = f, !.open = TRUE, !.sclust = entry.sclust, !.size = entry.size ]

\* f_open of a file that exists.  A file that is open for writing, or was
\* and could not be closed, is FR_LOCKED.
Open ==
    /\ Call("open", "start")
    /\ LET f == todo[1].file IN
          \/ /\ Find
             /\ IF f \in locked THEN OpenFails
                ELSE fp' = Opened(f, mem.entry[f]) /\ locked' = locked \cup {f} /\ Returns
          \/ FindError /\ OpenFails

\* f_open for reading, f_read of the first sector and f_close of a file.  What
\* f_read returns does not matter.
Read ==
    /\ Call("read", "start")
    /\ \/ /\ Find
          /\ IF todo[1].file \in locked THEN Aborts ELSE Returns
       \/ FindError /\ Aborts
    /\ fp' = NoFile /\ locked' = locked

\* (mutant: the entry of the file keeps its chain until the file is closed)
TruncateLate ==
    /\ Call("truncate", "start")
    /\ LET f == todo[1].file IN
          /\ fp' = [NoFile EXCEPT !.file = f, !.clust = mem.entry[f].sclust]
          /\ IF mem.entry[f].sclust = 0 THEN GoesOn("reopen") ELSE GoesOn("free")
          /\ Find
    /\ UNCHANGED locked

\* f_open with FA_CREATE_ALWAYS of a file that exists: its entry is emptied in
\* the window, then its chain is freed, then the window moves back.
Truncate ==
    /\ Call("truncate", "start")
    /\ LET f == todo[1].file IN
          \/ /\ f \notin locked
             /\ fp' = [NoFile EXCEPT !.file = f, !.clust = mem.entry[f].sclust]
             /\ IF mem.entry[f].sclust = 0 THEN GoesOn("reopen") ELSE GoesOn("free")
             /\ ChangeAfter(Directory, [mem EXCEPT !.entry[f] = [sclust |-> 0, size |-> 0]], TRUE)
          \/ f \in locked /\ Find /\ fp' = NoFile /\ Aborts
          \/ FindError /\ fp' = NoFile /\ Aborts
    /\ UNCHANGED locked

\* remove_chain, one cluster.
FreeCluster ==
    /\ Call("truncate", "free")
    /\ \/ /\ Change(FatSector(fp.clust), PutFat(fp.clust, Free))
          /\ fp' = [fp EXCEPT !.clust = mem.fat[fp.clust]]
          /\ IF mem.fat[fp.clust] \in Cluster THEN GoesOn("free") ELSE GoesOn("reopen")
       \/ WindowError(FatSector(fp.clust)) /\ fp' = NoFile /\ Aborts
    /\ UNCHANGED locked

Reopen ==
    /\ Call("truncate", "reopen")
    /\ \/ /\ Look(Directory)
          /\ fp' = [Opened(fp.file, mem.entry[fp.file]) EXCEPT !.modified = TRUE]
          /\ locked' = locked \cup {fp.file}
          /\ Returns
       \/ WindowError(Directory) /\ fp' = NoFile /\ locked' = locked /\ Aborts

\* f_lseek, f_write: the cluster the file position is in is looked up.
Advancing == {"seek", "write", "put"}
Follow ==
    /\ todo # << >> /\ todo[1].call \in Advancing /\ at = "start" /\ fp.open
    /\ fp.fptr < todo[1].end
    /\ \/ /\ fp.fptr = 0
          /\ IF fp.sclust = 0 THEN fp' = fp /\ GoesOn("grow")
             ELSE fp' = [fp EXCEPT !.clust = fp.sclust] /\ GoesOn("data")
          /\ UNCHANGED <<disk, mem, win>>
       \/ /\ fp.fptr > 0
          /\ Look(FatSector(fp.clust))
          /\ LET next == mem.fat[fp.clust] IN
                IF next = EOC THEN fp' = fp /\ GoesOn("grow")
                ELSE fp' = [fp EXCEPT !.clust = next] /\ GoesOn("data")
       \/ fp.fptr > 0 /\ WindowError(FatSector(fp.clust)) /\ fp' = fp /\ Aborts
    /\ UNCHANGED locked

\* f_lseek and f_write return: what was reached counts as the size, and the
\* file as changed by f_lseek if it is longer, by f_write in any case.
Settled ==
    IF todo[1].call = "seek" /\ fp.fptr <= fp.size THEN fp
    ELSE [fp EXCEPT !.size = IF @ > fp.fptr THEN @ ELSE fp.fptr, !.modified = TRUE]

\* create_chain: a free cluster is marked as the end of the chain ...
Grow ==
    /\ todo # << >> /\ todo[1].call \in Advancing /\ at = "grow"
    /\ \/ \E c \in Cluster :
             /\ mem.fat[c] = Free
             /\ \E around \in BOOLEAN : ChangeAfter(FatSector(c), PutFat(c, EOC), around)
             /\ IF fp.fptr = 0
                THEN fp' = [fp EXCEPT !.sclust = c, !.clust = c] /\ GoesOn("data")
                ELSE fp' = [fp EXCEPT !.new = c] /\ GoesOn("link")
       \/ /\ \A c \in Cluster : mem.fat[c] # Free
          /\ \E s \in Fat, around \in BOOLEAN : LookAfter(s, around)
          /\ fp' = Settled /\ ReturnsIncomplete
       \/ \E s \in Fat : WindowError(s) /\ fp' = fp /\ Aborts
    /\ UNCHANGED locked

\* ... and the end of the chain is linked to it.
Link ==
    /\ todo # << >> /\ todo[1].call \in Advancing /\ at = "link"
    /\ \/ /\ Change(FatSector(fp.clust), PutFat(fp.clust, fp.new))
          /\ fp' = [fp EXCEPT !.clust = fp.new, !.new = 0] /\ GoesOn("data")
       \/ WindowError(FatSector(fp.clust)) /\ fp' = [fp EXCEPT !.new = 0] /\ Aborts
    /\ UNCHANGED locked

\* The position moves over the sector.
Advanced ==
    [ fp EXCEPT !.fptr = @ + 1, !.size = IF @ > fp.fptr THEN @ ELSE fp.fptr + 1, !.modified = TRUE ]

\* A whole sector goes straight to the card, past the window; a part of one
\* (the descriptor) to the buffer of the file; f_lseek moves no data.
Transfer ==
    /\ todo # << >> /\ todo[1].call \in Advancing /\ at = "data"
    /\ \/ /\ todo[1].call = "write"
          /\ disk' = [disk EXCEPT !.data[fp.clust] = todo[1].value]
          /\ fp' = Advanced
       \/ /\ todo[1].call = "put"
          /\ fp' = [Advanced EXCEPT !.buf = todo[1].value]
          /\ UNCHANGED disk
       \/ /\ todo[1].call = "seek"
          /\ fp' = [fp EXCEPT !.fptr = @ + 1]
          /\ UNCHANGED disk
    /\ GoesOn("start")
    /\ UNCHANGED <<mem, win, locked>>

TransferError ==
    /\ todo # << >> /\ todo[1].call \in {"write", "put"} /\ at = "data"
    /\ DiskErrors
    /\ Aborts
    /\ UNCHANGED <<disk, mem, win, locked, fp>>

\* f_lseek or f_write is where it was asked to go, and returns.
Arrived ==
    /\ todo # << >> /\ todo[1].call \in Advancing /\ at = "start" /\ fp.open
    /\ fp.fptr = todo[1].end
    /\ fp' = Settled /\ Returns
    /\ UNCHANGED <<disk, mem, win, locked>>

\* f_write of a file that could not be opened: FR_INVALID_OBJECT.
NotOpen ==
    /\ Call("write", "start") /\ ~fp.open
    /\ Aborts
    /\ UNCHANGED <<disk, mem, win, locked, fp>>

\* f_expand: n free clusters in a row are found.  The search goes on at the
\* first cluster after the last one, and takes the two for neighbours.
FreeBlocks(n) ==
    { c \in Cluster : /\ 0 < n /\ n <= NClusters
                      /\ \A k \in 0 .. n - 1 : mem.fat[1 + ((c + k - 1) % NClusters)] = Free }

\* The search begins at some cluster and goes round once: from s it misses
\* every block it would have to pass s again for.
SearchFails(n) ==
    \E s \in Cluster : \A c \in FreeBlocks(n) : ((c + NClusters - s) % NClusters) + n > NClusters

ExpandBegin ==
    /\ Call("expand", "start")
    /\ \/ /\ \E s \in Fat, around \in BOOLEAN : LookAfter(s, around)
          /\ \/ \E c \in FreeBlocks(todo[1].end) :
                   fp' = [fp EXCEPT !.clust = c, !.new = c] /\ GoesOn("link")
             \/ SearchFails(todo[1].end) /\ fp' = fp /\ Aborts
       \/ \E s \in Fat : WindowError(s) /\ fp' = fp /\ Aborts
    /\ UNCHANGED locked

\* (mutant: the block is linked without an end)
ExpandLinkEndless ==
    /\ Call("expand", "link")
    /\ Change(FatSector(fp.clust), PutFat(fp.clust, fp.clust + 1))
    /\ fp' = [fp EXCEPT !.clust = @ + 1] /\ GoesOn("link")
    /\ UNCHANGED locked

\* ... and linked, one cluster at a time; put_fat refuses one past the last.
ExpandLink ==
    /\ Call("expand", "link")
    /\ LET last == fp.new + todo[1].end - 1 IN
          \/ /\ fp.clust \in Cluster
             /\ Change(FatSector(fp.clust), PutFat(fp.clust, IF fp.clust = last THEN EOC ELSE fp.clust + 1))
             /\ IF fp.clust = last
                THEN /\ fp' = [fp EXCEPT !.sclust = fp.new, !.new = 0, !.size = todo[1].end, !.modified = TRUE]
                     /\ Returns
                ELSE fp' = [fp EXCEPT !.clust = @ + 1] /\ GoesOn("link")
          \/ /\ fp.clust \in Cluster
             /\ WindowError(FatSector(fp.clust)) /\ fp' = [fp EXCEPT !.new = 0] /\ Aborts
          \/ /\ fp.clust \notin Cluster
             /\ fp' = [fp EXCEPT !.new = 0] /\ Aborts /\ UNCHANGED <<disk, mem, win>>
    /\ UNCHANGED locked

\* f_close, f_sync: a file that was changed gets its buffer written, ...
CloseBuffer ==
    /\ Call("close", "start")
    /\ fp.open /\ fp.modified /\ fp.buf # Nothing
    /\ \/ /\ disk' = [disk EXCEPT !.data[fp.clust] = fp.buf]
          /\ fp' = [fp EXCEPT !.buf = Nothing]
          /\ GoesOn("start")
       \/ DiskErrors /\ UNCHANGED <<disk, fp>> /\ ReturnsIncomplete
    /\ UNCHANGED <<mem, win, locked>>

\* ... its entry updated in the window (which writes the FAT back) ...
CloseEntry ==
    /\ Call("close", "start")
    /\ fp.open /\ fp.modified /\ fp.buf = Nothing
    /\ \/ /\ Change(Directory, [mem EXCEPT !.entry[fp.file] = [sclust |-> fp.sclust, size |-> fp.size]])
          /\ fp' = fp /\ GoesOn("flush")
       \/ WindowError(Directory) /\ fp' = fp /\ ReturnsIncomplete
    /\ UNCHANGED locked

\* sync_fs: the window is written back and stays where it is.
Sync ==
    /\ disk' = IF win.dirty THEN Stored(win.sect) ELSE disk
    /\ win' = [win EXCEPT !.dirty = FALSE]

\* (mutant: the entry is left in the window)
CloseFlushLater ==
    /\ Call("close", "flush")
    /\ locked' = locked \ {fp.file} /\ fp' = NoFile
    /\ Returns
    /\ UNCHANGED <<disk, mem, win>>

\* ... and the entry written.  A file that could not be synchronised stays
\* open, and in the table of open files, but no longer counts as changed.
CloseFlush ==
    /\ Call("close", "flush")
    /\ \/ /\ Sync
          /\ locked' = locked \ {fp.file} /\ fp' = NoFile /\ Returns
       \/ /\ DiskErrors /\ UNCHANGED locked
          /\ \/ UNCHANGED <<disk, win>>
             \/ Sync
          /\ fp' = [fp EXCEPT !.modified = FALSE] /\ ReturnsIncomplete
    /\ UNCHANGED mem

CloseUnchanged ==
    /\ Call("close", "start")
    /\ ~(fp.open /\ fp.modified)
    /\ locked' = IF fp.open THEN locked \ {fp.file} ELSE locked
    /\ fp' = NoFile
    /\ Returns
    /\ UNCHANGED <<disk, mem, win>>

Close == CloseBuffer \/ CloseEntry \/ CloseFlush \/ CloseUnchanged
FatStep ==
    \/ Open \/ Read \/ Truncate \/ FreeCluster \/ Reopen \/ Follow \/ Grow \/ Link \/ Transfer
    \/ TransferError \/ Arrived \/ NotOpen \/ ExpandBegin \/ ExpandLink \/ Close

-----------------------------------------------------------------------------
(* Mounting, and power.                                                    *)

\* f_mount: the table of open files and the window are forgotten.
Remount ==
    /\ disk' = disk /\ mem' = TablesOf(disk)
    /\ win' = [sect |-> Nowhere, dirty |-> FALSE]
    /\ locked' = {} /\ fp' = NoFile /\ at' = "start" /\ failed' = {}
=============================================================================
