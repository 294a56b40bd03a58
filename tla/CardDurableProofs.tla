------------------------- MODULE CardDurableProofs --------------------------
(***************************************************************************)
(* The proof that what the host was told is written stays on the card:     *)
(* CardFiles!Durable, for every size of the volume, any disk error and any *)
(* loss of power.                                                          *)
(*                                                                         *)
(* The invariant of CardFilesProofs is not enough: it speaks of the tables, *)
(* not of the data.  Three parts are added.                                *)
(*   - KeptBlocks: a block that is kept is in the files of both tables, at *)
(*     the same cluster, with a value it may hold.  For both, because the  *)
(*     one in memory is what the next command works on, the one on the card *)
(*     what is left when power fails.                                      *)
(*   - Admitted: what a call is about to write, or has in the buffer of the *)
(*     file, is a value its block may hold, so that no write breaks a      *)
(*     promise that was given.                                             *)
(*   - Progress: of the blocks the host will be told of, f_write has written *)
(*     those up to the file pointer, f_close enters them in the directory, *)
(*     and when the report is made they are on the card: the promise is true *)
(*     when it is given.                                                   *)
(* Each part has a lemma per action and one for every step.                *)
(***************************************************************************)
EXTENDS CardFilesProofs

\* Block b of file f is on the card, for both tables, with a value of S.
OnCard(c, d, f, b, S) ==
    /\ b < mem.entry[f].size /\ b < disk.entry[f].size
    /\ c[f][b + 1] = d[f][b + 1]
    /\ disk.data[c[f][b + 1]] \in S

\* Every block that is kept is on the card, and within the file that is worked on.
KeptBlocks(c, d) ==
    \A f \in File, b \in Blocks : kept[f][b] # {} =>
        OnCard(c, d, f, b, kept[f][b]) /\ (fp.open /\ f = fp.file => b < fp.size)

\* What is about to be written may be written.
Admitted ==
    /\ at \in {"grow", "link", "data"} /\ Doing(Advancing) => fp.fptr < todo[1].end
    /\ fp.buf # Nothing /\ 0 \in Blocks => Admits(fp.file, 0, fp.buf)
    /\ Doing({"write"}) /\ fp.open =>
          \A x \in Blocks : fp.fptr <= x /\ x < todo[1].end => Admits("dat", x, todo[1].value)

\* The host will be told r.
Reported(r) == failed = {} /\ \E j \in 1 .. Len(todo) : todo[j] = r /\ r.call = "report"

\* Blocks p .. q - 1 of file f hold v.
Carries(c, f, p, q, v) == \A b \in Nat : p <= b /\ b < q => disk.data[c[f][b + 1]] = v

\* How far the calls that are reported have come: f_write has written the blocks
\* up to the file pointer; what f_close enters in the directory covers them; before
\* the report they are on the card for both tables.
WriteProgress(c, r) == Doing({"write"}) /\ fp.open => r.at <= fp.fptr /\ Carries(c, "dat", r.at, fp.fptr, r.value)
CloseProgress(c, r) ==
    Doing({"close"}) =>
        /\ fp.open /\ fp.modified /\ fp.file = r.file /\ r.at + r.n <= fp.size
        /\ fp.buf # Nothing => fp.buf = r.value /\ r.at = 0 /\ r.n = 1
        /\ fp.buf = Nothing => Carries(c, r.file, r.at, r.at + r.n, r.value)
        /\ at = "flush" => fp.buf = Nothing /\ mem.entry[r.file] = [sclust |-> fp.sclust, size |-> fp.size]
ReportProgress(c, d, r) ==
    Doing({"report"}) => \A b \in Nat : r.at <= b /\ b < r.at + r.n => OnCard(c, d, r.file, b, {r.value})
\* As far as everything that will be reported is concerned.
Progress(c, d) == \A r : Reported(r) => WriteProgress(c, r) /\ CloseProgress(c, r) /\ ReportProgress(c, d, r)

\* A report that is ahead, and the calls before it.
LEMMA ReportFields ==
    ASSUME Queue, NEW r, Reported(r)
    PROVE  /\ r \in CallSet /\ r.call = "report" /\ r.file \in File /\ r.at \in Nat /\ r.n \in Nat /\ r.value \in Value
           /\ Len(todo) > 0 /\ Matches(todo[1], r) /\ failed = {}
           /\ todo[1].call = "close" => Len(todo) > 1 /\ todo[2] = r
<1>1. PICK j \in 1 .. Len(todo) : todo[j] = r /\ r.call = "report"
  BY DEF Reported
<1>2. Len(todo) \in Nat /\ Len(todo) > 0 /\ 1 \in 1 .. Len(todo) /\ r \in CallSet
  BY <1>1 DEF Queue
<1>3. Matches(todo[1], r) /\ (todo[1].call = "close" => j = 1 + 1)
  BY <1>1, <1>2 DEF Queue
<1>4. QED
  BY <1>1, <1>2, <1>3, CallFields DEF Reported

\* A report that is ahead after a call was ahead before it.
LEMMA TailReported ==
    ASSUME Queue, todo # << >>, todo' = Tail(todo), failed \subseteq failed', NEW r, Reported(r)'
    PROVE  Reported(r)
<1>1. /\ todo \in Seq(CallSet) /\ Len(todo) > 0 /\ Len(todo) \in Nat
      /\ Len(todo') = Len(todo) - 1 /\ \A i \in 1 .. Len(todo') : todo'[i] = todo[i + 1]
  BY DEF Queue
<1>2. PICK j \in 1 .. Len(todo') : todo'[j] = r /\ r.call = "report"
  BY DEF Reported
<1>3. j + 1 \in 1 .. Len(todo) /\ todo[j + 1] = r
  BY <1>1, <1>2
<1>4. QED
  BY <1>2, <1>3 DEF Reported

\* No call returns.
LEMMA SameReported ==
    ASSUME todo' = todo, failed' = failed, NEW r, Reported(r)'
    PROVE  Reported(r)
BY DEF Reported

\* A block of a file in memory is in its chain.
LEMMA BlockInChain ==
    ASSUME TypeOK, NEW c, Files(c), NEW f \in File, NEW b \in Nat, b < mem.entry[f].size
    PROVE  /\ mem.entry[f].sclust # 0 /\ b + 1 \in 1 .. Len(c[f]) /\ c[f][b + 1] \in Cluster
           /\ Entered(c)[f] = c[f]
<1>1. mem.entry[f].size \in Nat /\ c[f] \in Seq(Cluster) /\ Len(c[f]) \in Nat
  BY Types, ChainTypes
<1>2. mem.entry[f].sclust # 0 /\ mem.entry[f].size <= Len(c[f])
  BY <1>1 DEF Files, MemChains
<1>3. b + 1 \in 1 .. Len(c[f])
  BY <1>1, <1>2
<1>4. QED
  BY <1>1, <1>2, <1>3 DEF Entered

\* A block stays on the card when its data is not written over by another value.
LEMMA OnCardStep ==
    ASSUME TypeOK, NEW c, Files(c), NEW d, NEW e, Keeps(c, e), NEW m, CardMoves(c, d, m),
           NEW f \in File, NEW b \in Nat, NEW S, NEW T, S \subseteq T, OnCard(c, d, f, b, S), b < mem'.entry[f].size,
           disk'.data[c[f][b + 1]] \in T
    PROVE  OnCard(e, m, f, b, T)'
<1>1. b < mem.entry[f].size /\ b < disk.entry[f].size /\ c[f][b + 1] = d[f][b + 1]
  BY DEF OnCard
<1>2. mem.entry[f].sclust # 0 /\ b + 1 \in 1 .. Len(c[f]) /\ Entered(c)[f] = c[f]
  BY <1>1, BlockInChain
<1>3. e[f][b + 1] = c[f][b + 1]
  BY <1>2 DEF Keeps, Agrees
<1>4. b < disk'.entry[f].size /\ m[f][b + 1] = c[f][b + 1]
  <2>1. CASE Synced
    BY <2>1, <1>1, <1>2 DEF CardMoves, Synced
  <2>2. CASE ~Synced
    BY <2>2, <1>1 DEF CardMoves
  <2>3. QED
    BY <2>1, <2>2
<1>5. QED
  BY <1>3, <1>4 DEF OnCard

-----------------------------------------------------------------------------
(* The sizes of the files.                                                 *)

\* Block b of f is within the file, as it is in the directory and as it is worked on.
Room(f, b) == b < mem.entry[f].size /\ (fp.open /\ f = fp.file => b < fp.size)

\* Blocks are numbered from 0.
LEMMA BlockIsNat == Blocks \subseteq Nat
BY CardAssumption DEF Blocks

\* One lemma per way a step may change the size of a file.
LEMMA ClosedRoom ==
    ASSUME NEW f \in File, NEW b \in Nat, Room(f, b), mem' = mem,
           fp'.open => fp'.size = mem.entry[fp'.file].size
    PROVE  Room(f, b)'
BY DEF Room

LEMMA GrownRoom ==
    ASSUME TypeOK, NEW f \in File, NEW b \in Nat, Room(f, b), mem'.entry = mem.entry,
           fp'.open = fp.open, fp'.file = fp.file, fp.open => fp'.size \in Nat /\ fp'.size >= fp.size
    PROVE  Room(f, b)'
BY Types DEF Room, Typed, FileObject

LEMMA SettledRoom ==
    ASSUME TypeOK
    PROVE  Settled.open = fp.open /\ Settled.file = fp.file /\ Settled.size \in Nat /\ Settled.size >= fp.size
BY Types DEF Settled, Typed, FileObject

LEMMA AdvancedRoom ==
    ASSUME TypeOK
    PROVE  /\ Advanced.open = fp.open /\ Advanced.file = fp.file /\ Advanced.size \in Nat /\ Advanced.size >= fp.size
           /\ Advanced.fptr = fp.fptr + 1 /\ Advanced.clust = fp.clust /\ Advanced.buf = fp.buf
BY Types DEF Advanced, Typed, FileObject

\* No step of FatFs but the f_open that empties a file makes a file shorter.
LEMMA FatStepRoom ==
    ASSUME TypeOK, Control, NEW c, Files(c), FatStep, NEW f \in File, NEW b \in Blocks,
           kept[f][b] # {}, Room(f, b)
    PROVE  Room(f, b)'
<1>0. b \in Nat /\ fp \in FileObject
  BY BlockIsNat, Types DEF Typed
<1>1. CASE Open \/ Read \/ Reopen \/ CloseUnchanged
  <2>1. mem' = mem
    BY <1>1
       DEF Open, Read, Reopen, CloseUnchanged, Find, FindError, Look, LookAfter, WindowError,
           WindowErrorAfter
  <2>2. fp' = NoFile \/ \E g \in {fp.file, todo[1].file} : fp' \in {Opened(g, mem.entry[g]), [Opened(g, mem.entry[g]) EXCEPT !.modified = TRUE]}
    BY <1>1 DEF Open, OpenFails, Read, Reopen, CloseUnchanged
  <2>3. fp'.open => fp'.size = mem.entry[fp'.file].size
    <3>1. CASE fp' = NoFile
      BY <3>1 DEF NoFile
    <3>2. ASSUME NEW g, NEW m, fp' = Opened(g, m) \/ fp' = [Opened(g, m) EXCEPT !.modified = TRUE]
          PROVE  fp'.size = m.size /\ fp'.file = g
      <4>1. Opened(g, m).size = m.size /\ Opened(g, m).file = g
        BY DEF Opened, NoFile
      <4>2. [Opened(g, m) EXCEPT !.modified = TRUE].size = m.size /\ [Opened(g, m) EXCEPT !.modified = TRUE].file = g
        BY DEF Opened, NoFile
      <4>3. QED
        BY <3>2, <4>1, <4>2
    <3>3. QED
      BY <2>2, <3>1, <3>2
  <2>4. QED
    BY <1>0, <2>1, <2>3, ClosedRoom
<1>2. CASE Truncate
  <2>1. ~fp'.open
    <3>1. \/ fp' = NoFile
          \/ \E g, x : fp' = [NoFile EXCEPT !.file = g, !.clust = x]
      BY <1>2 DEF Truncate
    <3>2. CASE fp' = NoFile
      BY <3>2 DEF NoFile
    <3>3. ASSUME NEW g, NEW x, fp' = [NoFile EXCEPT !.file = g, !.clust = x] PROVE ~fp'.open
      BY <3>3 DEF NoFile
    <3>4. QED
      BY <3>1, <3>2, <3>3
  <2>2. mem' = mem \/ mem' = [mem EXCEPT !.entry[todo[1].file] = [sclust |-> 0, size |-> 0]]
    BY <1>2 DEF Truncate, ChangeAfter, Find, FindError, LookAfter, WindowErrorAfter
  <2>3. f # todo[1].file
    <3>1. todo[1].call = "truncate" /\ CallOK(todo[1])
      BY <1>2, FirstCall DEF Truncate, Call, Control, Queue
    <3>2. QED
      BY <3>1 DEF CallOK
  <2>4. mem'.entry[f] = mem.entry[f]
    BY <2>2, <2>3, Types
  <2>5. QED
    BY <2>1, <2>4 DEF Room
<1>3. CASE FreeCluster
  <2>1. ~fp'.open
    <3>1. ~fp.open
      BY <1>3 DEF FreeCluster, Call, Control, Stage
    <3>2. QED
      BY <1>0, <1>3, <3>1 DEF FreeCluster, NoFile, FileObject
  <2>2. mem'.entry = mem.entry
    BY <1>3, Types DEF FreeCluster, Change, ChangeAfter, WindowError, WindowErrorAfter, PutFat
  <2>3. QED
    BY <2>1, <2>2 DEF Room
<1>4. CASE Follow \/ Grow \/ Link \/ ExpandBegin
  <2>1. mem'.entry = mem.entry
    BY <1>4, Types
       DEF Follow, Grow, Link, ExpandBegin, Look, LookAfter, Change, ChangeAfter, WindowError,
           WindowErrorAfter, PutFat
  <2>2. fp'.open = fp.open /\ fp'.file = fp.file /\ fp'.size \in Nat /\ fp'.size >= fp.size
    <3>1. \/ fp' = fp \/ fp' = Settled \/ fp' = [fp EXCEPT !.clust = fp.sclust] \/ fp' = [fp EXCEPT !.clust = mem.fat[fp.clust]]
          \/ \E x : fp' = [fp EXCEPT !.sclust = x, !.clust = x] \/ fp' = [fp EXCEPT !.new = x]
                    \/ fp' = [fp EXCEPT !.clust = x, !.new = x]
          \/ fp' = [fp EXCEPT !.clust = fp.new, !.new = 0] \/ fp' = [fp EXCEPT !.new = 0]
      <4>1. CASE Follow
        BY <4>1 DEF Follow
      <4>2. CASE Grow
        BY <4>2 DEF Grow
      <4>3. CASE Link
        BY <4>3 DEF Link
      <4>4. CASE ExpandBegin
        BY <4>4 DEF ExpandBegin
      <4>5. QED
        BY <1>4, <4>1, <4>2, <4>3, <4>4
    <3>2. CASE fp' = Settled
      BY <3>2, SettledRoom
    <3>3. fp.size \in Nat /\ fp.size >= fp.size
      BY <1>0 DEF FileObject
    <3>4. CASE fp' # Settled
      BY <1>0, <3>1, <3>3, <3>4 DEF FileObject
    <3>5. QED
      BY <3>2, <3>4
  <2>3. QED
    BY <1>0, <2>1, <2>2, GrownRoom
<1>5. CASE Transfer
  <2>1. mem' = mem /\ fp'.open = fp.open /\ fp'.file = fp.file /\ fp'.size \in Nat /\ fp'.size >= fp.size
    <3>1. mem' = mem /\ (fp' = Advanced \/ fp' = [Advanced EXCEPT !.buf = todo[1].value] \/ fp' = [fp EXCEPT !.fptr = @ + 1])
      BY <1>5 DEF Transfer
    <3>2. fp.size \in Nat /\ fp.size >= fp.size
      BY <1>0 DEF FileObject
    <3>3. [Advanced EXCEPT !.buf = todo[1].value].open = Advanced.open
          /\ [Advanced EXCEPT !.buf = todo[1].value].file = Advanced.file
          /\ [Advanced EXCEPT !.buf = todo[1].value].size = Advanced.size
      BY <1>0 DEF Advanced, FileObject
    <3>4. QED
      BY <1>0, <3>1, <3>2, <3>3, AdvancedRoom DEF FileObject
  <2>2. QED
    BY <1>0, <2>1, GrownRoom
<1>6. CASE TransferError \/ Arrived \/ NotOpen
  <2>1. mem' = mem /\ (fp' = fp \/ fp' = Settled)
    BY <1>6 DEF TransferError, Arrived, NotOpen
  <2>2. fp.size \in Nat /\ fp.size >= fp.size
    BY <1>0 DEF FileObject
  <2>3. QED
    BY <1>0, <2>1, <2>2, SettledRoom, GrownRoom
<1>7. CASE ExpandLink
  <2>1. mem'.entry = mem.entry
    BY <1>7, Types DEF ExpandLink, Change, ChangeAfter, WindowError, WindowErrorAfter, PutFat
  <2>2. fp'.open = fp.open /\ fp'.file = fp.file
    BY <1>0, <1>7 DEF ExpandLink, FileObject
  <2>3. f # fp.file
    <3>1. mem.entry[fp.file].sclust = 0
      BY <1>7, FirstCall DEF ExpandLink, Call, Control, Turn, Doing
    <3>2. mem.entry[f].sclust # 0
      BY <1>0, BlockInChain DEF Room
    <3>3. QED
      BY <3>1, <3>2
  <2>4. QED
    BY <2>1, <2>2, <2>3 DEF Room
<1>8. CASE CloseBuffer
  <2>1. mem' = mem /\ fp'.open = fp.open /\ fp'.file = fp.file /\ fp'.size = fp.size /\ fp.size \in Nat /\ fp.size >= fp.size
    <3>1. mem' = mem /\ (fp' = fp \/ fp' = [fp EXCEPT !.buf = Nothing])
      BY <1>8 DEF CloseBuffer
    <3>2. fp.size \in Nat /\ fp.size >= fp.size
      BY <1>0 DEF FileObject
    <3>3. CASE fp' = [fp EXCEPT !.buf = Nothing]
      BY <1>0, <3>1, <3>2, <3>3 DEF FileObject
    <3>4. QED
      BY <3>1, <3>2, <3>3
  <2>2. QED
    BY <1>0, <2>1, GrownRoom
<1>9. CASE CloseEntry
  <2>1. fp' = fp /\ fp.open
    BY <1>9 DEF CloseEntry
  <2>2. mem' = mem \/ mem' = [mem EXCEPT !.entry[fp.file] = [sclust |-> fp.sclust, size |-> fp.size]]
    BY <1>9 DEF CloseEntry, Change, ChangeAfter, WindowError, WindowErrorAfter
  <2>3. CASE mem' = mem
    BY <2>1, <2>3 DEF Room
  <2>4. CASE mem' = [mem EXCEPT !.entry[fp.file] = [sclust |-> fp.sclust, size |-> fp.size]]
    <3>1. mem'.entry[f].size = IF f = fp.file THEN fp.size ELSE mem.entry[f].size
      BY <2>4, Types
    <3>2. QED
      BY <2>1, <3>1 DEF Room
  <2>5. QED
    BY <2>2, <2>3, <2>4
<1>10. CASE CloseFlush
  <2>1. mem' = mem /\ (fp' = NoFile \/ fp' = [fp EXCEPT !.modified = FALSE])
    BY <1>10 DEF CloseFlush
  <2>2. CASE fp' = NoFile
    <3>1. ~fp'.open
      BY <2>2 DEF NoFile
    <3>2. QED
      BY <1>0, <2>1, <3>1, ClosedRoom
  <2>3. CASE fp' = [fp EXCEPT !.modified = FALSE]
    <3>1. fp'.open = fp.open /\ fp'.file = fp.file /\ fp'.size = fp.size /\ fp.size \in Nat /\ fp.size >= fp.size
      BY <1>0, <2>3 DEF FileObject
    <3>2. QED
      BY <1>0, <2>1, <3>1, GrownRoom
  <2>4. QED
    BY <2>1, <2>2, <2>3
<1>11. QED
  BY <1>1, <1>2, <1>3, <1>4, <1>5, <1>6, <1>7, <1>8, <1>9, <1>10 DEF FatStep, Close

-----------------------------------------------------------------------------
(* The data of the blocks that are kept, and what is kept.                 *)

\* Block i - 1 of the open file is written to the card, with a value it may hold.
Overwrites(c, i, v) ==
    /\ i \in 1 .. Len(c[fp.file]) /\ Stores(c[fp.file][i], v)
    /\ i - 1 \in Blocks => Admits(fp.file, i - 1, v)
    /\ \/ Transfer /\ todo[1].call = "write" /\ i = fp.fptr + 1 /\ v = todo[1].value
       \/ CloseBuffer /\ i = 1 /\ v = fp.buf

\* What data a step writes to the card.
LEMMA WrittenBlock ==
    ASSUME IInv, TypeOK, Control, Admitted, NEW c, Files(c), CardStep
    PROVE  disk'.data = disk.data \/ \E i, v : Overwrites(c, i, v)
<1>0. fp.file \in File /\ fp.fptr \in Nat /\ Len(c[fp.file]) \in Nat
  BY Types, ChainTypes DEF Typed, FileObject
<1>1. CASE disk' = disk \/ Synced
  BY <1>1 DEF Synced
<1>2. CASE Transfer /\ todo[1].call = "write" /\ Stores(fp.clust, todo[1].value)
  <2>1. at = "data" /\ todo # << >> /\ fp.open /\ Doing({"write"}) /\ Doing(Advancing)
    BY <1>2, FirstCall DEF Transfer, Control, Stage, Doing
  <2>2. fp.file = "dat"
    BY <2>1 DEF Control, Turn
  <2>3. fp.fptr < Len(c[fp.file]) /\ fp.clust = c[fp.file][fp.fptr + 1]
    BY <2>1 DEF Files, Position
  <2>4. fp.fptr + 1 \in 1 .. Len(c[fp.file]) /\ (fp.fptr + 1) - 1 = fp.fptr
    BY <1>0, <2>3
  <2>5. fp.fptr < todo[1].end
    BY <2>1 DEF Admitted
  <2>6. fp.fptr \in Blocks => Admits(fp.file, fp.fptr, todo[1].value)
    BY <1>0, <2>1, <2>2, <2>5 DEF Admitted
  <2>7. Overwrites(c, fp.fptr + 1, todo[1].value)
    BY <1>2, <2>3, <2>4, <2>6 DEF Overwrites
  <2>8. QED
    BY <2>7
<1>3. CASE CloseBuffer /\ Stores(fp.clust, fp.buf)
  <2>1. fp.buf # Nothing /\ fp.open
    BY <1>3 DEF CloseBuffer
  <2>2. fp.fptr = 1 /\ fp.clust = c[fp.file][1] /\ fp.fptr <= Len(c[fp.file])
    BY <2>1 DEF Files, Position
  <2>3. 1 \in 1 .. Len(c[fp.file]) /\ 1 - 1 = 0
    BY <1>0, <2>2
  <2>4. 0 \in Blocks => Admits(fp.file, 0, fp.buf)
    BY <2>1 DEF Admitted
  <2>5. Overwrites(c, 1, fp.buf)
    BY <1>3, <2>2, <2>3, <2>4 DEF Overwrites
  <2>6. QED
    BY <2>5
<1>4. QED
  BY <1>1, <1>2, <1>3 DEF CardStep

\* No other block of a chain changes.
LEMMA OtherBlocks ==
    ASSUME IInv, TypeOK, NEW c, Files(c), NEW i, NEW v, Overwrites(c, i, v), NEW f \in File,
           NEW j \in 1 .. Len(c[f])
    PROVE  disk'.data[c[f][j]] = IF f = fp.file /\ j = i THEN v ELSE disk.data[c[f][j]]
<1>1. fp.file \in File /\ i \in 1 .. Len(c[fp.file]) /\ c[f][j] \in Cluster /\ c[fp.file][i] \in Cluster
  <2>1. fp.file \in File
    BY Types DEF Typed, FileObject
  <2>2. i \in 1 .. Len(c[fp.file])
    BY DEF Overwrites
  <2>3. c[f] \in Seq(Cluster) /\ c[fp.file] \in Seq(Cluster)
    BY <2>1, ChainTypes
  <2>4. QED
    BY <2>1, <2>2, <2>3
<1>2. Stores(c[fp.file][i], v)
  BY DEF Overwrites
<1>3. \A y \in Cluster : disk'.data[y] = IF y = c[fp.file][i] THEN v ELSE disk.data[y]
  BY <1>1, <1>2, TypedRanges, DataRanges DEF Stores, Ranges
<1>4. c[f][j] = c[fp.file][i] <=> f = fp.file /\ j = i
  BY <1>1 DEF Files, MemChains, ChainsOf
<1>5. QED
  BY <1>1, <1>3, <1>4

\* The data of a block that is kept is data it may hold.
LEMMA KeptData ==
    ASSUME IInv, TypeOK, Control, Admitted, NEW c, Files(c), CardStep, NEW f \in File,
           NEW b \in Blocks,
           kept[f][b] # {}, b < mem.entry[f].size, disk.data[c[f][b + 1]] \in kept[f][b]
    PROVE  disk'.data[c[f][b + 1]] \in kept[f][b]
<1>1. b \in Nat /\ b + 1 \in 1 .. Len(c[f]) /\ (b + 1) - 1 = b
  BY BlockIsNat, BlockInChain
<1>2. CASE disk'.data = disk.data
  BY <1>2
<1>3. ASSUME NEW i, NEW v, Overwrites(c, i, v) PROVE disk'.data[c[f][b + 1]] \in kept[f][b]
  <2>1. disk'.data[c[f][b + 1]] = IF f = fp.file /\ b + 1 = i THEN v ELSE disk.data[c[f][b + 1]]
    BY <1>1, <1>3, OtherBlocks
  <2>2. f = fp.file /\ b + 1 = i => v \in kept[f][b]
    BY <1>1, <1>3 DEF Overwrites, Admits
  <2>3. QED
    BY <2>1, <2>2
<1>4. QED
  BY <1>2, <1>3, WrittenBlock

\* FatFs keeps the blocks that are kept, for both tables.
LEMMA KeptFatStep ==
    ASSUME IInv, TypeOK, Control, Admitted, NEW c, Files(c), NEW d, KeptBlocks(c, d), FatStep,
           kept' = kept, CardStep,
           NEW e, Keeps(c, e), NEW m, CardMoves(c, d, m)
    PROVE  KeptBlocks(e, m)'
<1> SUFFICES ASSUME NEW f \in File, NEW b \in Blocks, kept[f][b] # {}
             PROVE  OnCard(e, m, f, b, kept[f][b])' /\ (fp'.open /\ f = fp'.file => b < fp'.size)
  BY DEF KeptBlocks
<1>1. OnCard(c, d, f, b, kept[f][b]) /\ (fp.open /\ f = fp.file => b < fp.size)
  BY DEF KeptBlocks
<1>2. Room(f, b)
  BY <1>1 DEF Room, OnCard
<1>3. Room(f, b)'
  BY <1>2, FatStepRoom
<1>4. disk'.data[c[f][b + 1]] \in kept[f][b]
  BY <1>1, KeptData DEF OnCard
<1>5. b \in Nat /\ b < mem'.entry[f].size
  BY <1>3, BlockIsNat DEF Room
<1>6. OnCard(e, m, f, b, kept[f][b])'
  BY <1>1, <1>4, <1>5, OnCardStep
<1>7. QED
  BY <1>3, <1>6 DEF Room

\* What a block may hold is only added to, or the block is no longer spoken of.
Wider == \A f \in File, b \in Blocks : kept'[f][b] # {} => kept[f][b] # {} /\ kept[f][b] \subseteq kept'[f][b]

\* What is kept may hold more values, or be forgotten.
LEMMA KeptWider ==
    ASSUME TypeOK, NEW c, Files(c), NEW d, KeptBlocks(c, d), mem' = mem, ~fp'.open \/ fp' = fp,
           disk'.data = disk.data, Wider,
           NEW e, Keeps(c, e), NEW m, CardMoves(c, d, m)
    PROVE  KeptBlocks(e, m)'
<1> SUFFICES ASSUME NEW f \in File, NEW b \in Blocks, kept'[f][b] # {}
             PROVE  OnCard(e, m, f, b, kept[f][b])' /\ (fp'.open /\ f = fp'.file => b < fp'.size)
  BY DEF KeptBlocks
<1>1. kept[f][b] # {} /\ kept[f][b] \subseteq kept'[f][b]
  BY DEF Wider
<1>2. OnCard(c, d, f, b, kept[f][b]) /\ (fp.open /\ f = fp.file => b < fp.size)
  BY <1>1 DEF KeptBlocks
<1>3. PICK T : T = kept'[f][b]
  OBVIOUS
<1>4. b \in Nat /\ b < mem'.entry[f].size /\ disk'.data[c[f][b + 1]] \in T
  BY <1>1, <1>2, <1>3, BlockIsNat DEF OnCard
<1>5. OnCard(e, m, f, b, T)'
  BY <1>1, <1>2, <1>3, <1>4, OnCardStep
<1>6. OnCard(e, m, f, b, kept[f][b])'
  BY <1>3, <1>5 DEF OnCard
<1>7. QED
  BY <1>2, <1>6

\* A WRITE or MODE SELECT is begun; a FORMAT is; a command of the host is.
LEMMA MayHoldWider ==
    ASSUME TypeOK, NEW f \in File, NEW p, NEW n, NEW v, kept' = MayHold(f, p, n, v)
    PROVE  Wider
<1>1. kept \in [File -> [Blocks -> SUBSET Value]]
  BY DEF TypeOK
<1>2. ASSUME NEW g \in File, NEW b \in Blocks
      PROVE  kept'[g][b] = kept[g][b] \/ (kept[g][b] # {} /\ kept'[g][b] = kept[g][b] \cup {v})
  <2>1. CASE g = f
    BY <1>1, <2>1 DEF MayHold
  <2>2. CASE g # f
    BY <1>1, <2>2 DEF MayHold
  <2>3. QED
    BY <2>1, <2>2
<1>3. QED
  BY <1>2 DEF Wider

LEMMA UnwrittenWider ==
    ASSUME TypeOK, NEW f \in File, kept' = [kept EXCEPT ![f] = Unwritten]
    PROVE  Wider
<1>1. kept \in [File -> [Blocks -> SUBSET Value]]
  BY DEF TypeOK
<1>2. \A g \in File, b \in Blocks : kept'[g][b] = IF g = f THEN {} ELSE kept[g][b]
  BY <1>1 DEF Unwritten
<1>3. QED
  BY <1>2 DEF Wider

LEMMA SameWider == kept' = kept => Wider
BY DEF Wider

LEMMA HostWider ==
    ASSUME TypeOK, Host
    PROVE  Wider
BY MayHoldWider, UnwrittenWider, SameWider DEF Host, Write, Format, ModeSelect, Start, Reset, File

\* The host is told that blocks are written when they are on the card.
LEMMA KeptTold ==
    ASSUME TypeOK, Control, NEW c, Files(c), NEW d, KeptBlocks(c, d), Progress(c, d), Finish,
           NEW e, Keeps(c, e), NEW m, CardMoves(c, d, m)
    PROVE  KeptBlocks(e, m)'
<1>1. mem' = mem /\ disk' = disk /\ fp' = NoFile /\ kept' = Told /\ Over /\ ~fp'.open
  BY DEF Finish, NoFile
<1>2. CASE failed # {} \/ todo = << >>
  BY <1>1, <1>2, SameWider, KeptWider DEF Told
<1>3. CASE failed = {} /\ todo # << >>
  <2>1. PICK r : r = todo[1]
    OBVIOUS
  <2>2. /\ Doing({"report"}) /\ Reported(r) /\ r \in CallSet /\ r.call = "report" /\ r.file \in File
        /\ r.at \in Nat /\ r.n \in Nat
    BY <1>1, <1>3, <2>1, FirstCall, CallFields DEF Over, Call, Doing, Reported, Control
  <2>3. \A b \in Nat : r.at <= b /\ b < r.at + r.n => OnCard(c, d, r.file, b, {r.value})
    BY <2>2 DEF Progress, ReportProgress
  <2>4. kept \in [File -> [Blocks -> SUBSET Value]]
    BY DEF TypeOK
  <2>5. kept' = [kept EXCEPT ![r.file] =
                   [b \in Blocks |-> IF b \in r.at .. r.at + r.n - 1 THEN {r.value} ELSE @[b]]]
    BY <1>1, <1>3, <2>1 DEF Told
  <2>6. \A f \in File, b \in Blocks :
           kept'[f][b] = IF f = r.file /\ b \in r.at .. r.at + r.n - 1 THEN {r.value} ELSE kept[f][b]
    BY <2>2, <2>4, <2>5
  <2>7. ASSUME NEW f \in File, NEW b \in Blocks, kept'[f][b] # {}
        PROVE  OnCard(e, m, f, b, kept[f][b])'
    <3>1. b \in Nat
      BY BlockIsNat
    <3>2. OnCard(c, d, f, b, kept'[f][b])
      <4>1. CASE f = r.file /\ b \in r.at .. r.at + r.n - 1
        <5>1. r.at <= b /\ b < r.at + r.n
          BY <2>2, <3>1, <4>1
        <5>2. QED
          BY <2>3, <2>6, <3>1, <4>1, <5>1
      <4>2. CASE ~(f = r.file /\ b \in r.at .. r.at + r.n - 1)
        BY <2>6, <2>7, <4>2 DEF KeptBlocks
      <4>3. QED
        BY <4>1, <4>2
    <3>3. PICK T : T = kept'[f][b]
      OBVIOUS
    <3>4. b < mem'.entry[f].size /\ disk'.data[c[f][b + 1]] \in T
      BY <1>1, <3>2, <3>3 DEF OnCard
    <3>5. OnCard(e, m, f, b, T)'
      BY <3>1, <3>2, <3>3, <3>4, OnCardStep
    <3>6. QED
      BY <3>3, <3>5 DEF OnCard
  <2>8. QED
    BY <1>1, <2>7 DEF KeptBlocks, OnCard
<1>4. QED
  BY <1>2, <1>3

\* Power comes back: the blocks that are kept are on the card.
LEMMA KeptMount ==
    ASSUME NEW c, NEW d, KeptBlocks(c, d), Mount
    PROVE  KeptBlocks(d, d)'
<1>1. mem'.entry = disk.entry /\ disk' = disk /\ kept' = kept /\ ~fp'.open
  BY DEF Mount, Remount, TablesOf, NoFile
<1>2. QED
  BY <1>1 DEF KeptBlocks, OnCard

\* Every step keeps the blocks that are kept.
LEMMA KeptNext ==
    ASSUME IInv, TypeOK, Control, Admitted, NEW c, Files(c), NEW d, KeptBlocks(c, d),
           Progress(c, d),
           [Next]_vars, ~Mount, CardStep, NEW e, Keeps(c, e), NEW m, CardMoves(c, d, m)
    PROVE  KeptBlocks(e, m)'
<1>1. CASE FatStep /\ UNCHANGED <<started, cmd, kept>>
  BY <1>1, KeptFatStep
<1>2. CASE Inspect
  <2>1. mem' = mem /\ disk'.data = disk.data
    BY <1>2, TypedRanges, FindRanges DEF Inspect, Ranges, Synced
  <2>2. Wider
    BY <1>2, SameWider, UnwrittenWider DEF Inspect, File
  <2>3. ~fp'.open
    BY <1>2 DEF Inspect, NoFile
  <2>4. QED
    BY <2>1, <2>2, <2>3, KeptWider
<1>3. CASE Interrupt \/ UNCHANGED vars
  <2>1. mem' = mem /\ disk' = disk /\ fp' = fp /\ kept' = kept
    BY <1>3 DEF Interrupt, vars, fatVars
  <2>2. QED
    BY <2>1, SameWider, KeptWider
<1>4. CASE Restart
  <2>1. mem' = mem /\ disk' = disk /\ ~fp'.open /\ kept' = kept
    BY <1>4 DEF Restart, NoFile
  <2>2. QED
    BY <2>1, SameWider, KeptWider
<1>5. CASE Host
  <2>1. mem' = mem /\ disk' = disk /\ fp' = fp
    BY <1>5, HostCalls
  <2>2. QED
    BY <2>1, <1>5, HostWider, KeptWider
<1>6. CASE Finish
  BY <1>6, KeptTold
<1>7. QED
  BY <1>1, <1>2, <1>3, <1>4, <1>5, <1>6 DEF Next, Firmware, RemountAfterReset, PowerFail

-----------------------------------------------------------------------------
(* What is about to be written may be written.                             *)

\* A value that a block may hold it may hold after the step.
LEMMA AdmitsWider ==
    ASSUME Wider, NEW f \in File, NEW b \in Blocks, NEW v, Admits(f, b, v)
    PROVE  Admits(f, b, v)'
BY DEF Wider, Admits

\* No call is under way that writes.
LEMMA AdmittedQuiet ==
    ASSUME TypeOK, Admitted, Wider, fp'.buf # Nothing => fp'.buf = fp.buf /\ fp'.file = fp.file,
           ~Doing(Advancing)' \/ at' \notin {"grow", "link", "data"}, ~Doing({"write"})' \/ ~fp'.open
    PROVE  Admitted'
<1>1. fp.file \in File
  BY Types DEF Typed, FileObject
<1>2. ASSUME fp'.buf # Nothing, 0 \in Blocks PROVE Admits(fp.file, 0, fp.buf)'
  <2>1. Admits(fp.file, 0, fp.buf) /\ fp'.buf = fp.buf /\ fp'.file = fp.file
    BY <1>2 DEF Admitted
  <2>2. PICK f, v : f \in File /\ f = fp.file /\ v = fp.buf
    BY <1>1
  <2>3. Admits(f, 0, v)'
    BY <1>2, <2>1, <2>2, AdmitsWider
  <2>4. QED
    BY <2>1, <2>2, <2>3
<1>3. Blocks' = Blocks
  BY DEF Blocks
<1>4. QED
  BY <1>2, <1>3 DEF Admitted

\* The call goes on.
LEMMA AdmittedOn ==
    ASSUME TypeOK, Admitted, kept' = kept, todo' = todo, fp'.file = fp.file, fp'.open = fp.open,
           fp'.buf \in {fp.buf, Nothing}, fp'.fptr \in Nat, fp'.fptr >= fp.fptr,
           Doing(Advancing) /\ at' \in {"grow", "link", "data"} => fp'.fptr < todo[1].end
    PROVE  Admitted'
<1>1. fp.fptr \in Nat
  BY Types DEF Typed, FileObject
<1>2. Doing({"write"})' = Doing({"write"}) /\ Doing(Advancing)' = Doing(Advancing) /\ Blocks' = Blocks
  BY DEF Doing, Blocks, Advancing
<1>3. ASSUME fp'.buf # Nothing, 0 \in Blocks PROVE Admits(fp.file, 0, fp.buf)'
  <2>1. Admits(fp.file, 0, fp.buf) /\ fp'.buf = fp.buf /\ fp'.file = fp.file
    BY <1>3 DEF Admitted
  <2>2. QED
    BY <2>1 DEF Admits
<1>4. fp'.buf # Nothing /\ 0 \in Blocks => Admits(fp.file, 0, fp.buf)'
  BY <1>3
<1>5. Doing({"write"}) /\ fp.open =>
          \A x \in Blocks : fp'.fptr <= x /\ x < todo[1].end => Admits("dat", x, todo[1].value)
  <2> SUFFICES ASSUME Doing({"write"}), fp.open, NEW x \in Blocks, fp'.fptr <= x, x < todo[1].end
               PROVE  Admits("dat", x, todo[1].value)
    OBVIOUS
  <2>1. x \in Nat
    BY BlockIsNat
  <2>2. fp.fptr <= x
    BY <1>1, <2>1
  <2>3. QED
    BY <2>2 DEF Admitted
<1>6. QED
  BY <1>2, <1>4, <1>5 DEF Admitted, Admits

\* After an error nothing more is written but the buffer.
LEMMA AdmittedAbandons ==
    ASSUME TypeOK, Admitted, NEW what, Abandons(what), kept' = kept,
           fp'.buf # Nothing => fp'.buf = fp.buf /\ fp'.file = fp.file
    PROVE  Admitted'
<1>1. PICK n \in {1, 2} : todo' = [i \in 1 .. n |-> [call |-> "close"]]
  BY DEF Abandons
<1>2. todo'[1].call = "close"
  BY <1>1, CloseQueue
<1>3. QED
  BY <1>2, SameWider, AdmittedQuiet DEF Doing, Advancing

\* A call other than f_lseek returns, or one is not made.
LEMMA AdmittedReturns ==
    ASSUME TypeOK, Control, Admitted, todo # << >>, kept' = kept, at' = "start", todo' = Tail(todo),
           todo[1].call # "seek",
           fp'.buf # Nothing => fp'.buf = fp.buf /\ fp'.file = fp.file
    PROVE  Admitted'
<1>1. Len(todo') > 0 => todo'[1] = todo[2] /\ Follows(todo[1], todo[2])
  BY TailQueue DEF Control
<1>2. todo[1].call \in Calls
  BY FirstCall, CallFields DEF Control
<1>3. ~Doing({"write"})'
  BY <1>1, <1>2 DEF Doing, Follows, Calls
<1>4. QED
  BY <1>3, SameWider, AdmittedQuiet

\* One lemma per action of FatFs follows: what is about to be written may be.
LEMMA OpenAdmitted ==
    ASSUME TypeOK, Control, Admitted, Open, kept' = kept
    PROVE  Admitted'
<1>1. todo # << >> /\ todo[1].call = "open" /\ at = "start"
  BY DEF Open, Call
<1>2. CASE OpenFails
  <2>1. ~fp'.open /\ fp'.buf = Nothing /\ at' = "start"
    BY <1>1, <1>2 DEF OpenFails, NoFile, Aborts, Abandons
  <2>2. QED
    BY <2>1, SameWider, AdmittedQuiet
<1>3. CASE \E f : fp' = Opened(f, mem.entry[f]) /\ Returns
  <2>1. fp'.buf = Nothing
    BY <1>3 DEF Opened, NoFile
  <2>2. QED
    BY <1>1, <1>3, <2>1, AdmittedReturns DEF Returns
<1>4. QED
  BY <1>2, <1>3 DEF Open

LEMMA TruncateAdmitted ==
    ASSUME TypeOK, Control, Admitted, Read \/ Truncate \/ FreeCluster \/ Reopen, kept' = kept
    PROVE  Admitted'
<1>1. todo # << >> /\ todo[1].call \in {"read", "truncate"}
  BY DEF Read, Truncate, FreeCluster, Reopen, Call
<1>2. fp'.buf = Nothing \/ (fp'.buf = fp.buf /\ fp'.file = fp.file)
  <2>1. \/ fp' = NoFile \/ \E g, x : fp' = [NoFile EXCEPT !.file = g, !.clust = x]
        \/ \E x : fp' = [fp EXCEPT !.clust = x]
        \/ \E g, m : fp' = [Opened(g, m) EXCEPT !.modified = TRUE]
    BY DEF Read, Truncate, FreeCluster, Reopen
  <2>2. CASE fp' = NoFile
    BY <2>2 DEF NoFile
  <2>3. CASE \E g, x : fp' = [NoFile EXCEPT !.file = g, !.clust = x]
    BY <2>3 DEF NoFile
  <2>4. CASE \E x : fp' = [fp EXCEPT !.clust = x]
    BY <2>4, Types DEF Typed, FileObject
  <2>5. ASSUME NEW g, NEW m, fp' = [Opened(g, m) EXCEPT !.modified = TRUE] PROVE fp'.buf = Nothing
    <3>1. Opened(g, m).buf = Nothing
      BY DEF Opened, NoFile
    <3>2. [Opened(g, m) EXCEPT !.modified = TRUE].buf = Opened(g, m).buf
      BY DEF Opened, NoFile
    <3>3. QED
      BY <2>5, <3>1, <3>2
  <2>6. QED
    BY <2>1, <2>2, <2>3, <2>4, <2>5
<1>3. \/ Aborts \/ Returns \/ (todo' = todo /\ at' \in {"free", "reopen"})
  BY DEF Read, Truncate, FreeCluster, Reopen, GoesOn
<1>4. CASE Aborts
  BY <1>2, <1>4, AdmittedAbandons DEF Aborts
<1>5. CASE Returns
  BY <1>1, <1>2, <1>5, AdmittedReturns DEF Returns
<1>6. CASE todo' = todo /\ at' \in {"free", "reopen"}
  <2>1. ~Doing({"write"})'
    BY <1>1, <1>6 DEF Doing
  <2>2. QED
    BY <1>2, <1>6, <2>1, SameWider, AdmittedQuiet
<1>7. QED
  BY <1>3, <1>4, <1>5, <1>6

\* f_write follows f_lseek, and is at the block that is asked for or behind every block that is kept.
LEMMA SeekAdmitted ==
    ASSUME TypeOK, Control, Admitted, todo # << >>, kept' = kept, at' = "start", todo' = Tail(todo),
           todo[1].call = "seek",
           fp' = Settled,
           fp.fptr = todo[1].end \/ \A x \in Blocks : fp.fptr <= x => kept["dat"][x] = {}
    PROVE  Admitted'
<1>1. Len(todo') > 0 => todo'[1] = todo[2] /\ Follows(todo[1], todo[2])
  BY TailQueue DEF Control
<1>2. /\ Settled.buf = fp.buf /\ Settled.file = fp.file /\ Settled.fptr = fp.fptr
  BY Types, SettledSame
<1>3. fp.file \in File /\ fp.fptr \in Nat
  BY Types DEF Typed, FileObject
<1>4. ASSUME fp'.buf # Nothing, 0 \in Blocks PROVE Admits(fp.file, 0, fp.buf)'
  <2>1. Admits(fp.file, 0, fp.buf) /\ fp'.buf = fp.buf /\ fp'.file = fp.file
    BY <1>2, <1>4 DEF Admitted
  <2>2. QED
    BY <2>1 DEF Admits
<1>5. Doing({"write"})' => \A x \in Blocks : fp.fptr <= x /\ x < todo'[1].end => Admits("dat", x, todo'[1].value)
  BY <1>1 DEF Doing, Follows, Admits
<1>6. QED
  BY <1>2, <1>4, <1>5 DEF Admitted, Admits, Blocks

LEMMA FollowAdmitted ==
    ASSUME TypeOK, Control, Admitted, Follow \/ Link \/ TransferError \/ NotOpen, kept' = kept
    PROVE  Admitted'
<1>1. fp.fptr \in Nat /\ fp.fptr >= fp.fptr
  BY Types DEF Typed, FileObject
<1>2. todo # << >>
  BY DEF Follow, Link, TransferError, NotOpen, Call
<1>3. \/ fp' = fp \/ \E x : fp' = [fp EXCEPT !.clust = x] \/ fp' = [fp EXCEPT !.new = x]
      \/ \E x, y : fp' = [fp EXCEPT !.clust = x, !.new = y]
  BY DEF Follow, Link, TransferError, NotOpen
<1>4. fp'.buf = fp.buf /\ fp'.file = fp.file /\ fp'.fptr = fp.fptr /\ fp'.open = fp.open
  BY <1>3, Types DEF Typed, FileObject
<1>5. Aborts \/ (fp.fptr < todo[1].end /\ \E where : GoesOn(where))
  <2>1. CASE Follow
    BY <2>1 DEF Follow
  <2>2. CASE Link
    <3>1. at = "link" /\ Doing(Advancing)
      BY <2>2, FirstCall DEF Link, Doing, Control
    <3>2. QED
      BY <2>2, <3>1 DEF Admitted, Link
  <2>3. CASE TransferError \/ NotOpen
    BY <2>3 DEF TransferError, NotOpen
  <2>4. QED
    BY <2>1, <2>2, <2>3
<1>6. CASE Aborts
  BY <1>4, <1>6, AdmittedAbandons DEF Aborts
<1>7. CASE fp.fptr < todo[1].end /\ \E where : GoesOn(where)
  BY <1>1, <1>4, <1>7, AdmittedOn DEF GoesOn
<1>8. QED
  BY <1>5, <1>6, <1>7

\* Where the card is full, no block from the end of the chain on is kept.
LEMMA GrowAdmitted ==
    ASSUME TypeOK, Control, Admitted, NEW c, Files(c), NEW d, KeptBlocks(c, d), Grow, kept' = kept
    PROVE  Admitted'
<1>0. todo # << >> /\ at = "grow" /\ Doing(Advancing) /\ todo[1].call \in Advancing
  BY FirstCall DEF Grow, Control, Doing
<1>1. fp.fptr \in Nat /\ fp.fptr >= fp.fptr
  BY Types DEF Typed, FileObject
<1>2. CASE \/ fp' = fp /\ Aborts
           \/ \E x : fp' = [fp EXCEPT !.sclust = x, !.clust = x] /\ GoesOn("data")
           \/ \E x : fp' = [fp EXCEPT !.new = x] /\ GoesOn("link")
  <2>1. fp' = fp \/ (\E x : fp' = [fp EXCEPT !.sclust = x, !.clust = x]) \/ \E x : fp' = [fp EXCEPT !.new = x]
    BY <1>2
  <2>2. fp'.buf = fp.buf /\ fp'.file = fp.file /\ fp'.fptr = fp.fptr /\ fp'.open = fp.open
    BY <2>1, Types DEF Typed, FileObject
  <2>3. CASE Aborts
    BY <2>2, <2>3, AdmittedAbandons DEF Aborts
  <2>4. CASE \E where : GoesOn(where)
    BY <1>0, <1>1, <2>2, <2>4, AdmittedOn DEF GoesOn, Admitted
  <2>5. QED
    BY <1>2, <2>3, <2>4
<1>3. CASE fp' = Settled /\ ReturnsIncomplete
  <2>1. Settled.buf = fp.buf /\ Settled.file = fp.file
    BY Types, SettledSame
  <2>2. CASE todo[1].call # "seek"
    BY <1>0, <1>1, <1>3, <2>1, <2>2, AdmittedReturns DEF ReturnsIncomplete
  <2>3. CASE todo[1].call = "seek"
    <3>1. fp.file = "dat" /\ fp.fptr = Len(c["dat"]) /\ "dat" \in File
      BY <1>0, <2>3 DEF Files, Position, Control, Turn, Doing, File
    <3>2. ASSUME NEW x \in Blocks, fp.fptr <= x PROVE kept["dat"][x] = {}
      <4>1. x \in Nat
        BY BlockIsNat
      <4>2. kept["dat"][x] # {} => x < mem.entry["dat"].size
        BY <3>1 DEF KeptBlocks, OnCard
      <4>3. kept["dat"][x] # {} => x + 1 \in 1 .. Len(c["dat"])
        BY <3>1, <4>1, <4>2, BlockInChain
      <4>4. QED
        BY <1>1, <3>1, <3>2, <4>1, <4>3
    <3>3. QED
      BY <1>0, <1>3, <2>3, <3>2, SeekAdmitted DEF ReturnsIncomplete
  <2>4. QED
    BY <2>2, <2>3
<1>4. QED
  BY <1>2, <1>3 DEF Grow

LEMMA TransferAdmitted ==
    ASSUME TypeOK, Control, Admitted, Transfer, kept' = kept
    PROVE  Admitted'
<1>1. fp.fptr \in Nat /\ todo # << >> /\ at = "data" /\ Doing(Advancing) /\ at' = "start" /\ todo' = todo /\ 1 \in 1 .. Len(todo)
  BY Types, FirstCall DEF Typed, FileObject, Transfer, Control, Doing, GoesOn
<1>2. CASE todo[1].call # "put"
  <2>1. fp' = Advanced \/ fp' = [fp EXCEPT !.fptr = @ + 1]
    BY <1>2 DEF Transfer
  <2>2. fp'.buf = fp.buf /\ fp'.file = fp.file /\ fp'.open = fp.open /\ fp'.fptr = fp.fptr + 1
    <3>1. CASE fp' = Advanced
      BY <3>1, AdvancedRoom
    <3>2. CASE fp' = [fp EXCEPT !.fptr = @ + 1]
      BY <3>2, Types DEF Typed, FileObject
    <3>3. QED
      BY <2>1, <3>1, <3>2
  <2>3. fp'.fptr \in Nat /\ fp'.fptr >= fp.fptr
    BY <1>1, <2>2
  <2>4. QED
    BY <1>1, <2>2, <2>3, AdmittedOn
<1>3. CASE todo[1].call = "put"
  <2>1. fp' = [Advanced EXCEPT !.buf = todo[1].value]
    BY <1>3 DEF Transfer
  <2>2. fp'.buf = todo[1].value /\ fp'.file = Advanced.file
    BY <2>1 DEF Advanced, FileObject, Typed
  <2>3. fp'.file = "dsc"
    BY <1>1, <1>3, <2>2, AdvancedRoom DEF Control, Turn, Doing
  <2>4. 0 \in Blocks => Admits("dsc", 0, todo[1].value)
    BY <1>1, <1>3 DEF Control, Queue, CallOK
  <2>5. ~Doing({"write"})'
    BY <1>1, <1>3 DEF Doing
  <2>6. QED
    BY <1>1, <2>2, <2>3, <2>4, <2>5 DEF Admitted, Admits, Blocks
<1>4. QED
  BY <1>2, <1>3

LEMMA ArrivedAdmitted ==
    ASSUME TypeOK, Control, Admitted, Arrived, kept' = kept
    PROVE  Admitted'
<1>1. todo # << >> /\ fp.fptr = todo[1].end /\ fp' = Settled /\ Returns
  BY DEF Arrived
<1>2. Settled.buf = fp.buf /\ Settled.file = fp.file
  BY Types, SettledSame
<1>3. CASE todo[1].call = "seek"
  BY <1>1, <1>3, SeekAdmitted DEF Returns
<1>4. CASE todo[1].call # "seek"
  BY <1>1, <1>2, <1>4, AdmittedReturns DEF Returns
<1>5. QED
  BY <1>3, <1>4

LEMMA ExpandAdmitted ==
    ASSUME TypeOK, Control, Admitted, ExpandBegin \/ ExpandLink, kept' = kept
    PROVE  Admitted'
<1>1. todo # << >> /\ todo[1].call = "expand"
  BY DEF ExpandBegin, ExpandLink, Call
<1>2. fp'.buf = fp.buf /\ fp'.file = fp.file
  BY Types DEF ExpandBegin, ExpandLink, Typed, FileObject
<1>3. CASE Aborts
  BY <1>2, <1>3, AdmittedAbandons DEF Aborts
<1>4. CASE Returns
  BY <1>1, <1>2, <1>4, AdmittedReturns DEF Returns
<1>5. CASE GoesOn("link")
  <2>1. ~Doing(Advancing)' /\ ~Doing({"write"})'
    BY <1>1, <1>5 DEF GoesOn, Doing, Advancing
  <2>2. QED
    BY <1>2, <2>1, SameWider, AdmittedQuiet
<1>6. QED
  BY <1>3, <1>4, <1>5 DEF ExpandBegin, ExpandLink

LEMMA CloseAdmitted ==
    ASSUME TypeOK, Control, Admitted, Close, kept' = kept
    PROVE  Admitted'
<1>1. todo # << >> /\ todo[1].call = "close"
  BY DEF Close, CloseBuffer, CloseEntry, CloseFlush, CloseUnchanged, Call
<1>2. fp'.buf # Nothing => fp'.buf = fp.buf /\ fp'.file = fp.file
  BY Types DEF Close, CloseBuffer, CloseEntry, CloseFlush, CloseUnchanged, Typed, FileObject, NoFile
<1>3. CASE Returns \/ ReturnsIncomplete
  BY <1>1, <1>2, <1>3, AdmittedReturns DEF Returns, ReturnsIncomplete
<1>4. CASE todo' = todo
  <2>1. ~Doing(Advancing)' /\ ~Doing({"write"})'
    BY <1>1, <1>4 DEF Doing, Advancing
  <2>2. QED
    BY <1>2, <2>1, SameWider, AdmittedQuiet
<1>5. QED
  BY <1>3, <1>4 DEF Close, CloseBuffer, CloseEntry, CloseFlush, CloseUnchanged, GoesOn

LEMMA FatStepAdmitted ==
    ASSUME TypeOK, Control, Admitted, NEW c, Files(c), NEW d, KeptBlocks(c, d), FatStep,
           kept' = kept
    PROVE  Admitted'
BY OpenAdmitted, TruncateAdmitted, FollowAdmitted, GrowAdmitted, TransferAdmitted, ArrivedAdmitted,
   ExpandAdmitted,
   CloseAdmitted DEF FatStep

\* The file object is let go of, for other calls.
LEMMA AdmittedAnew ==
    ASSUME fp' = NoFile, ~Doing(Advancing)'
    PROVE  Admitted'
BY DEF Admitted, NoFile

\* Every step keeps Admitted.
LEMMA NextAdmitted ==
    ASSUME TypeOK, Control, Admitted, NEW c, Files(c), NEW d, KeptBlocks(c, d), [Next]_vars
    PROVE  Admitted'
<1>1. CASE FatStep /\ UNCHANGED <<started, cmd, kept>>
  BY <1>1, FatStepAdmitted
<1>2. CASE Inspect
  <2>1. fp' = NoFile /\ ~fp'.open /\ fp'.buf = Nothing /\ at' = "start"
    BY <1>2 DEF Inspect, Call, Returns, NoFile
  <2>2. Wider
    BY <1>2, SameWider, UnwrittenWider DEF Inspect, File
  <2>3. QED
    BY <2>1, <2>2, AdmittedQuiet
<1>3. CASE Interrupt
  BY <1>3, AdmittedAbandons DEF Interrupt
<1>4. CASE Restart \/ Mount
  <2>1. fp' = NoFile /\ todo' = CheckLunImage
    BY <1>4 DEF Restart, Mount, Remount
  <2>2. todo'[1].call = "read"
    BY <2>1, CheckQueue
  <2>3. QED
    BY <2>1, <2>2, AdmittedAnew DEF Doing, Advancing
<1>5. CASE Finish
  <2>1. fp' = NoFile /\ todo' = << >>
    BY <1>5 DEF Finish
  <2>2. QED
    BY <2>1, AdmittedAnew DEF Doing
<1>6. CASE Host
  <2>1. fp' = fp /\ todo'[1].call \in {"open", "read"}
    BY <1>6, HostCalls
  <2>2. ~Doing(Advancing)' /\ ~Doing({"write"})'
    BY <2>1 DEF Doing, Advancing
  <2>3. QED
    BY <1>6, <2>1, <2>2, HostWider, AdmittedQuiet
<1>7. CASE UNCHANGED vars
  BY <1>7 DEF vars, fatVars, Admitted, Admits, Doing, Blocks
<1>8. QED
  BY <1>1, <1>2, <1>3, <1>4, <1>5, <1>6, <1>7 DEF Next, Firmware, RemountAfterReset, PowerFail

-----------------------------------------------------------------------------
(* How far the calls that are reported have come.                          *)

\* Nothing is owed outside f_write, f_close and the report, or after an error.
LEMMA ProgressElsewhere ==
    ASSUME NEW e, NEW m, failed' # {} \/ ~Doing({"write", "close", "report"})'
    PROVE  Progress(e, m)'
<1>1. ASSUME ~Doing({"write", "close", "report"})' PROVE ~Doing({"write"})' /\ ~Doing({"close"})' /\ ~Doing({"report"})'
  BY <1>1 DEF Doing
<1>2. QED
  BY <1>1 DEF Progress, Reported, WriteProgress, CloseProgress, ReportProgress

LEMMA ProgressAbandons ==
    ASSUME NEW e, NEW m, Abandons("error") \/ Abandons("incomplete") \/ ReturnsIncomplete
    PROVE  Progress(e, m)'
BY ProgressElsewhere DEF Abandons, ReturnsIncomplete

\* Blocks p .. q - 1 of file f will hold v.
WillCarry(c, f, p, q, v) == \A b \in Nat : p <= b /\ b < q => disk'.data[c[f][b + 1]] = v

\* Blocks of a chain are at the same place in a longer one.
LEMMA CarriesOn ==
    ASSUME NEW c, NEW e, NEW f, Agrees(c, e, f), Len(c[f]) \in Nat, NEW p \in Nat, NEW q \in Nat,
           q <= Len(c[f]), NEW v,
           WillCarry(c, f, p, q, v)
    PROVE  WillCarry(e, f, p, q, v)
<1> SUFFICES ASSUME NEW b \in Nat, p <= b, b < q PROVE disk'.data[e[f][b + 1]] = v
  BY DEF WillCarry
<1>1. b + 1 \in 1 .. Len(c[f])
  OBVIOUS
<1>2. e[f][b + 1] = c[f][b + 1]
  BY <1>1 DEF Agrees
<1>3. QED
  BY <1>2 DEF WillCarry

\* What f_lseek or f_write does between two sectors.
LEMMA BetweenProgress ==
    ASSUME TypeOK, Control, NEW c, Files(c), NEW d, Progress(c, d), NEW e, Keeps(c, e), NEW m,
           Doing(Advancing), todo' = todo, failed' = failed, disk'.data = disk.data,
           fp.open, fp'.open, fp'.fptr = fp.fptr
    PROVE  Progress(e, m)'
<1>1. CASE ~Doing({"write"})
  <2>1. ~Doing({"write", "close", "report"})'
    BY <1>1 DEF Doing, Advancing
  <2>2. QED
    BY <2>1, ProgressElsewhere
<1>2. CASE Doing({"write"})
  <2>1. ~Doing({"close"})' /\ ~Doing({"report"})' /\ Doing({"write"})'
    BY <1>2 DEF Doing
  <2>2. fp.file = "dat" /\ "dat" \in File /\ Doing({"write", "close"})
    BY <1>2 DEF Control, Turn, Doing, File
  <2>3. /\ fp.fptr \in Nat /\ fp.fptr <= Len(c["dat"]) /\ Len(c["dat"]) \in Nat /\ Agrees(c, e, "dat")
    BY <2>2, Types, ChainTypes DEF Typed, FileObject, Files, Position, Keeps
  <2>4. ASSUME NEW r, Reported(r)' PROVE WriteProgress(e, r)'
    <3>1. Reported(r) /\ r.at \in Nat
      BY <2>4, SameReported, ReportFields DEF Control
    <3>2. r.at <= fp.fptr /\ WillCarry(c, "dat", r.at, fp.fptr, r.value)
      BY <1>2, <3>1 DEF Progress, WriteProgress, Carries, WillCarry
    <3>3. WillCarry(e, "dat", r.at, fp.fptr, r.value)
      BY <2>3, <3>1, <3>2, CarriesOn
    <3>4. QED
      BY <3>2, <3>3 DEF WriteProgress, Carries, WillCarry
  <2>5. QED
    BY <2>1, <2>4 DEF Progress, CloseProgress, ReportProgress
<1>3. QED
  BY <1>1, <1>2

\* A sector goes to the card.
LEMMA TransferProgress ==
    ASSUME IInv, TypeOK, Control, Admitted, NEW c, Files(c), NEW d, Progress(c, d), NEW e,
           Keeps(c, e), NEW m,
           Transfer, CardStep
    PROVE  Progress(e, m)'
<1>1. /\ todo # << >> /\ Doing(Advancing) /\ fp.open /\ at = "data" /\ todo' = todo /\ failed' = failed
  BY FirstCall DEF Transfer, Control, Stage, Doing, GoesOn
<1>2. CASE todo[1].call # "write"
  <2>1. ~Doing({"write", "close", "report"})'
    BY <1>1, <1>2 DEF Doing, Advancing
  <2>2. QED
    BY <2>1, ProgressElsewhere
<1>3. CASE todo[1].call = "write"
  <2>1. ~Doing({"close"})' /\ ~Doing({"report"})' /\ Doing({"write"})' /\ Doing({"write"}) /\ Doing({"write", "close"})
    BY <1>1, <1>3, FirstCall DEF Doing, Control
  <2>2. fp.file = "dat" /\ "dat" \in File
    BY <1>1, <2>1 DEF Control, Turn, File
  <2>3. fp.fptr \in Nat /\ fp.fptr < Len(c["dat"]) /\ Len(c["dat"]) \in Nat /\ fp.clust = c["dat"][fp.fptr + 1]
    BY <1>1, <2>2, Types, ChainTypes DEF Typed, FileObject, Files, Position
  <2>4. fp' = Advanced /\ disk' = [disk EXCEPT !.data[fp.clust] = todo[1].value]
    BY <1>3 DEF Transfer
  <2>5. fp'.fptr = fp.fptr + 1 /\ fp'.open
    BY <1>1, <2>4, AdvancedRoom
  <2>6. Agrees(c, e, "dat")
    BY <2>1, <2>2, <2>5 DEF Keeps
  <2>7. \A b \in Nat : b + 1 <= Len(c["dat"]) =>
           disk'.data[c["dat"][b + 1]] = IF b = fp.fptr THEN todo[1].value ELSE disk.data[c["dat"][b + 1]]
    <3> SUFFICES ASSUME NEW b \in Nat, b + 1 <= Len(c["dat"])
                 PROVE  disk'.data[c["dat"][b + 1]] = IF b = fp.fptr THEN todo[1].value ELSE disk.data[c["dat"][b + 1]]
      OBVIOUS
    <3>1. b + 1 \in 1 .. Len(c["dat"]) /\ fp.fptr + 1 \in 1 .. Len(c["dat"])
      BY <2>3
    <3>2. c["dat"][b + 1] \in Cluster /\ (c["dat"][b + 1] = fp.clust <=> b + 1 = fp.fptr + 1)
      BY <2>2, <2>3, <3>1, ChainTypes DEF Files, MemChains, ChainsOf
    <3>3. disk'.data = [disk.data EXCEPT ![fp.clust] = todo[1].value] /\ disk.data \in [Cluster -> Value]
      BY <2>4, TypedRanges DEF IInv, Shape, Ranges, CardRanges
    <3>4. QED
      BY <2>3, <3>2, <3>3
  <2>8. ASSUME NEW r, Reported(r)' PROVE WriteProgress(e, r)'
    <3>1. Reported(r) /\ r.at \in Nat /\ Matches(todo[1], r)
      BY <1>1, <2>8, SameReported, ReportFields DEF Control
    <3>2. todo[1].value = r.value
      BY <1>3, <3>1 DEF Matches
    <3>3. r.at <= fp.fptr /\ \A b \in Nat : r.at <= b /\ b < fp.fptr => disk.data[c["dat"][b + 1]] = r.value
      BY <1>1, <2>1, <3>1 DEF Progress, WriteProgress, Carries
    <3>4. PICK q \in Nat : q = fp.fptr + 1 /\ q <= Len(c["dat"])
      BY <2>3
    <3>5. WillCarry(c, "dat", r.at, q, r.value)
      <4> SUFFICES ASSUME NEW b \in Nat, r.at <= b, b < q PROVE disk'.data[c["dat"][b + 1]] = r.value
        BY DEF WillCarry
      <4>1. b + 1 <= Len(c["dat"]) /\ (b = fp.fptr \/ b < fp.fptr)
        BY <2>3, <3>4
      <4>2. disk'.data[c["dat"][b + 1]] = IF b = fp.fptr THEN todo[1].value ELSE disk.data[c["dat"][b + 1]]
        BY <4>1, <2>7
      <4>3. QED
        BY <4>1, <4>2, <2>3, <3>2, <3>3
    <3>6. WillCarry(e, "dat", r.at, q, r.value)
      BY <2>3, <2>6, <3>1, <3>4, <3>5, CarriesOn
    <3>7. r.at <= fp'.fptr /\ fp'.fptr = q
      BY <2>3, <2>5, <3>1, <3>3, <3>4
    <3>8. QED
      BY <3>6, <3>7 DEF WriteProgress, Carries, WillCarry
  <2>9. QED
    BY <2>1, <2>8 DEF Progress, CloseProgress, ReportProgress
<1>4. QED
  BY <1>2, <1>3

\* The call that is made after another.
LEMMA NextCall ==
    ASSUME Control, todo # << >>, todo' = Tail(todo), kept' = kept
    PROVE  Len(todo') > 0 => Follows(todo[1], todo'[1])
BY TailQueue DEF Control

\* f_lseek is where f_write begins.
LEMMA SoughtProgress ==
    ASSUME TypeOK, Control, NEW e, NEW m, Arrived, todo[1].call = "seek", kept' = kept
    PROVE  Progress(e, m)'
<1>1. /\ todo # << >> /\ fp.open /\ fp.fptr = todo[1].end /\ fp' = Settled /\ todo' = Tail(todo) /\ failed' = failed
  BY DEF Arrived, Returns
<1>2. Settled.fptr = fp.fptr /\ fp.fptr \in Nat
  BY Types, SettledSame DEF Typed, FileObject
<1>3. ~Doing({"close"})' /\ ~Doing({"report"})'
  BY <1>1, NextCall DEF Doing, Follows
<1>4. ASSUME NEW r, Reported(r)' PROVE WriteProgress(e, r)'
  <2>1. Reported(r)
    BY <1>1, <1>4, TailReported DEF Control
  <2>2. r.at = fp.fptr
    BY <1>1, <2>1, ReportFields DEF Control, Matches
  <2>3. fp'.fptr = fp.fptr /\ r.at = fp'.fptr /\ r.at <= fp'.fptr
    BY <1>1, <1>2, <2>2
  <2>4. \A b \in Nat : ~(r.at <= b /\ b < fp'.fptr)
    BY <1>2, <2>3
  <2>5. QED
    BY <2>3, <2>4 DEF WriteProgress, Carries
<1>5. QED
  BY <1>3, <1>4 DEF Progress, CloseProgress, ReportProgress

\* f_write has written every block that is reported.
LEMMA WrittenProgress ==
    ASSUME TypeOK, Control, NEW c, Files(c), NEW d, Progress(c, d), NEW e, Keeps(c, e), NEW m,
           Arrived, todo[1].call = "write", kept' = kept
    PROVE  Progress(e, m)'
<1>1. /\ todo # << >> /\ fp.open /\ fp.fptr = todo[1].end /\ fp' = Settled /\ todo' = Tail(todo) /\ failed' = failed
      /\ disk' = disk /\ at' = "start" /\ Doing({"write"}) /\ Doing({"write", "close"})
  BY FirstCall DEF Arrived, Returns, Doing, Control
<1>2. /\ Settled.fptr = fp.fptr /\ fp.fptr \in Nat /\ Settled.open /\ Settled.file = fp.file /\ Settled.buf = fp.buf
      /\ Settled.size \in Nat
  BY <1>1, Types, SettledSame, SettledRoom DEF Typed, FileObject
<1>3. Settled.modified /\ Settled.size >= fp.fptr
  <2>1. Settled = [fp EXCEPT !.size = IF @ > fp.fptr THEN @ ELSE fp.fptr, !.modified = TRUE]
    BY DEF Settled
  <2>2. fp \in FileObject /\ fp.size \in Nat
    BY Types DEF Typed, FileObject
  <2>3. Settled.modified
    BY <2>1, <2>2 DEF FileObject
  <2>4. Settled.size = IF fp.size > fp.fptr THEN fp.size ELSE fp.fptr
    BY <2>1, <2>2 DEF FileObject
  <2>5. QED
    BY <1>2, <2>2, <2>3, <2>4
<1>4. fp.file = "dat" /\ "dat" \in File /\ fp.buf = Nothing
  BY <1>1 DEF Control, Turn, File, Files, Position, Doing
<1>5. fp.fptr <= Len(c["dat"]) /\ Len(c["dat"]) \in Nat /\ Agrees(c, e, "dat")
  BY <1>1, <1>2, <1>4, ChainTypes DEF Files, Position, Keeps
<1>6. ~Doing({"write"})' /\ ~Doing({"report"})'
  BY <1>1, NextCall DEF Doing, Follows
<1>7. ASSUME NEW r, Reported(r)' PROVE CloseProgress(e, r)'
  <2>1. Reported(r)
    BY <1>1, <1>7, TailReported DEF Control
  <2>2. r.file = "dat" /\ r.at \in Nat /\ r.n \in Nat /\ r.at + r.n = fp.fptr
    BY <1>1, <2>1, ReportFields DEF Control, Matches
  <2>3. WillCarry(c, "dat", r.at, fp.fptr, r.value)
    BY <1>1, <2>1 DEF Progress, WriteProgress, Carries, WillCarry
  <2>4. WillCarry(e, "dat", r.at, fp.fptr, r.value)
    BY <1>2, <1>5, <2>2, <2>3, CarriesOn
  <2>5. WillCarry(e, r.file, r.at, r.at + r.n, r.value)
    BY <2>2, <2>4
  <2>6. /\ fp'.open /\ fp'.modified /\ fp'.file = r.file /\ r.at + r.n <= fp'.size /\ fp'.buf = Nothing /\ at' # "flush"
    BY <1>1, <1>2, <1>3, <1>4, <2>2
  <2>7. QED
    BY <2>5, <2>6 DEF CloseProgress, Carries, WillCarry
<1>8. QED
  BY <1>6, <1>7 DEF Progress, WriteProgress, ReportProgress

\* The descriptor is in the buffer of the file.
LEMMA PutProgress ==
    ASSUME TypeOK, Control, NEW c, Files(c), NEW e, NEW m, Arrived, todo[1].call = "put",
           kept' = kept
    PROVE  Progress(e, m)'
<1>1. /\ todo # << >> /\ fp.open /\ fp.fptr = todo[1].end /\ fp' = Settled /\ todo' = Tail(todo) /\ failed' = failed
      /\ at' = "start" /\ Doing({"put"}) /\ todo[1].end = 1 /\ todo[1].value \in Value
  BY FirstCall, CallFields DEF Arrived, Returns, Doing, Control
<1>2. /\ Settled.open /\ Settled.file = fp.file /\ Settled.buf = fp.buf
      /\ Settled.size \in Nat
  BY <1>1, Types, SettledSame, SettledRoom
<1>3. Settled.modified /\ Settled.size >= 1
  <2>1. Settled = [fp EXCEPT !.size = IF @ > fp.fptr THEN @ ELSE fp.fptr, !.modified = TRUE]
    BY DEF Settled
  <2>2. fp \in FileObject /\ fp.size \in Nat
    BY Types DEF Typed, FileObject
  <2>3. Settled.modified
    BY <2>1, <2>2 DEF FileObject
  <2>4. Settled.size = IF fp.size > fp.fptr THEN fp.size ELSE fp.fptr
    BY <2>1, <2>2 DEF FileObject
  <2>5. QED
    BY <1>1, <2>2, <2>3, <2>4
<1>4. fp.file = "dsc" /\ fp.buf = todo[1].value /\ fp.buf # Nothing
  <2>1. fp.file = "dsc" /\ fp.buf = todo[1].value
    BY <1>1 DEF Control, Turn, Files, Position
  <2>2. QED
    BY <1>1, <2>1, FatAssumption DEF Value, Nothing
<1>5. ~Doing({"write"})' /\ ~Doing({"report"})'
  BY <1>1, NextCall DEF Doing, Follows
<1>6. ASSUME NEW r, Reported(r)' PROVE CloseProgress(e, r)'
  <2>1. Reported(r)
    BY <1>1, <1>6, TailReported DEF Control
  <2>2. r.file = "dsc" /\ r.value = todo[1].value /\ r.at = 0 /\ r.n = 1
    BY <1>1, <2>1, ReportFields DEF Control, Matches
  <2>3. /\ fp'.open /\ fp'.modified /\ fp'.file = r.file /\ r.at + r.n <= fp'.size /\ fp'.buf # Nothing
        /\ fp'.buf = r.value /\ at' # "flush"
    BY <1>1, <1>2, <1>3, <1>4, <2>2
  <2>4. QED
    BY <2>2, <2>3 DEF CloseProgress
<1>7. QED
  BY <1>5, <1>6 DEF Progress, WriteProgress, ReportProgress

LEMMA ArrivedProgress ==
    ASSUME TypeOK, Control, NEW c, Files(c), NEW d, Progress(c, d), NEW e, Keeps(c, e), NEW m,
           Arrived, kept' = kept
    PROVE  Progress(e, m)'
BY SoughtProgress, WrittenProgress, PutProgress DEF Arrived, Advancing

\* What a report needs of f_close.
LEMMA ClosingReport ==
    ASSUME TypeOK, Control, NEW c, Files(c), NEW d, Progress(c, d), todo # << >>,
           todo[1].call = "close", NEW r, Reported(r)
    PROVE  /\ CloseProgress(c, r) /\ r.file \in File /\ r.at \in Nat /\ r.n \in Nat /\ r.value \in Value
           /\ fp.open /\ fp.modified /\ fp.file = r.file /\ r.at + r.n <= fp.size
           /\ fp.size \in Nat /\ fp.size <= Len(c[r.file]) /\ Len(c[r.file]) \in Nat
<1>1. Doing({"close"}) /\ CloseProgress(c, r)
  BY FirstCall DEF Control, Doing, Progress
<1>2. fp.open /\ fp.modified /\ fp.file = r.file /\ r.at + r.n <= fp.size
  BY <1>1 DEF CloseProgress
<1>3. r.file \in File /\ r.at \in Nat /\ r.n \in Nat /\ r.value \in Value
  BY ReportFields DEF Control
<1>4. fp.size \in Nat /\ fp.size <= Len(c[r.file]) /\ Len(c[r.file]) \in Nat
  BY <1>2, <1>3, Types, ChainTypes DEF Typed, FileObject, Files, Position
<1>5. QED
  BY <1>1, <1>2, <1>3, <1>4

LEMMA CloseBufferProgress ==
    ASSUME IInv, TypeOK, Control, Admitted, NEW c, Files(c), NEW d, Progress(c, d), NEW e,
           Keeps(c, e), NEW m,
           CloseBuffer
    PROVE  Progress(e, m)'
<1>1. CASE ReturnsIncomplete
  BY <1>1, ProgressAbandons
<1>2. CASE /\ disk' = [disk EXCEPT !.data[fp.clust] = fp.buf]
           /\ fp' = [fp EXCEPT !.buf = Nothing]
           /\ GoesOn("start")
  <2>1. /\ todo # << >> /\ todo[1].call = "close" /\ todo' = todo /\ failed' = failed /\ at' = "start"
        /\ fp.open /\ fp.modified /\ fp.buf # Nothing /\ Doing({"write", "close"})
    BY <1>2, FirstCall DEF CloseBuffer, Call, GoesOn, Control, Doing
  <2>2. fp'.open = fp.open /\ fp'.modified = fp.modified /\ fp'.file = fp.file /\ fp'.size = fp.size /\ fp'.buf = Nothing
    BY <1>2, Types DEF Typed, FileObject
  <2>3. ~Doing({"write"})' /\ ~Doing({"report"})'
    BY <2>1 DEF Doing
  <2>4. ASSUME NEW r, Reported(r)' PROVE CloseProgress(e, r)'
    <3>1. Reported(r)
      BY <2>1, <2>4, SameReported
    <3>2. /\ CloseProgress(c, r) /\ r.file \in File /\ fp.file = r.file /\ r.at + r.n <= fp.size
          /\ Len(c[r.file]) \in Nat /\ fp.size <= Len(c[r.file]) /\ fp.size \in Nat
      BY <2>1, <3>1, ClosingReport
    <3>3. fp.buf = r.value /\ r.at = 0 /\ r.n = 1 /\ Doing({"close"})
      BY <2>1, <3>2, FirstCall DEF CloseProgress, Doing, Control
    <3>4. 1 \in 1 .. Len(c[r.file]) /\ Agrees(c, e, r.file)
      BY <2>1, <2>2, <3>2, <3>3 DEF Keeps
    <3>5. fp.clust = c[r.file][1] /\ c[r.file][1] \in Cluster
      BY <2>1, <3>2, <3>4, ChainTypes DEF Files, Position
    <3>6. disk'.data[c[r.file][1]] = r.value
      <4>1. disk'.data = [disk.data EXCEPT ![fp.clust] = fp.buf] /\ disk.data \in [Cluster -> Value]
        BY <1>2, TypedRanges DEF IInv, Shape, Ranges, CardRanges
      <4>2. QED
        BY <3>3, <3>5, <4>1
    <3>7. disk'.data[e[r.file][1]] = r.value
      BY <3>4, <3>6 DEF Agrees
    <3>8. WillCarry(e, r.file, r.at, r.at + r.n, r.value)
      <4>1. \A b \in Nat : r.at <= b /\ b < r.at + r.n => b + 1 = 1
        BY <3>3
      <4>2. QED
        BY <3>7, <4>1 DEF WillCarry
    <3>9. /\ fp'.open /\ fp'.modified /\ fp'.file = r.file /\ r.at + r.n <= fp'.size /\ fp'.buf = Nothing /\ at' # "flush"
      BY <2>1, <2>2, <3>2
    <3>10. QED
      BY <3>8, <3>9 DEF CloseProgress, Carries, WillCarry
  <2>5. QED
    BY <2>3, <2>4 DEF Progress, WriteProgress, ReportProgress
<1>3. QED
  BY <1>1, <1>2 DEF CloseBuffer

LEMMA CloseEntryProgress ==
    ASSUME IInv, TypeOK, Control, NEW c, Files(c), NEW d, Progress(c, d), NEW e, Keeps(c, e), NEW m,
           CloseEntry
    PROVE  Progress(e, m)'
<1>1. CASE ReturnsIncomplete
  BY <1>1, ProgressAbandons
<1>2. CASE /\ Change(Directory, [mem EXCEPT !.entry[fp.file] = [sclust |-> fp.sclust, size |-> fp.size]])
           /\ fp' = fp /\ GoesOn("flush")
  <2>1. /\ todo # << >> /\ todo[1].call = "close" /\ todo' = todo /\ failed' = failed /\ at' = "flush"
        /\ fp.open /\ fp.modified /\ fp.buf = Nothing /\ fp' = fp /\ Doing({"write", "close"})
    BY <1>2, FirstCall DEF CloseEntry, Call, GoesOn, Control, Doing
  <2>2. disk'.data = disk.data /\ mem' = [mem EXCEPT !.entry[fp.file] = [sclust |-> fp.sclust, size |-> fp.size]]
    BY <1>2, LeaveSynced DEF Change, ChangeAfter, Synced
  <2>3. ~Doing({"write"})' /\ ~Doing({"report"})'
    BY <2>1 DEF Doing
  <2>4. ASSUME NEW r, Reported(r)' PROVE CloseProgress(e, r)'
    <3>1. Reported(r)
      BY <2>1, <2>4, SameReported
    <3>2. /\ CloseProgress(c, r) /\ r.file \in File /\ fp.file = r.file /\ r.at + r.n <= fp.size
          /\ Len(c[r.file]) \in Nat /\ fp.size <= Len(c[r.file]) /\ fp.size \in Nat /\ r.at \in Nat /\ r.n \in Nat
      BY <2>1, <3>1, ClosingReport
    <3>3. mem'.entry[r.file] = [sclust |-> fp'.sclust, size |-> fp'.size]
      BY <2>1, <2>2, <3>2, Types
    <3>4. WillCarry(c, r.file, r.at, r.at + r.n, r.value)
      <4>1. Carries(c, r.file, r.at, r.at + r.n, r.value)
        BY <2>1, <3>2, FirstCall DEF CloseProgress, Doing, Control
      <4>2. QED
        BY <2>2, <4>1 DEF Carries, WillCarry
    <3>5. Agrees(c, e, r.file) /\ r.at + r.n \in Nat /\ r.at + r.n <= Len(c[r.file])
      BY <2>1, <3>2 DEF Keeps
    <3>6. WillCarry(e, r.file, r.at, r.at + r.n, r.value)
      BY <3>2, <3>4, <3>5, CarriesOn
    <3>7. /\ fp'.open /\ fp'.modified /\ fp'.file = r.file /\ r.at + r.n <= fp'.size /\ fp'.buf = Nothing
      BY <2>1, <3>2
    <3>8. QED
      BY <3>3, <3>6, <3>7 DEF CloseProgress, Carries, WillCarry
  <2>5. QED
    BY <2>3, <2>4 DEF Progress, WriteProgress, ReportProgress
<1>3. QED
  BY <1>1, <1>2 DEF CloseEntry

\* sync_fs leaves nothing behind in the window.
LEMMA SyncDone ==
    ASSUME IInv, Sync
    PROVE  Synced
<1>1. CASE win.dirty
  BY <1>1, StoredSynced DEF Sync
<1>2. CASE ~win.dirty
  <2>1. disk' = disk
    BY <1>2 DEF Sync
  <2>2. mem.entry = disk.entry /\ \A c \in Cluster : mem.fat[c] = disk.fat[c]
    BY <1>2 DEF IInv, OneSectorBehind
  <2>3. mem.fat = disk.fat
    BY <2>2 DEF IInv, Shape
  <2>4. QED
    BY <2>1, <2>2, <2>3 DEF Synced
<1>3. QED
  BY <1>1, <1>2

\* The entry is on the card, and the host will be told.
LEMMA CloseFlushProgress ==
    ASSUME IInv, TypeOK, Control, NEW c, Files(c), NEW d, Progress(c, d), NEW e, Keeps(c, e), NEW m,
           CardMoves(c, d, m),
           CloseFlush, kept' = kept
    PROVE  Progress(e, m)'
<1>1. CASE ReturnsIncomplete
  BY <1>1, ProgressAbandons
<1>2. CASE Sync /\ fp' = NoFile /\ Returns
  <2>1. /\ todo # << >> /\ todo[1].call = "close" /\ at = "flush" /\ todo' = Tail(todo) /\ failed' = failed /\ mem' = mem
        /\ Doing({"close"})
    BY <1>2, FirstCall DEF CloseFlush, Call, Returns, Control, Doing
  <2>2. Synced /\ m = Entered(c)
    BY <1>2, SyncDone DEF CardMoves
  <2>3. ~Doing({"write"})'
    BY <2>1, NextCall DEF Doing, Follows
  <2>4. ASSUME NEW r, Reported(r)' PROVE ~Doing({"close"})' /\ ReportProgress(e, m, r)'
    <3>1. Reported(r)
      BY <2>1, <2>4, TailReported DEF Control
    <3>2. /\ CloseProgress(c, r) /\ r.file \in File /\ fp.file = r.file /\ r.at + r.n <= fp.size
          /\ fp.size \in Nat /\ r.at \in Nat /\ r.n \in Nat
      BY <2>1, <3>1, ClosingReport
    <3>3. /\ mem.entry[r.file].size = fp.size /\ Carries(c, r.file, r.at, r.at + r.n, r.value)
      <4>1. fp.buf = Nothing /\ mem.entry[r.file] = [sclust |-> fp.sclust, size |-> fp.size]
        BY <2>1, <3>2 DEF CloseProgress
      <4>2. QED
        BY <2>1, <3>2, <4>1 DEF CloseProgress
    <3>4. ASSUME NEW b \in Nat, r.at <= b, b < r.at + r.n PROVE OnCard(e, m, r.file, b, {r.value})'
      <4>1. b < mem.entry[r.file].size
        BY <3>2, <3>3, <3>4
      <4>2. /\ mem.entry[r.file].sclust # 0 /\ b + 1 \in 1 .. Len(c[r.file]) /\ Entered(c)[r.file] = c[r.file]
        BY <3>2, <4>1, BlockInChain
      <4>3. e[r.file][b + 1] = c[r.file][b + 1] /\ m[r.file][b + 1] = c[r.file][b + 1]
        BY <2>2, <3>2, <4>2 DEF Keeps, Agrees
      <4>4. disk'.entry[r.file].size = mem.entry[r.file].size /\ disk'.data[c[r.file][b + 1]] = r.value
        BY <2>2, <3>3, <3>4 DEF Synced, Carries
      <4>5. QED
        BY <2>1, <4>1, <4>3, <4>4 DEF OnCard
    <3>5. ~Doing({"close"})'
      <4>1. todo[2] = r /\ r.call = "report" /\ Len(todo) > 1
        BY <2>1, <3>1, ReportFields DEF Control
      <4>2. Len(todo') > 0 => todo'[1] = todo[2]
        BY <2>1, TailQueue DEF Control
      <4>3. QED
        BY <4>1, <4>2 DEF Doing
    <3>6. QED
      BY <3>4, <3>5 DEF ReportProgress
  <2>5. QED
    BY <2>3, <2>4 DEF Progress, WriteProgress, CloseProgress
<1>3. QED
  BY <1>1, <1>2 DEF CloseFlush

\* f_close has nothing to do only where nothing is reported.
LEMMA CloseUnchangedProgress ==
    ASSUME TypeOK, Control, NEW c, Files(c), NEW d, Progress(c, d), NEW e, NEW m, CloseUnchanged,
           kept' = kept
    PROVE  Progress(e, m)'
<1>1. /\ todo # << >> /\ todo[1].call = "close" /\ ~(fp.open /\ fp.modified) /\ todo' = Tail(todo) /\ failed' = failed
  BY DEF CloseUnchanged, Call, Returns
<1>2. ASSUME NEW r, Reported(r)' PROVE FALSE
  <2>1. Reported(r)
    BY <1>1, <1>2, TailReported DEF Control
  <2>2. QED
    BY <1>1, <2>1, ClosingReport
<1>3. QED
  BY <1>2 DEF Progress

\* The calls before f_lseek and f_write are not close to a report.
LEMMA OpenProgress ==
    ASSUME TypeOK, Control, NEW e, NEW m, Open \/ Read \/ Truncate \/ FreeCluster \/ Reopen,
           kept' = kept
    PROVE  Progress(e, m)'
<1>1. todo # << >> /\ todo[1].call \in {"open", "read", "truncate"}
  BY DEF Open, Read, Truncate, FreeCluster, Reopen, Call
<1>2. CASE Aborts
  BY <1>2, ProgressAbandons DEF Aborts
<1>3. CASE Returns
  <2>1. Len(todo') > 0 => Follows(todo[1], todo'[1])
    BY <1>1, <1>3, NextCall DEF Returns
  <2>2. ~Doing({"write", "close", "report"})'
    BY <1>1, <2>1 DEF Doing, Follows
  <2>3. QED
    BY <2>2, ProgressElsewhere
<1>4. CASE todo' = todo
  <2>1. ~Doing({"write", "close", "report"})'
    BY <1>1, <1>4 DEF Doing
  <2>2. QED
    BY <2>1, ProgressElsewhere
<1>5. CASE Open /\ ~fp'.open /\ todo' = SubSeq(todo, 3, Len(todo)) /\ todo[1].call = "open" /\ todo[1].file # "dsc"
  <2>1. Queue /\ todo \in Seq(CallSet) /\ Len(todo) \in Nat /\ Len(todo) > 0 /\ todo[1] \in CallSet
    BY <1>1, FirstCall DEF Control, Queue
  <2>2. todo[1].file = "dat"
    BY <1>5, <2>1, CallFields DEF File
  <2>3. Len(todo') > 0 => /\ Len(todo) >= 3 /\ todo'[1] = todo[3]
    BY <1>5, <2>1
  <2>4. Len(todo') > 0 => Follows(todo[1], todo[2]) /\ Follows(todo[2], todo[3])
    BY <2>1, <2>3 DEF Queue
  <2>5. Len(todo') > 0 => todo'[1].call = "write"
    BY <1>5, <2>2, <2>3, <2>4 DEF Follows
  <2>6. ~Doing({"close"})' /\ ~Doing({"report"})'
    BY <2>5 DEF Doing
  <2>7. QED
    BY <1>5, <2>6 DEF Progress, WriteProgress, CloseProgress, ReportProgress
<1>6. Aborts \/ Returns \/ todo' = todo
      \/ (Open /\ ~fp'.open /\ todo' = SubSeq(todo, 3, Len(todo)) /\ todo[1].call = "open" /\ todo[1].file # "dsc")
  <2>1. CASE Open
    BY <2>1, <1>1 DEF Open, OpenFails, NoFile, Call
  <2>2. CASE Read \/ Truncate \/ FreeCluster \/ Reopen
    BY <2>2 DEF Read, Truncate, FreeCluster, Reopen, GoesOn
  <2>3. QED
    BY <2>1, <2>2
<1>7. QED
  BY <1>2, <1>3, <1>4, <1>5, <1>6

LEMMA FollowProgress ==
    ASSUME IInv, TypeOK, Control, NEW c, Files(c), NEW d, Progress(c, d), NEW e, Keeps(c, e), NEW m,
           Follow \/ Grow \/ Link
    PROVE  Progress(e, m)'
<1>1. CASE Aborts \/ ReturnsIncomplete
  BY <1>1, ProgressAbandons DEF Aborts
<1>2. CASE \E where : GoesOn(where)
  <2>1. Doing(Advancing) /\ fp.open
    BY FirstCall DEF Follow, Grow, Link, Control, Stage, Doing
  <2>2. todo' = todo /\ failed' = failed
    BY <1>2 DEF GoesOn
  <2>3. disk'.data = disk.data
    <3>1. disk' = disk \/ Synced
      BY LeaveSynced
         DEF Follow, Grow, Link, Look, LookAfter, Change, ChangeAfter, WindowError, WindowErrorAfter
    <3>2. QED
      BY <3>1 DEF Synced
  <2>4. fp'.open = fp.open /\ fp'.fptr = fp.fptr
    <3>1. \/ fp' = fp \/ fp' = Settled \/ \E x : fp' = [fp EXCEPT !.clust = x] \/ fp' = [fp EXCEPT !.new = x]
          \/ \E x, y : fp' = [fp EXCEPT !.clust = x, !.new = y] \/ fp' = [fp EXCEPT !.sclust = x, !.clust = y]
      BY DEF Follow, Grow, Link
    <3>2. CASE fp' = Settled
      BY <3>2, Types, SettledSame
    <3>3. CASE fp' # Settled
      BY <3>1, <3>3, Types DEF Typed, FileObject
    <3>4. QED
      BY <3>2, <3>3
  <2>5. QED
    BY <2>1, <2>2, <2>3, <2>4, BetweenProgress
<1>3. QED
  BY <1>1, <1>2 DEF Follow, Grow, Link

\* Nothing of a FORMAT is reported.
LEMMA ExpandProgress ==
    ASSUME TypeOK, Control, NEW e, NEW m, ExpandBegin \/ ExpandLink
    PROVE  Progress(e, m)'
<1>1. todo # << >> /\ todo[1].call = "expand"
  BY DEF ExpandBegin, ExpandLink, Call
<1>2. CASE Aborts
  BY <1>2, ProgressAbandons DEF Aborts
<1>3. CASE GoesOn("link")
  <2>1. ~Doing({"write", "close", "report"})'
    BY <1>1, <1>3 DEF GoesOn, Doing
  <2>2. QED
    BY <2>1, ProgressElsewhere
<1>4. CASE Returns
  <2>1. ASSUME NEW r, Reported(r)' PROVE FALSE
    <3>1. Reported(r)
      BY <1>1, <1>4, <2>1, TailReported DEF Control, Returns
    <3>2. QED
      BY <1>1, <3>1, ReportFields DEF Control, Matches
  <2>2. QED
    BY <2>1 DEF Progress
<1>5. QED
  BY <1>2, <1>3, <1>4 DEF ExpandBegin, ExpandLink

\* Every step of FatFs, Mount, and every step keep Progress.
LEMMA FatStepProgress ==
    ASSUME IInv, TypeOK, Control, Admitted, NEW c, Files(c), NEW d, Progress(c, d), FatStep,
           kept' = kept, CardStep,
           NEW e, Keeps(c, e), NEW m, CardMoves(c, d, m)
    PROVE  Progress(e, m)'
<1>1. CASE TransferError \/ NotOpen
  BY <1>1, ProgressAbandons DEF TransferError, NotOpen, Aborts
<1>2. QED
  BY <1>1, OpenProgress, FollowProgress, ExpandProgress, TransferProgress, ArrivedProgress,
     CloseBufferProgress,
     CloseEntryProgress, CloseFlushProgress, CloseUnchangedProgress DEF FatStep, Close

LEMMA MountProgress ==
    ASSUME NEW e, NEW m, Restart \/ Mount
    PROVE  Progress(e, m)'
<1>1. todo'[1].call = "read"
  BY CheckQueue DEF Restart, Mount
<1>2. QED
  BY <1>1, ProgressElsewhere DEF Doing

LEMMA NextProgress ==
    ASSUME IInv, TypeOK, Control, Admitted, NEW c, Files(c), NEW d, Progress(c, d), Next, CardStep,
           NEW e, Keeps(c, e), NEW m, CardMoves(c, d, m)
    PROVE  Progress(e, m)'
<1>1. CASE FatStep /\ UNCHANGED <<started, cmd, kept>>
  BY <1>1, FatStepProgress
<1>2. CASE Inspect
  <2>1. todo # << >> /\ todo[1].call = "inspect"
    BY <1>2 DEF Inspect, Call
  <2>2. todo' = Tail(todo) => Len(todo') = 0
    <3>1. ASSUME todo' = Tail(todo), Len(todo') # 0 PROVE FALSE
      <4>1. Queue /\ todo \in Seq(CallSet) /\ Len(todo) \in Nat /\ Len(todo) > 0
        BY <2>1, FirstCall DEF Control, Queue
      <4>2. Len(todo) > 1
        BY <3>1, <4>1
      <4>3. Follows(todo[1], todo[2])
        BY <4>1, <4>2 DEF Queue
      <4>4. QED
        BY <2>1, <4>3 DEF Follows
    <3>2. QED
      BY <3>1
  <2>3. todo' = Tail(todo) \/ todo'[1].call = "truncate"
    BY <1>2 DEF Inspect, Returns
  <2>4. ~Doing({"write", "close", "report"})'
    BY <2>2, <2>3 DEF Doing
  <2>5. QED
    BY <2>4, ProgressElsewhere
<1>3. CASE Interrupt
  BY <1>3, ProgressAbandons DEF Interrupt
<1>4. CASE Restart \/ Mount
  BY <1>4, MountProgress
<1>5. CASE Finish
  <2>1. ~Doing({"write", "close", "report"})'
    BY <1>5 DEF Finish, Doing
  <2>2. QED
    BY <2>1, ProgressElsewhere
<1>6. CASE Host
  <2>1. ~Doing({"write", "close", "report"})'
    BY <1>6, HostCalls DEF Doing
  <2>2. QED
    BY <2>1, ProgressElsewhere
<1>7. QED
  BY <1>1, <1>2, <1>3, <1>4, <1>5, <1>6 DEF Next, Firmware, RemountAfterReset, PowerFail

-----------------------------------------------------------------------------
(* The invariant, and the theorem.                                         *)

\* The chains c in memory and d on the card are those of the files, with what is kept.
Lasting(c, d) == Files(c) /\ DiskChains(d) /\ KeptBlocks(c, d) /\ Progress(c, d)
\* The inductive invariant.
DurableInv == IInv /\ TypeOK /\ Control /\ Admitted /\ \E c, d : Lasting(c, d)

\* Every step keeps it.
LEMMA DurableNext == DurableInv /\ [Next]_vars => DurableInv'
<1> SUFFICES ASSUME DurableInv, [Next]_vars PROVE DurableInv'
  OBVIOUS
<1>1. IInv /\ TypeOK /\ Control /\ Admitted
  BY DEF DurableInv
<1>2. PICK c, d : Files(c) /\ DiskChains(d) /\ KeptBlocks(c, d) /\ Progress(c, d)
  BY DEF DurableInv, Lasting
<1>3. IInv' /\ TypeOK' /\ Control' /\ Admitted' /\ CardStep
  BY <1>1, <1>2, NextInvariant, NextTypes, NextAdmitted
<1>4. PICK m : CardMoves(c, d, m) /\ DiskChains(m)'
  BY <1>1, <1>2, <1>3, StepDiskChains
<1>5. \E x, y : Lasting(x, y)'
  <2>1. CASE UNCHANGED vars
    <3>1. Files(c)'
      BY <1>2, <2>1, StillFiles DEF vars, fatVars
    <3>2. DiskChains(d)'
      BY <1>2, <2>1, SameDiskChains DEF vars, fatVars
    <3>3. KeptBlocks(c, d)'
      BY <1>2, <2>1 DEF vars, fatVars, KeptBlocks, OnCard, Blocks
    <3>4. Progress(c, d)'
      BY <1>2, <2>1
         DEF vars, fatVars, Progress, Reported, WriteProgress, CloseProgress, ReportProgress,
             OnCard, Carries, Doing
    <3>5. QED
      BY <3>1, <3>2, <3>3, <3>4 DEF Lasting
  <2>2. CASE Mount
    <3>1. Files(d)' /\ KeptBlocks(d, d)' /\ Progress(d, d)'
      BY <1>1, <1>2, <2>2, MountFiles, KeptMount, MountProgress
    <3>2. DiskChains(d)'
      BY <1>2, <2>2, SameDiskChains DEF Mount, Remount
    <3>3. QED
      BY <3>1, <3>2 DEF Lasting
  <2>3. CASE Next /\ ~Mount
    <3>1. PICK e : Keeps(c, e) /\ Files(e)'
      BY <1>1, <1>2, <2>3, NextKeeps
    <3>2. KeptBlocks(e, m)'
      BY <1>1, <1>2, <1>3, <1>4, <2>3, <3>1, KeptNext
    <3>3. Progress(e, m)'
      BY <1>1, <1>2, <1>3, <1>4, <2>3, <3>1, NextProgress
    <3>4. QED
      BY <1>4, <3>1, <3>2, <3>3 DEF Lasting
  <2>4. QED
    BY <2>1, <2>2, <2>3
<1>6. QED
  BY <1>3, <1>5 DEF DurableInv

\* It holds at the start, where block 0 of either file is kept and holds 0.
LEMMA DurableInit == Init => DurableInv
<1> SUFFICES ASSUME Init PROVE DurableInv
  OBVIOUS
<1>1. IInv /\ TypeOK /\ Control
  BY StartInv
<1>2. PICK c : Files(c) /\ DiskChains(c)
  BY StartInv
<1>3. fp = NoFile /\ todo = << >> /\ ~fp.open
  BY DEF Init, NoFile
<1>4. Admitted /\ Progress(c, c)
  BY <1>3 DEF Admitted, Progress, WriteProgress, CloseProgress, ReportProgress, Doing, NoFile
<1>5. KeptBlocks(c, c)
  <2> SUFFICES ASSUME NEW f \in File, NEW b \in Blocks, kept[f][b] # {}
               PROVE  OnCard(c, c, f, b, kept[f][b])
    BY <1>3 DEF KeptBlocks
  <2>1. b = 0 /\ kept[f][b] = {0}
    <3>1. kept[f] = [Unwritten EXCEPT ![0] = {0}]
      BY DEF Init
    <3>2. kept[f][b] = IF b = 0 THEN {0} ELSE {}
      BY <3>1 DEF Unwritten
    <3>3. QED
      BY <3>2
  <2>2. \A x \in Cluster : disk.data[x] = 0
    BY DEF Init
  <2>3. disk.entry[f].size = 1
    BY DEF Init
  <2>4. mem.entry[f].size = 1
    BY <2>3 DEF Init, TablesOf
  <2>5. c[f][0 + 1] \in Cluster
    BY <1>1, <1>2, <2>4, BlockInChain
  <2>6. QED
    BY <2>1, <2>2, <2>3, <2>4, <2>5 DEF OnCard
<1>6. QED
  BY <1>1, <1>2, <1>4, <1>5 DEF DurableInv, Lasting

\* Blocks that are on the card for both tables are there for either.
LEMMA KeptHolds ==
    ASSUME DurableInv
    PROVE  Durable
<1>1. PICK c, d : Files(c) /\ DiskChains(d) /\ KeptBlocks(c, d)
  BY DEF DurableInv, Lasting
<1>2. PICK e : e = Entered(c)
  OBVIOUS
<1>3. ChainsOf(mem.fat, [f \in File |-> mem.entry[f].sclust], e)
  BY <1>1, <1>2, EnteredChains DEF DurableInv, Files, Entries
<1>4. TablesOf(disk).fat = disk.fat /\ TablesOf(disk).entry = disk.entry
  BY DEF TablesOf
<1>5. ChainsOf(TablesOf(disk).fat, [f \in File |-> TablesOf(disk).entry[f].sclust], d)
  BY <1>1, <1>4 DEF DiskChains, DiskFirsts
<1>6. ASSUME NEW f \in File, NEW b \in Blocks, kept[f][b] # {}
      PROVE  /\ b < mem.entry[f].size /\ b < disk.entry[f].size
             /\ disk.data[e[f][b + 1]] \in kept[f][b] /\ disk.data[d[f][b + 1]] \in kept[f][b]
  <2>1. OnCard(c, d, f, b, kept[f][b])
    BY <1>1, <1>6 DEF KeptBlocks
  <2>2. e[f] = c[f]
    BY <1>1, <1>2, <2>1, BlockInChain, BlockIsNat DEF OnCard, DurableInv
  <2>3. QED
    BY <2>1, <2>2 DEF OnCard
<1>7. Holds(mem)
  BY <1>3, <1>6, ChainOfFile DEF Holds
<1>8. Holds(TablesOf(disk))
  BY <1>4, <1>5, <1>6, ChainOfFile DEF Holds
<1>9. QED
  BY <1>7, <1>8 DEF Durable

\* A block of a WRITE, or the descriptor of a MODE SELECT, whose calls of FatFs all
\* succeeded, f_close (filesystemCloseLunForWrite, filesystemWriteLunDescriptor)
\* among them, is on the card from then on, for the tables on the card and for
\* those in memory, whenever power fails and whichever access fails, until a
\* command writes it again or FORMAT empties the image.
THEOREM AlwaysDurable == Spec => []Durable
<1>1. DurableInv => Durable
  BY KeptHolds
<1>2. QED
  BY <1>1, DurableInit, DurableNext, PTL DEF Spec

=============================================================================
