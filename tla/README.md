# LC-SCSI in TLA+

LC-SCSI is firmware for an STM32F4 board that makes an SD card look like up to
eight SCSI-1 (SASI-style) hard disks to an old computer. It is derived from
BeebSCSI. This directory holds a TLA+ model of it, configurations that check
the model with TLC, and theorems about it that TLAPS checks.

All paths below are under `src/src/LCSCSI-STM32/`.

## 1. The system

The firmware is one thread of C, one interrupt that matters, and two partners it
does not control: the initiator (the host computer) on the SCSI bus and the
person who may change the SD card.

```
   initiator ──wires──▶ hostadapter.c ◀──calls── scsi.c ◀──calls── main.c
       │ RST edge             │ nrstFlag            │
       └──────interrupt───────┘                     ├──calls──▶ filesystem.c ──▶ FatFs ──▶ card
```

| part | state it keeps | operations |
|---|---|---|
| main loop (`main.c`) | none of its own | calls `scsiProcessEmulation`; between two calls looks at the reset flag and, if it is set, calls the three reset functions and clears it |
| SCSI target (`scsi.c`) | `scsiState`; `commandDataBlock` (CDB, decoded LUN, status); `requestSenseData` per LUN; `scsiSectorBuffer` | bus free, bus busy, selection, command, status and message phases; one handler per command |
| LUN store (`filesystem.c`) | mount state; a started flag per LUN; one file object and `lunOpenFlag`; on the card `scsi<n>.dat` (image) and `scsi<n>.dsc` (geometry) | mount, dismount, reset; start, stop, test a LUN; create, format, describe; open, read, write, close |
| read buffer (in `filesystem.c`) | `sectorBuffer` and three counters | fill on open, hand out a sector per call, refill |
| host adapter (`hostadapter.c`) | the bus pins; `nrstFlag` | byte and DMA-style block transfer in both directions, line setters, reset, the RST interrupt |
| geometry arithmetic (in `filesystem.c`, `scsi.c`) | the cylinders and heads of a descriptor, the bytes of an image | make one from the other; VERIFY, TRANSLATE |
| FatFs (`stm32/fatfs/ff.c`) | one sector of tables in memory (`win`), the open file, the table of open files; on the card the allocation table, the directory, the data | open, seek, write, expand, sync, close, mount |
| debug output, vectors, start-up code | nothing the rest reads | |
| HAL, TM libraries, FreeRTOS, lwIP, USB | vendored | not part of the emulator, or seen only through their results |

The parts interact by calls, downwards, and through two shared things: the flag
`nrstFlag`, which the interrupt sets and the main loop and every waiting loop read;
and the wires.

What makes this code hard:

* **The reset may fall anywhere.** It is only *served* by the main loop. Until
  then every loop that waits for the host must end, no half-received command may
  be carried out, no half-received block written, no file left open. While a
  block is moved interrupts are off and the edge is served late.
* **The host may stop answering.** A DMA loop gives up after `TOC_MAX` polls and
  pretends there was a reset; a list loop waits until there is one.
* **Every FatFs call may fail**, the card may be full (then `f_write` returns
  `FR_OK` and a short count), and it may be changed while LUNs are started.
* **Power may fail between any two sectors FatFs writes**, and FORMAT empties, frees
  and takes clusters in dozens of them.
* **Status, sense data, phase lines and counters are set by hand** in about
  twenty handlers, with a dozen exits in READ and WRITE alone.
* **A block count of 0 means 256**, and requests need not be a multiple of the
  read buffer nor lie within the image.

What makes each part correct:

* SCSI target: torn commands and blocks have no effect; the transfer file is
  closed on every exit; CHECK CONDITION and sense data agree per LUN; the phase
  shown is the direction of the transfer; GOOD for a WRITE means the block is
  there; a reset, and a command whose host answers, always get back to BUS FREE.
* LUN store: a started LUN implies a mounted card with its files; only FORMAT
  shortens an image; a reset leaves no LUN started whose image is gone.
* Read buffer: it is invisible; sectors arrive in order and once each.
* Host adapter: the two ends of a transfer never get out of step; a transfer
  that ends with the flag clear is complete; every wait ends on a reset.
* Geometry: descriptor and image made from each other are of one size; a block
  VERIFY accepts is there; TRANSLATE names one place per block.
* FatFs under the store: the tables on the card are those of a file system at every
  moment; what was closed without an error survives a power failure.

## 2. The modules

| module | models | relation |
|---|---|---|
| `FileSystem` | the LUN store, as operators from a state to the set of its outcomes | |
| `ScsiTarget` | state machine and handlers of `scsi.c`, the loop of `main.c`, the RST interrupt, initiator, card | extends `FileSystem` |
| `MCScsiTarget` | the small instances the configurations share | extends `ScsiTarget` |
| `ScsiCommand` | what the target promises to an initiator (abstract) | implemented by `ScsiTarget` |
| `SectorStream` | what the read functions promise (abstract) | |
| `ReadAhead` | the multi-sector read buffer | implements `SectorStream` |
| `ByteChannel` | what the transfer functions promise (abstract) | |
| `HostAdapter` | the REQ/ACK handshake, timeouts, reset flag, host | implements `ByteChannel` |
| `FatFs` | `ff.c`, down to the sectors it writes | |
| `CardFiles` | the files of a LUN under the commands of the host, with disk errors and power failure | extends `FatFs` |
| `Geometry`, `MCGeometry` | the arithmetic of geometry in the widths of the code; an instance of a few bits | |
| `FileSystemProofs` | lemmas on every operator of `FileSystem` | |
| `ScsiTargetProofs` | invariants and action properties of `ScsiTarget`, then the invariants that need an assumption | extends `FileSystemProofs` |
| `ScsiCommandProofs` | `ScsiTarget` implements `ScsiCommand` | extends `ScsiTargetProofs` |
| `GeometryProofs` | the properties of `Geometry` | |
| `CardFilesProofs` | the types, the window and the chains of `CardFiles` | |
| `CardDurableProofs` | what the host was told is written stays on the card | extends `CardFilesProofs` |
| `ReadAheadProofs` | invariants and refinement of `ReadAhead` | |
| `HostAdapterProofs` | invariants and refinement of `HostAdapter` | |

### FileSystem

A C function becomes an operator `F(s, ...)` that returns the set of
`[fs |-> state left behind, ok |-> value returned]` it may have; a caller picks
one with `\E`. This keeps a whole handler, with all the calls it makes, one action.

An image is its length in sectors; a descriptor is the number of tracks it
describes, `Empty`, or `Absent`. Faults are two constants: with `IoFaults` any FatFs call may
fail; with `CardMayFill` any call that allocates may find no cluster. Without both
a call fails only if the files give a reason. `dat` is the length the directory has,
`size` the one the open file object has: a write makes `size` larger, and only `f_close`
enters it in the directory (`Closed`). No caller looks at the result of `f_close`, so with
`IoFaults` the growth may be lost and the command still end in GOOD; `WriteComplete` is
therefore claimed for a card that does not fail. The partial effects of the code are kept:
`FA_CREATE_ALWAYS` empties a file before the write that may fail;
`filesystemCheckLunImage` makes a descriptor anew whatever the reason it did not
open; `filesystemOpenLunForWrite` goes on after a failed `f_open`;
`filesystemReadLunDescriptor` and `WriteLunDescriptor` return true after an I/O
error because their test joins two conditions with `&&` (section 7).

### ScsiTarget

`scsiState` is the C variable. `step` is where in the handler of that state the
thread is; a handler that neither waits nor loops is one action, any other is cut
exactly where it waits for the host or where the reset flag, the wires or the card may change
under it. `main` tells whether `main()` is about to call the state machine or
about to test the flag. Names of actions are names of handlers: `ReadBegin`,
`ReadBlock`, `ReadDma` are the parts of `scsiCommandRead6`. `Begin` actions set
the phase, `End` actions come after the bytes.

Three variables are history: `torn` (part of the CDB was read with the flag set),
`whole` (the sector buffer is a whole block from the host), `owed` (the host was
told CHECK CONDITION and not yet why). No guard reads them.

Everything the host sends is chosen with `\E` where it is decoded. The bytes of
data are left out: `HostAdapter` says what a transfer delivers. The interface is
two facts, both checked there: a transfer that ends with the flag clear is whole
(so `torn' = nrst` and `whole'` are right), and a wait ends when the flag is set
(so `Alone` is right, section 4).

### ReadAhead

The three read functions with their counters as the code has them, for any buffer
size (`SECTOR_BUFFER_LENGTH` is 1 as compiled, and a comment says the value may be changed). A sector's content
is its number; `Stale` is what the buffer held before. `SectorStream` says: a
request inside the image delivers `start, start+1, ...`, or fails.

### HostAdapter

The four transfer functions, REQ, ACK and the byte on the bus, the poll counter,
the interrupt with its mask, and the host as two actions (answer, release).
`hostadapterReadByte` releases REQ *before* it reads the bus, and no function
waits for ACK to be released; whether that works is up to the host. Two constants
say so: `PromptHost` (ACK is released before REQ can be raised again) and
`HoldsData` (the byte stays on the bus after ACK). The safety run assumes both,
the liveness run neither.

### ScsiCommand

Five things an initiator can tell: how far the command is, how many blocks it asks
for and how many were moved, the status, whether a reset is pending. The mapping is at
the end of `ScsiTarget` (`Host`): all handlers are the stage "execute", a block counts as
moved when it went over the bus, and every step in between is a stutter. GOOD is
exact: it needs all blocks moved (`Report`), or is set in the step that moves the last one,
with no reset pending (`MoveLastBlock`). A block of WRITE counts when it was received, one of
READ when it was sent, which for the last one is the step that ends the handler. BSY and
the phase lines are not in the view; finding 1 and the property `PhaseMatchesDirection`
are about them. INQUIRY with EVPD is left out (`2 \notin InquiryArgs`), because the
state after it is undefined (section 7).

### FatFs and CardFiles

A command of the host is a list of FatFs calls (`todo`), in the order and with the
early exits of `filesystem.c`. A call is a sequence of steps that each write at most one
sector of the card, so that `PowerFail` may come between any two writes. `disk` is the
card, `mem` is what FatFs believes, `win` the one sector in which they may differ.
`move_window`, `create_chain`, `remove_chain`, `f_open` with and without
`FA_CREATE_ALWAYS`, `f_lseek`, `f_write`, `f_expand`, `f_sync`, `f_close` have their
order of writes from `ff.c`, with its error exits.

Abstractions: a FAT16 volume (no FAT12 entries that straddle sectors, no FSInfo of FAT32,
no exFAT); the directory of both files is one sector, the directories above it are
only passed through, both files exist; a cluster is one sector and one block of the host; the
second copy of the FAT is written with the first; a sector is written whole or not at
all; which free cluster a search finds is left open. Reading of data is `ReadAhead`'s
subject and is left out here, and so is a mount that fails (`FileSystem`).

`kept` is history: for each block the values it may hold after what the host was told.
No guard reads it.

The properties speak of the chain of a file as a sequence of different clusters, each linked
to the next by the table and the last one marked as the end (`IsChain`). Where there is no
such sequence the chain has a loop, runs into a free cluster or has no end.

### Geometry

Bytes, cylinders and heads with the widths of the C variables as constants. `agree` is
history: whether descriptor and image were made from each other, and neither was cut by a width.
`FileSystem` has images in sectors and descriptors in tracks without bounds; `Geometry`
is about where that is right.

## 3. The runs

Bounds are constants of the configurations.

| run | instance | properties |
|---|---|---|
| `target_faults` | all commands, 1 LUN, `IoFaults`, `CardMayFill`, card changed at any time, resets and timeouts anywhere; three cards | `TypeOK`, `NoTornCommandRuns`, `LunClosedOutsideTransfer`, `StartedImpliesMounted`, `NoTornBlockWritten`, `ImageLostOnlyByFormat`, `ResetLeavesOnlyPresentImages`, `FailedLunStopped` |
| `target_sense` | 2 LUNs, one of them not on the card; commands of every kind that agree with their sense data | `SenseKept`, `SenseAnnounced`, `PhaseMatchesDirection` |
| `target_live` | all commands, a card that works, requests inside, across and past the end of images of one and two tracks, a host that may stop at any point | `StartedLunHasFiles`, `WritePosition`, `WriteComplete`, `ImplementsCommand`, `ResetCompletes`, `CommandCompletes` |
| `read_ahead` | buffer of 3; requests of 1, 2, 3, 5; images of 0..7 sectors | `TypeOK`, `CountersAgree`, `ImplementsStream` |
| `adapter` | lists of 3, blocks of 4, 3 polls, a host that keeps the timing | `TypeOK`, `InStep`, `ImplementsChannel` |
| `adapter_live` | the same, a host that keeps no timing and may stop | `Unblocked`, `ListCompletes` |
| `card_files` | 3 clusters, one FAT entry per sector, images of up to 2 blocks, any access failing, power failing anywhere | `TypeOK`, `OneSectorBehind`, `NoCrossLinks`, `Durable` |
| `geometry` | 3 sectors of 4 bytes per track, heads and cylinders of 3 bits, sizes of 9: every geometry, 11 image sizes, 12 addresses | `TypeOK`, `SizesAgree`, `VerifiedInImage`, `TranslationExact`, `FormatKeepsSize` |

To repeat one: `tlc -config ScsiTarget_faults.cfg MCScsiTarget`; a proof: `tlapm
ScsiTargetProofs.tla`. The largest runs, `target_sense` (2.7 million states),
`card_files` (2.0 million) and `target_faults` (1.3 million), take about a minute, and
`target_live` (0.6 million, with liveness) up to two.

Four further runs show where the code does not do what a comment in it says
(section 6).

Why the bounds are enough:

* One LUN for `target_faults` and `target_live`: LUNs interact only
  through the one file object and through mounting, and no transfer is interleaved
  with another command. Sense data and status are per LUN and are run with two,
  one of them absent on the card. The theorems below hold for any set of LUNs.
* Up to two blocks: one that is not the last, and the last; a count of 0 is in every
  run with `MaxBlocks` as its meaning, and `WrittenWhenGood` and `PositionKept` are
  proved for any count.
* Block 3, the last of an image of two tracks and past the end of one of one track
  (two sectors each): a request ends in the image, straddles its end or begins past it.
* Three cards: as the firmware wants it, without descriptors, empty. Every other
  combination is reached by commands or by `ChangeCard`.
* Three clusters for two files: an image of two blocks and its descriptor fill the card,
  so that FORMAT frees and takes the same clusters again and a growing file may find
  none. One entry per sector of the FAT gives each step of a chain a window of its own,
  the worst case for what a power failure cuts.
* The widths of `Geometry` are small enough for every product to overflow and
  every cylinder count to be cut; the sizes lie at and around multiples of a track, below one
  track, and past the largest cylinder count.
* A buffer of three with requests of 1, 2, 3 and 5 has each relation of request to
  buffer: shorter, equal, and one refill with a rest. The theorems hold for any.
* Lists and blocks differ in length (3 and 4) so that a mix-up shows; three polls allow
  none, some and the last.

## 4. Fairness

`ScsiTarget!FairSpec` is weak fairness of `Alone`: a step of the firmware that does
not wait for the host. The firmware is one thread with nothing to
block on but two kinds of loop. The wait for SEL has its own time limit
(`SelectTimeout`), and a DMA loop has one too, so both are fair. A REQ/ACK loop is
fair only when the flag is set. `HostAdapter!Unblocked` checks this
against the loops themselves. `RstEdge`, `Wires`, `ChangeCard` are never fair.

`CommandCompletes` has the assumption about the host in the property:
`WF_vars(Firmware)` says that the bytes a list loop waits for come in the end.
`HostAdapter!ListCompletes` checks that this follows from a host that answers REQ
(`WF_vars(Host)`), however sloppy its timing.

`ResetCompletes` needs no assumption about the host.

`CommandCompletes` and `ImplementsCommand` leave INQUIRY with EVPD out
(`InquiryArgs = {0, 1}`), which ends in an undefined state (section 7).

`CardFiles` and `Geometry` state no liveness: nothing in them waits.

## 5. What is proved

TLAPS checks these for every value of the constants allowed by `FsAssumption`,
`ScsiAssumption`, `ReadAssumption`, `HostAssumption`, `FatAssumption`, `CardAssumption` and
`GeometryAssumption` (types of the constants; LUN 0 exists; a track has at least one
sector; `Absent`, `Empty`, `Stale` and `Garbage` are not numbers; the sectors of the
largest geometry fit the widest variable). A theorem that needs more says so in its
`ASSUME`, and in the table.

| theorem | module | says |
|---|---|---|
| `TypeCorrect` | `ScsiTargetProofs` | the target and the store keep their types, whatever the host sends, the card holds and FatFs returns |
| `NoTornCommand` | `ScsiTargetProofs` | a command block cut short by a reset is never carried out |
| `TransferFileClosed` | `ScsiTargetProofs` | no handler leaves the transfer file open, on any exit |
| `StartedOnlyMounted` | `ScsiTargetProofs` | no LUN is started on a card that is not mounted |
| `OnlyWholeBlocks` | `ScsiTargetProofs` | a block cut short by a reset or a timeout never reaches the image |
| `ImagesKept` | `ScsiTargetProofs` | only FORMAT makes an image shorter or loses it, whichever call fails |
| `FailureStopsLun` | `ScsiTargetProofs` | a FORMAT, READ or WRITE that fails leaves its LUN stopped and the file closed |
| `ResetChecksImages` | `ScsiTargetProofs` | after a reset every started LUN has its image, however the card was changed |
| `ReasonKept` | `ScsiTargetProofs` | without VERIFY and INQUIRY: a host that was told CHECK CONDITION finds the reason |
| `ReasonAnnounced` | `ScsiTargetProofs` | without VERIFY and INQUIRY: a reason that is noted was, or is being, announced for its LUN |
| `DirectionShown` | `ScsiTargetProofs` | without INQUIRY: the I/O line shows the direction of every transfer |
| `PositionKept` | `ScsiTargetProofs` | on a card with room: file position, blocks left and length of the image agree throughout a WRITE |
| `WrittenWhenGood` | `ScsiTargetProofs` | on a card that has room and does not fail: GOOD for a WRITE means that its last block is in the image and in the length the directory has |
| `StartedAlwaysHasFiles` | `ScsiTargetProofs` | on a card that is not changed, has room and does not fail: a started LUN has its image and descriptor |
| `TargetImplementsCommand` | `ScsiCommandProofs` | without INQUIRY with EVPD: the target implements `ScsiCommand` |
| `TypeCorrect` | `ReadAheadProofs` | the read buffer keeps its types |
| `CountersAlwaysAgree` | `ReadAheadProofs` | its three counters add up to the request, for every buffer size |
| `ReadAheadImplementsStream` | `ReadAheadProofs` | it implements `SectorStream`, for every buffer size |
| `TypeCorrect` | `HostAdapterProofs` | no count runs past its message, no poll past `TOC_MAX`, whatever the host does |
| `EndsInStep` | `HostAdapterProofs` | with `PromptHost` and `HoldsData` the two ends are in step while the flag is clear |
| `AdapterImplementsChannel` | `HostAdapterProofs` | with both it implements `ByteChannel`, for messages of any length |
| `OneSectorAlwaysBehind` | `CardFilesProofs` | card and memory differ in at most the sector in the window, for any volume, disk error and power failure |
| `AlwaysTypeOK` | `CardFilesProofs` | card, tables, window and file object keep their types: no cluster number out of range enters the table or the directory |
| `NeverCrossLinked` | `CardFilesProofs` | the tables on the card and in memory are those of a file system, for any volume and image, wherever power fails and whatever access does |
| `AlwaysDurable` | `CardDurableProofs` | what was written without an error is on the card, for both tables, through every disk error and power failure |
| `TypeCorrect` | `GeometryProofs` | sizes, cylinders, heads and replies keep their widths |
| `SizesAlwaysAgree` | `GeometryProofs` | descriptor and image made from each other differ by less than a track |
| `VerifiedAlwaysInImage` | `GeometryProofs` | a block VERIFY accepts is in the image, where the two agree |
| `TranslationAlwaysExact` | `GeometryProofs` | TRANSLATE names one cylinder, head and position per block, for geometries with heads |
| `FormatAlwaysKeepsSize` | `GeometryProofs` | FORMAT with an automatic descriptor loses less than a track |

**The argument for ScsiTarget.** The properties are not inductive. The invariant is
`Inv == TypeOK /\ Sound(fs) /\ Control`. `Sound` is what the store keeps by itself:
the type, and that a started LUN implies a mounted card. `Control` ties the thread to it:
the file is open exactly in the steps of a block transfer, for the LUN of the command
(`FileOf`), with at least one block left;
a torn CDB means the thread has returned to `main()` with the flag set; a block about to be
written is whole. The conjunct "with at least one block left" is what lets `NextBlock` close the file when the
count reaches one; "with the flag set" is what makes `NoReset` impossible
for a torn command. `FileSystemProofs` has one lemma per operator of the store
(what it returns is `Sound`, keeps the file open or closed, keeps images); no
lemma of `ScsiTargetProofs` expands an operator of the store. There is one lemma per
group of actions of `Next`, one step per action.

**The argument for ReadAhead.** `CountersAgree` and `TypeOK` with what the slots
hold: slot `i` is sector `start + delivered + i - current` if the
request is inside the image. Each step then maps to a step of `SectorStream` or a stutter.

**The argument for the action properties.** Under `Inv`, every step but `FormatEnd` and
`ChangeCard` satisfies `Keeps(fs, fs')` (no image lost or shorter), by the lemmas of
the store and transitivity; `FormatEnd` leaves the images of other LUNs alone. For
failures, every exit that reports one goes through `StopLun` or refuses a LUN that is stopped anyway. For
the reset, `StartedFor` says that a call turns a status on only after it saw the image.

**The argument for HostAdapter.** `Handshake` relates the counters to REQ, ACK and
the place in the loop: the host sends one byte per REQ, REQ is asserted exactly while
ACK is awaited, and stays asserted in "idle" only with the flag set. With it `InStep`
is inductive. Each step then maps to `Start`, `Take`, `Finish`, `Cut`, `Clear` or a stutter;
the last byte may map to `Take` and the return at once.

**The argument for the sense data.** `SenseInv`: while no reset is pending, each LUN
is in one of three states: nothing to report and nothing noted; the thread in STATUS
with CHECK CONDITION and a reason noted; told, and the reason still noted. A handler enters
the second only through `Fail`, which sets status and reason together; `StatusEnd` leads to the
third; only REQUEST SENSE and a reset lead back. VERIFY and INQUIRY set one without
the other and are excluded.

**The argument for the direction.** `Directed` says which handlers may be in a
list or a DMA loop and with which phase; every `Begin` action establishes it, and no other one
touches the phase but the reset, after which no loop is under way.

**The argument for WRITE.** `Placed`: as long as the file is open, position + blocks left =
first block + blocks asked for, and the image is at least as long as the position. It needs the
card to have room: `f_lseek` and `f_write` then reach the position they are asked for. A file that was
lost to an error cannot end in GOOD (`LostFileFails`). For `WriteComplete` no call may fail
either, since a failed `f_close` loses what the file grew by.

**The argument for started LUNs.** `Advances(s, t)`: `t` has every file `s` has, and each
LUN started since has both. It is transitive, every operator of the store satisfies it
while nothing fails, and so does every step, FORMAT included.

**The argument for ScsiCommand.** `ViewInv` adds to `Inv` what the view needs: the two waits of
a selection happen in its own states, and INQUIRY is one of those whose end is
defined. Then each action maps to one action of
`ScsiCommand` or a stutter. In READ `NextBlock` maps to `MoveBlock` or, for the last block, to
`MoveLastBlock`. In WRITE the block is moved when its bytes are in, and `NextBlock` is a
stutter or, after the last one, `Report`.

**The argument for Geometry.** Lemmas on `\div` and `%` from their defining equation
(quotient times divisor plus remainder); products of three factors are named step by step,
since the solver does no nonlinear search. The invariant is `TypeOK`, `SizesAgree` and
`TranslationExact` with two facts of their own: nothing was said of a LUN without a
descriptor, and a block VERIFY accepted is one of the descriptor's. `VerifiedInImage` follows
from the last and `SizesAgree`.

**The argument for CardFiles: the window.** `IInv == Shape /\ OneSectorBehind`. Only three
operators move the window or write a table: `Leave` writes the dirty sector back before the
window leaves it, `Change` changes tables in the sector that is in the window, `Remount`
reads everything anew. Each step is built from them.

**The argument for CardFiles: the chains.** `NoCrossLinks` is not inductive: it does not say
where in a call FatFs is. The invariant is `CardInv == IInv /\ TypeOK /\ Control /\ Chains`.

* `Control` is about the calls of a command: which may follow which (`Follows`), and what
  each relies on. `f_expand` is called on an empty file; `f_open` that empties a file
  clears its entry before it frees a cluster; a chain is only extended while its file is open.
* `Chains` says that there are chains `c` of the files in memory (`Files`) and chains `d` of
  the files on the card (`DiskChains`). `c` covers more than the directory: the chain of
  an open file that is longer than its entry says, the rest of a chain that is being
  freed. `Position` ties the file object to `c` (FatFs goes to the cluster of its chain
  that the file pointer says, and `create_chain` links a cluster that is marked and in no
  chain); `Block` says how far `f_expand` has linked the block it found.
* A chain is a sequence of clusters with its links as a condition (`Linked`), not a walk that
  is computed: the invariant holds witnesses and each step says what becomes of
  them (`DropHead`, `AppendCluster`, `TakeBlock`, `FreeIsApart`), so that no induction over a
  chain is needed.
* The card needs no argument of its own about chains. By `IInv` a step that writes the
  window back makes the tables on the card those in memory, any other step leaves them, so
  `d` stays or becomes the chains of the directory in memory (`CardMoves`). After a power
  failure `c` starts from `d`.

The proof has the same lemma per action in four kinds: what it does to the calls
(`...Control`), to the types and the card (`...Ranges`), to the chains (`...Files`), and that it
keeps what is on a chain (`...Keeps`).

**The argument for CardFiles: what was written stays.** `DurableInv` adds what `CardInv`
does not say of the data. `KeptBlocks(c, d)`: a block that is kept is in both files, at one
cluster, with a value it may hold. For both tables, since the one in memory is what the
next command works on and the one on the card what a power failure leaves. `Admitted`: what
a call is about to write, or holds in the buffer of the file, its block may hold. `Progress`: of
the blocks that the last call of the command will report, `f_write` has written those up to
the file pointer, the entry `f_close` writes covers them, and when they are reported they are
on the card (after `sync_fs` the window is not dirty, so by `IInv` both tables
are the same). A block that is not in the invariant's `KeptBlocks` enters it only in
`Finish`, from `Progress`.

**Only model-checked.** The liveness properties `ResetCompletes`, `CommandCompletes`,
`Unblocked` and `ListCompletes`: fairness and ENABLED are beyond the prover. Every other
property of a run that passes is stated by a theorem of the table. The runs of section 6 refute what they
state, so there is nothing to prove.

## 6. Findings

1. `bsy_kept`: nothing releases BSY at the end of a command. `scsiEmulationBusFree`
   would, and is not called (scsi.c:261, 447, 688).
2. `inquiry_direction`: INQUIRY raises the data in phase and then calls the function
   that *receives* a block (scsi.c:1996).
3. `write_full`: WRITE reports GOOD on a full card; only the result of `f_write` is
   looked at, not its count (filesystem.c:1374).
4. `auto_start`: a file whose `f_close` failed stays in FatFs's table of open files
   (ff.c:3756) and cannot be opened until the card is mounted again; nobody looks at
   the result of `f_close` (filesystem.c:1397), and a reset mounts the card again only for
   a LUN that is started.

## 7. Known differences without a run

Met while modelling. Each is in the model as the code has it, or is named as left out.

* INQUIRY with EVPD set ends without a `return` (scsi.c:2001): the next state is
  undefined. `InquiryBegin` allows every state, `INVALID` among them, from which only
  a reset leads out (scsi.c:374 only logs).
* INQUIRY with a page code stores sense data and does not set the status (1982);
  VERIFY of a stopped LUN sets the status and stores no sense data (1828). Both
  are why `target_sense` leaves these two commands out.
* Selection begins with a delay of 1 ms (scsi.c:1920), after which SEL is not looked at
  again: the target may answer a selection that has ended, or answer late (the comment at 1934
  asks for BSY within 200 us of the ID and SEL).
* WRITE and FORMAT report GOOD although the entry of the image may not have reached the card:
  nobody looks at the result of `f_close` (filesystem.c:1184, 1397). `Closed` and `Expanded`
  have it under `IoFaults`.
* MODE SELECT reports GOOD although the descriptor was not written, and READ of a
  descriptor succeeds with what the buffer held: `!=` joined with `&&` where `||` is meant
  (filesystem.c:1091).
* A descriptor is made anew over the host's own whenever it cannot be opened, for
  whatever error (filesystem.c:589-596; the comment says "not found").
* `f_expand` looks for contiguous clusters past the last one and around again, so that FORMAT may
  fail and leave clusters lost that belong to no file (filesystem.c:1155).
* FORMAT computes the size in 32 bits (filesystem.c:1162): a geometry of 4 GB or more
  gives a smaller file and GOOD. An automatic descriptor has its cylinders cut to 16 bits.
* VERIFY looks at the first block only, however many it is asked for (scsi.c:1884).
* TRANSLATE with a descriptor of no heads divides by zero (scsi.c:1519), which gives zero
  on the processor.
* A `uint16_t` is passed where FatFs stores a 32-bit count (filesystem.c:675, 785); the
  size `filesystemGetLunSizeFromDsc` finds is only printed.
* MODE SELECT writes the descriptor even if a reset cut its list short (1626).
* FORMAT does not look at the result of starting the new LUN (1007).
* A read past the end of the image succeeds with what the buffer held before
  (filesystem.c:1238, 1292).
* `hostadapterReadByte` reads the bus after it released REQ, and no function awaits
  the release of ACK (hostadapter.c:259, 277): see `PromptHost` and `HoldsData`.
* The DMA functions return the index of the last byte, not the number of bytes; the
  callers do not look at it.
* The MSG pin is not set up as an output (hostadapter.c:55): the message phase is not told
  from the status phase by that line. The model has the phase the code asks for.
* A block is moved over the bus in 256 bytes and to the file in `SECTOR_SIZE` = 512
  (filesystem.c:1269) through a buffer of 256 bytes. The models treat a block as one
  unit.
* An unknown command group leaves the CDB length of the command before (scsi.c:507).

## 8. Not modelled

* `scsiEmulationBusFree` and the BeebSCSI group 6 file transfer (filesystem.c:1407-1799),
  jukebox (`filesystemSetLunDirectory`) and user codes: no caller.
* The bytes of sense data, mode pages and command blocks.
* The configure interrupt: its pin is not attached.
* Of FatFs: what section 2 lists under its abstractions, and every function `filesystem.c`
  does not call for the files of a LUN (renaming, listing, formatting a volume, strings).
* The SD driver, the HAL and TM libraries: a sector is read or written, or an error is returned.
* FreeRTOS, lwIP, the USB stack, the code pages of FatFs: vendored in the same tree;
  the emulator does not use them. They are more than nine tenths of the lines of the repository,
  so that the definitions here, which stand for nearly all of the emulator's own state
  machine, store, buffer and adapter, stand for a small share of the whole.
* Debug output.

## 9. The plan

Done, in this order: `FileSystem`, `ScsiTarget`, `ReadAhead`, `HostAdapter`, `ScsiCommand`,
`Geometry`, `FatFs` and `CardFiles`, their runs, and the proofs of section 5.

What is left:

1. `CommandBlock`: decoding of the command block over a `ByteChannel`, with the stale
   length of unknown groups (scsi.c:507).
2. `SectorSize`: 256-byte blocks through 512-byte sectors (filesystem.c:1269).
3. Two LUNs in `CardFiles`, with the files of one locked while the other is used.

To prove: the step that item 3 needs (`Chains` for any number of files: its lemmas already
say so, `SoundTables` names the two there are), and the properties of items 1 and 2.
