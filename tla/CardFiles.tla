------------------------------ MODULE CardFiles ------------------------------
(***************************************************************************)
(* The files of one LUN on the card, as the functions of filesystem.c      *)
(* change them through FatFs for the commands of the host: the image       *)
(* scsi0.dat and its descriptor scsi0.dsc, with disk errors, a full card,  *)
(* resets in the middle of a WRITE, and power that fails at any time.      *)
(*                                                                         *)
(* A command is the calls of FatFs it makes; both files are on the card    *)
(* from the start.  A block of the host is one sector of the image.        *)
(***************************************************************************)
EXTENDS FatFs

CONSTANTS
    MaxSize,  \* bound on the blocks of an image
    Written   \* the values the host writes

ASSUME CardAssumption == MaxSize \in Nat /\ Written \subseteq Value

Blocks == 0 .. MaxSize - 1

VARIABLES
    started,  \* filesystemState.fsLunStatus[0]
    cmd,      \* the command under way
    kept      \* (history) what a block may hold, for the blocks the host was
              \* told are written; {} for any other

vars == <<fatVars, started, cmd, kept>>

Unwritten == [b \in Blocks |-> {}]

\* The variables stay in their ranges; cluster numbers among them.
TypeOK ==
    /\ FatTypeOK
    /\ started \in BOOLEAN
    /\ cmd \in {"none", "WRITE", "FORMAT", "MODESELECT", "START", "CREATE", "RESET", "RECREATE"}
    /\ kept \in [File -> [Blocks -> SUBSET Value]]

\* A card with an image of one block and a descriptor, freshly mounted.
Init ==
    /\ \E dsc \in Cluster \ {1} :
          disk = [ fat |-> [c \in Cluster |-> IF c \in {1, dsc} THEN EOC ELSE Free],
                   entry |-> [f \in File |-> [sclust |-> IF f = "dat" THEN 1 ELSE dsc, size |-> 1]],
                   data |-> [c \in Cluster |-> 0] ]
    /\ mem = TablesOf(disk)
    /\ win = [sect |-> Nowhere, dirty |-> FALSE]
    /\ locked = {} /\ fp = NoFile /\ todo = << >> /\ at = "start" /\ failed = {}
    /\ started = TRUE
    /\ cmd = "none"
    /\ kept = [f \in File |-> [Unwritten EXCEPT ![0] = {0}]]

-----------------------------------------------------------------------------
(* The commands.                                                           *)

Idle == cmd = "none"

\* While a block is written over, it may hold the old or the new value.
MayHold(f, p, n, v) ==
    [kept EXCEPT ![f] = [b \in Blocks |-> IF b \in p .. p + n - 1 /\ @[b] # {} THEN @[b] \cup {v} ELSE @[b]]]

\* After the calls, the status GOOD for n blocks of f from p on.
Report(f, p, n, v) == [call |-> "report", file |-> f, at |-> p, n |-> n, value |-> v]

Begin(op, calls) ==
    /\ Idle
    /\ cmd' = op /\ todo' = calls
    /\ UNCHANGED <<disk, mem, win, locked, fp, at, failed, started>>

\* WRITE: filesystemOpenLunForWrite, WriteNextSector for each block, Close.
Write ==
    /\ started
    /\ \E p \in Blocks, v \in Written : \E n \in 1 .. MaxSize - p :
          /\ Begin("WRITE",
                   << [call |-> "open", file |-> "dat"], [call |-> "seek", end |-> p],
                      [call |-> "write", end |-> p + n, value |-> v], [call |-> "close"],
                      Report("dat", p, n, v) >>)
          /\ kept' = MayHold("dat", p, n, v)

\* FORMAT: a LUN that is stopped has its image opened (filesystemCreateLunImage
\* finds that it exists); filesystemFormatLun, for the size of any geometry,
\* reads the descriptor, empties the image, then expands it.
Format ==
    /\ \E n \in 0 .. MaxSize :
          Begin("FORMAT",
                (IF started THEN << >> ELSE << [call |-> "read", file |-> "dat"] >>)
                \o << [call |-> "read", file |-> "dsc"], [call |-> "truncate", file |-> "dat"],
                      [call |-> "expand", end |-> n], [call |-> "close"] >>)
    /\ kept' = [kept EXCEPT !["dat"] = Unwritten]

\* MODE SELECT: a LUN that is stopped has its descriptor opened
\* (filesystemCreateLunDescriptor finds that it exists); then
\* filesystemWriteLunDescriptor.
ModeSelect ==
    /\ \E v \in Written :
          /\ Begin("MODESELECT",
                   (IF started THEN << >> ELSE << [call |-> "read", file |-> "dsc"] >>)
                   \o << [call |-> "open", file |-> "dsc"], [call |-> "put", end |-> 1, value |-> v],
                         [call |-> "close"], Report("dsc", 0, 1, v) >>)
          /\ kept' = MayHold("dsc", 0, 1, v)

\* filesystemCheckLunImage: is the image there, and the descriptor?
CheckLunImage == << [call |-> "read", file |-> "dat"], [call |-> "inspect", file |-> "dsc"] >>

\* START, of a LUN that is stopped: filesystemSetLunStatus.
Start == ~started /\ Begin("START", CheckLunImage) /\ UNCHANGED kept

\* filesystemReset: only a LUN that is started is tested.
Reset == started /\ Begin("RESET", CheckLunImage) /\ UNCHANGED kept

\* f_open of the descriptor; if it fails, for whatever reason, the descriptor
\* is made anew (filesystemCreateDscFromLunImage).  No property looks at what
\* is in it then.
Inspect ==
    /\ Call("inspect", "start")
    /\ \/ Find /\ "dsc" \notin locked /\ Returns /\ UNCHANGED <<cmd, kept>>
       \/ /\ (Find /\ "dsc" \in locked) \/ FindError
          /\ cmd' = IF cmd = "START" THEN "CREATE" ELSE "RECREATE"
          /\ todo' = << [call |-> "truncate", file |-> "dsc"], [call |-> "put", end |-> 1, value |-> 0],
                       [call |-> "close"] >>
          /\ kept' = [kept EXCEPT !["dsc"] = Unwritten]
          /\ UNCHANGED <<at, failed>>
    /\ fp' = NoFile
    /\ UNCHANGED <<locked, started>>

\* A reset, or a host that does not answer, ends a WRITE between two blocks.
Interrupt ==
    /\ Call("write", "start")
    /\ Abandons("incomplete")
    /\ UNCHANGED <<disk, mem, win, locked, fp, started, cmd, kept>>

Over == ~Idle /\ (todo = << >> \/ Call("report", "start"))

\* What was asked for is done: what the host was told is kept.
Told ==
    IF failed # {} \/ todo = << >> THEN kept
    ELSE LET r == todo[1] IN
         [kept EXCEPT ![r.file] =
             [b \in Blocks |-> IF b \in r.at .. r.at + r.n - 1 THEN {r.value} ELSE @[b]]]

\* A FORMAT that went well starts the LUN.
Restart ==
    /\ cmd = "FORMAT" /\ Over /\ "error" \notin failed /\ ~started
    /\ cmd' = "START" /\ todo' = CheckLunImage
    /\ fp' = NoFile /\ failed' = {}
    /\ UNCHANGED <<disk, mem, win, locked, at, started, kept>>

\* The card is mounted and LUN 0 started.
Mount ==
    /\ Remount
    /\ cmd' = "START" /\ todo' = CheckLunImage
    /\ started' = FALSE /\ kept' = kept

\* filesystemReset: the image did not open.
RemountAfterReset == cmd = "RESET" /\ Over /\ "error" \in failed /\ Mount

\* The command is over.  A WRITE or FORMAT that met an error stops the LUN; a
\* MODE SELECT does not; making a descriptor may fail unnoticed.
Finish ==
    /\ Over
    /\ cmd = "FORMAT" => "error" \in failed \/ started
    /\ cmd = "RESET" => "error" \notin failed
    /\ started' = CASE cmd = "START"  -> "error" \notin failed
                     [] cmd = "CREATE" -> TRUE
                     [] cmd \in {"WRITE", "FORMAT"} -> started /\ "error" \notin failed
                     [] OTHER -> started
    /\ kept' = Told
    /\ cmd' = "none" /\ failed' = {} /\ todo' = << >>
    /\ fp' = NoFile     \* f_open is the next that touches the file object
    /\ UNCHANGED <<disk, mem, win, locked, at>>

\* Power fails at any moment and comes back.
PowerFail == Mount

Firmware ==
    \/ FatStep /\ UNCHANGED <<started, cmd, kept>>
    \/ Inspect \/ Interrupt \/ Restart \/ RemountAfterReset \/ Finish
Host == Write \/ Format \/ ModeSelect \/ Start \/ Reset
Next == Firmware \/ Host \/ PowerFail

Spec == Init /\ [][Next]_vars

-----------------------------------------------------------------------------
(* What must hold.                                                         *)

\* The clusters of a chain in their order, and the i-th one, EOC after the end.
Walks ==
    { w \in UNION { [1 .. n -> Cluster] : n \in 0 .. NClusters } :
          \A i, j \in DOMAIN w : w[i] = w[j] => i = j }
Nth(w, i) == IF i \in 1 .. Len(w) THEN w[i] ELSE EOC

\* The chain that starts at cluster "first" (0: there is none) is w.
Linked(fat, first, w) ==
    /\ first = IF Len(w) = 0 THEN 0 ELSE w[1]
    /\ \A i \in 1 .. Len(w) : fat[w[i]] = Nth(w, i + 1)
IsChain(t, f, w) == Linked(t.fat, t.entry[f].sclust, w)

\* What the card does not have yet of the tables is in one sector, the one in
\* the window, and nowhere else: so much is lost when power fails, and no call
\* of FatFs sees tables that are neither the card's nor its own
\* (move_window, sync_window).
OneSectorBehind ==
    /\ \A c \in Cluster : mem.fat[c] # disk.fat[c] => win = [sect |-> FatSector(c), dirty |-> TRUE]
    /\ mem.entry # disk.entry => win = [sect |-> Directory, dirty |-> TRUE]

\* A file system: every chain ends, covers the size of its file, and has no cluster that is
\* free or belongs to the other file.
SoundTables(t) ==
    \E d \in Walks :
        /\ IsChain(t, "dat", d) /\ t.entry["dat"].size <= Len(d)
        /\ \E s \in Walks :
              /\ IsChain(t, "dsc", s) /\ t.entry["dsc"].size <= Len(s)
              /\ \A i \in DOMAIN d, j \in DOMAIN s : d[i] # s[j]

\* Wherever power fails and whatever access fails, the tables on the card are
\* those of a file system: a cluster FORMAT or a growing file takes is not also
\* in another chain.  It is so because ff.c empties the entry of a file before
\* it frees its chain (f_open), marks a cluster before it links it
\* (create_chain), and writes its one window back before it moves (move_window).
NoCrossLinks == SoundTables(TablesOf(disk)) /\ SoundTables(mem)

Holds(t) ==
    \A f \in File, b \in Blocks : kept[f][b] # {} =>
        /\ b < t.entry[f].size
        /\ \E w \in Walks : IsChain(t, f, w) /\ disk.data[w[b + 1]] \in kept[f][b]

\* A block of a WRITE, or a descriptor of a MODE SELECT, that was carried out
\* without an error is on the card, whenever power fails from then on, until a
\* command writes it again or FORMAT empties the image: the f_close of
\* filesystemCloseLunForWrite and filesystemWriteLunDescriptor is what makes it
\* so.  (An f_close that fails is an error here; filesystem.c does not look at
\* its result.)
Durable == Holds(TablesOf(disk)) /\ Holds(mem)

\* scsi.c:1230, "If the LUN is present, then start it": where the entry of the
\* image can be read the image can be opened.  (It does not hold: an f_close
\* that failed leaves its file in the table of open files, where no f_open gets
\* past it until the card is mounted again, and a reset mounts it only for a
\* LUN that is started.)
AutoStart ==
    [][ cmd = "START" /\ Call("read", "start") /\ win' = [sect |-> Directory, dirty |-> FALSE]
          => "error" \notin failed' ]_vars
=============================================================================
