----------------------------- MODULE MCScsiTarget -----------------------------
(* ScsiTarget on small instances: the values the configurations share.      *)
EXTENDS ScsiTarget

OneLun == {0}
TwoLuns == {0, 1}

AllCommands == Handlers \cup {"UNKNOWN"}

\* Commands of every kind with which sense data and status agree.
SenseCommands ==
    { "TESTUNITREADY", "REQUESTSENSE", "FORMAT", "READ6", "MODESELECT", "TRANSLATE", "STARTSTOP" }

Everywhere(v) == [l \in LUN |-> v]

\* A card as the README of the firmware wants it, one track per image, and
\* the cards that differ from it in one thing.
Formatted == [dir |-> TRUE, dat |-> Everywhere(SectorsPerTrack), dsc |-> Everywhere(1)]
Undescribed == [Formatted EXCEPT !.dsc = Everywhere(Absent)]
Blank == [dir |-> FALSE, dat |-> Everywhere(Absent), dsc |-> Everywhere(Absent)]
OnlyLun0 == [Formatted EXCEPT !.dat = [l \in LUN |-> IF l = 0 THEN SectorsPerTrack ELSE Absent],
                              !.dsc = [l \in LUN |-> IF l = 0 THEN 1 ELSE Absent]]

SomeCards == {Formatted, Undescribed, Blank}
TwoCards == {Formatted, Blank}
HalfCard == {OnlyLun0}
=============================================================================
