------------------------------ MODULE ByteChannel ------------------------------
(***************************************************************************)
(* What the transfer functions of hostadapter.c promise to scsi.c: the     *)
(* receiver of a message takes its bytes in order and each of them once,   *)
(* and a transfer that ends with the reset flag clear has moved them all.  *)
(* Once the flag is set nothing is said of the bytes.                      *)
(***************************************************************************)
EXTENDS Naturals, Sequences

CONSTANTS Lengths,  \* the lengths of the messages
          Values    \* what a byte may be; byte i of a message is i

VARIABLES
    busy,    \* is a message being transferred?
    size,    \* its length
    taken,   \* what its receiver took so far
    cut      \* the reset flag

channelVars == <<busy, size, taken, cut>>

ChannelInit == ~busy /\ size \in Lengths /\ taken = << >> /\ ~cut

Start ==
    /\ ~busy
    /\ busy' = TRUE /\ size' \in Lengths /\ taken' = << >>
    /\ UNCHANGED cut

\* The receiver takes a byte, which may be the last one.
Take ==
    /\ busy \/ cut
    /\ \E v \in Values :
          /\ cut \/ (Len(taken) < size /\ v = Len(taken))
          /\ taken' = Append(taken, v)
    /\ busy' = busy \/ (busy' = FALSE /\ (cut' \/ Len(taken') = size))
    /\ cut' \in {cut, TRUE} /\ UNCHANGED size

Finish ==
    /\ busy /\ ~busy'
    /\ cut' \/ Len(taken) = size
    /\ cut' \in {cut, TRUE} /\ UNCHANGED <<size, taken>>

Cut == cut' = TRUE /\ UNCHANGED <<busy, size, taken>>

\* The reset has been served.
Clear == ~busy /\ cut' = FALSE /\ UNCHANGED <<busy, size, taken>>

ChannelNext == Start \/ Take \/ Finish \/ Cut \/ Clear

ChannelSpec == ChannelInit /\ [][ChannelNext]_channelVars
=============================================================================
