----------------------------- MODULE SectorStream -----------------------------
(***************************************************************************)
(* What the read functions of filesystem.c promise to scsiCommandRead6: a  *)
(* request for n sectors from sector "start" of an image that holds them   *)
(* delivers sectors start, start+1, ..., one per call, in this order, or   *)
(* fails; nothing is said of a request that reaches past the image.        *)
(***************************************************************************)
EXTENDS Naturals, Sequences

CONSTANT Contents  \* what a delivered buffer may hold

VARIABLES
    request,    \* [start, n, inside]: the request, and does the image hold it?
    reading,    \* is a request being served?
    delivered   \* what was delivered for it so far

streamVars == <<request, reading, delivered>>

Idle == [start |-> 0, n |-> 0, inside |-> TRUE]

StreamInit == request = Idle /\ reading = FALSE /\ delivered = << >>

\* A request is accepted, nothing is delivered yet.
Accept ==
    /\ ~reading
    /\ request' \in [start : Nat, n : Nat \ {0}, inside : BOOLEAN]
    /\ reading' = TRUE /\ delivered' = << >>

\* The next sector of the image, or anything past its end.
Deliver ==
    /\ reading /\ Len(delivered) < request.n
    /\ \E c \in Contents :
          /\ request.inside => c = request.start + Len(delivered)
          /\ delivered' = Append(delivered, c)
    /\ UNCHANGED <<request, reading>>

\* The caller closes the image: all is delivered, or it gives up.
Finish ==
    /\ reading
    /\ reading' = FALSE
    /\ UNCHANGED <<request, delivered>>

StreamNext == Accept \/ Deliver \/ Finish

StreamSpec == StreamInit /\ [][StreamNext]_streamVars
=============================================================================
