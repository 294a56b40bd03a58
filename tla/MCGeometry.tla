------------------------------ MODULE MCGeometry ------------------------------
(* An instance of Geometry with numbers of a few bits: sectors of 4 bytes, 3 *)
(* of them on a track, heads and cylinders of 3 bits, sizes of 9.            *)
EXTENDS Geometry

\* Nothing, less than a track, whole tracks with and without a divisor, a
\* prime number of tracks past HalfWord (13), the most.
SomeSizes == {0, 5, 12, 36, 51, 84, 96, 156, 159, 300, 511}

\* Blocks of the first and the last cylinders, and past the end of any image.
SomeLbas == {0, 1, 2, 3, 11, 12, 20, 59, 125, 146, 147, 200}
=============================================================================
