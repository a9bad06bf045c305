---------------------------- MODULE MCImageFiles ----------------------------
(***************************************************************************)
(* A small instance of ImageFiles: an image of 9 bytes, blocks of 3 bytes  *)
(* and a header of 2, two tracks, the second of which ends with the image. *)
(***************************************************************************)
EXTENDS ImageFiles, TLC

FileSymmetry == Permutations(Files)

MCExtents == <<[start |-> 0, end |-> 4], [start |-> 4, end |-> 9]>>

To(whence, by) == [whence |-> whence, by |-> by]

MCMoves == {To("SET", -1), To("SET", 2), To("SET", 3), To("CUR", 1), To("END", -1)}
=============================================================================
