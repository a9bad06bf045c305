----------------------------- MODULE MCSeekRead -----------------------------
(***************************************************************************)
(* Small instances of SeekRead: a file of three bytes read two at a time,  *)
(* so that the last read is short, and seeks before, into and past it.     *)
(***************************************************************************)
EXTENDS SeekRead, TLC

ThreadSymmetry == Permutations(Threads)

To(whence, by) == [whence |-> whence, by |-> by]

AnyMove ==
    {To("SET", -1), To("SET", 0), To("SET", 2), To("CUR", -1), To("CUR", 1),
     To("END", -1), To("END", 1)}

\* A few, none of them relative to the current position.
AbsoluteMoves == {To("SET", -1), To("SET", 2), To("END", 0), To("END", 1)}

RelativeMoves == {To("CUR", -1), To("CUR", 1), To("END", 0)}

\* One thread does anything; all of them together do less.
MCUses ==
    {[threads |-> {t}, moves |-> AnyMove] : t \in Threads}
        \cup {[threads |-> Threads, moves |-> m] : m \in {AbsoluteMoves, RelativeMoves}}
=============================================================================
