----------------------------- MODULE PosixFile ------------------------------
(***************************************************************************)
(* What read and lseek promise to the threads of a process that share one  *)
(* open file: each call takes effect in a single step on one position, a   *)
(* read delivers the bytes at the position and moves it past them, a seek  *)
(* moves it to where it was told to and returns that.                      *)
(***************************************************************************)
EXTENDS Integers

CONSTANTS
    Size,      \* length of the file
    Chunk,     \* bytes a read asks for
    Moves      \* seeks: records of a whence and a distance

VARIABLES
    position,
    delivered, \* where the last read began, and its length
    returned   \* what the last seek said the position is

vars == <<position, delivered, returned>>

Base(whence) ==
    CASE whence = "SET" -> 0
      [] whence = "CUR" -> position
      [] whence = "END" -> Size

\* At least a byte where there is one.
Lengths ==
    IF position \in 0 .. Size - 1
    THEN {n \in 1 .. Chunk : position + n <= Size} ELSE {0}

Init ==
    /\ position = 0
    /\ delivered = [from |-> 0, n |-> 0]
    /\ returned = 0

Read ==
    /\ UNCHANGED returned
    /\ \E n \in Lengths :
          /\ delivered' = [from |-> position, n |-> n]
          /\ position' = position + n

Seek ==
    /\ \E m \in Moves : position' = Base(m.whence) + m.by
    /\ returned' = position'
    /\ UNCHANGED delivered

Next == Read \/ Seek

Spec == Init /\ [][Next]_vars
=============================================================================
