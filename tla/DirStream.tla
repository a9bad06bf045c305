----------------------------- MODULE DirStream ------------------------------
(***************************************************************************)
(* What opendir, readdir and closedir promise: each open directory is a    *)
(* stream of its own over the list that its opendir found, returned once,  *)
(* in order and without a second round after the end, unless rewinddir     *)
(* asks for one.                                                           *)
(***************************************************************************)
EXTENDS Naturals, Sequences

CONSTANT Dirs

VARIABLES
    open,      \* the open directories
    list,      \* what each of them lists
    returned,  \* what readdir has returned of it
    ended      \* those whose readdir has reported the end

vars == <<open, list, returned, ended>>

Others(d) ==
    /\ \A e \in open' \ {d} : list'[e] = list[e] /\ returned'[e] = returned[e]
    /\ ended' \ {d} = ended \ {d}

Init ==
    /\ open = {}
    /\ list = [d \in Dirs |-> <<>>]
    /\ returned = [d \in Dirs |-> <<>>]
    /\ ended = {}

Open(d) ==
    /\ d \notin open
    /\ open' = open \cup {d}
    /\ returned'[d] = <<>>
    /\ d \notin ended'
    /\ Others(d)

Return(d) ==
    /\ d \in open \ ended
    /\ Len(returned[d]) < Len(list[d])
    /\ returned'[d] = SubSeq(list[d], 1, Len(returned[d]) + 1)
    /\ list'[d] = list[d]
    /\ d \notin ended'
    /\ Others(d)
    /\ UNCHANGED open

\* readdir has nothing more to return, and will not until a rewinddir.
End(d) ==
    /\ d \in open
    /\ returned[d] = list[d]
    /\ ended' = ended \cup {d}
    /\ UNCHANGED <<open, list, returned>>

\* rewinddir
Rewind(d) ==
    /\ d \in open
    /\ returned'[d] = <<>>
    /\ d \notin ended'
    /\ list'[d] = list[d]
    /\ Others(d)
    /\ UNCHANGED open

\* closedir, or the file system takes streams away.
Close(closed) ==
    /\ open' = open \ closed
    /\ ended' = ended \ closed
    /\ \A d \in open' : list'[d] = list[d] /\ returned'[d] = returned[d]

Next ==
    \/ \E d \in Dirs : Open(d) \/ Return(d) \/ End(d) \/ Rewind(d)
    \/ \E closed \in SUBSET open : closed # {} /\ Close(closed)

Spec == Init /\ [][Next]_vars
=============================================================================
