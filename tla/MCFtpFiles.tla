----------------------------- MODULE MCFtpFiles -----------------------------
(***************************************************************************)
(* Small instances of FtpFiles: two files with two descriptors for each of *)
(* them, so that a number is handed out again as soon as one is closed, or *)
(* one file with one descriptor more than it needs; a remote file of a few *)
(* bytes, and sizes from the listing that are too small and too large.     *)
(***************************************************************************)
EXTENDS FtpFiles, TLC

FileSymmetry == Permutations(Files)

\* No faults, transfers that break, and everything; or all but late replies.
MCFaultSets == {{}, {"reset"}, FaultKinds}

MCFaultSetsInTime == {FaultKinds \ {"late"}}

MCSeeks == {-1, 0, 1}

MCSeeksLarge == {-1, 0, 1, 2, 3, 4, 5, 6}
=============================================================================
