--------------------------- MODULE MCSshSessions ----------------------------
(***************************************************************************)
(* Small instances of SshSessions: two objects with names of their own or  *)
(* with one name between them, and a caller.                               *)
(***************************************************************************)
EXTENDS SshSessions, TLC

CONSTANTS o1, o2

OwnNames == (o1 :> "ssh0") @@ (o2 :> "ssh1")

OneName == (o1 :> "ssh0") @@ (o2 :> "ssh0")
=============================================================================
