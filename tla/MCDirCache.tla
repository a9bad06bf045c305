----------------------------- MODULE MCDirCache -----------------------------
(***************************************************************************)
(* Small instances of DirCache: two directories of two entries each, two   *)
(* DIRs and a thread that asks about a file of one of them.                *)
(***************************************************************************)
EXTENDS DirCache, TLC

File(name) == [name |-> name, kind |-> "file"]

Root == <<"/">>
Sub  == <<"/", "s", "/">>

MCOpens == {Root, Sub}

MCAsks == {<<"/", "a">>}

\* Below, a line that FTP does not understand, the directory itself and a link.
MCLines ==
    (Root :> <<File(<<"a">>), File(<<"b">>)>>)
    @@ (Sub :> <<[name |-> <<"t">>, kind |-> "other"],
                 [name |-> <<".">>, kind |-> "dots"], File(<<"a">>),
                 [name |-> <<"l">>, kind |-> "link"]>>)
=============================================================================
