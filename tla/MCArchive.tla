----------------------------- MODULE MCArchive ------------------------------
(***************************************************************************)
(* Small instances of Archive: archives of up to four entries of two names *)
(* and one or two levels, in several orders, with a small and a large file *)
(* of the root.                                                            *)
(***************************************************************************)
EXTENDS Archive

Folder(path) == [path |-> path, folder |-> TRUE, size |-> 0, ok |-> TRUE]
File(path, size) == [path |-> path, folder |-> FALSE, size |-> size, ok |-> TRUE]
Damaged(entry) == [entry EXCEPT !.ok = FALSE]

\* Directories before and after what is in them, and not in the archive at all;
\* one with a file of its own name; last, an archive that is damaged between
\* two files of one directory.
MCArchives == {
    <<Folder(<<"d">>), File(<<"d", "a">>, 1), File(<<"a">>, 3), File(<<"b">>, 2)>>,
    <<File(<<"a">>, 3), File(<<"d", "a">>, 1), File(<<"d", "d", "a">>, 1), Folder(<<"d">>)>>,
    <<File(<<"b">>, 3), Folder(<<"d", "e">>), File(<<"d", "b">>, 3)>>,
    <<Folder(<<"d">>), File(<<"d", "d">>, 1), File(<<"d", "a">>, 3), File(<<"a">>, 2)>>,
    <<File(<<"a">>, 3), File(<<"d", "a">>, 1), Damaged(File(<<"d", "b">>, 1)), File(<<"b">>, 2)>> }

MCFolders == {<<>>, <<"d">>}

MCAsked == {<<"a">>, <<"b">>, <<"d">>, <<"d", "a">>, <<"d", "d">>}

To(whence, by) == [whence |-> whence, by |-> by]

MCMoves == {To("SET", -1), To("SET", 1), To("SET", 4), To("CUR", 1), To("END", -1)}
=============================================================================
