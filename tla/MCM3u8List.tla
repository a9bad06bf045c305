---------------------------- MODULE MCM3u8List ------------------------------
(***************************************************************************)
(* Small instances of M3u8List: a playlist that names one title twice and, *)
(* before or after an edit, another with a slash in it, without a line end *)
(* after the last.                                                         *)
(***************************************************************************)
EXTENDS M3u8List, TLC

DirSymmetry == Permutations(Dirs)

Titled(name, url) == [name |-> name, url |-> url]

MCPlaylists ==
    {[lines |-> <<Titled("a", "u"), Titled("a", "v")>>, newline |-> TRUE],
     [lines |-> <<Titled("b/c", "u"), Titled("a", "w")>>, newline |-> FALSE]}
=============================================================================
