CONSTANTS
    Names = {"a", "b/c"}
    Slashed = {"b/c"}
    Urls = {"u", "v", "w"}
    Playlists <- MCPlaylists
    Files = {f1}
    Dirs = {d1, d2}
    Root = "/"
    Others = {"a/"}
    MaxFds = 2
    Nothing = Nothing
SPECIFICATION Spec
SYMMETRY DirSymmetry
INVARIANTS
    NamesOnce
    OpenFilesMatch
    DirectoriesOrderly
    EveryLineListed
