------------------------------ MODULE M3u8List ------------------------------
(***************************************************************************)
(* The playlist of a CM3U8FS mount.  connect reads the .m3u8 file and      *)
(* merges its lines into m3u8_list: one directory for each name, holding   *)
(* one file for each URL the name was given.  Open files keep an index     *)
(* into the list and the first URL, open directories an index and how far  *)
(* they have been read; a later connect grows the list under all of them.  *)
(*                                                                         *)
(* connect does not take session_mutex: CheckConnection can be called      *)
(* while the device is in use, and each line it merges is a step of its    *)
(* own.  That vector moves its elements meanwhile is not followed, nor are *)
(* two connects at once.                                                   *)
(***************************************************************************)
EXTENDS Integers, Sequences, FiniteSetsExt

CONSTANTS
    Names,      \* titles of the playlist
    Slashed,    \* those with a slash in them
    Urls,
    Playlists,  \* what the file may hold: its lines, and whether the last ends
    Files,      \* structures of open files
    Dirs,       \* DIR structures
    Root,       \* the path "/"
    Others,     \* paths that name nothing, or a title and a slash after it
    MaxFds,     \* descriptors there are for connect
    Nothing

\* What is read behind the end of the file, up to a zero byte or a line end.
Rest == {"", "garbage"}

\* A line is the name and the URL it gives, and what was read behind it.
Line == [name : Names, url : Urls, rest : Rest]

ASSUME M3u8ListAssumption ==
    /\ Slashed \subseteq Names
    /\ \A p \in Playlists :
          p \in [lines : Seq([name : Names, url : Urls]), newline : BOOLEAN]
    /\ Root \notin Names \cup Others
    /\ Others \cap Names = {}
    /\ MaxFds \in Nat
    /\ Nothing \notin [idx : Nat, name : Names, size : Line]
    /\ Nothing \notin [path : Names \cup Others \cup {Root}, known : BOOLEAN,
                       listoffset : Int, diridx : Nat]

VARIABLES
    playlist,    \* the file on disk
    m3u8_list,   \* entries of a name and its URLs, url[0] first
    tmpvector,   \* lines the connect in progress has still to merge
    connect_pc,  \* "idle", "check" or "register": on whose behalf it runs
    registered,  \* fs_regisered
    fds,         \* descriptors connect has opened and never closed
    merged,      \* all lines merged so far
    file,        \* Nothing, or fileidx, the name opened and filesize
    dir,         \* Nothing, or the path opened, listoffset and diridx
    shown        \* names dirnext has returned since diropen or the last end

disk  == <<playlist, fds>>
lists == <<m3u8_list, tmpvector, connect_pc, registered, merged>>
dirs  == <<dir, shown>>
vars  == <<disk, lists, file, dirs>>

-----------------------------------------------------------------------------
Init ==
    /\ playlist \in Playlists
    /\ m3u8_list = <<>>
    /\ tmpvector = <<>>
    /\ connect_pc = "idle"
    /\ registered = FALSE
    /\ fds = 0
    /\ merged = <<>>
    /\ file = [f \in Files |-> Nothing]
    /\ dir = [d \in Dirs |-> Nothing]
    /\ shown = [d \in Dirs |-> <<>>]

\* Someone edits the file.
Edit ==
    /\ playlist' \in Playlists
    /\ UNCHANGED <<fds, lists, file, dirs>>

Entries(name) == {i \in DOMAIN m3u8_list : m3u8_list[i].name = name}

-----------------------------------------------------------------------------
(***************************************************************************)
(* connect reads the whole file and takes what it has read for a string,   *)
(* although no zero byte ends it: unless the last line ends, what follows  *)
(* in memory becomes part of the last URL.                                 *)
(***************************************************************************)
Parsed(p, rest) ==
    [i \in DOMAIN p.lines |->
        [name |-> p.lines[i].name, url |-> p.lines[i].url,
         rest |-> IF i = Len(p.lines) /\ ~p.newline THEN rest ELSE ""]]

\* Mutant: each connect starts with an empty list.
connect_clears(purpose) ==
    /\ connect_pc = "idle"
    /\ fds < MaxFds
    /\ fds' = fds + 1
    /\ m3u8_list' = <<>>
    /\ merged' = <<>>
    /\ connect_pc' = purpose
    /\ \E rest \in Rest : tmpvector' = Parsed(playlist, rest)
    /\ UNCHANGED <<playlist, registered, file, dirs>>

\* stat, open, malloc, read, regex; the descriptor stays open for good.
connect(purpose) ==
    /\ connect_pc = "idle"
    /\ fds < MaxFds
    /\ fds' = fds + 1
    /\ connect_pc' = purpose
    /\ \E rest \in Rest : tmpvector' = Parsed(playlist, rest)
    /\ UNCHANGED <<playlist, m3u8_list, registered, merged, file, dirs>>

\* connect returns -1 and has changed nothing but the count of descriptors.
ShortRead ==
    /\ connect_pc = "idle"
    /\ fds < MaxFds
    /\ fds' = fds + 1
    /\ UNCHANGED <<playlist, lists, file, dirs>>

\* Mutant: the list is searched for the URL.
MergeLine_by_url ==
    /\ connect_pc # "idle"
    /\ tmpvector # <<>>
    /\ LET line  == Head(tmpvector)
           found == {i \in DOMAIN m3u8_list : m3u8_list[i].url[1] = line}
       IN  m3u8_list' = IF found # {}
                        THEN [m3u8_list EXCEPT ![Min(found)].url = Append(@, line)]
                        ELSE Append(m3u8_list, [name |-> line.name, url |-> <<line>>])
    /\ merged' = Append(merged, Head(tmpvector))
    /\ tmpvector' = Tail(tmpvector)
    /\ UNCHANGED <<disk, connect_pc, registered, file, dirs>>

\* Mutant: a name that is there already is left as it is.
MergeLine_keeps_first ==
    /\ connect_pc # "idle"
    /\ tmpvector # <<>>
    /\ LET line  == Head(tmpvector)
       IN  m3u8_list' = IF Entries(line.name) # {}
                        THEN m3u8_list
                        ELSE Append(m3u8_list, [name |-> line.name, url |-> <<line>>])
    /\ merged' = Append(merged, Head(tmpvector))
    /\ tmpvector' = Tail(tmpvector)
    /\ UNCHANGED <<disk, connect_pc, registered, file, dirs>>

\* One round of the loop over tmpvector: the first entry of the name gets the
\* URL, or the list a new entry.
MergeLine ==
    /\ connect_pc # "idle"
    /\ tmpvector # <<>>
    /\ LET line  == Head(tmpvector)
           found == Entries(line.name)
       IN  m3u8_list' = IF found # {}
                        THEN [m3u8_list EXCEPT ![Min(found)].url = Append(@, line)]
                        ELSE Append(m3u8_list, [name |-> line.name, url |-> <<line>>])
    /\ merged' = Append(merged, Head(tmpvector))
    /\ tmpvector' = Tail(tmpvector)
    /\ UNCHANGED <<disk, connect_pc, registered, file, dirs>>

\* connect returns 0 to CheckConnection or to RegisterFilesystem.
Connected ==
    /\ connect_pc # "idle"
    /\ tmpvector = <<>>
    /\ connect_pc' = "idle"
    /\ registered' = (registered \/ connect_pc = "register")
    /\ UNCHANGED <<disk, m3u8_list, tmpvector, merged, file, dirs>>

-----------------------------------------------------------------------------
\* open and stat compare the last component of the path with name + ".m3u8".
ByLeaf(name) == IF name \in Slashed THEN {} ELSE Entries(name)

\* The length of a file is that of its name and of its first URL.
SizeOf(i) == m3u8_list[i].url[1]

\* st_size; Nothing when stat fails.
m3u8fs_stat(name) ==
    IF ByLeaf(name) = {} THEN Nothing ELSE SizeOf(Min(ByLeaf(name)))

m3u8fs_open(f, name) ==
    /\ registered
    /\ file[f] = Nothing
    /\ ByLeaf(name) # {}
    /\ LET i == Min(ByLeaf(name))
       IN  file' = [file EXCEPT ![f] = [idx |-> i, name |-> name, size |-> SizeOf(i)]]
    /\ UNCHANGED <<disk, lists, dirs>>

m3u8fs_close(f) ==
    /\ file[f] # Nothing
    /\ file' = [file EXCEPT ![f] = Nothing]
    /\ UNCHANGED <<disk, lists, dirs>>

-----------------------------------------------------------------------------
InRoot == 0    \* listoffset -1
Wild   == -1   \* no index of the list: the process does not survive dirnext

(***************************************************************************)
(* diropen never fails.  It takes the last entry of the name; when there   *)
(* is none, listoffset is whatever was in the structure.                   *)
(***************************************************************************)
ListOffsets(path) ==
    IF path = Root THEN {InRoot}
    ELSE IF Entries(path) # {} THEN {Max(Entries(path))}
    ELSE {InRoot, Wild} \cup DOMAIN m3u8_list

m3u8fs_diropen(d, path) ==
    /\ registered
    /\ dir[d] = Nothing
    /\ \E offset \in ListOffsets(path) :
          dir' = [dir EXCEPT ![d] =
              [path |-> path, known |-> path = Root \/ Entries(path) # {},
               listoffset |-> offset, diridx |-> 0]]
    /\ UNCHANGED <<disk, lists, file, shown>>

\* What the directory holds, one name for each dirnext.
Listing(offset) ==
    IF offset = InRoot
    THEN [i \in DOMAIN m3u8_list |-> m3u8_list[i].name]
    ELSE [u \in DOMAIN m3u8_list[offset].url |-> m3u8_list[offset].name]

\* Mutant: the end leaves the index where it is, and the next entry is skipped.
m3u8fs_dirnext_skips(d) ==
    /\ dir[d] # Nothing
    /\ dir[d].listoffset # Wild
    /\ LET names == Listing(dir[d].listoffset)
           next  == dir[d].diridx + 1
       IN  IF next \in DOMAIN names
           THEN /\ shown' = [shown EXCEPT ![d] = Append(@, names[next])]
                /\ dir' = [dir EXCEPT ![d].diridx = next]
           ELSE /\ shown' = [shown EXCEPT ![d] = <<>>]
                /\ dir' = [dir EXCEPT ![d].diridx = next]
    /\ UNCHANGED <<disk, lists, file>>

\* At the end the index goes back to the start.
m3u8fs_dirnext(d) ==
    /\ dir[d] # Nothing
    /\ dir[d].listoffset # Wild
    /\ LET names == Listing(dir[d].listoffset)
           next  == dir[d].diridx + 1
       IN  IF next \in DOMAIN names
           THEN /\ shown' = [shown EXCEPT ![d] = Append(@, names[next])]
                /\ dir' = [dir EXCEPT ![d].diridx = next]
           ELSE /\ shown' = [shown EXCEPT ![d] = <<>>]
                /\ dir' = [dir EXCEPT ![d].diridx = 0]
    /\ UNCHANGED <<disk, lists, file>>

m3u8fs_dirclose(d) ==
    /\ dir[d] # Nothing
    /\ dir' = [dir EXCEPT ![d] = Nothing]
    /\ shown' = [shown EXCEPT ![d] = <<>>]
    /\ UNCHANGED <<disk, lists, file>>

-----------------------------------------------------------------------------
Next ==
    \/ Edit
    \/ \E purpose \in {"check", "register"} : connect(purpose)
    \/ ShortRead
    \/ MergeLine
    \/ Connected
    \/ \E f \in Files : m3u8fs_close(f) \/ \E name \in Names : m3u8fs_open(f, name)
    \/ \E d \in Dirs :
          \/ \E path \in Names \cup Others \cup {Root} : m3u8fs_diropen(d, path)
          \/ m3u8fs_dirnext(d)
          \/ m3u8fs_dirclose(d)

Spec == Init /\ [][Next]_vars

-----------------------------------------------------------------------------
\* A name has one entry, whatever playlists were read however often; so open,
\* stat and dirnext, which take the first of a name, and diropen, which takes
\* the last, mean the same.
NamesOnce ==
    \A i, j \in DOMAIN m3u8_list : m3u8_list[i].name = m3u8_list[j].name => i = j

\* While a file is open its index stays that of its name, and stat of the path
\* it was opened by tells the size that fstat tells, also after the playlist
\* was edited and read again.
OpenFilesMatch ==
    \A f \in Files :
        file[f] # Nothing =>
            /\ file[f].idx \in DOMAIN m3u8_list
            /\ m3u8_list[file[f].idx].name = file[f].name
            /\ m3u8fs_stat(file[f].name) = file[f].size

\* A directory that was there when it was opened shows the names of the list,
\* each once, or the one name it was opened by, also while connect adds lines.
DirectoriesOrderly ==
    \A d \in Dirs :
        dir[d] # Nothing /\ dir[d].known =>
            /\ Len(shown[d]) = dir[d].diridx
            /\ \A i \in DOMAIN shown[d] :
                  shown[d][i] = IF dir[d].path = Root THEN m3u8_list[i].name
                                                      ELSE dir[d].path

\* The URLs are those of the lines that are of the name, in their order.
LinesOf(lines, name, url) ==
    \E at \in [DOMAIN url -> DOMAIN lines] :
        /\ \A u, v \in DOMAIN url : u < v => at[u] < at[v]
        /\ \A u \in DOMAIN url : url[u] = lines[at[u]]
        /\ {at[u] : u \in DOMAIN url} = {k \in DOMAIN lines : lines[k].name = name}

\* No line that was read is lost, and each is listed once more for each time
\* it was read: the second connect, which CheckConnection and then
\* RegisterFilesystem make, lists every file twice.
EveryLineListed ==
    /\ {m3u8_list[i].name : i \in DOMAIN m3u8_list} = {merged[i].name : i \in DOMAIN merged}
    /\ \A i \in DOMAIN m3u8_list : LinesOf(merged, m3u8_list[i].name, m3u8_list[i].url)
=============================================================================
