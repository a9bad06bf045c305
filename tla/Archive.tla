------------------------------ MODULE Archive ------------------------------
(***************************************************************************)
(* CARCHFS: an archive mounted as a directory tree.  connect turns the     *)
(* pathnames of the archive's entries into a flat list of names and        *)
(* parents; dirnext and stat search the list; open runs through the        *)
(* archive itself and compares pathnames.  A small file is unpacked into   *)
(* memory when it is opened, a large one is read from the position of its  *)
(* own libarchive handle ("at").                                           *)
(*                                                                         *)
(* A pathname is the sequence of its components; that of a directory ends  *)
(* with a slash.  An archive may be damaged: libarchive then returns a     *)
(* warning or an error for an entry's header (ok is FALSE), and connect    *)
(* and open stop there as at the end.                                      *)
(***************************************************************************)
EXTENDS Integers, Sequences, FiniteSets, SequencesExt

CONSTANTS
    Archives,    \* archives: sequences of entries
    Folders,     \* directories the application lists, sequences of names
    Asked,       \* paths stat and open are called with
    Dirs,        \* DIR structures of the application
    Files,       \* open files
    Lengths,     \* how much a read asks for
    Moves,       \* seeks: records of a whence and a distance
    MemLimit,    \* 100000000: a file below it is unpacked when it is opened
    MaxFiles,    \* how many FILEs the program can have open
    Bound        \* bound: how far from 0 the application seeks

EntryType == [path : Seq(STRING) \ {<<>>}, folder : BOOLEAN, size : Nat, ok : BOOLEAN]

ASSUME ArchiveAssumption ==
    /\ Archives \subseteq Seq(EntryType)
    /\ Folders \subseteq Seq(STRING)
    /\ Asked \subseteq Seq(STRING) \ {<<>>}
    /\ Lengths \subseteq Nat \ {0}
    /\ Moves \subseteq [whence : {"SET", "CUR", "END"}, by : Int]
    /\ MemLimit \in Nat
    /\ MaxFiles \in Nat
    /\ Bound \in Nat

VARIABLES
    archive,        \* the file that is mounted
    totalfilelist,  \* an entry's number, name and parent
    folder,         \* dirpath, or "closed"
    idx,            \* dirnext_idx
    listed,         \* what dirnext has returned since diropen
    ended,          \* DIRs whose dirnext has returned -1
    found,          \* the last stat: the path, and the number of the entry
    open,           \* the file structures: number of the entry, 0 when closed
    offset,         \* priv_file->offset
    at,             \* position of the archive handle in the entry's data
    strayed,        \* files whose last seek was refused or was no SEEK_SET
    lost,           \* how many FILEs were opened that no close will close
    fate            \* "running", or "undefined" after memcpy outside a buffer or a
                    \* FILE that is NULL

tree  == <<archive, totalfilelist>>
dirs  == <<folder, idx, listed, ended>>
files == <<open, offset, at, strayed, lost, fate>>
vars  == <<tree, dirs, found, files>>

-----------------------------------------------------------------------------
Closed == <<"closed">>
NotFound == 0

Init ==
    /\ archive \in Archives
    /\ totalfilelist = <<>>
    /\ folder = [d \in Dirs |-> Closed]
    /\ idx = [d \in Dirs |-> 0]
    /\ listed = [d \in Dirs |-> <<>>]
    /\ ended = {}
    /\ found = [path |-> <<>>, entry |-> NotFound]
    /\ open = [f \in Files |-> 0]
    /\ offset = [f \in Files |-> 0]
    /\ at = [f \in Files |-> 0]
    /\ strayed = {}
    /\ lost = 0
    /\ fate = "running"

-----------------------------------------------------------------------------
\* Mutant: a file in the root is taken to be in a directory of its own name.
parentname_kept(e) == IF e.folder \/ Len(e.path) > 1 THEN Front(e.path) ELSE e.path

(***************************************************************************)
(* What comes before the last slash is the parent.  A file in the root has *)
(* no slash, and its name is taken for its parent; that is put right, as   *)
(* is, wrongly, a parent in the root that has the name of its entry.       *)
(***************************************************************************)
parentname(e) ==
    LET before == IF e.folder \/ Len(e.path) > 1 THEN Front(e.path) ELSE e.path
    IN  IF before = <<Last(e.path)>> THEN <<>> ELSE before

Listed(i) ==
    [entry |-> i, filename |-> Last(archive[i].path), parent |-> parentname(archive[i])]

\* The entries before the first whose header is not ARCHIVE_OK.
Readable == {i \in DOMAIN archive : \A j \in 1 .. i : archive[j].ok}

\* connect, in the constructor, before anybody else knows of the object.  It
\* keeps what it has read when the next header is not ARCHIVE_OK, and returns 0.
connect ==
    /\ Len(totalfilelist) + 1 \in Readable
    /\ totalfilelist' = Append(totalfilelist, Listed(Len(totalfilelist) + 1))
    /\ UNCHANGED <<archive, dirs, found, files>>

\* An archive that cannot be opened leaves an object that no path leads to.
Mounted == Len(totalfilelist) + 1 \notin Readable /\ fate = "running"

-----------------------------------------------------------------------------
archfs_diropen(d, path) ==
    /\ Mounted
    /\ folder[d] = Closed
    /\ folder' = [folder EXCEPT ![d] = path]
    /\ idx' = [idx EXCEPT ![d] = 0]
    /\ listed' = [listed EXCEPT ![d] = <<>>]
    /\ ended' = ended \ {d}
    /\ UNCHANGED <<tree, found, files>>

\* Entries of the directory from the index on.
Coming(d) ==
    {i \in idx[d] + 1 .. Len(totalfilelist) : totalfilelist[i].parent = folder[d]}

archfs_dirnext(d) ==
    /\ Mounted
    /\ folder[d] # Closed
    /\ IF Coming(d) = {}
       THEN /\ idx' = [idx EXCEPT ![d] = Len(totalfilelist)]
            /\ ended' = ended \cup {d}
            /\ UNCHANGED listed
       ELSE /\ idx' = [idx EXCEPT ![d] = Min(Coming(d))]
            /\ listed' = [listed EXCEPT ![d] = Append(@, totalfilelist[Min(Coming(d))].entry)]
            /\ UNCHANGED ended
    /\ UNCHANGED <<tree, folder, found, files>>

\* Nothing happens to the DIR.
archfs_dirclose(d) ==
    /\ folder[d] # Closed
    /\ folder' = [folder EXCEPT ![d] = Closed]
    /\ idx' = [idx EXCEPT ![d] = 0]
    /\ listed' = [listed EXCEPT ![d] = <<>>]
    /\ ended' = ended \ {d}
    /\ UNCHANGED <<tree, found, files>>

-----------------------------------------------------------------------------
\* Mutant: names alone are compared.
find_fileentry_by_name(path) ==
    {i \in DOMAIN totalfilelist : totalfilelist[i].filename = Last(path)}

\* The entries whose parent and name make up the path, with a slash or without.
find_fileentry(path) ==
    {i \in DOMAIN totalfilelist :
        Append(totalfilelist[i].parent, totalfilelist[i].filename) = path}

\* The first of them answers.
archfs_stat(path) ==
    /\ Mounted
    /\ found' = [path |-> path,
                 entry |-> IF find_fileentry(path) = {} THEN NotFound
                           ELSE totalfilelist[Min(find_fileentry(path))].entry]
    /\ UNCHANGED <<tree, dirs, files>>

-----------------------------------------------------------------------------
\* The entries open stops at: those whose whole pathname is the last component
\* of the path, and which come before a header that is not ARCHIVE_OK.
Named(path) ==
    {i \in Readable : ~archive[i].folder /\ archive[i].path = <<Last(path)>>}

Size(f) == archive[open[f]].size
memfile(f) == Size(f) < MemLimit

FILEs == Cardinality({f \in Files : open[f] # 0}) + lost

(***************************************************************************)
(* Each open has a FILE and a handle of its own.  Without an entry of that *)
(* name it returns -1, and gives the handle back but not the FILE.  What   *)
(* fopen returns is not looked at: libarchive asks even NULL for its       *)
(* number.                                                                 *)
(***************************************************************************)
archfs_open(f, path) ==
    /\ Mounted
    /\ open[f] = 0
    /\ \/ /\ FILEs < MaxFiles
          /\ Named(path) # {}
          /\ open' = [open EXCEPT ![f] = Min(Named(path))]
          /\ offset' = [offset EXCEPT ![f] = 0]
          /\ at' = [at EXCEPT ![f] = 0]
          /\ strayed' = strayed \ {f}
          /\ UNCHANGED <<lost, fate>>
       \/ /\ FILEs < MaxFiles
          /\ Named(path) = {}
          /\ lost' = lost + 1
          /\ UNCHANGED <<open, offset, at, strayed, fate>>
       \/ /\ FILEs >= MaxFiles
          /\ fate' = "undefined"
          /\ UNCHANGED <<open, offset, at, strayed, lost>>
    /\ UNCHANGED <<tree, dirs, found>>

archfs_close(f) ==
    /\ Mounted
    /\ open[f] # 0
    /\ open' = [open EXCEPT ![f] = 0]
    /\ offset' = [offset EXCEPT ![f] = 0]
    /\ at' = [at EXCEPT ![f] = 0]
    /\ strayed' = strayed \ {f}
    /\ UNCHANGED <<tree, dirs, found, lost, fate>>

Smaller(x, y) == IF x < y THEN x ELSE y

(***************************************************************************)
(* Out of memory: the length that is cut off at the end of the file is     *)
(* unsigned, and an offset before the file or behind its end makes memcpy  *)
(* leave the buffer.  Out of the archive: the next bytes of the handle.    *)
(***************************************************************************)
archfs_read(f, len) ==
    /\ Mounted
    /\ open[f] # 0
    /\ IF memfile(f)
       THEN IF offset[f] \in 0 .. Size(f)
            THEN /\ offset' = [offset EXCEPT ![f] = @ + Smaller(len, Size(f) - @)]
                 /\ UNCHANGED <<at, fate>>
            ELSE /\ fate' = "undefined"
                 /\ UNCHANGED <<offset, at>>
       ELSE LET n == IF at[f] \in 0 .. Size(f) THEN Smaller(len, Size(f) - at[f]) ELSE 0
            IN  /\ offset[f] <= Bound
                /\ offset' = [offset EXCEPT ![f] = @ + n]
                /\ at' = [at EXCEPT ![f] = @ + n]
                /\ UNCHANGED fate
    /\ UNCHANGED <<tree, dirs, found, open, strayed, lost>>

\* filest stays as the constructor left it for a file that is not in memory.
Base(f, whence) ==
    CASE whence = "SET" -> 0
      [] whence = "CUR" -> offset[f]
      [] whence = "END" -> IF memfile(f) THEN Size(f) ELSE 0

\* Mutant: every distance is taken from where the handle is.
Sought_relative(f, whence, o) == at[f] + o

\* What archive_seek_data makes of an offset and a whence.
Sought(f, whence, o) ==
    CASE whence = "SET" -> o
      [] whence = "CUR" -> at[f] + o
      [] whence = "END" -> Size(f) + o

\* It is given the target as a distance from the whence, and its failure (the
\* format cannot seek, or not there) is not looked at.
archive_seek_data(f, whence, o) ==
    \E p \in {Sought(f, whence, o), at[f]} :
        /\ p # at[f] => p \in 0 .. Size(f)
        /\ at' = [at EXCEPT ![f] = p]
        /\ strayed' = IF whence = "SET" /\ p = Sought(f, whence, o)
                      THEN strayed \ {f} ELSE strayed \cup {f}

archfs_seek(f, m) ==
    /\ Mounted
    /\ open[f] # 0
    /\ LET o == Base(f, m.whence) + m.by
       IN  /\ o \in -Bound .. Bound
           /\ offset' = [offset EXCEPT ![f] = o]
           /\ IF memfile(f) THEN UNCHANGED <<at, strayed>>
              ELSE archive_seek_data(f, m.whence, o)
    /\ UNCHANGED <<tree, dirs, found, open, lost, fate>>

Next ==
    \/ connect
    \/ \E d \in Dirs :
          \/ \E path \in Folders : archfs_diropen(d, path)
          \/ archfs_dirnext(d)
          \/ archfs_dirclose(d)
    \/ \E path \in Asked : archfs_stat(path)
    \/ \E f \in Files :
          \/ \E path \in Asked : archfs_open(f, path)
          \/ archfs_close(f)
          \/ \E len \in Lengths : archfs_read(f, len)
          \/ \E m \in Moves : archfs_seek(f, m)

Spec == Init /\ [][Next]_vars

-----------------------------------------------------------------------------
\* Entries in a directory of the root with the directory's name: these connect
\* moves to the root.
Doubles == {archive[i].path : i \in {j \in Readable :
                Len(archive[j].path) = 2 /\ archive[j].path[1] = archive[j].path[2]}}

EntriesIn(path) == {i \in Readable : Front(archive[i].path) = path}

InOrder(s) == \A j, k \in DOMAIN s : j < k => s[j] < s[k]

\* A DIR that has come to its end has returned every entry of its directory,
\* once and in the order of the archive, and no other; with several DIRs open
\* and whatever else is called.  Of a damaged archive these are the entries
\* before the damage, and none behind it.  Except where connect has moved an
\* entry.
ListingExact ==
    \A d \in ended :
        \/ Range(listed[d]) = EntriesIn(folder[d]) /\ InOrder(listed[d])
        \/ Doubles # {} /\ folder[d] = <<>>
        \/ \E p \in Doubles : folder[d] = Front(p)

\* stat describes the first entry with the pathname it is asked about, and
\* finds none only when there is none before the end or the damage of the
\* archive; except where connect has moved one.
StatExact ==
    found.path # <<>> =>
        LET same == {i \in Readable : archive[i].path = found.path}
        IN  \/ found.entry = (IF same = {} THEN NotFound ELSE Min(same))
            \/ \E p \in Doubles : found.path \in {p, <<Last(p)>>}

\* The handle of a file that is read from the archive stays at the file's
\* offset through all reads and all seeks with SEEK_SET that the archive
\* performs, and comes back to it with the next of them after any other.
HandleFollows ==
    \A f \in Files \ strayed :
        open[f] # 0 /\ ~memfile(f) => at[f] = offset[f]
=============================================================================
