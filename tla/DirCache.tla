------------------------------ MODULE DirCache ------------------------------
(***************************************************************************)
(* Directory listings of a mount.  CFTPFS and CSMB2FS keep one list of     *)
(* entries per mount (cachedirlist), CISO9660FS one per image              *)
(* (currdirlist): every diropen clears it and fills it again, and a DIR    *)
(* the application iterates is no more than an index into it.  stat of FTP *)
(* and SMB answers from the same list before it asks the server.           *)
(*                                                                         *)
(* diropen fills the list in several steps under session_mutex; dirnext    *)
(* and dirclose are one step each.  stat scans the list under the mutex in *)
(* FTP, outside it in SMB.                                                 *)
(*                                                                         *)
(* CNFSFS and CSSHFS leave the list to a handle that each DIR has of its   *)
(* own; their diropen, dirnext and stat are one step each.                 *)
(***************************************************************************)
EXTENDS Integers, Sequences, SequencesExt

CONSTANTS
    Kinds,       \* which file systems: of "ftp", "smb", "iso", "nfs" and "ssh"
    Dirs,        \* DIR structures of the application
    Callers,     \* threads that call stat
    Nobody,      \* the owner of a free mutex
    Opens,       \* paths diropen is called with, sequences of characters
    Asks,        \* paths stat is called with
    Lines,       \* for each directory, what the server lists
    MaxVersion,  \* how often a file changes on the server
    Truncates    \* the server may break a listing off half way

\* The directory a path names, with the slash that ends it.
Folder(p) == IF Last(p) = "/" THEN p ELSE Append(p, "/")

\* What a server says of one name of a directory.
Line == [name : Seq(STRING), kind : {"file", "dots", "link", "other"}]

ASSUME DirCacheAssumption ==
    /\ Kinds \subseteq {"ftp", "smb", "iso", "nfs", "ssh"}
    /\ Nobody \notin Dirs \cup Callers
    /\ Dirs \cap Callers = {}
    /\ MaxVersion \in Nat
    /\ Truncates \in BOOLEAN
    /\ \A p \in Opens : p # <<>> /\ Folder(p) \in DOMAIN Lines
    /\ \A dir \in DOMAIN Lines : dir \in Seq(STRING) \ {<<>>} /\ Lines[dir] \in Seq(Line)

VARIABLES
    kind,       \* which class the mount is an object of
    version,    \* of every file on the server
    cache,      \* cachedirlist, currdirlist
    feed,       \* entries the diropen in progress has still to read
    mutex,      \* session_mutex: the DIR or the caller inside
    opened,     \* DIRs whose diropen succeeded and that are not closed
    idx,        \* diridx, or how far a handle has been read
    pc,         \* where a stat is: "idle", "scan" or "ask"
    asked,      \* the path it is about
    answer,     \* the file its last answer described
    told,       \* the version of each file stat last reported
    want,       \* what the DIR's own diropen read; what its handle lists
    seen,       \* what dirnext returned since diropen or since the last end
    ended,      \* DIRs whose dirnext has reported the end
    disturbed   \* DIRs open while another diropen cleared the list, or whose
                \* handle has reported an error

listing == <<cache, feed, opened, idx>>
history == <<want, seen, ended, disturbed>>
stats   == <<pc, asked, answer, told>>
vars    == <<kind, version, mutex, listing, history, stats>>

-----------------------------------------------------------------------------
Nothing == <<>>

(***************************************************************************)
(* What a loop keeps that passes over all but the elements at the          *)
(* positions P: after each number of rounds, and in the end.               *)
(***************************************************************************)
Taken(s, P) ==
    LET taken[n \in Nat] ==
            IF n = 0 THEN <<>>
            ELSE IF n \in P THEN Append(taken[n - 1], s[n]) ELSE taken[n - 1]
    IN  taken

Picked(s, P) == Taken(s, P)[Len(s)]

FilesOf(dir) ==
    {dir \o Lines[dir][i].name :
        i \in {j \in DOMAIN Lines[dir] : Lines[dir][j].kind = "file"}}

Files == UNION {FilesOf(dir) : dir \in DOMAIN Lines}

\* Mutant: the name alone.
fullpathname_name_only(p, name) == <<"/">> \o name

\* fullpathname = internal_path + entry.name, nothing in between.
fullpathname(p, name) == p \o name

(***************************************************************************)
(* What one line of a listing becomes.  A line that ftpparse does not      *)
(* understand ("other") becomes an entry without a name, a link none; the  *)
(* directory itself and the one above ("dots") are entries like others.    *)
(***************************************************************************)
Entry(p, line) ==
    CASE line.kind = "file" ->
            [path |-> fullpathname(p, line.name), file |-> Folder(p) \o line.name,
             version |-> version[Folder(p) \o line.name]]
      [] line.kind = "dots" ->
            [path |-> fullpathname(p, line.name), file |-> Nothing, version |-> 0]
      [] line.kind = "other" ->
            [path |-> fullpathname(p, <<>>), file |-> Nothing, version |-> 0]

IsDots(entry) == entry.path # <<>> /\ Last(entry.path) = "."

Visible(entries) == {i \in DOMAIN entries : ~IsDots(entries[i])}

UFTP_ParseDirLine2(lines) == Picked(lines, {i \in DOMAIN lines : lines[i].kind # "link"})

\* The others are handed structures and not lines of text.
Entries(p) ==
    LET listed == Lines[Folder(p)]
        lines  == IF kind = "ftp" THEN UFTP_ParseDirLine2(listed)
                  ELSE Picked(listed, {i \in DOMAIN listed : listed[i].kind \in {"file", "dots"}})
    IN  [i \in DOMAIN lines |-> Entry(p, lines[i])]

-----------------------------------------------------------------------------
Init ==
    /\ kind \in Kinds
    /\ version = [f \in Files |-> 0]
    /\ cache = <<>>
    /\ feed = <<>>
    /\ mutex = Nobody
    /\ opened = {}
    /\ idx = [d \in Dirs |-> 0]
    /\ pc = [c \in Callers |-> "idle"]
    /\ asked = [c \in Callers |-> Nothing]
    /\ answer = [c \in Callers |-> Nothing]
    /\ told = [f \in Files |-> -1]
    /\ want = [d \in Dirs |-> <<>>]
    /\ seen = [d \in Dirs |-> <<>>]
    /\ ended = {}
    /\ disturbed = {}

\* A file that stat is asked about changes on the server.
Change(f) ==
    /\ f \in Asks
    /\ version[f] < MaxVersion
    /\ version' = [version EXCEPT ![f] = @ + 1]
    /\ UNCHANGED <<mutex, listing, history, stats>>

\* Mutant: the list is not cleared, and the directory added to it.
StartListing_keeps_list(d, p) ==
    /\ mutex = Nobody
    /\ d \notin opened
    /\ mutex' = d
    /\ feed' = Entries(p)
    /\ want' = [want EXCEPT ![d] = Entries(p)]
    /\ seen' = [seen EXCEPT ![d] = <<>>]
    /\ ended' = ended \ {d}
    /\ disturbed' = (disturbed \cup opened) \ {d}
    /\ UNCHANGED <<version, cache, opened, stats>>

(***************************************************************************)
(* diropen.  The list is cleared before the server is asked; FTP resets    *)
(* the index there too, the others when they are done.                     *)
(***************************************************************************)
StartListing(d, p) ==
    /\ mutex = Nobody
    /\ d \notin opened
    /\ mutex' = d
    /\ cache' = <<>>
    /\ feed' = Entries(p)
    /\ want' = [want EXCEPT ![d] = Entries(p)]
    /\ seen' = [seen EXCEPT ![d] = <<>>]
    /\ ended' = ended \ {d}
    /\ disturbed' = (disturbed \cup opened) \ {d}
    /\ UNCHANGED <<version, opened, stats>>

ftpfs_diropen(d, p) ==
    /\ kind = "ftp"
    /\ StartListing(d, p)
    /\ idx' = [idx EXCEPT ![d] = 0]

smb2fs_diropen(d, p) ==
    /\ kind = "smb"
    /\ StartListing(d, p)
    /\ UNCHANGED idx

iso9660fs_diropen(d, p) ==
    /\ kind = "iso"
    /\ StartListing(d, p)
    /\ UNCHANGED idx

\* cachedirlist.push_back
ReadEntry(d) ==
    /\ mutex = d
    /\ feed # <<>>
    /\ cache' = Append(cache, Head(feed))
    /\ feed' = Tail(feed)
    /\ UNCHANGED <<version, mutex, opened, idx, history, stats>>

\* diropen returns dirState, with what it has read so far.
Opened(d) ==
    /\ mutex' = Nobody
    /\ feed' = <<>>
    /\ opened' = opened \cup {d}
    /\ idx' = IF kind = "ftp" THEN idx ELSE [idx EXCEPT ![d] = 0]
    /\ want' = [want EXCEPT ![d] = cache]
    /\ UNCHANGED <<version, cache, seen, ended, disturbed, stats>>

DirOpened(d) ==
    /\ mutex = d
    /\ feed = <<>>
    /\ Opened(d)

\* UFTP_DirReadline takes a second without data for the end of the listing.
UFTP_DirReadline_times_out(d) ==
    /\ Truncates
    /\ kind = "ftp"
    /\ mutex = d
    /\ feed # <<>>
    /\ Opened(d)

\* GetPathDir's result is not looked at: what cannot be listed is empty.
GetPathDir_fails(d) ==
    /\ kind = "iso"
    /\ mutex = d
    /\ cache = <<>>
    /\ feed # <<>>
    /\ Opened(d)

\* diropen returns NULL before it has read anything.
DirOpenFails(d) ==
    /\ kind \in {"ftp", "smb"}
    /\ mutex = d
    /\ cache = <<>>
    /\ mutex' = Nobody
    /\ feed' = <<>>
    /\ want' = [want EXCEPT ![d] = <<>>]
    /\ UNCHANGED <<version, cache, opened, idx, seen, ended, disturbed, stats>>

-----------------------------------------------------------------------------
\* Mutant: the index steps over the entry that comes next.
NextEntry_skips(d) ==
    /\ idx[d] < Len(cache)
    /\ seen' = [seen EXCEPT ![d] = Append(@, cache[idx[d] + 1])]
    /\ idx' = [idx EXCEPT ![d] = Min({@ + 2, Len(cache)})]
    /\ UNCHANGED <<version, mutex, cache, feed, opened, want, ended, disturbed, stats>>

\* dirnext returns the entry at the index and steps on.
NextEntry(d) ==
    /\ idx[d] < Len(cache)
    /\ seen' = [seen EXCEPT ![d] = Append(@, cache[idx[d] + 1])]
    /\ idx' = [idx EXCEPT ![d] = @ + 1]
    /\ UNCHANGED <<version, mutex, cache, feed, opened, want, ended, disturbed, stats>>

AtEnd(d) ==
    /\ idx[d] >= Len(cache)
    /\ ended' = ended \cup {d}
    /\ UNCHANGED <<version, mutex, cache, feed, opened, want, disturbed, stats>>

\* Mutant: the index goes back to the start at the end.
ftpfs_dirnext_rewinds(d) ==
    /\ kind = "ftp"
    /\ mutex = Nobody
    /\ d \in opened
    /\ \/ NextEntry(d)
       \/ /\ AtEnd(d)
          /\ idx' = [idx EXCEPT ![d] = 0]
          /\ seen' = [seen EXCEPT ![d] = <<>>]

ftpfs_dirnext(d) ==
    /\ kind = "ftp"
    /\ mutex = Nobody
    /\ d \in opened
    /\ \/ NextEntry(d)
       \/ AtEnd(d) /\ UNCHANGED <<idx, seen>>

\* At the end the index goes back to the start.
smb2fs_dirnext(d) ==
    /\ kind = "smb"
    /\ mutex = Nobody
    /\ d \in opened
    /\ \/ NextEntry(d)
       \/ /\ AtEnd(d)
          /\ idx' = [idx EXCEPT ![d] = 0]
          /\ seen' = [seen EXCEPT ![d] = <<>>]

iso9660fs_dirnext(d) ==
    /\ kind = "iso"
    /\ mutex = Nobody
    /\ d \in opened
    /\ \/ NextEntry(d)
       \/ AtEnd(d) /\ UNCHANGED <<idx, seen>>

(***************************************************************************)
(* A DIR with a handle.  libnfs reads the directory when it is opened,     *)
(* libssh2 with each readdir; either way its content is the handle's own.  *)
(* dirnext passes over "." and "..".                                       *)
(***************************************************************************)
OpenHandle(d, p) ==
    /\ d \notin opened
    /\ opened' = opened \cup {d}
    /\ idx' = [idx EXCEPT ![d] = 0]
    /\ want' = [want EXCEPT ![d] = Entries(p)]
    /\ seen' = [seen EXCEPT ![d] = <<>>]
    /\ UNCHANGED <<version, mutex, cache, feed, ended, disturbed, stats>>

nfsfs_diropen(d, p) == kind = "nfs" /\ mutex = Nobody /\ OpenHandle(d, p)
sshfs_diropen(d, p) == kind = "ssh" /\ mutex = Nobody /\ OpenHandle(d, p)

Ahead(d) == {i \in Visible(want[d]) : i > idx[d]}

\* Mutant: what follows the directory itself is passed over with it.
ReadHandle_skips_pairs(d) ==
    /\ Ahead(d) # {}
    /\ idx' = [idx EXCEPT ![d] = Max(Ahead(d))]
    /\ seen' = [seen EXCEPT ![d] = Append(@, want[d][Max(Ahead(d))])]
    /\ UNCHANGED ended

ReadHandle(d) ==
    /\ Ahead(d) # {}
    /\ idx' = [idx EXCEPT ![d] = Min(Ahead(d))]
    /\ seen' = [seen EXCEPT ![d] = Append(@, want[d][Min(Ahead(d))])]
    /\ UNCHANGED ended

HandleAtEnd(d) ==
    /\ Ahead(d) = {}
    /\ idx' = [idx EXCEPT ![d] = Len(want[d])]
    /\ ended' = ended \cup {d}
    /\ UNCHANGED seen

\* Without the mutex, as are dirreset and dirclose.
nfsfs_dirnext(d) ==
    /\ kind = "nfs"
    /\ d \in opened
    /\ ReadHandle(d) \/ HandleAtEnd(d)
    /\ UNCHANGED <<version, mutex, cache, feed, opened, want, disturbed, stats>>

\* An error ends the application's loop as the end of the directory does.
sshfs_dirnext(d) ==
    /\ kind = "ssh"
    /\ mutex = Nobody
    /\ d \in opened
    /\ \/ (ReadHandle(d) \/ HandleAtEnd(d)) /\ UNCHANGED disturbed
       \/ /\ Truncates
          /\ ended' = ended \cup {d}
          /\ disturbed' = disturbed \cup {d}
          /\ UNCHANGED <<idx, seen>>
    /\ UNCHANGED <<version, mutex, cache, feed, opened, want, stats>>

\* Mutant: what has been seen is forgotten, the handle stays where it is.
nfsfs_dirreset_does_nothing(d) ==
    /\ kind = "nfs"
    /\ d \in opened
    /\ seen' = [seen EXCEPT ![d] = <<>>]
    /\ ended' = ended \ {d}
    /\ UNCHANGED <<version, mutex, cache, feed, opened, idx, want, disturbed, stats>>

\* nfs_rewinddir; the other classes answer ENOSYS.
nfsfs_dirreset(d) ==
    /\ kind = "nfs"
    /\ d \in opened
    /\ idx' = [idx EXCEPT ![d] = 0]
    /\ seen' = [seen EXCEPT ![d] = <<>>]
    /\ ended' = ended \ {d}
    /\ UNCHANGED <<version, mutex, cache, feed, opened, want, disturbed, stats>>

\* dirclose; only FTP touches the index.
dirclose(d) ==
    /\ mutex = Nobody
    /\ d \in opened
    /\ opened' = opened \ {d}
    /\ idx' = IF kind = "ftp" THEN [idx EXCEPT ![d] = 0] ELSE idx
    /\ want' = [want EXCEPT ![d] = <<>>]
    /\ seen' = [seen EXCEPT ![d] = <<>>]
    /\ ended' = ended \ {d}
    /\ disturbed' = disturbed \ {d}
    /\ UNCHANGED <<version, mutex, cache, feed, stats>>

-----------------------------------------------------------------------------
(***************************************************************************)
(* stat.  The first entry with the path answers, whatever directory it     *)
(* came from; without one the server is asked.                             *)
(***************************************************************************)
Hits(p) == {i \in DOMAIN cache : cache[i].path = p}

Answered(c, file, v) ==
    /\ pc' = [pc EXCEPT ![c] = "idle"]
    /\ asked' = [asked EXCEPT ![c] = Nothing]
    /\ answer' = [answer EXCEPT ![c] = [path |-> asked[c], file |-> file]]
    /\ told' = IF file \in Files THEN [told EXCEPT ![file] = v] ELSE told

AnswerFromCache(c) ==
    LET e == cache[Min(Hits(asked[c]))] IN Answered(c, e.file, e.version)

AnswerFromServer(c) ==
    IF asked[c] \in Files
    THEN Answered(c, asked[c], version[asked[c]])
    ELSE Answered(c, Nothing, 0)

StartStat(c, p) ==
    /\ pc[c] = "idle"
    /\ pc' = [pc EXCEPT ![c] = "scan"]
    /\ asked' = [asked EXCEPT ![c] = p]
    /\ answer' = [answer EXCEPT ![c] = Nothing]
    /\ UNCHANGED <<version, listing, history, told>>

\* Mutant: the list is scanned without the mutex.
ftpfs_stat_without_mutex(c) ==
    /\ kind = "ftp"
    /\ \/ \E p \in Asks : StartStat(c, p)
       \/ /\ pc[c] = "scan"
          /\ IF Hits(asked[c]) # {} THEN AnswerFromCache(c)
                                    ELSE AnswerFromServer(c)
          /\ UNCHANGED <<version, listing, history>>
    /\ UNCHANGED mutex

ftpfs_stat(c) ==
    /\ kind = "ftp"
    /\ \/ /\ mutex = Nobody
          /\ mutex' = c
          /\ \E p \in Asks : StartStat(c, p)
       \/ /\ pc[c] = "scan"
          /\ IF Hits(asked[c]) # {} THEN AnswerFromCache(c)
                                    ELSE AnswerFromServer(c)
          /\ mutex' = Nobody
          /\ UNCHANGED <<version, listing, history>>

\* Without the mutex: while a diropen changes the list, the scan may miss an
\* entry (or end the process, which is not followed).
smb2fs_stat(c) ==
    /\ kind = "smb"
    /\ \/ (\E p \in Asks : StartStat(c, p)) /\ UNCHANGED mutex
       \/ /\ pc[c] = "scan"
          /\ \/ Hits(asked[c]) # {} /\ AnswerFromCache(c)
             \/ /\ Hits(asked[c]) = {} \/ mutex \in Dirs
                /\ pc' = [pc EXCEPT ![c] = "ask"]
                /\ UNCHANGED <<asked, answer, told>>
          /\ UNCHANGED <<version, mutex, listing, history>>
       \/ /\ pc[c] = "ask"
          /\ mutex = Nobody
          /\ AnswerFromServer(c)
          /\ UNCHANGED <<version, mutex, listing, history>>

-----------------------------------------------------------------------------
\* nfs and ssh ask the server, whoever else reads which directory.
AskServer(c) ==
    /\ kind \in {"nfs", "ssh"}
    /\ mutex = Nobody
    /\ \/ \E p \in Asks : StartStat(c, p)
       \/ /\ pc[c] = "scan"
          /\ AnswerFromServer(c)
          /\ UNCHANGED <<version, listing, history>>
    /\ UNCHANGED mutex

-----------------------------------------------------------------------------
DirOpen(d, p) ==
    \/ ftpfs_diropen(d, p)
    \/ smb2fs_diropen(d, p)
    \/ iso9660fs_diropen(d, p)
    \/ nfsfs_diropen(d, p)
    \/ sshfs_diropen(d, p)

DirNext(d) ==
    \/ ftpfs_dirnext(d)
    \/ smb2fs_dirnext(d)
    \/ iso9660fs_dirnext(d)
    \/ nfsfs_dirnext(d)
    \/ sshfs_dirnext(d)

Listing(d) ==
    \/ ReadEntry(d)
    \/ DirOpened(d)
    \/ UFTP_DirReadline_times_out(d)
    \/ GetPathDir_fails(d)
    \/ DirOpenFails(d)

Step ==
    \/ \E f \in Files : Change(f)
    \/ \E d \in Dirs, p \in Opens : DirOpen(d, p)
    \/ \E d \in Dirs : Listing(d) \/ DirNext(d) \/ nfsfs_dirreset(d) \/ dirclose(d)
    \/ \E c \in Callers : ftpfs_stat(c) \/ smb2fs_stat(c) \/ AskServer(c)

Next == Step /\ UNCHANGED kind

Spec == Init /\ [][Next]_vars

-----------------------------------------------------------------------------
\* What dirnext has to show of the entries.
Shown(entries) ==
    IF kind \in {"nfs", "ssh"} THEN Picked(entries, Visible(entries)) ELSE entries

\* A DIR whose list no other diropen has cleared has returned, since it was
\* opened, rewound or last came to its end, the entries its own diropen read,
\* each once and in order: exactly those before its index.  In nfs and ssh no
\* diropen can do that to another's list.
OrderlyListing ==
    \A d \in opened \ disturbed :
        /\ mutex \notin Dirs
        /\ seen[d] = Shown(SubSeq(want[d], 1, idx[d]))

\* When dirnext first reports the end of such a DIR, nothing of what diropen
\* read has been left out.
CompleteListing ==
    [][\A d \in Dirs : d \in ended' \ ended /\ d \notin disturbed'
                            => seen[d] = Shown(want[d])]_vars

\* stat describes the file it was asked about, or nothing at all, when
\* directories are opened with the slash at the end that fullpathname relies
\* on.
StatOfFile ==
    \A c \in Callers :
        answer[c] # Nothing => answer[c].file \in {answer[c].path, Nothing}

\* What stat says of a file never becomes older, although FTP answers now
\* from the list and now by the server, when directories are opened with the
\* slash at the end; SMB, which scans without the mutex, does not promise it.
StatNeverOlder ==
    [][kind # "smb" => \A f \in Files : told'[f] >= told[f]]_vars

\* While a diropen clears and grows the list, no dirnext takes from it, and
\* no stat walks through it but one of SMB.
NoUseWhileFilled ==
    [][\/ mutex \notin Dirs
       \/ /\ UNCHANGED seen
          /\ \A c \in Callers : pc[c] # "scan" \/ pc'[c] = "scan" \/ kind = "smb"]_vars

\* A loop over a directory is bounded, also when others keep opening directories
\* and exchange the list under it: since diropen, a rewinding or SMB's last end,
\* dirnext has returned no more entries than one directory of the mount has,
\* whichever lists it took them from.
LoopBounded ==
    \A d \in opened : \E p \in Opens : Len(seen[d]) <= Len(Entries(p))

\* Until another diropen of the mount takes its list away, a DIR of FTP or
\* ISO is the stream over its own directory that opendir promises; in nfs
\* always, in ssh until the server reports an error.
Streams == IF kind = "smb" THEN {} ELSE opened \ disturbed

Stream ==
    INSTANCE DirStream WITH
        open     <- Streams,
        list     <- [d \in Dirs |-> IF d \in Streams THEN Shown(want[d]) ELSE <<>>],
        returned <- [d \in Dirs |-> IF d \in Streams THEN seen[d] ELSE <<>>],
        ended    <- ended \cap Streams

ImplementsDirStream == Stream!Spec
=============================================================================
