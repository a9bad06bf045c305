# Verification of nxmp-devoptabs

nxmp-devoptabs makes remote servers and image files look like directories of
the C library (newlib's *devoptab* interface) for homebrew programs on the
Nintendo Switch.  This directory holds a model of it in TLA+: modules, the
instances TLC checks, and theorems with proofs that TLAPS checks.

    tlc -workers 2 -config FtpFiles_faults.cfg MCFtpFiles     model-check a run
    tlapm FtpFilesProofs.tla                                  check the proofs

`PROJECT.json` lists the runs, for each definition the lines of the source it
models, the hazards of the code with the properties that watch them, the mutants
that show that each property can fail, and the theorems.

## 1. Inventory

### Parts of the system

Each file system is a C++ class with a constructor that takes an URL or a file
name, `connect`, `RegisterFilesystem` (or a constructor that does both), a
destructor, and static handlers that newlib calls through a `devoptab_t`.

| class, file | what it keeps | operations | library below |
|---|---|---|---|
| `CFTPFS` (`ftpfs.cpp`, `ugly-ftplib.cpp`) | per file: control and data socket, `offset`, `st`; per mount: `cachedirlist` | open read seek close, diropen dirnext dirclose, stat, connect | sockets; the FTP dialogue is the project's own |
| `CSMB2FS` (`smb2fs.cpp`) | per file: `offset`; per mount: the smb2 context, `cachedirlist` | the same, reads by position | libsmb2 |
| `CSSHFS` (`sshfs.cpp`) | per file: `offset` beside the position of the SFTP handle; per DIR: a handle; per mount: session, channel, socket; process: `s_lib_refcount` | the same | libssh2 |
| `CNFSFS` (`nfsfs.cpp`) | per file: `offset` beside the position of the nfs handle; per DIR: a handle; per mount: the nfs context | the same, dirreset | libnfs |
| `CM3U8FS` (`m3u8fs.cpp`) | `m3u8_list`, which every connect adds to; per file: `fileidx`, `filesize`, `offset`; per DIR: `listoffset`, `diridx` | open read seek close, directory of the list | – |
| `CCUEBINFS` (`cuebin.cpp`, `CDDAISO.cpp`, `CUEParser.cpp`) | track table, **one** `FILE` for all tracks (`binnaryfile`), per file: `offset` | tracks as WAV files | CUEParser (vendored, in the project's own directory and changed by it) |
| `CISO9660FS` (`iso9660fs.cpp`, `ISOReader.cpp`) | the image, `currdirlist`, per file: `offset` | files of an image | libiso9660 |
| `CARCHFS` (`libarchivefs.cpp`) | `totalfilelist`, per file: archive handle or memory, `offset` | files of an archive | libarchive |

Besides these: the demonstration program `source/main.cpp`, the vendored parser
`ftpparse.c`, and build recipes under `libs/`.

### How the parts interact

* **The device table.**  `devoptab_list` of newlib is shared by all objects.
  `register_fs` enters an object under its name; newlib finds it there for
  every call; `unregister_fs` removes *the name*.  Some classes look for the
  name (`FindDevice`) before they enter it, `CFTPFS`, `CM3U8FS` and `CARCHFS` do
  not.
* **`session_mutex`.**  One per object.  Most handlers hold it from the first
  statement to the last.  The interesting ones do not: seeks compute (and in
  sshfs, nfsfs and m3u8fs store) the offset before they take it; SMB's stat
  reads the cached list outside it; connect of a playlist, open and close of CUE
  tracks, the NFS directory and most destructors do without.
* **Lists of a mount.**  `cachedirlist`, `currdirlist` and `m3u8_list` belong to
  the mount.  A DIR is an index into them; stat of FTP, SMB and M3U8 answers from them.
* **`binnaryfile`.**  All open tracks of an image read through one `FILE`, which
  each open and each close replaces.
* **`s_lib_refcount`.**  All `CSSHFS` objects share libssh2's initialisation.
* **Servers.**  FTP is a dialogue of commands and replies in which a reply that
  is late is taken for the answer to a later command.  Servers close idle control
  connections; the code keeps the number of a closed one and goes on using it.

Threads: the application makes and destroys objects in one thread, as
`source/main.cpp` does; a player reads files and lists directories from others.

### What is hard, and what would make each part correct

| part | hard behaviour | correct when |
|---|---|---|
| FTP files | replies late, missing, negative; a control connection the server has closed; transfers that break; descriptor numbers handed out again; a read that blocks with the mutex held; `off_t` cut down to `int` | the data connection stands at the file's offset; sockets belong to the files that are open; a read touches no other file's socket; a blocked read lets go at last |
| listings | one list under several DIRs; a listing that stops half way; stat answering now from the list and now from the server; NFS DIRs without the mutex | a DIR returns what its diropen read, once, in order and to the end; stat is about the file asked for and never goes back in time; a loop over a directory is bounded |
| read and seek | two threads on one descriptor; offset and handle changed one after the other | offset and handle agree between calls; the file is a POSIX file |
| SFTP mounts | connect that fails in any of its steps, is repeated, returns 0 without a connection; destructor against calls | libssh2 is counted right; no call loses its channel; no dead device; bounded leaks; a destructor ends |
| playlists | connect repeated over a list that files and directories have indexes into; a file in memory that no zero byte ends | one entry for each name, no line lost; what is open keeps its entry |
| other mounts | two objects of one name, repeated connects, destructor against calls | what is registered stays reachable; nothing is freed twice; no dead device |
| CUE sheets | stored and unstored gaps, tracks with frames of different length, several files | each track's place on the disc and in the file |
| tracks and ISO files | one `FILE` for all tracks, replaced under reads, or `NULL`; block arithmetic | bytes come from the place the offset says; reads end the process only where that is explained |
| archives | damaged archives; names and parents taken apart and compared; unsigned lengths; a seek with the wrong whence | directories list what the archive has; the handle follows the offset |

The full list, with the line where each bites, is `hazards` in `PROJECT.json`.

## 2. Modules

| module | models | abstract specification |
|---|---|---|
| `FtpFiles` (`MCFtpFiles`, `FtpFilesProofs`) | open files of an FTP mount and their dialogues | – |
| `DirCache` (`MCDirCache`, `DirCacheProofs`) | directories and stat of FTP, SMB, ISO, NFS, SFTP | `DirStream` |
| `SeekRead` (`MCSeekRead`, `SeekReadProofs`) | read and seek of SFTP, NFS, M3U8, SMB files by several threads | `PosixFile` |
| `SshSessions` (`MCSshSessions`, `SshSessionsProofs`) | life of SFTP mounts, libssh2's count | – |
| `Mounts` (`MCMounts`, `MountsProofs`) | life of the seven other classes, the device table | – |
| `CueTracks` (`MCCueTracks`, `ImageProofs`) | CUE sheets to tracks | – |
| `ImageFiles` (`MCImageFiles`, `ImageProofs`) | reads of CUE tracks and ISO files | – |
| `Archive` (`MCArchive`, `ArchiveProofs`) | listing, stat, open, read, seek of archives | – |
| `M3u8List` (`MCM3u8List`, `M3u8ListProofs`) | the playlist of an M3U8 mount, its files and directories | – |

`DirCache` and `SeekRead` cover several classes at a time: a variable `kind`,
chosen in the initial state, says which, and each class has actions of its own
where its code differs.  `Mounts` composes any mixture of classes over one
device table.  Every action has the name of the function it models, or says in
a comment which part of one it is.  Operators whose comment starts with
*Mutant* are used by no behaviour: each is a plausible bug, named in
`PROJECT.json` beside the property that finds it.

### FtpFiles

*State.*  Per file: `ctl` and `data` (the socket numbers in `connection`),
`offset`, `size` (`st.st_size`), `pend` (the first reply on the control
connection that has not been read).  `faults` is what the network may do (one of
`FaultSets`, chosen in the initial state).  The process's descriptor table `sock`
(what each number is, whose it is, and for a transfer the next byte `at`),
`mutex`, and three observers: `handle` (files the application holds), `refused`
(files whose last reopening found no data connection) and `fate`.

*Actions.*  `ftpfs_open`, `ftpfs_seek` and `ftpfs_close` are one action each,
since they hold `session_mutex` throughout.  `ftpfs_read` is two, `ftpfs_read` up to `read(2)`
and `ReadReturns`, because the server acts in between.  The server's are
`ServerEnd`, `Reset` and `ServerDrop`.

*The dialogue* is a set of outcomes: `UFTP_SendCommand(p, good, can)` gives, for
the reply `p` that is still unread, every code the command can be taken to have
been answered with, what stays unread, and whether the server did what it was told.
`OpenFileOutcomes` threads it through EPSV, TYPE, REST and RETR.  `ftp_net_read` is
one read of the control connection: the unread reply and the new one, nothing when both are
late, or nothing, at once and from then on, when the server has closed the connection
(`pend` is `Gone`); no read or seek opens it again.  When no reply
to EPSV comes, `parse_epsv` indexes past the end of an empty string: the
`fate` is then "aborted" and nothing more is said of the process.  `fate` is "stole"
once a read or a close has touched another file's socket.

*Data left out.*  Bytes are positions.  PASV is taken to be like EPSV.  A number
of bytes below `MAX_READBUF` that `read(2)` returns is any from 1 on.

### DirCache and DirStream

*State.*  `cache` is `cachedirlist` (`currdirlist` of ISO), `feed` what the
diropen in progress has still to read, `idx` the `diridx` of each DIR, `mutex`; `version`
changes when a file changes on the server; `want`, `seen`, `ended`, `disturbed`,
`answer` and `told` remember what the properties speak of.

*Actions.*  A diropen is `StartListing` in one of three variants (FTP resets the
index before it asks the server, the others after), a `ReadEntry` per entry, and
an end: `DirOpened`, `DirOpenFails`, `UFTP_DirReadline_times_out` (a pause of a
second ends an FTP listing), `GetPathDir_fails` (ISO looks at no result).
`dirnext` differs at the end: SMB rewinds, the others stay.  `ftpfs_stat`
holds the mutex, `smb2fs_stat` scans without it.  Paths are
short sequences of characters, since `fullpathname` concatenates them with
nothing in between and a property depends on that.

`DirStream` is opendir, readdir, rewinddir and closedir: each stream returns its own list,
in order, once, and nothing after its end until it is rewound.  A DIR implements it up to the moment another diropen clears
the list (`disturbed`); a DIR of SMB does not, since it starts a second round.

*Handles.*  A DIR of NFS or SFTP keeps its own list (`want`), which its diropen or
its readdirs read; `dirnext` passes over `.` and `..`.  `nfsfs_dirnext`,
`nfsfs_dirreset` and nothing else move the index of a DIR of NFS, with no regard to the mutex;
`sshfs_dirnext` may report an error, which the application takes for the end.
`AskServer` is their stat, which has no list to look at.

### SeekRead and PosixFile

*State.*  `offset`, `at` (the library handle's own position, where there is
one), `mutex`, and per thread `pc`, `target` (the sum a seek computes), `reg`
and `n` (the load and the count of `offset += rc`).

*Actions.*  A seek is `BeginSeek` (the switch, outside the mutex), `StoreOffset`
(ssh, nfs, m3u8: still outside), the class's own step under the mutex, and
`SeekReturns`.  A read is the library's read with the load, then the store.
Each access to `offset` that the mutex does not order is a step, which is every
interleaving an AArch64 build can show of single aligned words.  `CSMB2FS`
stores under the mutex and reads by position, so that both are one step; FTP,
ISO and CUE seek as it does and are used by one thread each in their own modules.

`PosixFile` is one position that read and lseek use and change in a single step.

### SshSessions

*State.*  `refcount` and `library` (libssh2), `devices`, and per object `taken`,
`session`, `sftp`, `socket`, `connected`, `registered`, `mutex`, and `step`: where its own
thread stands in connect, registration or destructor.  `lost` counts what a
repeated connect has overwritten.

*Actions.*  One per stage of connect with each of its returns, of
RegisterFilesystem, and of the destructor; `BeginCall`, `EnterCall`, `LeaveCall`
for the other threads.  `connect_pubkey` differs from `connect` only in the
authentication call, of which the model keeps the error.  A connect that returns
0 goes on to `register_fs`, or, for `CheckConnection`, to nothing (`Succeeds`).

### Mounts

*State.*  `devices` is the table with its slots (a name may be in two of them),
`context` what the object holds (`nfs`, `smb2`, the play list, the reader),
`main` where the application's thread is and with which object.

*Actions.*  The constructor, CheckConnection and RegisterFilesystem each begin a
connect (`nfs_connect`, `smb2_connect`, `ftp_connect`, `m3u8_connect`,
`image_connect`: what they leave behind in every outcome), which goes on to
`Register` or not; the destructors differ in what they lock
(`smb2_destructor` all of it, `FreeContext` nothing) and in whether they look at
`fs_regisered`.

### CueTracks, ImageFiles, Archive

`CueTracks` reads a sheet line by line.  The sheet is not an input: each step of
the loop of `CUEParser::next_track` meets any line that may come next, and `says`
keeps, from the lines alone, where the tracks are, as the reference
for what the parser computes.  `ReturnTrack` is the arithmetic after the loop,
with the widths of `uint32_t` and `uint64_t`; `CCDDAISO` and `LastTrack` are the loop
of the constructor.

`ImageFiles` has a `stream` position for `binnaryfile` and cuts a read between
`fseek` and `fread`, where open and close of other tracks come in because they
do not take the mutex.  `openBinaryFile`, which both call, may leave `NULL` at any
time; the read that then uses it ends the process (`Crash`).  The reads of `CISO9660FS` are one step over the block
arithmetic; its open of a name that is not in the image ends the process as well.

`Archive` holds the archive as a sequence of entries and builds `totalfilelist`
as `connect` does.  An entry whose header is not `ARCHIVE_OK` ends the loop of `connect` and
that of `archfs_open` (`Readable` are those before it), and what was read stays mounted.
`archive_seek_data` gets the target and the whence, as in
the code, and moves the handle accordingly or refuses.  An open that finds no entry of
the name leaves its `FILE` behind (`lost`); at `MaxFiles` the next open uses `NULL`.

### M3u8List

*State.*  `m3u8_list` as in the code, each entry with its URLs; `tmpvector` and
`connect_pc` for the connect in progress; per file the index and size it keeps,
per DIR `listoffset` and `diridx`; `playlist` is the file on disk, `merged` every
line ever merged, for the properties.

*Actions.*  `connect` reads the file and finds its lines; since the memory has no
zero byte at its end, the last URL may have anything behind it.  `MergeLine` is one round
of the loop that follows, a step of its own because connect does not take
`session_mutex`; `Connected` returns to CheckConnection or RegisterFilesystem.
`m3u8fs_diropen` succeeds for every path; for one it does not find, the directory is whatever the
structure held before.  A playlist is edited between connects (`Edit`).

## 3. Runs

| run | instance | states | shows |
|---|---|---|---|
| `ftp_faults` | 2 files, 4 descriptors, a file of 2 bytes; no faults, broken transfers, or all faults | 2.4 million | streams, sockets and descriptor numbers stay together; what goes wrong has the fault that explains it |
| `ftp_large` | 1 file of 6 bytes, `int` from -2 to 1, all faults but late replies, `FairSpec` | 4 700 | the position through the wrap of REST; a read lets go of the mutex |
| `dir` | FTP, SMB, ISO, NFS or SFTP; 2 DIRs, 2 directories, 1 thread in stat, 1 change of a file | 207 000 | what a DIR returns, and what stat says |
| `seek` | SFTP, NFS, M3U8 or SMB, a file of 3 bytes read by 2; 2 threads with seeks of one sort, or 1 with any | 219 000 | offset and handle agree; a POSIX file where the code makes it one |
| `ssh_shared` | 2 objects of one name, 1 other thread, 2 connects each, `FairSpec` | 260 000 | libssh2's count, the channel, the device table, leaks; a destructor ends |
| `ssh_auth` | 2 objects, the password is refused | – | **violated**: registered and not connected |
| `cue_sheets` | up to 3 tracks of 2 modes in up to 2 files, times 0, 1, 2, 4 | 2.0 million | what of the arithmetic is right |
| `cue_offset` | the same, one file | – | **violated**: `file_offset` behind a gap |
| `mounts` | 3 objects of any of 7 classes, 2 of one name, 3 slots, 1 other thread, 3 connects | 6.5 million | the device table and the contexts |
| `image_files` | 2 open tracks or ISO files, header 2, block 3, image 9, at most 3 `FILE`s, any `fopen` may fail | 38 000 | where reads take their bytes from, and when they end the process |
| `archive` | 5 archives of up to 4 entries, one damaged, 2 DIRs, 1 file, memory below size 3, at most 2 `FILE`s | 125 000 | listing, stat and the handle |
| `playlist` | 2 playlists of 2 lines, 1 file, 2 DIRs, 2 connects | 58 000 | the list, and what is open over it |

### Properties

*FtpFiles.*  `StreamPosition`: the next byte of an open file's data connection is
that at its offset, up to a multiple of 2^32.  `SocketsHeld`: the live sockets
that belong to files are those the open files hold.  `FateExplained`: a
file's number names another's socket only after a refused reopening, which closes
the number and keeps it, and `parse_epsv` ends the process only where a reply may be late
or the control connection closed: no stale reply, no error and no broken transfer does.
`EndOnlyAtEnd`: where replies are in time and positive, a read inside the file
brings something unless its transfer broke or no descriptor was left; so no
reply of an earlier transfer stops a later one.  `MutexReleased`.

*DirCache.*  `OrderlyListing`, `CompleteListing` and `ImplementsDirStream` for DIRs whose
list has not been taken away; `LoopBounded` for all DIRs: a loop over a directory
returns no more than one directory holds; `StatOfFile` for
directories opened with their slash at the end; `StatNeverOlder` for all but SMB;
`NoUseWhileFilled`, with the stat of SMB as its only exception.

*SeekRead.*  `PositionsAgree` between the calls of any threads; `ImplementsPosixFile`.

*SshSessions.*  `LibraryCounted`, `CallKeepsChannel`, `NoDanglingDevice`, `LeaksBounded`,
`DestroyEnds`.

*Mounts.*  `NoDanglingDevice` (exactly which classes and names can leave a
dead object in the table), `StaysMounted`, `FreedOnce` (only NFS after a failed
connect), `CallKeepsContext`.

*CueTracks.*  `FirstGapRight` (positions are right up to the first gap),
`DiscMonotone`, `AudioTracksContiguous`.  *ImageFiles.*  `TracksApart`,
`CrashExplained` (a read ends the process only without the FILE that an open or close of
another track took away after it looked, or when it began in the header, where nobody
looks), `IsoInPlace` (exact, with the block that is repeated, and room
for the bytes that are copied).  *Archive.*  `ListingExact` and `StatExact` (of a damaged
archive: all of its first part and nothing else), `HandleFollows`.

*M3u8List.*  `NamesOnce`, `OpenFilesMatch` (fstat and stat of an open file agree,
whatever is merged), `DirectoriesOrderly`, `EveryLineListed` (each line as often as it was read).

`TypeOK` is checked where a theorem states it: in `FtpFiles`, `SeekRead` and `SshSessions`.

Several of these state precisely where the code departs from what one would
wish (`IsoInPlace`, `FreedOnce`, `NoDanglingDevice` of Mounts, `TracksApart`,
`NoUseWhileFilled`,
`FateExplained`, `CrashExplained`, `EveryLineListed`).  They say that the departure is as narrow as that.

### Why the bounds are enough

* *FTP.*  Two files are what a number that changes hands needs; with four
  descriptors it changes hands at every reopening.  Two bytes give a transfer
  that has begun, one that is at its end and one past it; sizes 1 and 3 are a
  listing that says too little and one that says too much.  `pend` is the one
  reply that matters: a read of the socket takes everything and keeps the first.
  `Half` = 2 puts the wrap of `int` inside a file of 6 bytes; in
  `ftp_faults` it is out of reach on purpose.
* *Directories.*  A DIR and one that disturbs it; a directory of two files and
  one whose lines include one that is not understood and a link.
* *Seeks.*  A race needs two threads; three bytes read by two give a full and a
  short read and the end.  `Uses` says who uses the file how: one thread with
  seeks of every kind and relative to everything, or both with absolute or with
  relative seeks.  A refused seek makes a file of NFS no POSIX file by the
  code's own doing; `PositionsAgree` speaks of it.
* *Playlists.*  A name that two lines have, in one playlist and over two, one
  with a slash, which can be listed and not opened, and a last line without an
  end; a second connect finds everything open that the first made possible.
* *Mounts.*  Sharing needs two objects; the third has a name of its own, to
  be harmed by them.  A connect and two more reach every pair of outcomes.
* *Sheets.*  The first gap, the track behind it, and the one after that.
  Word 64 is larger than any position in range, and makes every subtraction below 0 show.
* *Images.*  Lengths below, at and above a block; offsets in the header, in
  either track, at the end of the image and behind it.

`SYMMETRY` is used for files (`ftp_faults`, `image_files`), threads (`seek`), DIRs (`playlist`) and the two
namesakes (`mounts`); they occur in the specifications only as members of their set, and
no run with symmetry checks liveness.  `CHECK_DEADLOCK FALSE` stands where the
process may end (an abort, a crash, all objects destroyed, the sheet read) or
no descriptor may be left; in `dir`, `seek` and `playlist` TLC checks that there is always a step.

### Fairness

* `WF(ReadReturns)`: a read that has bytes, or the end of the connection, in
  front of it returns.  Nothing is assumed of one that has not.
* `WF(ServerDrop)`: a server does not keep open for ever a data connection on
  which nothing was asked.  FTP servers close idle connections; the code
  depends on it, since `read(2)` there has no time limit.
* `WF` of each step of a destructor that has begun, and of `LeaveCall`: a call
  that is inside leaves.  `<>[]` of no `EnterCall`: the application does not
  call the mount for ever.  Without it a destructor may wait for ever, since
  `session_mutex` is a `std::mutex`, which is not fair, and nothing stronger is assumed.

For the same reason nothing is claimed of when a DIR gets its turn while others keep the
mutex: `LoopBounded` says instead that a loop over a directory needs no more turns than
the directory has entries.

## 4. Proofs

Eight modules prove, for every value of the constants that the assumption in the
component's module allows (`FtpFilesAssumption` and so on; TLC evaluates them in every run):

| theorem | says |
|---|---|
| `FtpFilesProofs!TypeCorrect` | `Spec => []TypeOK` |
| `FtpFilesProofs!StreamInPosition` | `Spec => []StreamPosition` |
| `FtpFilesProofs!SocketsAreHeld` | `Spec => []SocketsHeld` |
| `FtpFilesProofs!FateIsExplained` | `Spec => []FateExplained` |
| `FtpFilesProofs!ShortReadsExplained` | `Spec => EndOnlyAtEnd` |
| `SeekReadProofs!TypeCorrect` | `Spec => []TypeOK` |
| `SeekReadProofs!OffsetIsPosition` | `Spec => []PositionsAgree` |
| `SeekReadProofs!FilesAsPosix` | `Spec => ImplementsPosixFile` |
| `DirCacheProofs!ListingsOrderly` | `Spec => []OrderlyListing` |
| `DirCacheProofs!ListingsComplete` | `Spec => CompleteListing` |
| `DirCacheProofs!NobodyReadsWhileFilled` | `Spec => NoUseWhileFilled` |
| `DirCacheProofs!DirsAreStreams` | `Spec => ImplementsDirStream` |
| `DirCacheProofs!LoopsAreBounded` | `Spec => []LoopBounded` |
| `DirCacheProofs!StatsOfFiles` | `Slashed` gives `Spec => []StatOfFile` |
| `DirCacheProofs!StatsNeverOlder` | `Slashed` gives `Spec => StatNeverOlder` |
| `SshSessionsProofs!TypeCorrect` | `Spec => []TypeOK` |
| `SshSessionsProofs!LibraryIsCounted` | `Spec => []LibraryCounted` |
| `SshSessionsProofs!CallsKeepChannel` | `Spec => []CallKeepsChannel` |
| `SshSessionsProofs!NoDeviceDangles` | `Spec => []NoDanglingDevice` |
| `SshSessionsProofs!LeaksAreBounded` | `Spec => []LeaksBounded` |
| `M3u8ListProofs!OneEntryForEachName` | `Spec => []NamesOnce` |
| `M3u8ListProofs!OpenFilesSurviveConnect` | `Spec => []OpenFilesMatch` |
| `M3u8ListProofs!DirectoriesSurviveConnect` | `Spec => []DirectoriesOrderly` |
| `M3u8ListProofs!NoLineIsLost` | `Spec => []EveryLineListed` |
| `ImageProofs!AudioRangesContiguous` | `Spec => []AudioTracksContiguous` |
| `ImageProofs!FirstGapsRight` | `WordFits` gives `Spec => []FirstGapRight` |
| `ImageProofs!DiscNeverBack` | times up to `h`, `(MaxTracks + 1) * h < Word` gives `Spec => DiscMonotone` |
| `ImageProofs!CrashesExplained` | `ImageSpec => []CrashExplained` |
| `ImageProofs!ReadsOfTracksApart` | `ImageSpec => TracksApart` |
| `ImageProofs!IsoReadsInPlace` | `ImageSpec => IsoInPlace` |
| `ArchiveProofs!ListingsExact` | `Spec => []ListingExact` |
| `ArchiveProofs!StatsExact` | `Spec => []StatExact` |
| `ArchiveProofs!HandlesFollow` | `Spec => []HandleFollows` |
| `MountsProofs!DevicesLead` | `Spec => []NoDanglingDevice` |
| `MountsProofs!ContextsFreedOnce` | `Spec => []FreedOnce` |
| `MountsProofs!CallsKeepContext` | `Spec => []CallKeepsContext` |
| `MountsProofs!MountedWhileRoom` | `Spec /\ []NeverFull => []StaysMounted` |
| `MountsProofs!TableHasRoom` | no more objects than slots gives `Spec => []NeverFull` |
| `MountsProofs!MountedWhileObjectsFit` | no more objects than slots gives `Spec => []StaysMounted` |

The conditions beyond those assumptions are what the code relies on.  `Slashed`: every
path given to opendir ends in "/" (`fullpathname` puts none between the directory
and the name).  `WordFits`: the times of a sheet are `uint32_t`, as they are
wherever the parser reads them, and a frame has no more than 2^32 bytes.  The bound on the disc: 99 tracks
of 100 minutes each come to a hundredth of 2^32 frames.  No more objects than slots: see *Mounts*.

*FtpFiles.*  `StreamPosition` speaks of the files that are open; the inductive
invariant says it of every file that has a transfer, together with the types
and with offsets not below -2^31.  That is needed because a file's transfer is
changed by others: a refused reopening leaves a number behind that may be
anybody's socket, and closing that number ends the other's transfer.  The
argument: a transfer begins only in `UFTP_OpenFile`, at `ToInt(offset)`
(`OpenFileOutcome`, from `SendInStep`: a dialogue that has got to RETR had
every reply in step, so that the server has seen the REST; `ToIntProperty`: the
argument of REST is the offset up to a multiple of 2^32); a read moves both
by the same number; a seek ends the transfer; nothing else starts or moves one.
So late replies, however many, can stop a transfer from being started but
never start one in the wrong place.

Sockets: `HInv` adds to the types that a free number is nobody's, that the
reader's file is open, that the fates have their faults, and `Connections`: every open file has
its control connection apart from its data connection, every owned socket is
held by its owner, and a file whose reopening was not refused has a data
connection of its own.  `Connections` is claimed only while no file has
touched another's socket; from then on the process is not followed, and the step that does it needs
`refused` to be non-empty, which is `Fates`.  The lemmas on the dialogue (`NoReplyIsLate`,
`AbortIsLate`) show that a missing reply needs a network
that is late, or a connection that the server may close.

Ends of files: in a network that is in time (`InTime`: it may reset transfers, no
more) `EInv` says that no reopening was refused and that every open file is `InStep`.  Nothing is
unread on a control connection whose transfer is gone or still runs, so that the next
dialogue is answered in step (`SentInTime`) and gives a transfer; the one way to none is a
REST with a negative number, which a file shorter than 2^31 does not get to.  A read that
returns nothing is then at the end of the file, or was reset.

*SeekRead.*  `PositionsAgree` is not inductive: in the middle of a read the
handle has moved and the offset has not.  `ReadAgrees` says what the read is
about to store, `Owned` that nobody else is inside the mutex meanwhile; a
seek that stores the offset in between makes the thread *wait*, and its own
step sets the handle to the offset again.  The refinement of `PosixFile` is proved for
the files it is true of (one thread on a file of SFTP or M3U8; SMB with any number, without
relative seeks) and needs two more facts: `Settled`, that outside of a step's
middle handle and offset are where the abstract position is, and `Sought`, that what a
thread has worked out as the target of its seek still is the target when it stores it or gets
the mutex.  From them each step is a `Read` or a `Seek` of `PosixFile` or a stutter
(`LoneStep` for one thread, `SmbStep` for SMB).

*DirCache.*  A diropen of FTP, SMB or ISO fills the list of the mount entry by entry, so
`OrderlyListing` is not inductive: `FillerAlone` says that whoever fills the list has
disturbed every open DIR and has returned nothing yet, and `OwnList` that the list is that of
every DIR that is not disturbed.  `ScanInside` (a stat of FTP scans inside the mutex) is what
`NoUseWhileFilled` needs.  For the refinement of `DirStream` the step of diropen that
clears the list closes every stream there is, so that later steps on a disturbed DIR
stutter.  `LoopBounded` rests on `Bounded`: whichever list is in the cache fits some
directory, and an index that returns an entry moves behind it.

A handle of NFS or SFTP passes over entries it does not show.  `OwnHandle` says that what
was returned are the visible ones among the first `idx`, in order, which is
`Taken(want, Visible(want))[idx]`.  `Taken` is a recursive function, and what it gives needs an
induction; this one is over the set of the numbers a fact holds of (`SetInduction`, from the
well-foundedness of `<`), which the provers can do where an induction over an operator is
beyond them.

What stat says: `Named` says that an entry in the list, or one that the diropen in progress
is about to append, tells of the file its path names or of none, which is where the slash is
needed; `Current`, that it says nothing newer than the file and nothing older than what a stat
has said before, and that no two entries disagree.  That needs `FeedInside`: what is read but not yet
appended exists only inside the mutex, where no stat of FTP or ISO answers.

*SshSessions.*  The invariant is the conjunction of the properties with what
they depend on: `SessionsHoldLibrary` (an object with a session, or on its way
to one, holds a reference, until the destructor has freed it),
`InsideOwnsMutex`, `DevicesKnown` (an object in the table is there under its name and
has its flag, or is about to), `Overwritten` and `OnlyConnect` (how often
each stage of connect was passed).  The count is a cardinality: taking and
returning a reference adds and removes one member of a finite set.

*M3u8List.*  What steps keep is where the entry of an open file is and how its
URLs begin (`FilesInPlace`); a merge only appends (`Kept`).  Since a name has one entry,
a search by name can find nothing else, which gives `OpenFilesMatch`.  A directory
likewise keeps the place of its entry (`InPlace`).  Lines: the URLs of an entry are those of its lines
in the order they were merged (`LinesOf`, with the increasing map that witnesses it); a merge
extends the map of one entry (`NoLineIsLost`) and leaves the others' as they are (`OtherLines`).

*CueTracks.*  What the parser keeps is compared with what the sheet says, up to the first
gap: `NoGap` (nothing has moved the disc away from the file), `Placed` (the parser has the
current track where the sheet has it, in frames and in bytes) and, for the first gap
itself, `Found`.  For contiguous tracks nothing is said of the size of a sheet:
positions wrap, and `Aligned` carries that bytes and frames of an audio track agree
modulo 2^32 (`StaysAligned`), which is all the 32-bit offsets of CCDDAISO can tell
apart; `Follow` says that the pending track begins where the last range ended.  For the
disc `Ahead` bounds what the gaps add up to by the number of tracks, so that nothing wraps.
`FileOffsetIsData` is false (finding 2), and `FirstGapRight` is how far it is true.

*ImageFiles.*  A read of a track is in two steps; `ReaderInPlace` says where the stream
stands between them, and that a FILE put in its place stands at 0, or is `NULL`: without
one that was put in its place there is a FILE, which is what `CrashExplained` needs.  The arithmetic
of an ISO read is a lemma each: the first block is the quotient of the offset
(`BlockOfQuotient`; a block earlier at a multiple, which is the repeated block), and the
blocks fetched hold what is copied (`RoomOfQuotient`, over `SameQuotient` and
`CeilingIs`).  They rest on one property of `\div` and `%`, `Division`.

*Archive.*  `DirInv` says that a DIR has listed just the entries before its index whose
parent its path is, and `FoundInv` that stat has found the first of the name; both
need `TreeInv`, that `totalfilelist` is what the loop of `connect` makes of the archive
and that it is complete before anyone can open; `ListIsReadable` says that complete means
up to the first header that is not `ARCHIVE_OK`.  Names and paths are sequences of parts,
taken apart and put together by the lemmas `FrontAndLast`, `SameParts` and `ParentName`.

*Mounts.*  `ContextsGone` says at which place of which destructor a context may have been
given back.  `SightedLive` speaks of the names that every class looks for before it
enters them: one slot, a living object, and a flag or a class whose destructor removes the
device.  `AloneOnce` speaks of an object with its own name and one connect.  Either rests
on the application's thread (`MainWithLiving`, `EntersConnected`); of the table only that
the slot chosen is free or has the name (`AddDeviceEnters`, `RemoveDeviceClears`).
`StaysMounted` holds while `AddDevice` finds a slot (`MountedWhileRoom`): when the table
is full it returns -1, at which no `register_fs` looks, so that the object takes itself for
mounted and is not.  It can be full, since the classes that enter a device blindly (FTP, M3U8,
archives) leave it there when their object is gone.  `Fits` bounds how far the table is filled,
by the objects that are gone and the names of the others in it, and `TableHasRoom` concludes that
no more objects than slots over the life of the process are safe.

Only model-checked: liveness (`MutexReleased`, `DestroyEnds`), which is out of
the prover's reach.  Every invariant and every other property of the passing runs is a theorem.

## 5. Findings

1. **`ssh_auth`**.  `ssh2_translate_error` (`sshfs.cpp:44`) gives 0 for every
   error it does not list, `LIBSSH2_ERROR_AUTHENTICATION_FAILED` among them.
   `connect` then returns 0, and `RegisterFilesystem_v2` registers the device
   and returns true, although nothing is connected (`sftp_session` is null).
2. **`cue_offset`**.  `next_track` (`CUEParser.cpp:160`) adds to `file_offset`,
   which already stands at the data of the previous track, the distance from
   that track's *start*: a stored gap counts twice.  The comments
   at `CUEParser.h:63` and `:67` say that it is the offset of the track's data.

Other departures have no line of documentation to be held against; they are in
the properties above or in the hazards with a note: relative seeks of two threads lose a
movement; SMB's stat reads a vector another thread may reallocate; the NFS
destructor frees a context in use; an entry whose name is that of its
directory moves to the root of an archive; a file in a directory of an archive cannot be
opened; a large file in an archive only follows SEEK_SET; a playlist that is
connected twice lists each URL twice, keeps a descriptor open for each
connect, and can give its last URL whatever lies behind it in memory.

## 6. Assumptions and what is left out

* The structures newlib gives to open are zero when they are first used; the
  offset of an M3U8 file depends on it (`m3u8fs.cpp:189`).
* The application makes, connects and destroys objects in one thread, and
  uses a file of FTP, CUE, ISO or an archive from one thread at a time.
* An unsigned division by 0 gives 0, as AArch64's `udiv` does
  (`CUEParser`, a FILE before any track).
* After undefined behaviour (a foreign socket used, an index past the end of a string,
  memcpy outside a buffer, a null `FILE`) a model stops: the properties speak of what comes before.
* Failed allocations and errors of a library's read in the middle of a file are left out.
* libnfs and libssh2 are taken to do with a directory handle what opendir and
  readdir promise; that NFS calls them from several threads at once is not followed into them.
* Not modelled: the regular expression of a playlist, vectors whose elements
  move while another thread reads them; statvfs, chdir, fstat and URL parsing
  (one library call, or pure functions); `ftpparse` (vendored: its results are
  an input of `DirCache`); words and times of a CUE sheet; `main.cpp`; the build recipes.

## 7. Plan

Written, in the order of importance: `FtpFiles`, `DirCache`, `SeekRead`,
`SshSessions`, `CueTracks`, `Mounts`, `ImageFiles`, `Archive`, `M3u8List`; proofs of all nine.
What could follow: the words and times of a CUE sheet.
