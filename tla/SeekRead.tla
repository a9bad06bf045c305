------------------------------ MODULE SeekRead ------------------------------
(***************************************************************************)
(* One open file that several threads read and seek: CSSHFS, CNFSFS,       *)
(* CM3U8FS and CSMB2FS (CFTPFS, CISO9660FS and CCUEBINFS seek the way      *)
(* CSMB2FS does).  offset is CSSHFSFile::offset and its likes; the handles *)
(* of libssh2 and libnfs have a position of their own, "at".               *)
(*                                                                         *)
(* Reads run under session_mutex.  A seek computes its target before it    *)
(* takes the mutex, and sshfs, nfsfs and m3u8fs also store it before that; *)
(* every load and every store of offset that the mutex does not order is   *)
(* therefore a step of its own.                                            *)
(***************************************************************************)
EXTENDS Integers

CONSTANTS
    Kinds,    \* which file systems: of "ssh", "nfs", "m3u8" and "smb"
    Threads,  \* threads of the application
    Nobody,   \* the owner of a free mutex
    Size,     \* length of the file
    Chunk,    \* bytes a read asks for
    Uses,     \* who uses the file and how: records of threads and moves
    Bound     \* how far from 0 the application seeks

Whences == {"SET", "CUR", "END"}

\* Seeks are records of a whence and a distance.
Moves == UNION {u.moves : u \in Uses}

ASSUME SeekReadAssumption ==
    /\ Kinds \subseteq {"ssh", "nfs", "m3u8", "smb"}
    /\ Nobody \notin Threads
    /\ Size \in Nat
    /\ Chunk \in Nat \ {0}
    /\ \A u \in Uses :
          /\ u.threads \subseteq Threads
          /\ u.moves \subseteq [whence : Whences, by : Int]
    /\ Bound \in Nat

VARIABLES
    kind,       \* which file system the file is of
    use,        \* the threads that hold the descriptor, and their seeks
    offset,     \* priv_file->offset
    at,         \* position of the library's handle; 0 where there is none
    mutex,      \* session_mutex
    pc,         \* where each thread is
    target,     \* offset + pos, in a seek
    reg,        \* priv_file->offset as loaded for "+= rc"
    n,          \* rc: the length of the read
    returned,   \* by the last seek
    delivered,  \* the last read: where it found its bytes and how many
    rejected    \* nfs_lseek has refused the last position it was given

local == <<target, reg, n>>
vars  == <<kind, use, offset, at, mutex, pc, local, returned, delivered, rejected>>

-----------------------------------------------------------------------------
\* What a read of the remote file returns at position p, without an error.
Available(p) ==
    IF p < 0 \/ p >= Size THEN 0
    ELSE IF Size - p < Chunk THEN Size - p ELSE Chunk

HasHandle == kind \in {"ssh", "nfs"}

Init ==
    /\ kind \in Kinds
    /\ use \in Uses
    /\ offset = 0
    /\ at = 0
    /\ mutex = Nobody
    /\ pc = [t \in Threads |-> "idle"]
    /\ target = [t \in Threads |-> 0]
    /\ reg = [t \in Threads |-> 0]
    /\ n = [t \in Threads |-> 0]
    /\ returned = 0
    /\ delivered = [from |-> 0, n |-> 0]
    /\ rejected = FALSE

-----------------------------------------------------------------------------
\* The switch at the start of every seek: offset is read without the mutex.
Base(whence) ==
    CASE whence = "SET" -> 0
      [] whence = "CUR" -> offset
      [] whence = "END" -> Size

BeginSeek(t) ==
    /\ pc[t] = "idle"
    /\ \E m \in use.moves :
          /\ Base(m.whence) + m.by \in -Bound .. Bound
          /\ target' = [target EXCEPT ![t] = Base(m.whence) + m.by]
    /\ pc' = [pc EXCEPT ![t] = "store"]
    /\ UNCHANGED <<offset, at, mutex, reg, n, returned, delivered, rejected>>

\* priv_file->offset = offset + pos, before the scoped_lock.
StoreOffset(t) ==
    /\ kind # "smb"
    /\ pc[t] = "store"
    /\ offset' = target[t]
    /\ pc' = [pc EXCEPT ![t] = "wait"]
    /\ UNCHANGED <<at, mutex, local, returned, delivered, rejected>>

\* Mutant: the handle stays where it is.
sshfs_seek_moves_no_handle(t) ==
    /\ kind = "ssh"
    /\ pc[t] = "wait"
    /\ mutex = Nobody
    /\ mutex' = t
    /\ pc' = [pc EXCEPT ![t] = "return"]
    /\ UNCHANGED <<offset, at, local, returned, delivered, rejected>>

\* Mutant: the handle is moved to what this thread computed.
sshfs_seek_uses_target(t) ==
    /\ kind = "ssh"
    /\ pc[t] = "wait"
    /\ mutex = Nobody
    /\ mutex' = t
    /\ at' = target[t]
    /\ pc' = [pc EXCEPT ![t] = "return"]
    /\ UNCHANGED <<offset, local, returned, delivered, rejected>>

\* libssh2_sftp_seek64(handle, priv_file->offset), under the mutex.
sshfs_seek(t) ==
    /\ kind = "ssh"
    /\ pc[t] = "wait"
    /\ mutex = Nobody
    /\ mutex' = t
    /\ at' = offset
    /\ pc' = [pc EXCEPT ![t] = "return"]
    /\ UNCHANGED <<offset, local, returned, delivered, rejected>>

\* nfs_lseek refuses what is negative, and its result is not looked at.
nfsfs_seek(t) ==
    /\ kind = "nfs"
    /\ pc[t] = "wait"
    /\ mutex = Nobody
    /\ mutex' = t
    /\ at' = IF offset < 0 THEN at ELSE offset
    /\ rejected' = (offset < 0)
    /\ pc' = [pc EXCEPT ![t] = "return"]
    /\ UNCHANGED <<offset, local, returned, delivered>>

m3u8fs_seek(t) ==
    /\ kind = "m3u8"
    /\ pc[t] = "wait"
    /\ mutex = Nobody
    /\ mutex' = t
    /\ pc' = [pc EXCEPT ![t] = "return"]
    /\ UNCHANGED <<offset, at, local, returned, delivered, rejected>>

\* return priv_file->offset, still under the mutex.
SeekReturns(t) ==
    /\ pc[t] = "return"
    /\ mutex' = Nobody
    /\ returned' = offset
    /\ target' = [target EXCEPT ![t] = 0]
    /\ pc' = [pc EXCEPT ![t] = "idle"]
    /\ UNCHANGED <<offset, at, reg, n, delivered, rejected>>

\* CSMB2FS stores and returns offset in one critical section.
smb2fs_seek(t) ==
    /\ kind = "smb"
    /\ pc[t] = "store"
    /\ mutex = Nobody
    /\ offset' = target[t]
    /\ returned' = target[t]
    /\ target' = [target EXCEPT ![t] = 0]
    /\ pc' = [pc EXCEPT ![t] = "idle"]
    /\ UNCHANGED <<at, mutex, reg, n, delivered, rejected>>

-----------------------------------------------------------------------------
Delivered(position, length) ==
    delivered' = [from |-> position, n |-> length]

\* Mutant: a read that fails is not told from one that returns bytes.
HandleRead_unchecked(t) ==
    /\ pc[t] = "idle"
    /\ mutex = Nobody
    /\ mutex' = t
    /\ Delivered(at, Available(at))
    /\ at' = at + Available(at)
    /\ \E rc \in {-1, Available(at)} : n' = [n EXCEPT ![t] = rc]
    /\ reg' = [reg EXCEPT ![t] = offset]
    /\ pc' = [pc EXCEPT ![t] = "add"]
    /\ UNCHANGED <<offset, target, returned, rejected>>

\* libssh2_sftp_read or nfs_read, and the load that "offset += rc" begins with.
HandleRead(t) ==
    /\ pc[t] = "idle"
    /\ mutex = Nobody
    /\ mutex' = t
    /\ Delivered(at, Available(at))
    /\ at' = at + Available(at)
    /\ n' = [n EXCEPT ![t] = Available(at)]
    /\ reg' = [reg EXCEPT ![t] = offset]
    /\ pc' = [pc EXCEPT ![t] = "add"]
    /\ UNCHANGED <<offset, target, returned, rejected>>

\* The store of "offset += rc", and the end of the read.
AddOffset(t) ==
    /\ pc[t] = "add"
    /\ offset' = reg[t] + n[t]
    /\ mutex' = Nobody
    /\ reg' = [reg EXCEPT ![t] = 0]
    /\ n' = [n EXCEPT ![t] = 0]
    /\ pc' = [pc EXCEPT ![t] = "idle"]

sshfs_read(t) ==
    /\ kind = "ssh"
    /\ \/ HandleRead(t)
       \/ AddOffset(t) /\ UNCHANGED <<at, target, returned, delivered, rejected>>

nfsfs_read(t) ==
    /\ kind = "nfs"
    /\ \/ HandleRead(t)
       \/ AddOffset(t) /\ UNCHANGED <<at, target, returned, delivered, rejected>>

(***************************************************************************)
(* m3u8fs_read copies out of filedata at offset; filesize is a size_t, so  *)
(* that a negative offset compares as a large one.  offset is loaded again *)
(* for the addition, after the memcpy.                                     *)
(***************************************************************************)
m3u8fs_read(t) ==
    /\ kind = "m3u8"
    /\ \/ /\ pc[t] = "idle"
          /\ mutex = Nobody
          /\ mutex' = t
          /\ Delivered(offset, Available(offset))
          /\ n' = [n EXCEPT ![t] = Available(offset)]
          /\ pc' = [pc EXCEPT ![t] = "load"]
          /\ UNCHANGED <<offset, reg>>
       \/ /\ pc[t] = "load"
          /\ reg' = [reg EXCEPT ![t] = offset]
          /\ pc' = [pc EXCEPT ![t] = "add"]
          /\ UNCHANGED <<offset, mutex, n, delivered>>
       \/ AddOffset(t) /\ UNCHANGED delivered
    /\ UNCHANGED <<at, target, returned, rejected>>

\* Mutant: what was asked for is added, not what was read.
smb2fs_read_adds_len(t) ==
    /\ kind = "smb"
    /\ pc[t] = "idle"
    /\ mutex = Nobody
    /\ Delivered(offset, Available(offset))
    /\ offset < Bound
    /\ offset' = offset + Chunk
    /\ UNCHANGED <<at, mutex, pc, local, returned, rejected>>

\* smb2_pread at offset; nobody stores offset without the mutex.
smb2fs_read(t) ==
    /\ kind = "smb"
    /\ pc[t] = "idle"
    /\ mutex = Nobody
    /\ Delivered(offset, Available(offset))
    /\ offset' = offset + Available(offset)
    /\ UNCHANGED <<at, mutex, pc, local, returned, rejected>>

-----------------------------------------------------------------------------
Seek(t) ==
    \/ BeginSeek(t)
    \/ StoreOffset(t)
    \/ sshfs_seek(t)
    \/ nfsfs_seek(t)
    \/ m3u8fs_seek(t)
    \/ smb2fs_seek(t)
    \/ SeekReturns(t)

Read(t) ==
    \/ sshfs_read(t)
    \/ nfsfs_read(t)
    \/ m3u8fs_read(t)
    \/ smb2fs_read(t)

Next == (\E t \in use.threads : Seek(t) \/ Read(t)) /\ UNCHANGED <<kind, use>>

Spec == Init /\ [][Next]_vars

-----------------------------------------------------------------------------
Places == {"idle", "store", "wait", "return", "load", "add"}

\* Every variable keeps to its type.
TypeOK ==
    /\ kind \in Kinds
    /\ use \in Uses
    /\ offset \in Int
    /\ at \in Int
    /\ mutex \in Threads \cup {Nobody}
    /\ pc \in [Threads -> Places]
    /\ target \in [Threads -> Int]
    /\ reg \in [Threads -> Int]
    /\ n \in [Threads -> Nat]
    /\ returned \in Int
    /\ delivered \in [from : Int, n : Nat]
    /\ rejected \in BOOLEAN

\* A seek has stored its target and not moved the handle yet, or a read has
\* moved the handle and not stored the offset yet.
Unsettled == \E t \in Threads : pc[t] \in {"wait", "add"}

\* The offset sshfs and nfsfs keep and the position of the library's handle
\* agree whenever no call is between changing the one and the other, however
\* the reads and seeks of the threads raced; for nfs, unless nfs_lseek has
\* refused the position.  Otherwise every later read would deliver bytes from
\* somewhere else than the file says it is.
PositionsAgree == HasHandle => Unsettled \/ rejected \/ at = offset

(***************************************************************************)
(* The file behaves as one that POSIX describes: when one thread uses it,  *)
(* and in smb with several threads as long as none of them seeks relative  *)
(* to the current position; not in nfs, where a seek may be refused.  A read has taken effect when   *)
(* it has copied its bytes, a seek when what it returns is the position.   *)
(***************************************************************************)
Copied == {t \in Threads : pc[t] \in {"load", "add"}}

Moved ==
    \E t \in Threads :
        pc[t] \in (IF HasHandle THEN {"return"} ELSE {"wait", "return"})

Position ==
    IF HasHandle THEN at
    ELSE IF Copied = {} THEN offset
    ELSE offset + n[CHOOSE t \in Copied : TRUE]

Ordered ==
    \/ kind # "nfs" /\ \A t, u \in use.threads : t = u
    \/ kind = "smb" /\ \A m \in use.moves : m.whence # "CUR"

File ==
    INSTANCE PosixFile WITH
        position  <- IF Ordered THEN Position ELSE 0,
        delivered <- IF Ordered THEN delivered ELSE [from |-> 0, n |-> 0],
        returned  <- IF ~Ordered THEN 0 ELSE IF Moved THEN offset ELSE returned

ImplementsPosixFile == File!Spec
=============================================================================
