--------------------------- MODULE SeekReadProofs ---------------------------
(***************************************************************************)
(* For any number of threads, any file and any seeks: types, that the      *)
(* position of the library's handle and the offset agree whenever no call  *)
(* is between changing the one and the other, and that the file implements *)
(* PosixFile.                                                              *)
(***************************************************************************)
EXTENDS SeekRead, TLAPS

-----------------------------------------------------------------------------
(***************************************************************************)
(* PositionsAgree is not inductive: while a read has moved the handle and  *)
(* not yet stored the offset, what it is about to store has to agree too,  *)
(* and for that nobody else may move the handle meanwhile.                 *)
(***************************************************************************)
Waiting == \E t \in Threads : pc[t] = "wait"

\* Only the thread that holds the mutex is inside a critical section.
Owned == \A t \in Threads : pc[t] \in {"load", "add", "return"} => mutex = t

\* What a read is about to store agrees with where it has left the handle.
ReadAgrees ==
    HasHandle =>
        \A t \in Threads :
            pc[t] = "add" => Waiting \/ rejected \/ at = reg[t] + n[t]

IInv == TypeOK /\ Owned /\ ReadAgrees /\ PositionsAgree

-----------------------------------------------------------------------------
\* A read returns a natural number of bytes wherever it reads.
LEMMA AvailableType == \A p \in Int : Available(p) \in Nat
  BY SeekReadAssumption DEF Available

\* A step is a step of a thread that leaves the file and its users alone.
LEMMA NextIsAThread ==
    TypeOK /\ Next =>
        /\ kind' = kind /\ use' = use
        /\ \E t \in Threads : Seek(t) \/ Read(t)
  BY SeekReadAssumption, Zenon DEF Next, TypeOK

\* The program starts within its types.
LEMMA InitTypeOK == Init => TypeOK
<1> SUFFICES ASSUME Init PROVE TypeOK
  OBVIOUS
<1>1. rejected \in BOOLEAN /\ kind \in Kinds /\ use \in Uses
  BY Zenon DEF Init
<1>2. /\ offset \in Int /\ at \in Int /\ returned \in Int
      /\ mutex \in Threads \cup {Nobody}
      /\ pc \in [Threads -> Places]
      /\ target \in [Threads -> Int]
      /\ reg \in [Threads -> Int]
      /\ n \in [Threads -> Nat]
      /\ delivered \in [from : Int, n : Nat]
  BY DEF Init, Places
<1> QED
  BY <1>1, <1>2 DEF TypeOK

\* No step leaves them.
LEMMA NextTypeOK == TypeOK /\ [Next]_vars => TypeOK'
<1> SUFFICES ASSUME TypeOK, [Next]_vars PROVE TypeOK'
  OBVIOUS
<1>0. kind' = kind /\ use' = use
  BY DEF Next, vars
<1> USE <1>0 DEF TypeOK, Places, local
<1>1. ASSUME NEW t \in Threads, BeginSeek(t) PROVE TypeOK'
  <2>1. PICK m \in use.moves : target' = [target EXCEPT ![t] = Base(m.whence) + m.by]
    BY <1>1 DEF BeginSeek
  <2>2. m \in [whence : Whences, by : Int]
    BY <2>1, SeekReadAssumption
  <2>3. Base(m.whence) + m.by \in Int
    BY <2>2, SeekReadAssumption DEF Base, Whences
  <2> QED
    BY <1>1, <2>1, <2>3 DEF BeginSeek
<1>2. ASSUME NEW t \in Threads, StoreOffset(t) PROVE TypeOK'
  BY <1>2 DEF StoreOffset
<1>3. ASSUME NEW t \in Threads, sshfs_seek(t) PROVE TypeOK'
  BY <1>3 DEF sshfs_seek
<1>4. ASSUME NEW t \in Threads, nfsfs_seek(t) PROVE TypeOK'
  BY <1>4 DEF nfsfs_seek
<1>5. ASSUME NEW t \in Threads, m3u8fs_seek(t) PROVE TypeOK'
  BY <1>5 DEF m3u8fs_seek
<1>6. ASSUME NEW t \in Threads, smb2fs_seek(t) PROVE TypeOK'
  BY <1>6 DEF smb2fs_seek
<1>7. ASSUME NEW t \in Threads, SeekReturns(t) PROVE TypeOK'
  BY <1>7 DEF SeekReturns
<1>8. ASSUME NEW t \in Threads, HandleRead(t) PROVE TypeOK'
  BY <1>8, AvailableType DEF HandleRead, Delivered
<1>9. ASSUME NEW t \in Threads, AddOffset(t),
             UNCHANGED <<at, target, returned, delivered, rejected>>
      PROVE  TypeOK'
  BY <1>9 DEF AddOffset
<1>10. ASSUME NEW t \in Threads, m3u8fs_read(t) PROVE TypeOK'
  <2>1. CASE AddOffset(t) /\ UNCHANGED delivered
    BY <1>9, <1>10, <2>1 DEF m3u8fs_read
  <2>2. CASE ~AddOffset(t)
    BY <1>10, <2>2, AvailableType DEF m3u8fs_read, Delivered
  <2> QED
    BY <1>10, <2>1, <2>2 DEF m3u8fs_read, AddOffset
<1>11. ASSUME NEW t \in Threads, smb2fs_read(t) PROVE TypeOK'
  BY <1>11, AvailableType DEF smb2fs_read, Delivered
<1>12. CASE UNCHANGED vars
  BY <1>12 DEF vars
<1> QED
  BY <1>1, <1>2, <1>3, <1>4, <1>5, <1>6, <1>7, <1>8, <1>9, <1>10, <1>11, <1>12, NextIsAThread
     DEF Seek, Read, sshfs_read, nfsfs_read

\* Type correctness, for every kind of file system.
THEOREM TypeCorrect == Spec => []TypeOK
  BY InitTypeOK, NextTypeOK, PTL DEF Spec

-----------------------------------------------------------------------------
\* The program starts with both positions at zero.
LEMMA InitIInv == Init => IInv
<1> SUFFICES ASSUME Init PROVE IInv
  OBVIOUS
<1>1. TypeOK
  BY InitTypeOK
<1>2. Owned /\ ReadAgrees
  BY DEF Init, Owned, ReadAgrees
<1>3. PositionsAgree
  BY DEF Init, PositionsAgree
<1> QED
  BY <1>1, <1>2, <1>3 DEF IInv

\* Every step keeps the mutex with the thread inside its critical section.
LEMMA NextOwned == TypeOK /\ Owned /\ [Next]_vars => Owned'
<1> SUFFICES ASSUME TypeOK, Owned, [Next]_vars PROVE Owned'
  OBVIOUS
<1> USE SeekReadAssumption DEF TypeOK, Owned
<1>1. ASSUME NEW t \in Threads, Seek(t) PROVE Owned'
  BY <1>1 DEF Seek, BeginSeek, StoreOffset, sshfs_seek, nfsfs_seek,
              m3u8fs_seek, smb2fs_seek, SeekReturns
<1>2. ASSUME NEW t \in Threads, Read(t) PROVE Owned'
  BY <1>2 DEF Read, sshfs_read, nfsfs_read, m3u8fs_read, smb2fs_read,
              HandleRead, AddOffset
<1>3. CASE UNCHANGED vars
  BY <1>3 DEF vars
<1> QED
  BY <1>1, <1>2, <1>3, NextIsAThread

\* Every step keeps what a read is about to store in agreement.
LEMMA NextReadAgrees == IInv /\ [Next]_vars => ReadAgrees'
<1> SUFFICES ASSUME IInv, [Next]_vars, HasHandle,
                    NEW u \in Threads, pc'[u] = "add"
             PROVE  Waiting' \/ rejected' \/ at' = reg'[u] + n'[u]
  BY DEF ReadAgrees, HasHandle, Next, vars
<1>0. TypeOK /\ Owned /\ ReadAgrees /\ PositionsAgree
  BY DEF IInv
<1> USE SeekReadAssumption, <1>0 DEF TypeOK, Owned, ReadAgrees, Waiting, HasHandle
<1>1. ASSUME NEW t \in Threads, BeginSeek(t)
      PROVE  Waiting' \/ rejected' \/ at' = reg'[u] + n'[u]
  BY <1>1 DEF BeginSeek
<1>2. ASSUME NEW t \in Threads, StoreOffset(t)
      PROVE  Waiting'
  BY <1>2 DEF StoreOffset
<1>3. ASSUME NEW t \in Threads, sshfs_seek(t) \/ nfsfs_seek(t) PROVE FALSE
  BY <1>3 DEF sshfs_seek, nfsfs_seek
<1>4. ASSUME NEW t \in Threads, SeekReturns(t) PROVE FALSE
  BY <1>4 DEF SeekReturns
<1>5. ASSUME NEW t \in Threads, HandleRead(t)
      PROVE  Waiting' \/ rejected' \/ at' = reg'[u] + n'[u]
  <2>1. u = t /\ mutex = Nobody
    BY <1>5 DEF HandleRead
  <2>2. \A v \in Threads : pc[v] # "add"
    BY <2>1
  <2>3. Waiting \/ rejected \/ at = offset
    BY <2>2 DEF PositionsAgree, Unsettled
  <2>4. Available(at) \in Int
    BY AvailableType
  <2>5. at' = at + Available(at) /\ reg'[u] = offset /\ n'[u] = Available(at)
    BY <1>5, <2>1 DEF HandleRead
  <2>6. Waiting => Waiting'
    BY <1>5 DEF HandleRead
  <2> QED
    BY <1>5, <2>3, <2>4, <2>5, <2>6 DEF HandleRead
<1>6. ASSUME NEW t \in Threads, AddOffset(t) PROVE FALSE
  BY <1>6 DEF AddOffset
<1>7. CASE UNCHANGED vars
  BY <1>7 DEF vars, local
<1> QED
  BY <1>1, <1>2, <1>3, <1>4, <1>5, <1>6, <1>7, NextIsAThread
     DEF Seek, Read, sshfs_read, nfsfs_read, m3u8fs_seek, m3u8fs_read,
         smb2fs_seek, smb2fs_read

\* Every step keeps the two positions in agreement.
LEMMA NextPositionsAgree == IInv /\ [Next]_vars => PositionsAgree'
<1> SUFFICES ASSUME IInv, [Next]_vars, HasHandle
             PROVE  Unsettled' \/ rejected' \/ at' = offset'
  BY DEF PositionsAgree, HasHandle, Next, vars
<1>0. TypeOK /\ Owned /\ ReadAgrees /\ PositionsAgree
  BY DEF IInv
<1> USE SeekReadAssumption, <1>0 DEF TypeOK, Owned, PositionsAgree, Unsettled, HasHandle
<1>1. ASSUME NEW t \in Threads, BeginSeek(t)
      PROVE  Unsettled' \/ rejected' \/ at' = offset'
  BY <1>1 DEF BeginSeek
<1>2. ASSUME NEW t \in Threads, StoreOffset(t) PROVE Unsettled'
  BY <1>2 DEF StoreOffset
<1>3. ASSUME NEW t \in Threads, sshfs_seek(t) PROVE at' = offset'
  BY <1>3 DEF sshfs_seek
<1>4. ASSUME NEW t \in Threads, nfsfs_seek(t) PROVE rejected' \/ at' = offset'
  BY <1>4 DEF nfsfs_seek
<1>5. ASSUME NEW t \in Threads, SeekReturns(t)
      PROVE  Unsettled' \/ rejected' \/ at' = offset'
  BY <1>5 DEF SeekReturns
<1>6. ASSUME NEW t \in Threads, HandleRead(t) PROVE Unsettled'
  BY <1>6 DEF HandleRead
<1>7. ASSUME NEW t \in Threads, AddOffset(t), UNCHANGED <<at, rejected>>
      PROVE  Unsettled' \/ rejected' \/ at' = offset'
  <2>1. Waiting \/ rejected \/ at = reg[t] + n[t]
    BY <1>7 DEF AddOffset, ReadAgrees
  <2>2. Waiting => Unsettled'
    BY <1>7 DEF AddOffset, Waiting
  <2> QED
    BY <1>7, <2>1, <2>2 DEF AddOffset
<1>8. CASE UNCHANGED vars
  BY <1>8 DEF vars
<1> QED
  BY <1>1, <1>2, <1>3, <1>4, <1>5, <1>6, <1>7, <1>8, NextIsAThread
     DEF Seek, Read, sshfs_read, nfsfs_read, m3u8fs_seek, m3u8fs_read,
         smb2fs_seek, smb2fs_read

\* However threads interleave their reads and seeks of one file, the offset
\* sshfs and nfsfs keep is the position of the library's handle whenever no
\* call is in between.
THEOREM OffsetIsPosition == Spec => []PositionsAgree
<1>1. IInv /\ [Next]_vars => IInv'
  BY NextTypeOK, NextOwned, NextReadAgrees, NextPositionsAgree DEF IInv
<1> QED
  BY InitIInv, <1>1, PTL DEF Spec, IInv

-----------------------------------------------------------------------------
(***************************************************************************)
(* The refinement of PosixFile.  What a step of the file is in PosixFile   *)
(* depends on where its thread is: Abstract says what the position and the *)
(* last answer are, Sought that a seek still leads to where the caller     *)
(* wanted, and Settled what the read and the seek of the thread have in    *)
(* hand.                                                                   *)
(***************************************************************************)

\* Threads that do not hold the descriptor do nothing, and no thread is at a place
\* its file system does not have.
ByKind ==
    \A t \in Threads :
        /\ t \notin use.threads => pc[t] = "idle"
        /\ kind = "smb" => pc[t] \in {"idle", "store"}
        /\ kind = "ssh" => pc[t] # "load"

\* Where a seek of whence and by leads from position p.
Leads(p, m) == (IF m.whence = "SET" THEN 0 ELSE IF m.whence = "CUR" THEN p ELSE Size) + m.by

\* A target that is not stored yet, or has not reached the handle, is right still.
Sought ==
    Ordered =>
        \A t \in use.threads :
            /\ pc[t] = "store" => \E m \in use.moves : target[t] = Leads(offset, m)
            /\ kind = "ssh" /\ pc[t] = "wait" =>
                   \E m \in use.moves : offset = Leads(at, m)

\* What the only thread of an SFTP or an M3U8 file has in hand.
Settled ==
    Ordered =>
        \A t \in use.threads :
            /\ kind = "ssh" /\ pc[t] \in {"idle", "store", "return"} => at = offset
            /\ kind = "ssh" /\ pc[t] = "add" => at = reg[t] + n[t]
            /\ kind = "m3u8" /\ pc[t] = "add" => reg[t] = offset

RInv == TypeOK /\ ByKind /\ Sought /\ Settled

\* Ordered depends on what never changes.
LEMMA OrderedStays == [Next]_vars => Ordered' = Ordered
  BY DEF Next, vars, Ordered

\* One thread and an SFTP or M3U8 file, or an SMB file.
LEMMA OrderedKinds ==
    TypeOK /\ Ordered =>
        \/ /\ kind = "smb"
           /\ \/ \A t, u \in use.threads : t = u
              \/ \A m \in use.moves : m.whence # "CUR"
        \/ kind \in {"ssh", "m3u8"} /\ \A t, u \in use.threads : t = u
  BY SeekReadAssumption DEF TypeOK, Ordered

\* Who uses the file, and how, is what the constants say.
LEMMA UsesKnown ==
    TypeOK => /\ use.threads \subseteq Threads
              /\ use.moves \subseteq [whence : Whences, by : Int]
              /\ use.moves \subseteq Moves
  BY SeekReadAssumption DEF TypeOK, Moves

\* The switch of a seek computes where the seek leads from the offset.
LEMMA BaseLeads ==
    TypeOK => \A m \in use.moves : Base(m.whence) + m.by = Leads(offset, m)
<1> SUFFICES ASSUME TypeOK, NEW m \in use.moves PROVE Base(m.whence) + m.by = Leads(offset, m)
  OBVIOUS
<1>1. m.whence \in Whences
  BY UsesKnown
<1> QED
  BY <1>1 DEF Base, Leads, Whences

\* A new file has nothing in hand.
LEMMA InitRInv == Init => RInv
<1> SUFFICES ASSUME Init PROVE RInv
  OBVIOUS
<1>1. TypeOK
  BY InitTypeOK
<1>2. ByKind /\ Sought /\ Settled
  BY <1>1, UsesKnown DEF Init, ByKind, Sought, Settled
<1> QED
  BY <1>1, <1>2 DEF RInv

\* A thread goes on to places of its file system.
LEMMA NextByKind == TypeOK /\ ByKind /\ [Next]_vars => ByKind'
<1> SUFFICES ASSUME TypeOK, ByKind, [Next]_vars PROVE ByKind'
  OBVIOUS
<1>0. kind' = kind /\ use' = use /\ use.threads \subseteq Threads
  BY UsesKnown DEF Next, vars
<1> USE <1>0 DEF TypeOK, ByKind
<1>1. ASSUME NEW t \in use.threads, Seek(t) PROVE ByKind'
  BY <1>1 DEF Seek, BeginSeek, StoreOffset, sshfs_seek, nfsfs_seek,
              m3u8fs_seek, smb2fs_seek, SeekReturns
<1>2. ASSUME NEW t \in use.threads, Read(t) PROVE ByKind'
  BY <1>2 DEF Read, sshfs_read, nfsfs_read, m3u8fs_read, smb2fs_read,
              HandleRead, AddOffset
<1>3. CASE UNCHANGED vars
  BY <1>3 DEF vars
<1> QED
  BY <1>1, <1>2, <1>3 DEF Next

\* While a target waits, what it was computed from stays: the thread is alone, or no
\* seek is relative.
LEMMA NextSought == RInv /\ [Next]_vars => Sought'
<1> SUFFICES ASSUME RInv, [Next]_vars, Ordered' PROVE Sought'
  BY DEF Sought
<1>0. /\ kind' = kind /\ use' = use /\ use.threads \subseteq Threads
      /\ Ordered /\ TypeOK /\ ByKind /\ Sought /\ Settled
  BY UsesKnown, OrderedStays DEF Next, vars, RInv
<1> USE <1>0, OrderedKinds
<1>1. ASSUME NEW t \in use.threads, BeginSeek(t) PROVE Sought'
  <2>1. PICK m \in use.moves : target' = [target EXCEPT ![t] = Base(m.whence) + m.by]
    BY <1>1 DEF BeginSeek
  <2>2. target'[t] = Leads(offset, m)
    BY <2>1, BaseLeads DEF TypeOK
  <2> QED
    BY <1>1, <2>1, <2>2 DEF BeginSeek, Sought, TypeOK, Leads
<1>2. ASSUME NEW t \in use.threads, StoreOffset(t) PROVE Sought'
  BY <1>2 DEF StoreOffset, Sought, Settled, TypeOK, Leads, local
<1>3. ASSUME NEW t \in use.threads, sshfs_seek(t) \/ nfsfs_seek(t) \/ m3u8fs_seek(t)
      PROVE  Sought'
  BY <1>3 DEF sshfs_seek, nfsfs_seek, m3u8fs_seek, Sought, TypeOK, Leads, local
<1>4. ASSUME NEW t \in use.threads, smb2fs_seek(t) PROVE Sought'
  BY <1>4 DEF smb2fs_seek, Sought, TypeOK, Leads, ByKind
<1>5. ASSUME NEW t \in use.threads, SeekReturns(t) PROVE Sought'
  BY <1>5 DEF SeekReturns, Sought, TypeOK, Leads
<1>6. ASSUME NEW t \in use.threads, Read(t) PROVE Sought'
  BY <1>6 DEF Read, sshfs_read, nfsfs_read, m3u8fs_read, smb2fs_read, HandleRead, AddOffset,
              Sought, TypeOK, Leads, ByKind, local
<1>7. CASE UNCHANGED vars
  BY <1>7 DEF vars, local, Sought, Leads
<1> QED
  BY <1>1, <1>2, <1>3, <1>4, <1>5, <1>6, <1>7 DEF Next, Seek

\* Reads and seeks of one thread bring handle and offset together.
LEMMA NextSettled == RInv /\ [Next]_vars => Settled'
<1> SUFFICES ASSUME RInv, [Next]_vars, Ordered' PROVE Settled'
  BY DEF Settled
<1>0. /\ kind' = kind /\ use' = use /\ use.threads \subseteq Threads
      /\ Ordered /\ TypeOK /\ ByKind /\ Settled
  BY UsesKnown, OrderedStays DEF Next, vars, RInv
<1> USE <1>0, OrderedKinds DEF TypeOK, Settled
<1>1. ASSUME NEW t \in use.threads, Seek(t) PROVE Settled'
  BY <1>1 DEF Seek, BeginSeek, StoreOffset, sshfs_seek, nfsfs_seek, m3u8fs_seek, smb2fs_seek,
              SeekReturns, local
<1>2. ASSUME NEW t \in use.threads, HandleRead(t) PROVE Settled'
  BY <1>2, AvailableType DEF HandleRead
<1>3. ASSUME NEW t \in use.threads, AddOffset(t), UNCHANGED at PROVE Settled'
  BY <1>3 DEF AddOffset
<1>4. ASSUME NEW t \in use.threads, m3u8fs_read(t) PROVE Settled'
  BY <1>4, <1>3, AvailableType DEF m3u8fs_read
<1>5. ASSUME NEW t \in use.threads, smb2fs_read(t) PROVE Settled'
  BY <1>5 DEF smb2fs_read
<1>6. CASE UNCHANGED vars
  BY <1>6 DEF vars, local
<1> QED
  BY <1>1, <1>2, <1>3, <1>4, <1>5, <1>6 DEF Next, Read, sshfs_read, nfsfs_read

\* The invariant of the refinement is inductive.
LEMMA NextRInv == RInv /\ [Next]_vars => RInv'
  BY NextTypeOK, NextByKind, NextSought, NextSettled DEF RInv

-----------------------------------------------------------------------------
\* The position and the answer of the last seek, as PosixFile sees them.
Answer == IF Moved THEN offset ELSE returned

\* Where the only thread of the file is decides what the position is.
LonePosition(t) ==
    IF kind = "ssh" THEN at ELSE IF pc[t] \in {"load", "add"} THEN offset + n[t] ELSE offset

LoneAnswer(t) ==
    IF pc[t] = "return" \/ (kind = "m3u8" /\ pc[t] = "wait") THEN offset ELSE returned

\* Copied and Moved are about this thread, where it is the only one.
LoneDecides ==
    \A t \in use.threads :
        kind \in {"ssh", "m3u8"} /\ (\A u \in use.threads : u = t)
            => Position = LonePosition(t) /\ Answer = LoneAnswer(t)

\* No other thread is anywhere.
LEMMA Lone == RInv => LoneDecides
<1> SUFFICES ASSUME RInv, NEW t \in use.threads,
                    kind \in {"ssh", "m3u8"}, \A u \in use.threads : u = t
             PROVE  Position = LonePosition(t) /\ Answer = LoneAnswer(t)
  BY DEF LoneDecides
<1>1. t \in Threads /\ \A u \in Threads : u # t => pc[u] = "idle"
  BY UsesKnown DEF RInv, ByKind
<1>2. CASE pc[t] \in {"load", "add"}
  <2>1. Copied = {t}
    BY <1>1, <1>2 DEF Copied
  <2>2. (CHOOSE u \in Copied : TRUE) = t
    BY <2>1
  <2> QED
    BY <1>1, <1>2, <2>1, <2>2 DEF Position, LonePosition, HasHandle, Answer, LoneAnswer, Moved
<1>3. CASE pc[t] \notin {"load", "add"}
  <2>1. Copied = {}
    BY <1>1, <1>3 DEF Copied
  <2>2. Position = LonePosition(t)
    BY <1>3, <2>1 DEF Position, LonePosition, HasHandle
  <2>3. CASE kind = "ssh"
    <3>1. Moved <=> pc[t] = "return"
      BY <1>1, <2>3 DEF Moved, HasHandle
    <3> QED
      BY <2>2, <2>3, <3>1 DEF Answer, LoneAnswer
  <2>4. CASE kind = "m3u8"
    <3>1. Moved <=> pc[t] \in {"wait", "return"}
      BY <1>1, <2>4 DEF Moved, HasHandle
    <3> QED
      BY <2>2, <2>4, <3>1 DEF Answer, LoneAnswer
  <2> QED
    BY <2>3, <2>4
<1> QED
  BY <1>2, <1>3

\* In an SMB file a call is in one critical section.
LEMMA SmbPosition ==
    RInv /\ kind = "smb" => Position = offset /\ Answer = returned
  BY DEF RInv, ByKind, Position, Answer, Copied, Moved, HasHandle

\* What the steps of PosixFile come to under the refinement mapping.
LEMMA PosixSteps ==
    ASSUME TypeOK, Ordered, Ordered', Position \in Int
    PROVE  /\ (\E m \in use.moves :
                  /\ Position' = Leads(Position, m)
                  /\ Answer' = Position'
                  /\ UNCHANGED delivered) => File!Next
           /\ (/\ delivered' = [from |-> Position, n |-> Available(Position)]
               /\ Position' = Position + Available(Position)
               /\ UNCHANGED Answer) => File!Next
           /\ UNCHANGED <<Position, Answer, delivered>> => UNCHANGED File!vars
<1>1. ASSUME NEW m \in use.moves, Position' = Leads(Position, m), Answer' = Position',
             UNCHANGED delivered
      PROVE  File!Next
  <2>1. m \in Moves /\ m.whence \in Whences
    BY UsesKnown
  <2>2. File!Base(m.whence) + m.by = Leads(Position, m)
    BY <2>1 DEF File!Base, Leads, Whences
  <2>3. File!Seek
    BY <1>1, <2>1, <2>2 DEF File!Seek, Answer
  <2> QED
    BY <2>3 DEF File!Next
<1>2. ASSUME delivered' = [from |-> Position, n |-> Available(Position)],
             Position' = Position + Available(Position), UNCHANGED Answer
      PROVE  File!Next
  <2>1. Available(Position) \in File!Lengths
    BY SeekReadAssumption DEF Available, File!Lengths
  <2>2. File!Read
    BY <1>2, <2>1 DEF File!Read, Answer
  <2> QED
    BY <2>2 DEF File!Next
<1>3. ASSUME UNCHANGED <<Position, Answer, delivered>> PROVE UNCHANGED File!vars
  BY <1>3 DEF File!vars, Answer
<1> QED
  BY <1>1, <1>2, <1>3

\* A step on an SMB file, of any of its threads, is one of PosixFile or none.
LEMMA SmbStep ==
    ASSUME RInv, RInv', Ordered, Ordered', kind = "smb", [Next]_vars
    PROVE  [File!Next]_File!vars
<1>a. (RInv /\ kind = "smb" => Position = offset /\ Answer = returned)'
  BY SmbPosition, PTL
<1>0. /\ kind' = kind /\ use' = use /\ use.threads \subseteq Threads
      /\ TypeOK /\ ByKind /\ Sought
      /\ Position = offset /\ Answer = returned
      /\ Position' = offset' /\ Answer' = returned'
      /\ Position \in Int
  BY <1>a, UsesKnown, SmbPosition DEF Next, vars, RInv, TypeOK
<1> USE <1>0
<1>1. ASSUME NEW t \in use.threads, smb2fs_seek(t) PROVE File!Next
  BY <1>1, PosixSteps DEF smb2fs_seek, Sought
<1>2. ASSUME NEW t \in use.threads, smb2fs_read(t) PROVE File!Next
  BY <1>2, PosixSteps DEF smb2fs_read, Delivered
<1>3. ASSUME NEW t \in use.threads, BeginSeek(t) PROVE UNCHANGED File!vars
  BY <1>3, PosixSteps DEF BeginSeek
<1>4. ASSUME NEW t \in use.threads, SeekReturns(t) PROVE FALSE
  BY <1>4 DEF SeekReturns, ByKind
<1>5. CASE UNCHANGED vars
  BY <1>5, PosixSteps DEF vars
<1> QED
  BY <1>1, <1>2, <1>3, <1>4, <1>5 DEF Next, Seek, Read, StoreOffset, sshfs_seek, nfsfs_seek,
     m3u8fs_seek, sshfs_read, nfsfs_read, m3u8fs_read

\* A step of the only thread of an SFTP or M3U8 file is one of PosixFile or none.
LEMMA LoneStep ==
    ASSUME RInv, RInv', Ordered, Ordered', kind \in {"ssh", "m3u8"}, [Next]_vars,
           NEW t \in use.threads, \A u \in use.threads : u = t
    PROVE  [File!Next]_File!vars
<1>a. (RInv => LoneDecides)'
  BY Lone, PTL
<1>0. /\ kind' = kind /\ use' = use /\ t \in Threads
      /\ TypeOK /\ ByKind /\ Sought /\ Settled
      /\ Position = LonePosition(t) /\ Answer = LoneAnswer(t)
      /\ Position' = LonePosition(t)' /\ Answer' = LoneAnswer(t)'
  BY <1>a, UsesKnown, Lone DEF Next, vars, RInv, LoneDecides
<1>b. Position \in Int
  BY <1>0 DEF LonePosition, TypeOK
<1> USE <1>0, <1>b DEF LonePosition, LoneAnswer
<1>1. ASSUME BeginSeek(t) PROVE UNCHANGED <<Position, Answer, delivered>>
  BY <1>1 DEF BeginSeek, TypeOK
<1>2. ASSUME kind = "ssh", StoreOffset(t) PROVE UNCHANGED <<Position, Answer, delivered>>
  BY <1>2 DEF StoreOffset, TypeOK
<1>3. ASSUME kind = "m3u8", StoreOffset(t)
      PROVE  \E m \in use.moves : /\ Position' = Leads(Position, m)
                                  /\ Answer' = Position'
                                  /\ UNCHANGED delivered
  BY <1>3 DEF StoreOffset, TypeOK, Sought
<1>4. ASSUME sshfs_seek(t)
      PROVE  \E m \in use.moves : /\ Position' = Leads(Position, m)
                                  /\ Answer' = Position'
                                  /\ UNCHANGED delivered
  BY <1>4 DEF sshfs_seek, TypeOK, Sought
<1>5. ASSUME m3u8fs_seek(t) PROVE UNCHANGED <<Position, Answer, delivered>>
  BY <1>5 DEF m3u8fs_seek, TypeOK, local
<1>6. ASSUME SeekReturns(t) PROVE UNCHANGED <<Position, Answer, delivered>>
  BY <1>6 DEF SeekReturns, TypeOK
<1>7. ASSUME sshfs_read(t), HandleRead(t)
      PROVE  /\ delivered' = [from |-> Position, n |-> Available(Position)]
             /\ Position' = Position + Available(Position)
             /\ UNCHANGED Answer
  BY <1>7 DEF sshfs_read, HandleRead, Delivered, TypeOK
<1>8. ASSUME kind = "ssh", AddOffset(t), UNCHANGED <<at, returned, delivered>>
      PROVE  UNCHANGED <<Position, Answer, delivered>>
  BY <1>8 DEF AddOffset, TypeOK
<1>9. ASSUME m3u8fs_read(t), pc[t] = "idle"
      PROVE  /\ delivered' = [from |-> Position, n |-> Available(Position)]
             /\ Position' = Position + Available(Position)
             /\ UNCHANGED Answer
  BY <1>9 DEF m3u8fs_read, Delivered, TypeOK, AddOffset
<1>10. ASSUME m3u8fs_read(t), pc[t] = "load" PROVE UNCHANGED <<Position, Answer, delivered>>
  BY <1>10 DEF m3u8fs_read, TypeOK, AddOffset
<1>11. ASSUME m3u8fs_read(t), AddOffset(t) PROVE UNCHANGED <<Position, Answer, delivered>>
  BY <1>11 DEF m3u8fs_read, AddOffset, TypeOK, Settled
<1>12. CASE UNCHANGED vars
  BY <1>12, PosixSteps DEF vars, local
<1>13. CASE Seek(t)
  BY <1>13, <1>1, <1>2, <1>3, <1>4, <1>5, <1>6, PosixSteps
     DEF Seek, nfsfs_seek, smb2fs_seek, StoreOffset
<1>14. CASE Read(t)
  BY <1>14, <1>7, <1>8, <1>9, <1>10, <1>11, PosixSteps
     DEF Read, sshfs_read, nfsfs_read, m3u8fs_read, smb2fs_read
<1> QED
  BY <1>12, <1>13, <1>14 DEF Next

\* A file that is ordered in the sense of the property is a file as POSIX describes
\* it, whoever reads and seeks it in whatever order: an SFTP or M3U8 file of one
\* thread, and an SMB file of any number of threads that seek to absolute positions.
THEOREM FilesAsPosix == Spec => ImplementsPosixFile
<1>1. Init => File!Init
  <2> SUFFICES ASSUME Init PROVE File!Init
    OBVIOUS
  <2>1. Copied = {} /\ ~Moved
    BY DEF Init, Copied, Moved
  <2> QED
    BY <2>1 DEF Init, File!Init, Position
<1>2. RInv /\ RInv' /\ [Next]_vars => [File!Next]_File!vars
  <2> SUFFICES ASSUME RInv, RInv', [Next]_vars PROVE [File!Next]_File!vars
    OBVIOUS
  <2>1. Ordered' = Ordered
    BY OrderedStays
  <2>2. CASE ~Ordered
    BY <2>1, <2>2 DEF File!vars
  <2>3. CASE Ordered /\ kind = "smb"
    BY <2>1, <2>3, SmbStep
  <2>4. CASE Ordered /\ kind \in {"ssh", "m3u8"} /\ \A t, u \in use.threads : t = u
    <3>1. CASE use.threads = {}
      <4>1. UNCHANGED vars
        BY <3>1 DEF Next
      <4>2. UNCHANGED File!vars
        BY <2>1, <4>1 DEF vars, local, File!vars, Position, Moved, Copied, HasHandle
      <4> QED
        BY <4>2
    <3>2. CASE use.threads # {}
      BY <2>1, <2>4, <3>2, LoneStep
    <3> QED
      BY <3>1, <3>2
  <2> QED
    BY <2>2, <2>3, <2>4, OrderedKinds DEF RInv
<1> QED
  BY InitRInv, NextRInv, <1>1, <1>2, PTL DEF Spec, ImplementsPosixFile, File!Spec
=============================================================================
