------------------------------ MODULE FtpFiles ------------------------------
(***************************************************************************)
(* The open files of one FTP mount: the handlers ftpfs_open, ftpfs_read,   *)
(* ftpfs_seek and ftpfs_close of CFTPFS and the UFTP_* dialogue each of    *)
(* them holds with the server over the file's own control connection.      *)
(*                                                                         *)
(* Every handler runs under session_mutex, so it is one action; only a     *)
(* read is cut in two, because it can block on its data connection while   *)
(* it keeps the mutex ("mutex" is then the reading file).  What interleaves *)
(* is the server: replies later than the one second ftp_net_read waits,    *)
(* control connections it closes (an idle session, "421"), transfers that  *)
(* end or break, and descriptor numbers the operating system hands out     *)
(* again.  A file is used by one thread at a time; two threads on one file *)
(* are the subject of module SeekRead.                                     *)
(***************************************************************************)
EXTENDS Integers

CONSTANTS
    Files,    \* file structures, one per descriptor the application holds
    Fds,      \* descriptor numbers of the process
    Nobody,   \* no file: a free descriptor, a leaked socket, a free mutex
    Sizes,    \* values of st_size, from SIZE or from the cached listing
    Len,      \* length of the remote file
    Seeks,    \* offsets ftpfs_seek is asked for, none below -2^31
    MaxRead,  \* MAX_READBUF
    Half,     \* 2^31: the range of int is -Half .. Half - 1
    FaultSets \* the networks considered: what each may do, of FaultKinds

FaultKinds == {"late", "reject", "hangup", "refuse", "reset"}

ASSUME FtpFilesAssumption ==
    /\ Nobody \notin Files
    /\ Fds \subseteq Nat \ {0}
    /\ Sizes \subseteq Nat
    /\ Seeks \subseteq {o \in Int : o >= -Half}
    /\ Len \in Nat
    /\ MaxRead \in Nat \ {0}
    /\ Half \in Nat \ {0}
    /\ FaultSets \subseteq SUBSET FaultKinds

VARIABLES
    faults,   \* what this network may do
    handle,   \* files whose open succeeded and that are not closed yet
    ctl,      \* connection.control_socket
    data,     \* connection.data_socket
    offset,   \* CFTPFSFile::offset
    size,     \* CFTPFSFile::st.st_size
    pend,     \* first reply on the control connection nobody has read, or Gone
    sock,     \* the descriptor table of the process
    mutex,    \* the file whose read is inside session_mutex
    refused,  \* files whose last reopening was refused by the server
    fate      \* "running", or why the model stops following the process

vars == <<faults, handle, ctl, data, offset, size, pend, sock, mutex, refused, fate>>

-----------------------------------------------------------------------------
NoFd == -1
None == "none"   \* no reply: code -1, or nothing left to read
Gone == "gone"   \* the server has closed the control connection

Codes == {"220", "331", "230", "213", "229", "200", "350", "150", "end", "err"}

Replies == Codes \cup {None, Gone}

Uses == {"free", "ctl", "idle", "sending", "eof"}

Sockets == [use : Uses, owner : Files \cup {Nobody}, at : Nat, ended : BOOLEAN]

Free == [use |-> "free", owner |-> Nobody, at |-> 0, ended |-> TRUE]

Socket(f, use, at) ==
    [use |-> use, owner |-> f, at |-> at, ended |-> use # "sending"]

FreeFds == {d \in Fds : sock[d].use = "free"}

\* What socket() may give when the descriptors of D are free.
NewFds(D) == IF D = {} THEN {NoFd} ELSE D

\* The file's data_socket is a connection of its own that is still open.
OwnData(f) == data[f] # NoFd /\ sock[data[f]].owner = f

\* The file's data_socket is a number that now names somebody else's socket.
Foreign(f) ==
    data[f] # NoFd /\ sock[data[f]].use # "free" /\ sock[data[f]].owner # f

Sending(f) == OwnData(f) /\ sock[data[f]].use = "sending"

-----------------------------------------------------------------------------
\* Mutant: every reply is taken for the one that was hoped for.
UFTP_SendCommand_unchecked(p, good, can) ==
    {[code |-> good, pend |-> None, done |-> can]}

\* Mutant: the read does not wait, and takes what has arrived by then.
UFTP_SendCommand_no_wait(p, good, can) ==
    {[code |-> p, pend |-> good, done |-> can],
     [code |-> IF p = None THEN good ELSE p, pend |-> None, done |-> can]}

(***************************************************************************)
(* One read of a control connection on which p is unread and r is on its   *)
(* way.  It takes everything that has arrived and keeps the first code     *)
(* ("got"); "left" is what the next read finds.  r may be late, or the     *)
(* server may have closed the connection instead: then this read and every *)
(* later one ends at once with nothing.                                    *)
(***************************************************************************)
ftp_net_read(p, r) ==
    LET Read(got, left) == [got |-> got, left |-> left]
    IN  IF p = Gone THEN {Read(None, Gone)}
        ELSE {Read(IF p = None THEN r ELSE p, None)}
             \cup (IF p # None \/ "late" \in faults THEN {Read(p, r)} ELSE {})
             \cup (IF "hangup" \in faults THEN {Read(p, Gone)} ELSE {})

(***************************************************************************)
(* One command and its reply.  An unread reply answers the next command,   *)
(* and the command's own reply is either swallowed with it or left unread  *)
(* in turn.  "done" says whether the server carried the command out, "can" *)
(* whether it is able to.  A server that hangs up may say so first ("err").*)
(***************************************************************************)
UFTP_SendCommand(p, good, can) ==
    LET answers == {r \in {good, "err"} :
                        IF r = good
                        THEN can /\ p # Gone
                        ELSE ~can \/ p = Gone \/ faults \cap {"reject", "hangup"} # {}}
    IN  UNION {{[code |-> read.got, pend |-> read.left, done |-> r = good] :
                    read \in ftp_net_read(p, r)} : r \in answers}

\* A read without a command, for a reply the server is about to post.
UFTP_ReadServerCommand(p, reply) == {read.left : read \in ftp_net_read(p, reply)}

\* The same command sent from any of the situations in P.
Send(P, good, can) == UNION {UFTP_SendCommand(p, good, can) : p \in P}

Passed(answers, good) == {a.pend : a \in {b \in answers : b.code = good}}
Failed(answers, good) == {a \in answers : a.code # good}

\* UFTP_ServerConnect, then UFTP_STATFile unless the listing has the file:
\* what is unread afterwards.  MDTM's reply code is not looked at.
LoggedIn ==
    LET greet == UFTP_ReadServerCommand(None, "220")
        user  == Passed(Send(greet, "331", TRUE), "331")
    IN  Passed(Send(user, "230", TRUE), "230")

Stated(P) ==
    LET fsize == Passed(Send(P, "213", TRUE), "213")
    IN  {a.pend : a \in Send(fsize, "213", TRUE)}

\* Some step of the two can fail.
LoginFails == faults \cap {"late", "reject", "hangup"} # {}

\* off_t to int, in the call of UFTP_OpenFile.
ToInt(o) == ((o + Half) % (2 * Half)) - Half

(***************************************************************************)
(* UFTP_OpenPortEPSV and UFTP_OpenFile.  "abort": no reply at all, and     *)
(* parse_epsv indexes past the end of the empty string, which ends a       *)
(* process built without exceptions.  "refused": the data connection fails *)
(* (a stale or an error reply gives no port that is listened on) and its   *)
(* descriptor d is closed but not forgotten; when the process has none     *)
(* left, socket() gives NoFd and everything after it fails.  "idle": the   *)
(* data connection is up and no transfer was started on it.  "sending":    *)
(* the server transfers from "at".  ok is the return value 0.              *)
(***************************************************************************)
OpenFileOutcomes(p, o, d) ==
    LET Outcome(use, at, left, ok) ==
            [use |-> use, at |-> at, pend |-> left, ok |-> ok]
        epsv   == UFTP_SendCommand(p, "229", TRUE)
        port   == {a.pend : a \in {b \in epsv :
                        p = None /\ b.code = "229" /\ d # NoFd}}
        type   == Send(port, "200", TRUE)
        rest   == Send(Passed(type, "200"), "350", ToInt(o) >= 0)
        retr   == Send(Passed(rest, "350"), "150", TRUE)
    IN  {Outcome("abort", 0, a.pend, FALSE) :
             a \in {b \in epsv : b.code = None}}
        \cup {Outcome("refused", 0, a.pend, FALSE) :
                  a \in {b \in epsv : /\ b.code # None
                                      /\ \/ p # None \/ b.code # "229"
                                         \/ d = NoFd
                                         \/ "refuse" \in faults}}
        \cup {Outcome("idle", 0, a.pend, FALSE) :
                  a \in Failed(type, "200") \cup Failed(rest, "350")}
        \cup {Outcome(IF a.done THEN "sending" ELSE "idle",
                      IF a.done THEN ToInt(o) ELSE 0,
                      a.pend, a.code = "150") : a \in retr}

-----------------------------------------------------------------------------
Init ==
    /\ faults \in FaultSets
    /\ handle = {}
    /\ ctl = [f \in Files |-> NoFd]
    /\ data = [f \in Files |-> NoFd]
    /\ offset = [f \in Files |-> 0]
    /\ size = [f \in Files |-> 0]
    /\ pend = [f \in Files |-> None]
    /\ sock = [d \in Fds |-> Free]
    /\ mutex = Nobody
    /\ refused = {}
    /\ fate = "running"

\* A handler of the mount can take session_mutex.
Idle == mutex = Nobody /\ fate = "running"

\* ftpfs_open returns -1 after UFTP_Connect2: nobody closes the control
\* connection c, or the data connection d that use "idle" or "sending" tells of.
Leaked(c, d, out) ==
    /\ sock' = IF out.use \in {"abort", "refused"}
               THEN [sock EXCEPT ![c] = Socket(Nobody, "ctl", 0)]
               ELSE [sock EXCEPT ![c] = Socket(Nobody, "ctl", 0),
                                 ![d] = Socket(Nobody, out.use, out.at)]
    /\ fate' = IF out.use = "abort" THEN "aborted" ELSE fate

LoginFailed ==
    /\ LoginFails
    /\ \E c \in FreeFds :
          sock' = [sock EXCEPT ![c] = Socket(Nobody, "ctl", 0)]
    /\ UNCHANGED fate

OpenFailed(p) ==
    \E c \in FreeFds : \E d \in NewFds(FreeFds \ {c}) :
        \E out \in OpenFileOutcomes(p, 0, d) : ~out.ok /\ Leaked(c, d, out)

\* ftpfs_open returns 0.
Opened(f, c, d, out) ==
    /\ ctl' = [ctl EXCEPT ![f] = c]
    /\ data' = [data EXCEPT ![f] = d]
    /\ pend' = [pend EXCEPT ![f] = out.pend]
    /\ sock' = [sock EXCEPT ![c] = Socket(f, "ctl", 0),
                            ![d] = Socket(f, out.use, out.at)]

OpenSucceeds(f, p) ==
    /\ \E c \in FreeFds : \E d \in FreeFds \ {c} :
       \E out \in OpenFileOutcomes(p, 0, d) :
          out.ok /\ Opened(f, c, d, out)
    /\ \E s \in Sizes : size' = [size EXCEPT ![f] = s]
    /\ offset' = [offset EXCEPT ![f] = 0]
    /\ handle' = handle \cup {f}
    /\ UNCHANGED fate

ftpfs_open(f) ==
    /\ Idle
    /\ f \notin handle
    /\ \/ LoginFailed /\ UNCHANGED <<handle, ctl, data, offset, size, pend>>
       \/ \E p \in LoggedIn \cup Stated(LoggedIn) :
             \/ OpenSucceeds(f, p)
             \/ OpenFailed(p) /\ UNCHANGED <<handle, ctl, data, offset, size, pend>>
    /\ UNCHANGED <<mutex, refused>>

(***************************************************************************)
(* ftpfs_read takes the mutex and, when there is no data connection,       *)
(* reopens the file at its offset.  The result of UFTP_OpenFile is not     *)
(* looked at.  "connected" is TRUE while the file is open, so the          *)
(* reconnection that ftpfs_read begins with is never taken.                *)
(***************************************************************************)
Reopen(f, d, out) ==
    /\ pend' = [pend EXCEPT ![f] = out.pend]
    /\ fate' = IF out.use = "abort" THEN "aborted" ELSE fate
    /\ data' = [data EXCEPT ![f] = IF out.use = "abort" THEN @ ELSE d]
    /\ refused' = IF out.use = "refused" /\ d # NoFd
                  THEN refused \cup {f} ELSE refused
    /\ sock' = IF out.use \in {"idle", "sending"}
               THEN [sock EXCEPT ![d] = Socket(f, out.use, out.at)]
               ELSE sock

ftpfs_read(f) ==
    /\ Idle
    /\ f \in handle
    /\ mutex' = f
    /\ \/ /\ data[f] # NoFd
          /\ UNCHANGED <<data, pend, sock, refused, fate>>
       \/ /\ data[f] = NoFd
          /\ \E d \in NewFds(FreeFds) :
                \E out \in OpenFileOutcomes(pend[f], offset[f], d) :
                    Reopen(f, d, out)
    /\ UNCHANGED <<handle, ctl, offset, size>>

(***************************************************************************)
(* The rest of ftpfs_read: the checks and read(2) on the data socket.  On  *)
(* a connection without a transfer ("idle") read(2) does not return while  *)
(* the server keeps it open.                                               *)
(***************************************************************************)
AtEnd(f) == offset[f] >= size[f]

Readable(f) ==
    {n \in 1 .. MaxRead : /\ n <= size[f] - offset[f]
                          /\ n <= Len - sock[data[f]].at}

Advance(f, n) ==
    /\ offset' = [offset EXCEPT ![f] = @ + n]
    /\ sock' = [sock EXCEPT ![data[f]].at = @ + n]
    /\ UNCHANGED fate

\* Mutant: a data connection the server closed is waited on.
ReadNothing_ignores_eof(f) ==
    /\ \/ AtEnd(f)
       \/ data[f] = NoFd
       \/ Sending(f) /\ Readable(f) = {}
    /\ UNCHANGED <<offset, sock, fate>>

ReadNothing(f) ==
    /\ \/ AtEnd(f)
       \/ data[f] = NoFd
       \/ data[f] # NoFd /\ ~Foreign(f) /\ sock[data[f]].use \in {"free", "eof"}
       \/ Sending(f) /\ Readable(f) = {}
    /\ UNCHANGED <<offset, sock, fate>>

\* The descriptor is somebody else's by now: their bytes, or their reply.
ReadForeign(f) ==
    /\ ~AtEnd(f)
    /\ Foreign(f)
    /\ fate' = "stole"
    /\ UNCHANGED <<offset, sock>>

ReadReturns(f) ==
    /\ fate = "running"
    /\ mutex = f
    /\ mutex' = Nobody
    /\ \/ ReadNothing(f)
       \/ ReadForeign(f)
       \/ /\ ~AtEnd(f)
          /\ Sending(f)
          /\ \E n \in Readable(f) : Advance(f, n)
    /\ UNCHANGED <<handle, ctl, data, size, pend, refused>>

(***************************************************************************)
(* Closing the data socket, in UFTP_AbortTransfer and UFTP_CloseServer:    *)
(* whatever the number names by now is closed.  The reply about the        *)
(* transfer is then read from the control connection.                      *)
(***************************************************************************)
DataClosed(f) ==
    IF data[f] = NoFd THEN sock ELSE [sock EXCEPT ![data[f]] = Free]

ClosesForeign(f) == fate' = IF Foreign(f) THEN "stole" ELSE fate

EndReply(f) ==
    IF Sending(f) /\ ~sock[data[f]].ended THEN "end" ELSE None

Reconciled(f) == refused' = IF Foreign(f) THEN refused ELSE refused \ {f}

\* Mutant: the number is kept after the socket is closed.
UFTP_AbortTransfer_keeps_number(f) ==
    /\ sock' = DataClosed(f)
    /\ ClosesForeign(f)
    /\ pend' = [pend EXCEPT ![f] = None]
    /\ Reconciled(f)
    /\ UNCHANGED data

\* Mutant: the number is forgotten and the socket stays open.
UFTP_AbortTransfer_leaks(f) ==
    /\ data' = [data EXCEPT ![f] = NoFd]
    /\ Reconciled(f)
    /\ UNCHANGED <<pend, sock, fate>>

\* Mutant: the reply about the transfer is left for the next command.
UFTP_AbortTransfer_reads_nothing(f) ==
    /\ sock' = DataClosed(f)
    /\ ClosesForeign(f)
    /\ pend' = IF EndReply(f) = None THEN pend ELSE [pend EXCEPT ![f] = EndReply(f)]
    /\ data' = [data EXCEPT ![f] = NoFd]
    /\ Reconciled(f)

UFTP_AbortTransfer(f) ==
    /\ sock' = DataClosed(f)
    /\ ClosesForeign(f)
    /\ \E left \in UFTP_ReadServerCommand(pend[f], EndReply(f)) :
          pend' = [pend EXCEPT ![f] = left]
    /\ data' = [data EXCEPT ![f] = NoFd]
    /\ Reconciled(f)

\* Mutant: a seek leaves the running transfer alone.
ftpfs_seek_without_abort(f) ==
    /\ Idle
    /\ f \in handle
    /\ \E o \in Seeks : offset' = [offset EXCEPT ![f] = o]
    /\ UNCHANGED <<handle, ctl, data, size, pend, sock, mutex, refused, fate>>

ftpfs_seek(f) ==
    /\ Idle
    /\ f \in handle
    /\ \E o \in Seeks : offset' = [offset EXCEPT ![f] = o]
    /\ IF data[f] > 0 THEN UFTP_AbortTransfer(f)
                      ELSE UNCHANGED <<data, pend, sock, refused, fate>>
    /\ UNCHANGED <<handle, ctl, size, mutex>>

\* ftpfs_close is UFTP_CloseServer: both sockets, and QUIT in between.
ftpfs_close(f) ==
    /\ Idle
    /\ f \in handle
    /\ ClosesForeign(f)
    /\ sock' = [DataClosed(f) EXCEPT ![ctl[f]] = Free]
    /\ data' = [data EXCEPT ![f] = NoFd]
    /\ ctl' = [ctl EXCEPT ![f] = NoFd]
    /\ pend' = [pend EXCEPT ![f] = None]
    /\ Reconciled(f)
    /\ handle' = handle \ {f}
    /\ UNCHANGED <<offset, size, mutex>>

(***************************************************************************)
(* The server.  ServerEnd: it has handed over the last byte of a transfer  *)
(* and says so.  Reset: a transfer breaks.  ServerDrop: it gives up on a   *)
(* data connection nothing was asked of.                                   *)
(***************************************************************************)
Post(f) ==
    pend' = IF pend[f] = None THEN [pend EXCEPT ![f] = "end"] ELSE pend

ServerEnd(f) ==
    /\ fate = "running"
    /\ Sending(f)
    /\ ~sock[data[f]].ended
    /\ sock' = [sock EXCEPT ![data[f]].ended = TRUE]
    /\ Post(f)
    /\ UNCHANGED <<handle, ctl, data, offset, size, mutex, refused, fate>>

Reset(f) ==
    /\ "reset" \in faults
    /\ fate = "running"
    /\ Sending(f)
    /\ sock' = [sock EXCEPT ![data[f]] = Socket(f, "eof", 0)]
    /\ IF sock[data[f]].ended THEN UNCHANGED pend ELSE Post(f)
    /\ UNCHANGED <<handle, ctl, data, offset, size, mutex, refused, fate>>

ServerDrop(f) ==
    /\ fate = "running"
    /\ OwnData(f)
    /\ sock[data[f]].use = "idle"
    /\ sock' = [sock EXCEPT ![data[f]] = Socket(f, "eof", 0)]
    /\ UNCHANGED <<handle, ctl, data, offset, size, pend, mutex, refused, fate>>

Step ==
    \E f \in Files :
        \/ ftpfs_open(f)
        \/ ftpfs_read(f)
        \/ ReadReturns(f)
        \/ ftpfs_seek(f)
        \/ ftpfs_close(f)
        \/ ServerEnd(f)
        \/ Reset(f)
        \/ ServerDrop(f)

Next == Step /\ UNCHANGED faults

\* A read that can go on does, and a server does not keep an unused data
\* connection for ever: FTP servers close one that is idle too long.
Fairness ==
    \A f \in Files :
        /\ WF_vars(ReadReturns(f) /\ UNCHANGED faults)
        /\ WF_vars(ServerDrop(f) /\ UNCHANGED faults)

Spec == Init /\ [][Next]_vars

FairSpec == Spec /\ Fairness

-----------------------------------------------------------------------------
\* Every variable keeps to its type; a descriptor held by an open file is
\* one of the process.
TypeOK ==
    /\ faults \in FaultSets
    /\ handle \in SUBSET Files
    /\ ctl \in [Files -> Fds \cup {NoFd}]
    /\ data \in [Files -> Fds \cup {NoFd}]
    /\ offset \in [Files -> Int]
    /\ size \in [Files -> Nat]
    /\ pend \in [Files -> Replies]
    /\ sock \in [Fds -> Sockets]
    /\ mutex \in Files \cup {Nobody}
    /\ refused \in SUBSET Files
    /\ fate \in {"running", "stole", "aborted"}

\* The next byte the data connection of an open file delivers is the byte at
\* the file's offset (ftpfs_read relies on it: it never looks at a position),
\* however seeks, broken transfers and late replies were interleaved.  The
\* int parameter of UFTP_OpenFile limits this to offsets below 2^32; above,
\* the stream is a whole number of 2^32 bytes behind.
StreamPosition ==
    \A f \in handle :
        Sending(f) =>
            /\ (offset[f] - sock[data[f]].at) % (2 * Half) = 0
            /\ offset[f] < 2 * Half => sock[data[f]].at = offset[f]

\* The connections of the open files and the live sockets that belong to
\* files correspond exactly: an open file has its own control connection
\* until its close, and ftpfs_seek, the reopening in ftpfs_read and
\* ftpfs_close leave no socket behind (a failed ftpfs_open does: those are
\* Nobody's).
SocketsHeld ==
    fate # "stole" =>
        /\ \A f \in handle : /\ ctl[f] # NoFd
                             /\ sock[ctl[f]].use = "ctl"
                             /\ sock[ctl[f]].owner = f
        /\ \A d \in Fds : sock[d].owner # Nobody =>
               /\ sock[d].owner \in handle
               /\ d \in {ctl[sock[d].owner], data[sock[d].owner]}

\* A file's data_socket names a socket that is not the file's only after the
\* server refused to reopen it: UFTP_OpenPortEPSV closes the descriptor and
\* leaves its number behind.  So only then can a read or a seek touch the
\* connection of another file.  And the process only dies in parse_epsv where
\* EPSV can be left without any reply: one is later than the second
\* ftp_net_read waits, or the server has closed the control connection, which
\* ftpfs_read never opens again.  Stale replies, error replies, refused and
\* broken data connections never get it there.
FateExplained ==
    /\ fate = "stole" => refused # {}
    /\ fate = "aborted" => faults \cap {"late", "hangup"} # {}
    /\ fate # "stole" =>
          \A f \in handle \ refused : data[f] # NoFd => OwnData(f)

\* While replies are in time and none is a refusal, a read inside the file
\* delivers something, wherever seeks interrupted the dialogue before: it
\* reports the end of the file too early only when its transfer broke, or
\* the process had no descriptor left.
EndOnlyAtEnd ==
    [][\A f \in Files :
         (/\ faults \subseteq {"reset"}
          /\ mutex = f /\ mutex' = Nobody
          /\ offset[f] >= 0 /\ offset[f] < size[f] /\ offset[f] < Len /\ offset[f] < Half)
         => \/ offset'[f] > offset[f]
            \/ data[f] = NoFd
            \/ "reset" \in faults /\ sock[data[f]].use = "eof"]_vars

\* A read that holds session_mutex returns, so that no call on the mount
\* waits for ever, even when it waits on a data connection without transfer.
MutexReleased ==
    (mutex # Nobody /\ fate = "running") ~> (mutex = Nobody)
=============================================================================
