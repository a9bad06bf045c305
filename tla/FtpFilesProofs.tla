--------------------------- MODULE FtpFilesProofs ---------------------------
(***************************************************************************)
(* Proofs about FtpFiles, for any number of files and descriptors, any     *)
(* file length, any read buffer and any combination of faults: the type    *)
(* invariant; that the data connection of an open file stands at the       *)
(* file's offset (StreamPosition); that sockets and open files correspond  *)
(* (SocketsHeld); that what can end the process or cross two files is      *)
(* explained (FateExplained); and that a read that returns nothing is at   *)
(* the end of the file or follows a failure (EndOnlyAtEnd).                *)
(***************************************************************************)
EXTENDS FtpFiles, TLAPS

USE FtpFilesAssumption

-----------------------------------------------------------------------------
(***************************************************************************)
(* The operators.                                                          *)
(***************************************************************************)

\* ftp_net_read: what a read gets and what it leaves are of those that were
\* there, and a connection that was closed gives nothing.
LEMMA NetRead ==
    ASSUME NEW p \in Replies, NEW r \in Codes \cup {None},
           NEW read \in ftp_net_read(p, r)
    PROVE  /\ read.got \in {p, r, None} \ {Gone}
           /\ read.left \in {None, r, Gone}
           /\ p = Gone => read.got = None
           /\ p = None => \/ read.got = r /\ read.left = None
                          \/ read.got = None /\ faults \cap {"late", "hangup"} # {}
           /\ p # None /\ p # Gone => read.got = p
           /\ read.left = Gone => p = Gone \/ "hangup" \in faults
<1> DEFINE Read(got, left) == [got |-> got, left |-> left]
<1>1. Gone \notin Codes /\ Gone # None
    BY DEF Gone, None, Codes
<1>2. CASE p = Gone
  <2>1. read = Read(None, Gone)
      BY <1>2 DEF ftp_net_read
  <2> QED
      BY <1>1, <1>2, <2>1
<1>3. CASE p # Gone
  <2>1. \/ read = Read(IF p = None THEN r ELSE p, None)
        \/ (p # None \/ "late" \in faults) /\ read = Read(p, r)
        \/ "hangup" \in faults /\ read = Read(p, Gone)
      BY <1>3 DEF ftp_net_read
  <2>2. r # Gone
      BY <1>1
  <2>3. CASE read = Read(IF p = None THEN r ELSE p, None)
    <3>1. read.got = (IF p = None THEN r ELSE p) /\ read.left = None
        BY <2>3
    <3> QED
        BY <1>1, <1>3, <2>2, <3>1
  <2>4. CASE (p # None \/ "late" \in faults) /\ read = Read(p, r)
    <3>1. read.got = p /\ read.left = r
        BY <2>4
    <3> QED
        BY <1>1, <1>3, <2>2, <2>4, <3>1
  <2>5. CASE "hangup" \in faults /\ read = Read(p, Gone)
    <3>1. read.got = p /\ read.left = Gone
        BY <2>5
    <3> QED
        BY <1>1, <1>3, <2>5, <3>1
  <2> QED
      BY <2>1, <2>3, <2>4, <2>5
<1> QED
    BY <1>2, <1>3

\* UFTP_SendCommand: one command is one read for its own reply, which is the
\* code hoped for only when the server can carry the command out.
LEMMA SendCommand ==
    ASSUME NEW p \in Replies, NEW good \in Codes, NEW can \in BOOLEAN,
           NEW a \in UFTP_SendCommand(p, good, can)
    PROVE  \E r \in {good, "err"} : \E read \in ftp_net_read(p, r) :
               /\ IF r = good THEN can /\ p # Gone
                  ELSE ~can \/ p = Gone \/ faults \cap {"reject", "hangup"} # {}
               /\ a = [code |-> read.got, pend |-> read.left, done |-> r = good]
    BY DEF UFTP_SendCommand

\* One command yields a code or none, leaves one reply, none or a connection
\* that is closed, and is answered in step (the expected code, nothing left,
\* the command carried out) whenever nothing was unread before.
LEMMA SendCommandType ==
    ASSUME NEW p \in Replies, NEW good \in Codes, NEW can \in BOOLEAN,
           NEW a \in UFTP_SendCommand(p, good, can)
    PROVE  /\ a.code \in Codes \cup {None}
           /\ a.pend \in Replies
           /\ a.done \in BOOLEAN
           /\ p = None /\ a.code = good /\ good # "err"
                  => a.pend = None /\ a.done /\ can
           /\ a.pend = Gone => p = Gone \/ "hangup" \in faults
<1>1. PICK r \in {good, "err"} : \E read \in ftp_net_read(p, r) :
          /\ r = good => can
          /\ a = [code |-> read.got, pend |-> read.left, done |-> r = good]
    BY SendCommand
<1>2. PICK read \in ftp_net_read(p, r) :
          a = [code |-> read.got, pend |-> read.left, done |-> r = good]
    BY <1>1
<1>3. r \in Codes /\ None \notin Codes
    BY DEF Codes, None
<1>4. /\ read.got \in {p, r, None} \ {Gone}
      /\ read.left \in {None, r, Gone}
      /\ p = None => (read.got = r /\ read.left = None) \/ read.got = None
      /\ read.left = Gone => p = Gone \/ "hangup" \in faults
    BY <1>3, NetRead
<1> QED
    BY <1>1, <1>2, <1>3, <1>4 DEF Replies

\* A command sent in step: its own reply is in step again when it is the one
\* that was hoped for.
LEMMA SendInStep ==
    ASSUME NEW P \in SUBSET {None}, NEW good \in Codes \ {"err"},
           NEW can \in BOOLEAN
    PROVE  /\ Passed(Send(P, good, can), good) \subseteq {None}
           /\ \A a \in Send(P, good, can) :
                 /\ a.pend \in Replies
                 /\ a.pend = Gone => "hangup" \in faults
                 /\ a.done \in BOOLEAN
                 /\ a.code = good => can /\ a.done
<1>1. ASSUME NEW a \in Send(P, good, can)
      PROVE  /\ a.pend \in Replies
             /\ a.pend = Gone => "hangup" \in faults
             /\ a.done \in BOOLEAN
             /\ a.code = good => can /\ a.done /\ a.pend = None
  <2>1. a \in UFTP_SendCommand(None, good, can) /\ None \in Replies
      BY <1>1 DEF Send, Replies
  <2>2. None # Gone
      BY DEF None, Gone
  <2> QED
      BY <2>1, <2>2, SendCommandType
<1> QED
    BY <1>1 DEF Passed

\* The int argument of UFTP_OpenFile is the offset up to a multiple of 2^32,
\* and the offset itself when that is an int.
LEMMA ToIntProperty ==
    ASSUME NEW o \in Int
    PROVE  /\ ToInt(o) \in -Half .. Half - 1
           /\ (o - ToInt(o)) % (2 * Half) = 0
           /\ o \in -Half .. Half - 1 => ToInt(o) = o
<1> DEFINE M == 2 * Half
           r == (o + Half) % M
           q == (o + Half) \div M
<1>1. M \in Nat \ {0}
    OBVIOUS
<1>2. o + Half \in Int
    OBVIOUS
<1>3. r \in 0 .. M - 1 /\ q \in Int /\ o + Half = M * q + r
    BY <1>1, <1>2
<1> HIDE DEF M, r, q
<1>4. ToInt(o) = r - Half
    BY DEF ToInt, r, M
<1>5. ToInt(o) \in -Half .. Half - 1
    BY <1>3, <1>4 DEF M
<1>6. o - ToInt(o) = q * M
    BY <1>1, <1>3, <1>4
<1>7. (q * M) % M = 0
    BY <1>1, <1>3
<1>8. ASSUME o \in -Half .. Half - 1 PROVE ToInt(o) = o
  <2>1. o + Half \in 0 .. M - 1
      BY <1>8 DEF M
  <2>2. r = o + Half
      BY <2>1, <1>1 DEF r
  <2> QED
      BY <1>4, <2>2
<1> QED
    BY <1>5, <1>6, <1>7, <1>8 DEF M

\* UFTP_OpenFile: whatever was unread before, a transfer that is started
\* starts at the offset asked for, as an int; 0 is only returned with one.
LEMMA OpenFileOutcome ==
    ASSUME NEW p \in Replies, NEW o \in Int, NEW d \in Fds \cup {NoFd},
           NEW out \in OpenFileOutcomes(p, o, d)
    PROVE  /\ out.use \in {"abort", "refused", "idle", "sending"}
           /\ out.at \in Nat
           /\ out.pend \in Replies
           /\ out.pend = Gone => p = Gone \/ "hangup" \in faults
           /\ out.use = "sending" => out.at = ToInt(o)
           /\ out.ok => out.use = "sending"
           /\ d = NoFd => out.use \in {"abort", "refused"}
<1> DEFINE Outcome(use, at, left, ok) ==
               [use |-> use, at |-> at, pend |-> left, ok |-> ok]
           epsv == UFTP_SendCommand(p, "229", TRUE)
           port == {a.pend : a \in {b \in epsv :
                            p = None /\ b.code = "229" /\ d # NoFd}}
           type == Send(port, "200", TRUE)
           can  == ToInt(o) >= 0
           rest == Send(Passed(type, "200"), "350", can)
           retr == Send(Passed(rest, "350"), "150", TRUE)
<1>1. \A a \in epsv : /\ a.code \in Replies
                      /\ a.pend \in Replies
                      /\ a.pend = Gone => p = Gone \/ "hangup" \in faults
                      /\ p = None /\ a.code = "229" => a.pend = None
  <2>1. "229" \in Codes /\ "229" # "err"
      BY DEF Codes
  <2>2. ASSUME NEW a \in UFTP_SendCommand(p, "229", TRUE)
        PROVE  /\ a.code \in Codes \cup {None} /\ a.pend \in Replies
               /\ a.pend = Gone => p = Gone \/ "hangup" \in faults
               /\ p = None /\ a.code = "229" => a.pend = None
    <3>1. TRUE \in BOOLEAN
        OBVIOUS
    <3> QED
        BY <2>1, <3>1, SendCommandType
  <2>3. Codes \cup {None} \subseteq Replies
      BY DEF Replies
  <2> QED
      BY <2>2, <2>3
<1>2. port \in SUBSET {None}
    BY <1>1
<1>3. {"200", "350", "150"} \subseteq Codes \ {"err"} /\ can \in BOOLEAN
    BY DEF Codes
<1> HIDE DEF epsv, port, can
<1>4. /\ Passed(type, "200") \in SUBSET {None}
      /\ \A a \in type : a.pend \in Replies /\ (a.pend = Gone => "hangup" \in faults)
    BY <1>2, <1>3, SendInStep
<1> HIDE DEF type
<1>5. /\ Passed(rest, "350") \in SUBSET {None}
      /\ \A a \in rest : /\ a.pend \in Replies
                         /\ a.pend = Gone => "hangup" \in faults
                         /\ a.code = "350" => can
    BY <1>4, <1>3, SendInStep
<1> HIDE DEF rest
<1>6. \A a \in retr : /\ a.pend \in Replies
                      /\ a.pend = Gone => "hangup" \in faults
                      /\ a.done \in BOOLEAN
                      /\ a.code = "150" => a.done
    BY <1>5, <1>3, SendInStep
<1>7. retr # {} => can
  <2>1. retr # {} => \E a \in rest : a.code = "350"
      BY DEF Passed, Send
  <2> QED
      BY <1>5, <2>1
<1>8. /\ retr # {} => rest # {}
      /\ rest # {} => type # {}
      /\ type # {} => d # NoFd
  <2>1. \A P, good, c : Send(P, good, c) # {} => P # {}
      BY DEF Send
  <2>2. \A A, good : Passed(A, good) # {} => A # {}
      BY DEF Passed
  <2>3. port # {} => d # NoFd
      BY DEF port
  <2> QED
      BY <2>1, <2>2, <2>3 DEF type, rest
<1>9. retr # {} => ToInt(o) \in Nat
  <2> DEFINE i == ToInt(o)
  <2>1. i \in -Half .. Half - 1
      BY ToIntProperty
  <2> HIDE DEF i
  <2>2. i >= 0 => i \in Nat
      BY <2>1
  <2> QED
      BY <1>7, <2>2 DEF can, i
<1>10. \/ \E a \in epsv : out = Outcome("abort", 0, a.pend, FALSE)
       \/ \E a \in epsv : out = Outcome("refused", 0, a.pend, FALSE)
       \/ \E a \in type \cup rest : out = Outcome("idle", 0, a.pend, FALSE)
       \/ \E a \in retr : out = Outcome(IF a.done THEN "sending" ELSE "idle",
                                        IF a.done THEN ToInt(o) ELSE 0,
                                        a.pend, a.code = "150")
    BY DEF OpenFileOutcomes, Failed, epsv, port, type, can, rest
<1> HIDE DEF retr
<1>11. CASE \E a \in epsv : \/ out = Outcome("abort", 0, a.pend, FALSE)
                            \/ out = Outcome("refused", 0, a.pend, FALSE)
  <2>1. PICK a \in epsv : out.use \in {"abort", "refused"} /\ out.at = 0
                          /\ out.pend = a.pend /\ out.ok = FALSE
      BY <1>11
  <2>2. a.pend \in Replies /\ (a.pend = Gone => p = Gone \/ "hangup" \in faults)
      BY <1>1
  <2> QED
      BY <2>1, <2>2
<1>12. CASE \E a \in type \cup rest : out = Outcome("idle", 0, a.pend, FALSE)
  <2>1. PICK a \in type \cup rest : /\ out.use = "idle" /\ out.at = 0
                                    /\ out.pend = a.pend /\ out.ok = FALSE
      BY <1>12
  <2>2. d # NoFd
      BY <1>8, <2>1, Zenon
  <2>3. a.pend \in Replies /\ (a.pend = Gone => "hangup" \in faults)
      BY <1>4, <1>5, <2>1
  <2> QED
      BY <2>1, <2>2, <2>3
<1>13. CASE \E a \in retr :
               out = Outcome(IF a.done THEN "sending" ELSE "idle",
                             IF a.done THEN ToInt(o) ELSE 0,
                             a.pend, a.code = "150")
  <2>1. PICK a \in retr : /\ out.use = (IF a.done THEN "sending" ELSE "idle")
                          /\ out.at = (IF a.done THEN ToInt(o) ELSE 0)
                          /\ out.pend = a.pend
                          /\ out.ok = (a.code = "150")
      BY <1>13
  <2>2. /\ a.pend \in Replies
        /\ a.pend = Gone => "hangup" \in faults
        /\ a.done \in BOOLEAN
        /\ a.code = "150" => a.done
      BY <1>6
  <2>3. d # NoFd
      BY <1>8, <2>1
  <2>4. ToInt(o) \in Nat
      BY <1>9, <2>1
  <2> QED
      BY <2>1, <2>2, <2>3, <2>4
<1> QED
    BY <1>10, <1>11, <1>12, <1>13

\* Reading a reply leaves a reply or none, or a connection the server closed.
LEMMA ReadServerCommandType ==
    ASSUME NEW p \in Replies, NEW reply \in Codes \cup {None},
           NEW left \in UFTP_ReadServerCommand(p, reply)
    PROVE  /\ left \in {None, reply, Gone}
           /\ left \in Replies
           /\ left = Gone => p = Gone \/ "hangup" \in faults
<1>1. PICK read \in ftp_net_read(p, reply) : left = read.left
    BY DEF UFTP_ReadServerCommand
<1>2. /\ read.left \in {None, reply, Gone}
      /\ read.left = Gone => p = Gone \/ "hangup" \in faults
    BY NetRead
<1> QED
    BY <1>1, <1>2 DEF Replies

\* What UFTP_STATFile leaves unread is a reply or none, or the server has closed
\* the connection.
Unread == {p \in Replies : p = Gone => "hangup" \in faults}

LEMMA LoginType == LoggedIn \cup Stated(LoggedIn) \subseteq Unread
<1>1. ASSUME NEW P, P \subseteq Unread,
             NEW good \in Codes, NEW a \in Send(P, good, TRUE)
      PROVE  a.pend \in Unread
  <2>1. PICK p \in P : a \in UFTP_SendCommand(p, good, TRUE)
      BY <1>1 DEF Send
  <2>2. p \in Replies /\ (p = Gone => "hangup" \in faults) /\ TRUE \in BOOLEAN
      BY <1>1 DEF Unread
  <2>3. a.pend \in Replies /\ (a.pend = Gone => p = Gone \/ "hangup" \in faults)
      BY <1>1, <2>1, <2>2, SendCommandType
  <2> QED
      BY <2>2, <2>3 DEF Unread
<1>2. ASSUME NEW P, P \subseteq Unread, NEW good \in Codes
      PROVE  Passed(Send(P, good, TRUE), good) \subseteq Unread
    BY <1>1, <1>2 DEF Passed
<1>3. {"220", "331", "230", "213"} \subseteq Codes
    BY DEF Codes
<1>4. UFTP_ReadServerCommand(None, "220") \subseteq Unread
  <2>1. None \in Replies /\ None # Gone
      BY DEF Replies, None, Gone
  <2> QED
      BY <1>3, <2>1, ReadServerCommandType DEF Unread
<1>5. LoggedIn \subseteq Unread
    BY <1>2, <1>3, <1>4 DEF LoggedIn
<1>6. Passed(Send(LoggedIn, "213", TRUE), "213") \subseteq Unread
    BY <1>2, <1>3, <1>5
<1>7. Stated(LoggedIn) \subseteq Unread
    BY <1>1, <1>3, <1>6 DEF Stated
<1> QED
    BY <1>5, <1>7

\* A socket that is made is of the type of sockets.
LEMMA SocketType ==
    /\ Free \in Sockets
    /\ \A f \in Files \cup {Nobody}, use \in Uses, at \in Nat :
          Socket(f, use, at) \in Sockets
    BY DEF Free, Socket, Sockets, Uses

-----------------------------------------------------------------------------
(***************************************************************************)
(* Type correctness.                                                       *)
(***************************************************************************)
LEMMA InitTypeOK == Init => TypeOK
    BY SocketType DEF Init, TypeOK, Replies

\* Every step keeps the types.
LEMMA NextTypeOK == TypeOK /\ [Next]_vars => TypeOK'
<1> SUFFICES ASSUME TypeOK, [Next]_vars
             PROVE  TypeOK'
    OBVIOUS
<1>0. faults' = faults
    BY DEF Next, vars
<1> USE <1>0 DEF TypeOK
<1>1. ASSUME NEW f \in Files, ftpfs_open(f)
      PROVE  TypeOK'
  <2>1. CASE LoginFailed /\ UNCHANGED <<handle, ctl, data, offset, size, pend>>
    <3>1. Socket(Nobody, "ctl", 0) \in Sockets
        BY SocketType DEF Uses
    <3>2. sock' \in [Fds -> Sockets]
        BY <2>1, <3>1 DEF LoginFailed, FreeFds
    <3> QED
        BY <1>1, <2>1, <3>2 DEF ftpfs_open, LoginFailed
  <2>2. ASSUME NEW p \in LoggedIn \cup Stated(LoggedIn), OpenSucceeds(f, p)
        PROVE  TypeOK'
    <3>1. PICK c \in FreeFds, d \in FreeFds : 
              \E out \in OpenFileOutcomes(p, 0, d) : Opened(f, c, d, out) /\ out.ok
        BY <2>2 DEF OpenSucceeds
    <3>2. PICK out \in OpenFileOutcomes(p, 0, d) : Opened(f, c, d, out) /\ out.ok
        BY <3>1
    <3>3. c \in Fds /\ d \in Fds
        BY DEF FreeFds
    <3>4. out.at \in Nat /\ out.pend \in Replies /\ out.use \in Uses
        BY <3>2, <3>3, LoginType, OpenFileOutcome DEF Uses, Unread
    <3>5. /\ Socket(f, "ctl", 0) \in Sockets
          /\ Socket(f, out.use, out.at) \in Sockets
        BY <3>4, SocketType DEF Uses
    <3> QED
        BY <1>1, <2>2, <3>2, <3>3, <3>4, <3>5
        DEF ftpfs_open, OpenSucceeds, Opened
  <2>3. ASSUME NEW p \in LoggedIn \cup Stated(LoggedIn), OpenFailed(p),
               UNCHANGED <<handle, ctl, data, offset, size, pend>>
        PROVE  TypeOK'
    <3>1. PICK c \in FreeFds : \E d \in NewFds(FreeFds \ {c}) :
              \E out \in OpenFileOutcomes(p, 0, d) : Leaked(c, d, out)
        BY <2>3 DEF OpenFailed
    <3>2. PICK d \in NewFds(FreeFds \ {c}) :
              \E out \in OpenFileOutcomes(p, 0, d) : Leaked(c, d, out)
        BY <3>1
    <3>3. PICK out \in OpenFileOutcomes(p, 0, d) : Leaked(c, d, out)
        BY <3>2
    <3>4. c \in Fds /\ d \in Fds \cup {NoFd}
        BY DEF FreeFds, NewFds
    <3>5. /\ out.at \in Nat
          /\ out.use \in {"abort", "refused", "idle", "sending"}
        BY <3>4, LoginType, OpenFileOutcome DEF Unread
    <3>6. Socket(Nobody, "ctl", 0) \in Sockets
        BY SocketType DEF Uses
    <3>7. out.use \in {"idle", "sending"} =>
              Socket(Nobody, out.use, out.at) \in Sockets
        BY <3>5, SocketType DEF Uses
    <3>8. sock' \in [Fds -> Sockets] /\ fate' \in {"running", "stole", "aborted"}
        BY <3>3, <3>4, <3>5, <3>6, <3>7 DEF Leaked
    <3> QED
        BY <1>1, <2>3, <3>8 DEF ftpfs_open
  <2> QED
      BY <1>1, <2>1, <2>2, <2>3 DEF ftpfs_open
<1>2. ASSUME NEW f \in Files, ftpfs_read(f)
      PROVE  TypeOK'
  <2>1. CASE data[f] # NoFd
      BY <1>2, <2>1 DEF ftpfs_read
  <2>2. CASE data[f] = NoFd
    <3>1. PICK d \in NewFds(FreeFds) :
              \E out \in OpenFileOutcomes(pend[f], offset[f], d) :
                  Reopen(f, d, out)
        BY <1>2, <2>2 DEF ftpfs_read
    <3>2. PICK out \in OpenFileOutcomes(pend[f], offset[f], d) :
              Reopen(f, d, out)
        BY <3>1
    <3>3. d \in Fds \cup {NoFd} /\ pend[f] \in Replies /\ offset[f] \in Int
        BY DEF FreeFds, NewFds
    <3>4. /\ out.at \in Nat
          /\ out.pend \in Replies
          /\ out.use \in {"abort", "refused", "idle", "sending"}
          /\ d = NoFd => out.use \in {"abort", "refused"}
        BY <3>3, OpenFileOutcome
    <3>5. out.use \in {"idle", "sending"} =>
              d \in Fds /\ Socket(f, out.use, out.at) \in Sockets
        BY <3>3, <3>4, SocketType DEF Uses
    <3>6. sock' \in [Fds -> Sockets]
        BY <3>2, <3>5 DEF Reopen
    <3> QED
        BY <1>2, <3>2, <3>3, <3>4, <3>6 DEF ftpfs_read, Reopen
  <2> QED
      BY <2>1, <2>2
<1>3. ASSUME NEW f \in Files, ReadReturns(f)
      PROVE  TypeOK'
  <2>1. CASE ReadNothing(f) \/ ReadForeign(f)
      BY <1>3, <2>1 DEF ReadReturns, ReadNothing, ReadForeign
  <2>2. ASSUME Sending(f), NEW n \in Readable(f), Advance(f, n)
        PROVE  TypeOK'
    <3>1. data[f] \in Fds /\ n \in Nat
        BY <2>2 DEF Sending, OwnData, Readable
    <3>2. [sock[data[f]] EXCEPT !.at = @ + n] \in Sockets
        BY <3>1 DEF Sockets
    <3>3. sock' \in [Fds -> Sockets]
        BY <2>2, <3>1, <3>2 DEF Advance
    <3> QED
        BY <1>3, <2>2, <3>1, <3>3 DEF ReadReturns, Advance
  <2> QED
      BY <1>3, <2>1, <2>2 DEF ReadReturns
<1>4. ASSUME NEW f \in Files PROVE DataClosed(f) \in [Fds -> Sockets]
    BY SocketType DEF DataClosed
<1>5. ASSUME NEW f \in Files, ftpfs_seek(f)
      PROVE  TypeOK'
  <2>1. offset' \in [Files -> Int]
      BY <1>5 DEF ftpfs_seek
  <2>2. CASE UFTP_AbortTransfer(f)
    <3>1. pend' \in [Files -> Replies]
        BY <2>2, ReadServerCommandType
        DEF UFTP_AbortTransfer, EndReply, Replies, Codes
    <3> QED
        BY <1>5, <2>1, <2>2, <3>1, <1>4
        DEF ftpfs_seek, UFTP_AbortTransfer, ClosesForeign, Reconciled
  <2>3. CASE UNCHANGED <<data, pend, sock, refused, fate>>
      BY <1>5, <2>1, <2>3 DEF ftpfs_seek
  <2> QED
      BY <1>5, <2>2, <2>3 DEF ftpfs_seek
<1>6. ASSUME NEW f \in Files, ftpfs_close(f)
      PROVE  TypeOK'
    BY <1>4, <1>6, SocketType DEF ftpfs_close, ClosesForeign, Reconciled, Replies
<1>7. ASSUME NEW f \in Files, ServerEnd(f)
      PROVE  TypeOK'
  <2>1. data[f] \in Fds
      BY <1>7 DEF ServerEnd, Sending, OwnData
  <2>2. [sock[data[f]] EXCEPT !.ended = TRUE] \in Sockets
      BY <2>1 DEF Sockets
  <2>3. sock' \in [Fds -> Sockets]
      BY <1>7, <2>1, <2>2 DEF ServerEnd
  <2> QED
      BY <1>7, <2>3 DEF ServerEnd, Post, Replies, Codes
<1>8. ASSUME NEW f \in Files, Reset(f) \/ ServerDrop(f)
      PROVE  TypeOK'
  <2>1. Socket(f, "eof", 0) \in Sockets
      BY SocketType DEF Uses
  <2> QED
      BY <1>8, <2>1 DEF Reset, ServerDrop, Post, Replies, Codes
<1>9. CASE UNCHANGED vars
    BY <1>9 DEF vars
<1> QED
    BY <1>1, <1>2, <1>3, <1>5, <1>6, <1>7, <1>8, <1>9 DEF Next, Step

\* Type correctness of FtpFiles: every descriptor an open file keeps is one of
\* the process, and no transfer ever starts before the start of the file.
THEOREM TypeCorrect == Spec => []TypeOK
<1>1. TypeOK /\ [Next]_vars => TypeOK'
    BY NextTypeOK
<1> QED
    BY InitTypeOK, <1>1, PTL DEF Spec

-----------------------------------------------------------------------------
(***************************************************************************)
(* StreamPosition.  The invariant is inductive together with TypeOK: a     *)
(* socket belongs to one file (its owner), so a step of one file moves the *)
(* stream of no other, and what a step of the file does to its offset it   *)
(* does to its stream, or it gives the stream up.                          *)
(***************************************************************************)
InPosition(f) ==
    Sending(f) =>
        /\ (offset[f] - sock[data[f]].at) % (2 * Half) = 0
        /\ offset[f] < 2 * Half => sock[data[f]].at = offset[f]

IInv ==
    /\ TypeOK
    /\ \A f \in Files : offset[f] >= -Half
    /\ \A f \in Files : InPosition(f)

\* A transfer that starts at the int form of an offset is in position.
LEMMA StartInPosition ==
    ASSUME NEW o \in Int, NEW at \in Nat, at = ToInt(o), o >= -Half
    PROVE  /\ (o - at) % (2 * Half) = 0
           /\ o < 2 * Half => at = o
<1>1. (o - at) % (2 * Half) = 0
    BY ToIntProperty
<1>2. ASSUME o < 2 * Half PROVE at = o
  <2>1. at < Half
      BY ToIntProperty
  <2> DEFINE M == 2 * Half
             e == o - at
  <2>2. M \in Nat \ {0} /\ e \in Int /\ e % M = 0
      BY <1>1
  <2>3. e < M /\ -M < e
      BY <1>2, <2>1
  <2> HIDE DEF M, e
  <2>4. e = 0
      BY <2>2, <2>3
  <2> QED
      BY <2>4 DEF e
<1> QED
    BY <1>1, <1>2

\* A file whose own connection and offset a step leaves alone stays in
\* position.
LEMMA Untouched ==
    ASSUME NEW g \in Files, InPosition(g), TypeOK,
           offset'[g] = offset[g], data'[g] = data[g],
           OwnData(g)' => sock'[data[g]] = sock[data[g]]
    PROVE  InPosition(g)'
    BY DEF InPosition, Sending, OwnData

\* A descriptor that a step gives to nobody, or to another file, is no longer
\* the file's own.
LEMMA Released ==
    ASSUME NEW g \in Files, InPosition(g), TypeOK,
           offset'[g] = offset[g], data'[g] = data[g],
           \/ data[g] \notin Fds
           \/ sock'[data[g]] = sock[data[g]]
           \/ sock'[data[g]].owner # g
    PROVE  InPosition(g)'
    BY DEF InPosition, Sending, OwnData, TypeOK

\* The invariant holds at first.
LEMMA InitIInv == Init => IInv
<1> SUFFICES ASSUME Init PROVE IInv
    OBVIOUS
<1>1. TypeOK
    BY InitTypeOK
<1>2. \A f \in Files : ~Sending(f)
    BY DEF Init, Sending, OwnData
<1>3. \A f \in Files : offset[f] = 0
    BY DEF Init
<1>4. 0 >= -Half
    OBVIOUS
<1> QED
    BY <1>1, <1>2, <1>3, <1>4 DEF IInv, InPosition

\* Every step keeps it.
LEMMA NextIInv == IInv /\ [Next]_vars => IInv'
<1> SUFFICES ASSUME IInv, [Next]_vars
             PROVE  IInv'
    OBVIOUS
<1>1. TypeOK /\ TypeOK'
    BY NextTypeOK DEF IInv
<1>2. \A f \in Files : InPosition(f) /\ offset[f] >= -Half
    BY DEF IInv
<1>3. SUFFICES ASSUME NEW g \in Files
               PROVE  InPosition(g)' /\ offset'[g] >= -Half
    BY <1>1 DEF IInv
<1>4. ASSUME NEW f \in Files, ftpfs_open(f)
      PROVE  InPosition(g)' /\ offset'[g] >= -Half
  <2>1. CASE LoginFailed /\ UNCHANGED <<handle, ctl, data, offset, size, pend>>
    <3>1. PICK c \in FreeFds :
              sock' = [sock EXCEPT ![c] = Socket(Nobody, "ctl", 0)]
        BY <2>1 DEF LoginFailed
    <3>2. sock'[c].owner # g
        BY <1>1, <3>1 DEF Socket, FreeFds, TypeOK
    <3> QED
        BY <1>1, <1>2, <2>1, <3>1, <3>2, Released DEF TypeOK
  <2>2. ASSUME NEW p \in LoggedIn \cup Stated(LoggedIn), OpenSucceeds(f, p)
        PROVE  InPosition(g)' /\ offset'[g] >= -Half
    <3>1. PICK c \in FreeFds : \E d \in FreeFds \ {c} :
              \E out \in OpenFileOutcomes(p, 0, d) : out.ok /\ Opened(f, c, d, out)
        BY <2>2 DEF OpenSucceeds
    <3>2. PICK d \in FreeFds \ {c} :
              \E out \in OpenFileOutcomes(p, 0, d) : out.ok /\ Opened(f, c, d, out)
        BY <3>1
    <3>3. PICK out \in OpenFileOutcomes(p, 0, d) : out.ok /\ Opened(f, c, d, out)
        BY <3>2
    <3>4. c \in Fds /\ d \in Fds /\ c # d
        BY DEF FreeFds
    <3>5. out.at \in Nat /\ out.use = "sending" /\ out.at = ToInt(0)
        BY <3>3, <3>4, LoginType, OpenFileOutcome DEF Unread
    <3>6. /\ sock'[c] = Socket(f, "ctl", 0)
          /\ sock'[d] = Socket(f, "sending", out.at)
          /\ \A e \in Fds \ {c, d} : sock'[e] = sock[e]
        BY <1>1, <3>3, <3>4, <3>5 DEF Opened, TypeOK
    <3>7. CASE g = f
      <4>1. data'[g] = d /\ offset'[g] = 0
          BY <1>1, <2>2, <3>3, <3>7 DEF Opened, OpenSucceeds, TypeOK
      <4>2. (0 - out.at) % (2 * Half) = 0 /\ (0 < 2 * Half => out.at = 0)
          BY <3>5, StartInPosition
      <4>3. sock'[data'[g]].at = out.at
          BY <3>6, <4>1 DEF Socket
      <4> QED
          BY <4>1, <4>2, <4>3 DEF InPosition
    <3>8. CASE g # f
      <4>1. data'[g] = data[g] /\ offset'[g] = offset[g]
          BY <1>1, <2>2, <3>3, <3>8 DEF Opened, OpenSucceeds, TypeOK
      <4>2. sock'[c].owner = f /\ sock'[d].owner = f
        <5>1. sock'[c].owner = f
            BY <3>6 DEF Socket
        <5>2. sock'[d].owner = f
            BY <3>6 DEF Socket
        <5> QED
            BY <5>1, <5>2
      <4>3. \/ data[g] \notin Fds
            \/ sock'[data[g]] = sock[data[g]]
            \/ sock'[data[g]].owner # g
        <5>1. CASE data[g] \in {c, d}
            BY <3>8, <4>2, <5>1
        <5>2. CASE data[g] \notin {c, d}
            BY <3>6, <5>2
        <5> QED
            BY <5>1, <5>2
      <4> QED
          BY <1>1, <1>2, <4>1, <4>3, Released
    <3> QED
        BY <3>7, <3>8
  <2>3. ASSUME NEW p \in LoggedIn \cup Stated(LoggedIn), OpenFailed(p),
               UNCHANGED <<handle, ctl, data, offset, size, pend>>
        PROVE  InPosition(g)' /\ offset'[g] >= -Half
    <3>1. PICK c \in FreeFds : \E d \in NewFds(FreeFds \ {c}) :
              \E out \in OpenFileOutcomes(p, 0, d) : Leaked(c, d, out)
        BY <2>3 DEF OpenFailed
    <3>2. PICK d \in NewFds(FreeFds \ {c}) :
              \E out \in OpenFileOutcomes(p, 0, d) : Leaked(c, d, out)
        BY <3>1
    <3>3. PICK out \in OpenFileOutcomes(p, 0, d) : Leaked(c, d, out)
        BY <3>2
    <3>4. \A e \in Fds : sock'[e] = sock[e] \/ sock'[e].owner # g
        BY <1>1, <3>3 DEF Leaked, Socket, TypeOK
    <3> QED
        BY <1>1, <1>2, <2>3, <3>4, Released
  <2> QED
      BY <1>4, <2>1, <2>2, <2>3 DEF ftpfs_open
<1>5. ASSUME NEW f \in Files, ftpfs_read(f)
      PROVE  InPosition(g)' /\ offset'[g] >= -Half
  <2>1. CASE data[f] # NoFd
      BY <1>1, <1>2, <1>5, <2>1, Released DEF ftpfs_read
  <2>2. CASE data[f] = NoFd
    <3>1. PICK d \in NewFds(FreeFds) :
              \E out \in OpenFileOutcomes(pend[f], offset[f], d) :
                  Reopen(f, d, out)
        BY <1>5, <2>2 DEF ftpfs_read
    <3>2. PICK out \in OpenFileOutcomes(pend[f], offset[f], d) :
              Reopen(f, d, out)
        BY <3>1
    <3>3. d \in Fds \cup {NoFd} /\ pend[f] \in Replies /\ offset[f] \in Int
        BY <1>1 DEF FreeFds, NewFds, TypeOK
    <3>4. /\ out.at \in Nat
          /\ out.use \in {"abort", "refused", "idle", "sending"}
          /\ out.use = "sending" => out.at = ToInt(offset[f])
          /\ d = NoFd => out.use \in {"abort", "refused"}
        BY <3>3, OpenFileOutcome
    <3>5. offset' = offset
        BY <1>5 DEF ftpfs_read
    <3>6. CASE g # f
      <4>1. data'[g] = data[g]
          BY <1>1, <3>2, <3>6 DEF Reopen, TypeOK
      <4>2. \/ data[g] \notin Fds
            \/ sock'[data[g]] = sock[data[g]]
            \/ sock'[data[g]].owner # g
          BY <1>1, <3>2, <3>6 DEF Reopen, TypeOK, Socket
      <4> QED
          BY <1>1, <1>2, <3>5, <4>1, <4>2, Released
    <3>7. CASE g = f /\ out.use = "sending"
      <4>1. data'[g] = d /\ d \in Fds /\ sock'[d] = Socket(f, "sending", out.at)
          BY <1>1, <3>2, <3>3, <3>4, <3>7 DEF Reopen, TypeOK
      <4>2. /\ (offset[f] - out.at) % (2 * Half) = 0
            /\ offset[f] < 2 * Half => out.at = offset[f]
          BY <1>2, <3>3, <3>4, <3>7, StartInPosition
      <4> QED
          BY <1>2, <3>5, <3>7, <4>1, <4>2 DEF InPosition, Socket
    <3>8. CASE g = f /\ out.use = "idle"
      <4>1. data'[g] = d /\ d \in Fds /\ sock'[d] = Socket(f, "idle", out.at)
          BY <1>1, <3>2, <3>3, <3>4, <3>8 DEF Reopen, TypeOK
      <4> QED
          BY <1>2, <3>5, <4>1 DEF InPosition, Sending, Socket
    <3>9. CASE g = f /\ out.use \in {"abort", "refused"}
      <4>1. sock' = sock /\ data'[g] \in {NoFd, d}
          BY <1>1, <2>2, <3>2, <3>9 DEF Reopen, TypeOK
      <4>2. d = NoFd \/ sock[d].use = "free"
          BY DEF FreeFds, NewFds
      <4> QED
          BY <1>2, <3>5, <4>1, <4>2 DEF InPosition, Sending, OwnData
    <3> QED
        BY <3>4, <3>6, <3>7, <3>8, <3>9
  <2> QED
      BY <2>1, <2>2
<1>6. ASSUME NEW f \in Files, ReadReturns(f)
      PROVE  InPosition(g)' /\ offset'[g] >= -Half
  <2>1. CASE ReadNothing(f) \/ ReadForeign(f)
      BY <1>1, <1>2, <1>6, <2>1, Released
      DEF ReadReturns, ReadNothing, ReadForeign
  <2>2. ASSUME Sending(f), NEW n \in Readable(f), Advance(f, n)
        PROVE  InPosition(g)' /\ offset'[g] >= -Half
    <3>1. data[f] \in Fds /\ n \in Nat /\ data' = data
        BY <1>1, <1>6, <2>2 DEF Sending, OwnData, Readable, ReadReturns, TypeOK
    <3>2. CASE g # f
      <4>1. offset'[g] = offset[g] /\ data'[g] = data[g]
          BY <1>1, <2>2, <3>1, <3>2 DEF Advance, TypeOK
      <4>2. data[g] # data[f] => sock'[data[g]] = sock[data[g]] \/ data[g] \notin Fds
          BY <1>1, <2>2, <3>1 DEF Advance, TypeOK
      <4>3. sock'[data[f]].owner = f
          BY <1>1, <2>2, <3>1 DEF Advance, TypeOK, Sockets, Sending, OwnData
      <4> QED
          BY <1>1, <1>2, <3>2, <4>1, <4>2, <4>3, Released
    <3>3. CASE g = f
      <4>1. offset'[f] = offset[f] + n
          BY <1>1, <2>2, <3>1 DEF Advance, TypeOK
      <4>2. sock'[data[f]].at = sock[data[f]].at + n
          BY <1>1, <2>2, <3>1 DEF Advance, TypeOK, Sockets
      <4>3. offset[f] \in Int /\ sock[data[f]].at \in Nat
          BY <1>1, <3>1 DEF TypeOK, Sockets
      <4>4. offset'[f] - sock'[data[f]].at = offset[f] - sock[data[f]].at
          BY <3>1, <4>1, <4>2, <4>3
      <4>5. /\ (offset[f] - sock[data[f]].at) % (2 * Half) = 0
            /\ offset[f] < 2 * Half => sock[data[f]].at = offset[f]
          BY <1>2, <2>2 DEF InPosition
      <4>6. offset'[f] < 2 * Half => sock'[data[f]].at = offset'[f]
          BY <3>1, <4>1, <4>2, <4>3, <4>5
      <4>7. offset'[f] >= -Half
          BY <1>2, <3>1, <4>1, <4>3
      <4> QED
          BY <3>1, <3>3, <4>4, <4>5, <4>6, <4>7 DEF InPosition
    <3> QED
        BY <3>2, <3>3
  <2> QED
      BY <1>6, <2>1, <2>2 DEF ReadReturns
<1>7. ASSUME NEW f \in Files
      PROVE  \A e \in Fds : DataClosed(f)[e] = sock[e] \/ DataClosed(f)[e].owner # g
    BY <1>1 DEF DataClosed, Free, TypeOK
<1>8. ASSUME NEW f \in Files, ftpfs_seek(f)
      PROVE  InPosition(g)' /\ offset'[g] >= -Half
  <2>1. /\ offset'[g] >= -Half
        /\ g # f => offset'[g] = offset[g]
      BY <1>1, <1>2, <1>8 DEF ftpfs_seek, TypeOK
  <2>2. CASE data[f] > 0 /\ UFTP_AbortTransfer(f)
    <3>1. CASE g = f
      <4>1. data'[g] = NoFd
          BY <1>1, <2>2, <3>1 DEF UFTP_AbortTransfer, TypeOK
      <4> QED
          BY <2>1, <4>1 DEF InPosition, Sending, OwnData
    <3>2. CASE g # f
      <4>1. data'[g] = data[g] /\ sock' = DataClosed(f)
          BY <1>1, <2>2, <3>2 DEF UFTP_AbortTransfer, TypeOK
      <4> QED
          BY <1>1, <1>2, <1>7, <2>1, <3>2, <4>1, Released
    <3> QED
        BY <3>1, <3>2
  <2>3. CASE ~(data[f] > 0) /\ UNCHANGED <<data, pend, sock, refused, fate>>
    <3>0. data[f] \in Fds \/ data[f] = NoFd
        BY <1>1 DEF TypeOK
    <3>1. data[f] = NoFd
      <4>1. \A d \in Fds : d > 0
          OBVIOUS
      <4> QED
          BY <2>3, <3>0, <4>1
    <3>2. CASE g = f
        BY <2>1, <2>3, <3>1, <3>2 DEF InPosition, Sending, OwnData
    <3>3. CASE g # f
        BY <1>1, <1>2, <2>1, <2>3, <3>3, Released
    <3> QED
        BY <3>2, <3>3
  <2> QED
      BY <1>8, <2>2, <2>3 DEF ftpfs_seek
<1>9. ASSUME NEW f \in Files, ftpfs_close(f)
      PROVE  InPosition(g)' /\ offset'[g] >= -Half
  <2>1. offset' = offset
      BY <1>9 DEF ftpfs_close
  <2>2. CASE g = f
    <3>1. data'[g] = NoFd
        BY <1>1, <1>9, <2>2 DEF ftpfs_close, TypeOK
    <3> QED
        BY <1>2, <2>1, <3>1 DEF InPosition, Sending, OwnData
  <2>3. CASE g # f
    <3>1. data'[g] = data[g]
        BY <1>1, <1>9, <2>3 DEF ftpfs_close, TypeOK
    <3>2. DataClosed(f) \in [Fds -> Sockets]
        BY <1>1, SocketType DEF DataClosed, TypeOK
    <3>3. \A e \in Fds : sock'[e] = sock[e] \/ sock'[e].owner # g
        BY <1>7, <1>9, <3>2 DEF ftpfs_close, Free
    <3> QED
        BY <1>1, <1>2, <2>1, <3>1, <3>3, Released
  <2> QED
      BY <2>2, <2>3
<1>10. ASSUME NEW f \in Files, ServerEnd(f)
       PROVE  InPosition(g)' /\ offset'[g] >= -Half
  <2>1. /\ offset' = offset /\ data' = data
        /\ data[f] \in Fds
        /\ sock' = [sock EXCEPT ![data[f]].ended = TRUE]
      BY <1>1, <1>10 DEF ServerEnd, Sending, OwnData, TypeOK
  <2>2. CASE data[g] = data[f] /\ g = f
    <3>1. sock'[data[g]].at = sock[data[g]].at
        BY <1>1, <2>1, <2>2 DEF TypeOK, Sockets
    <3>2. /\ (offset[g] - sock[data[g]].at) % (2 * Half) = 0
          /\ offset[g] < 2 * Half => sock[data[g]].at = offset[g]
        BY <1>2, <1>10, <2>2 DEF InPosition, ServerEnd
    <3>3. /\ offset'[g] = offset[g]
          /\ sock'[data'[g]].at = sock[data[g]].at
          /\ offset'[g] >= -Half
        BY <1>2, <2>1, <3>1
    <3>4. offset'[g] - sock'[data'[g]].at = offset[g] - sock[data[g]].at
        BY <3>3
    <3> QED
        BY <3>2, <3>3, <3>4 DEF InPosition
  <2>3. CASE data[g] = data[f] /\ g # f
    <3>1. sock'[data[g]].owner # g
        BY <1>1, <1>10, <2>1, <2>3
        DEF TypeOK, Sockets, ServerEnd, Sending, OwnData
    <3> QED
        BY <1>1, <1>2, <2>1, <3>1, Released
  <2>4. CASE data[g] # data[f]
    <3>1. data[g] \notin Fds \/ sock'[data[g]] = sock[data[g]]
        BY <1>1, <2>1, <2>4 DEF TypeOK
    <3> QED
        BY <1>1, <1>2, <2>1, <3>1, Released
  <2> QED
      BY <2>2, <2>3, <2>4
<1>11. ASSUME NEW f \in Files, Reset(f) \/ ServerDrop(f)
       PROVE  InPosition(g)' /\ offset'[g] >= -Half
  <2>1. /\ offset' = offset /\ data' = data
        /\ data[f] \in Fds
        /\ sock' = [sock EXCEPT ![data[f]] = Socket(f, "eof", 0)]
      BY <1>1, <1>11 DEF Reset, ServerDrop, Sending, OwnData, TypeOK
  <2>2. CASE data[g] = data[f] /\ g = f
    <3>1. ~Sending(g)'
        BY <1>1, <2>1, <2>2 DEF Sending, Socket, TypeOK
    <3> QED
        BY <1>2, <2>1, <3>1 DEF InPosition
  <2>3. CASE data[g] = data[f] /\ g # f
    <3>1. sock'[data[g]].owner # g
        BY <1>1, <2>1, <2>3 DEF Socket, TypeOK
    <3> QED
        BY <1>1, <1>2, <2>1, <3>1, Released
  <2>4. CASE data[g] # data[f]
    <3>1. data[g] \notin Fds \/ sock'[data[g]] = sock[data[g]]
        BY <1>1, <2>1, <2>4 DEF TypeOK
    <3> QED
        BY <1>1, <1>2, <2>1, <3>1, Released
  <2> QED
      BY <2>2, <2>3, <2>4
<1>12. CASE UNCHANGED vars
    BY <1>2, <1>12 DEF vars, InPosition, Sending, OwnData
<1> QED
    BY <1>4, <1>5, <1>6, <1>8, <1>9, <1>10, <1>11, <1>12 DEF Next, Step

\* In every behaviour of the mount, whatever the faults, the data connection of
\* an open file stands at the file's offset as far as an int can say it.
THEOREM StreamInPosition == Spec => []StreamPosition
<1>1. IInv => StreamPosition
  <2> SUFFICES ASSUME IInv, NEW f \in handle
               PROVE  InPosition(f)
      BY DEF StreamPosition, InPosition
  <2> QED
      BY DEF IInv, TypeOK
<1>2. IInv /\ [Next]_vars => IInv'
    BY NextIInv
<1> QED
    BY InitIInv, <1>1, <1>2, PTL DEF Spec

-----------------------------------------------------------------------------
(***************************************************************************)
(* What the steps keep.  A socket that a step opens was free, and so       *)
(* nobody's; a socket that it closes was the file's own, or the step has   *)
(* crossed two files and the model stops following the process.            *)
(***************************************************************************)
FreeIsNobodys == \A d \in Fds : sock[d].use = "free" => sock[d].owner = Nobody

ReaderIsOpen == mutex # Nobody => mutex \in handle

\* A file's control connection is its own, and is not its data connection.
HasControl(f) ==
    /\ ctl[f] \in Fds
    /\ ctl[f] # data[f]
    /\ sock[ctl[f]].use = "ctl"
    /\ sock[ctl[f]].owner = f

IsHeld(d) ==
    sock[d].owner # Nobody =>
        /\ sock[d].owner \in handle
        /\ d \in {ctl[sock[d].owner], data[sock[d].owner]}

DataIsOwn(f) == f \notin refused /\ data[f] # NoFd => OwnData(f)

Connections ==
    /\ \A f \in handle : HasControl(f)
    /\ \A d \in Fds : IsHeld(d)
    /\ \A f \in handle : DataIsOwn(f)

Fates ==
    /\ fate = "stole" => refused # {}
    /\ fate = "aborted" => faults \cap {"late", "hangup"} # {}

\* A connection is only found closed in a network whose servers do that.
ClosedByServer == \A f \in Files : pend[f] = Gone => "hangup" \in faults

HInv ==
    /\ TypeOK
    /\ ClosedByServer
    /\ FreeIsNobodys
    /\ ReaderIsOpen
    /\ Fates
    /\ fate # "stole" => Connections

\* Every step but a stutter starts from a process that is running.
Running ==
    /\ TypeOK
    /\ ClosedByServer
    /\ FreeIsNobodys
    /\ ReaderIsOpen
    /\ Connections
    /\ fate = "running"

\* What is to be shown of one: unless it crosses two files, everything holds.
Holds ==
    /\ FreeIsNobodys
    /\ ReaderIsOpen
    /\ Fates
    /\ fate # "stole" => Connections

-----------------------------------------------------------------------------
\* No reply at all to a command means that one is late, or that the server has
\* closed the connection.
LEMMA NoReplyIsLate ==
    ASSUME NEW p \in Replies, NEW good \in Codes, NEW can \in BOOLEAN,
           p = Gone => "hangup" \in faults,
           NEW a \in UFTP_SendCommand(p, good, can), a.code = None
    PROVE  faults \cap {"late", "hangup"} # {}
<1>1. PICK r \in {good, "err"} : \E read \in ftp_net_read(p, r) :
          a = [code |-> read.got, pend |-> read.left, done |-> r = good]
    BY SendCommand
<1>2. PICK read \in ftp_net_read(p, r) :
          a = [code |-> read.got, pend |-> read.left, done |-> r = good]
    BY <1>1
<1>3. r \in Codes /\ r # None
    BY DEF Codes, None
<1>4. /\ p = None => read.got = r \/ faults \cap {"late", "hangup"} # {}
      /\ p # None /\ p # Gone => read.got = p
    BY <1>3, NetRead
<1> QED
    BY <1>2, <1>3, <1>4

\* parse_epsv is only given an empty string when a reply is late or the server
\* has closed the connection.
LEMMA AbortIsLate ==
    ASSUME NEW p \in Replies, NEW o \in Int, NEW d \in Fds \cup {NoFd},
           p = Gone => "hangup" \in faults,
           NEW out \in OpenFileOutcomes(p, o, d), out.use = "abort"
    PROVE  faults \cap {"late", "hangup"} # {}
<1>1. \E a \in UFTP_SendCommand(p, "229", TRUE) : a.code = None
  <2> DEFINE Outcome(use, at, left, ok) ==
                 [use |-> use, at |-> at, pend |-> left, ok |-> ok]
             epsv == UFTP_SendCommand(p, "229", TRUE)
             port == {a.pend : a \in {b \in epsv :
                              p = None /\ b.code = "229" /\ d # NoFd}}
             type == Send(port, "200", TRUE)
             rest == Send(Passed(type, "200"), "350", ToInt(o) >= 0)
             retr == Send(Passed(rest, "350"), "150", TRUE)
  <2>1. \/ \E a \in epsv : a.code = None
        \/ \E a \in epsv : out = Outcome("refused", 0, a.pend, FALSE)
        \/ \E a \in type \cup rest : out = Outcome("idle", 0, a.pend, FALSE)
        \/ \E a \in retr : out = Outcome(IF a.done THEN "sending" ELSE "idle",
                                         IF a.done THEN ToInt(o) ELSE 0,
                                         a.pend, a.code = "150")
      BY DEF OpenFileOutcomes, Failed
  <2> HIDE DEF epsv, port, type, rest, retr
  <2>2. \/ \E a \in epsv : a.code = None
        \/ out.use \in {"refused", "idle", "sending"}
      BY <2>1
  <2> QED
      BY <2>2 DEF epsv
<1>2. "229" \in Codes
    BY DEF Codes
<1> QED
    BY <1>1, <1>2, NoReplyIsLate

\* A step that gives free descriptors to nobody changes nothing for the files.
LEMMA GivenToNobody ==
    ASSUME Running, TypeOK',
           UNCHANGED <<handle, ctl, data, refused, mutex>>,
           \A e \in Fds : \/ sock'[e] = sock[e]
                          \/ /\ sock[e].use = "free"
                             /\ sock'[e].use # "free"
                             /\ sock'[e].owner = Nobody
    PROVE  FreeIsNobodys' /\ ReaderIsOpen' /\ Connections'
<1>1. FreeIsNobodys' /\ ReaderIsOpen'
    BY DEF Running, FreeIsNobodys, ReaderIsOpen
<1>2. ASSUME NEW g \in handle PROVE HasControl(g)'
  <2>1. HasControl(g) /\ sock'[ctl[g]] = sock[ctl[g]]
      BY <1>2 DEF Running, Connections, HasControl
  <2> QED
      BY <1>2, <2>1 DEF HasControl
<1>3. ASSUME NEW e \in Fds PROVE IsHeld(e)'
    BY <1>3 DEF Running, Connections, IsHeld
<1>4. ASSUME NEW g \in handle PROVE DataIsOwn(g)'
  <2>1. g \in Files /\ data[g] \in Fds \cup {NoFd} /\ DataIsOwn(g)
      BY <1>4 DEF Running, Connections, TypeOK
  <2>2. ASSUME data[g] \in Fds, sock[data[g]].owner = g
        PROVE  sock'[data[g]] = sock[data[g]]
      BY <2>1, <2>2 DEF Running, FreeIsNobodys
  <2> QED
      BY <2>1, <2>2 DEF DataIsOwn, OwnData
<1> QED
    BY <1>1, <1>2, <1>3, <1>4 DEF Connections

\* A step that gives free descriptors to one file, as its data connection and,
\* when it was not open, as its control connection.
LEMMA GivenToFile ==
    ASSUME Running, TypeOK', NEW f \in Files, NEW c \in Fds, NEW d \in Fds, c # d,
           sock[d].use = "free",
           sock'[d].use # "free", sock'[d].owner = f,
           \/ f \in handle /\ c = ctl[f] /\ sock'[c] = sock[c]
           \/ f \notin handle /\ sock[c].use = "free"
              /\ sock'[c].use = "ctl" /\ sock'[c].owner = f,
           \A e \in Fds \ {c, d} : sock'[e] = sock[e],
           ctl'[f] = c, data'[f] = d,
           f \in handle => data[f] = NoFd,
           \A g \in Files \ {f} : ctl'[g] = ctl[g] /\ data'[g] = data[g],
           handle' = handle \cup {f}, refused \subseteq refused', mutex' \in {Nobody, f}
    PROVE  FreeIsNobodys' /\ ReaderIsOpen' /\ Connections'
<1>0. handle \subseteq Files /\ f # Nobody /\ NoFd \notin Fds
    BY DEF Running, TypeOK, NoFd
<1>1. FreeIsNobodys'
  <2>1. ASSUME NEW e \in Fds, sock'[e].use = "free" PROVE sock'[e] = sock[e]
    <3>1. e # d
        BY <2>1
    <3>2. CASE e = c
        BY <2>1, <3>2
    <3>3. CASE e # c
        BY <3>1, <3>3
    <3> QED
        BY <3>2, <3>3
  <2> QED
      BY <2>1 DEF Running, FreeIsNobodys
<1>2. ReaderIsOpen'
    BY DEF ReaderIsOpen
<1>3. ASSUME NEW g \in handle' PROVE HasControl(g)'
  <2>1. CASE g = f
    <3>1. ctl'[f] = c /\ data'[f] = d /\ c # d
        OBVIOUS
    <3>2. f \in handle => HasControl(f)
        BY DEF Running, Connections
    <3>3. sock'[c].use = "ctl" /\ sock'[c].owner = f
        BY <3>2 DEF HasControl
    <3> QED
        BY <2>1, <3>1, <3>3 DEF HasControl
  <2>2. CASE g # f
    <3>1. g \in handle /\ HasControl(g)
        BY <1>3, <2>2 DEF Running, Connections
    <3>2. ctl[g] # d /\ ctl[g] # c
      <4>1. CASE f \in handle
          BY <2>2, <3>1, <4>1 DEF HasControl, Running, Connections
      <4>2. CASE f \notin handle
          BY <2>2, <3>1, <4>2 DEF HasControl
      <4> QED
          BY <4>1, <4>2
    <3> QED
        BY <1>0, <2>2, <3>1, <3>2 DEF HasControl
  <2> QED
      BY <2>1, <2>2
<1>4. ASSUME NEW e \in Fds PROVE IsHeld(e)'
  <2>1. CASE e = d
      BY <1>0, <2>1 DEF IsHeld
  <2>2. CASE e = c
      BY <1>0, <2>2 DEF IsHeld, Running, Connections, HasControl
  <2>3. CASE e \notin {c, d}
    <3>1. IsHeld(e) /\ sock'[e] = sock[e]
        BY <1>4, <2>3 DEF Running, Connections
    <3>2. ASSUME sock[e].owner # Nobody
          PROVE  /\ sock[e].owner \in handle'
                 /\ e \in {ctl'[sock[e].owner], data'[sock[e].owner]}
      <4>1. sock[e].owner \in handle /\ e \in {ctl[sock[e].owner], data[sock[e].owner]}
          BY <3>1, <3>2 DEF IsHeld
      <4>2. CASE sock[e].owner = f
          BY <1>0, <2>3, <4>1, <4>2
      <4>3. CASE sock[e].owner # f
          BY <1>0, <4>1, <4>3
      <4> QED
          BY <4>2, <4>3
    <3> QED
        BY <3>1, <3>2 DEF IsHeld
  <2> QED
      BY <2>1, <2>2, <2>3
<1>5. ASSUME NEW g \in handle' PROVE DataIsOwn(g)'
  <2>1. CASE g = f
      BY <1>0, <2>1 DEF DataIsOwn, OwnData
  <2>2. CASE g # f
    <3>1. g \in handle /\ DataIsOwn(g) /\ data'[g] = data[g]
        BY <1>0, <1>5, <2>2 DEF Running, Connections
    <3>2. ASSUME g \notin refused', data[g] # NoFd PROVE sock'[data[g]].owner = g
      <4>1. sock[data[g]].owner = g /\ data[g] \in Fds
          BY <1>0, <3>1, <3>2 DEF DataIsOwn, OwnData, Running, TypeOK
      <4>2. sock[data[g]].use # "free"
          BY <1>0, <3>1, <4>1 DEF Running, FreeIsNobodys
      <4>3. data[g] # d /\ data[g] # c
        <5>1. CASE f \in handle
            BY <2>2, <4>1, <4>2, <5>1 DEF HasControl, Running, Connections
        <5>2. CASE f \notin handle
            BY <4>2, <5>2
        <5> QED
            BY <5>1, <5>2
      <4> QED
          BY <4>1, <4>3
    <3> QED
        BY <3>1, <3>2 DEF DataIsOwn, OwnData
  <2> QED
      BY <2>1, <2>2
<1> QED
    BY <1>1, <1>2, <1>3, <1>4, <1>5 DEF Connections

\* A step of an open file that gives back its data connection, and it may be
\* its control connection, when the descriptor is free or its own.
LEMMA GivenBack ==
    ASSUME Running, NEW f \in handle, ~Foreign(f),
           NEW D \in SUBSET {ctl[f], data[f]}, data[f] \in D \/ data[f] = NoFd,
           \A e \in Fds : sock'[e] = IF e \in D THEN Free ELSE sock[e],
           \A g \in Files \ {f} : ctl'[g] = ctl[g] /\ data'[g] = data[g],
           \/ D \subseteq {data[f]} /\ handle' = handle /\ ctl'[f] = ctl[f]
           \/ ctl[f] \in D /\ handle' = handle \ {f},
           data'[f] = NoFd,
           refused' = refused \ {f}, mutex' = Nobody
    PROVE  FreeIsNobodys' /\ ReaderIsOpen' /\ Connections'
<1>0. /\ handle \subseteq Files
      /\ f # Nobody /\ NoFd \notin Fds
      /\ HasControl(f)
      /\ data[f] \in Fds => sock[data[f]].use = "free" \/ sock[data[f]].owner = f
      /\ \A e \in Fds : sock[e].use = "free" => sock[e].owner = Nobody
    BY DEF Running, TypeOK, NoFd, Foreign, Connections, FreeIsNobodys
<1>1. FreeIsNobodys'
    BY <1>0 DEF FreeIsNobodys, Free
<1>2. ReaderIsOpen'
    BY DEF ReaderIsOpen
\* Nobody else's socket is given back.
<1>3. ASSUME NEW e \in Fds, sock[e].owner # Nobody, sock[e].owner # f
      PROVE  sock'[e] = sock[e]
    BY <1>0, <1>3 DEF HasControl
<1>4. ASSUME NEW g \in handle' PROVE HasControl(g)'
  <2>1. CASE g = f
      BY <1>0, <2>1 DEF HasControl
  <2>2. CASE g # f
    <3>1. g \in handle /\ HasControl(g) /\ g # Nobody
        BY <1>4, <2>2 DEF Running, Connections, TypeOK
    <3>2. sock'[ctl[g]] = sock[ctl[g]]
        BY <1>3, <2>2, <3>1 DEF HasControl
    <3> QED
        BY <1>0, <2>2, <3>1, <3>2 DEF HasControl
  <2> QED
      BY <2>1, <2>2
<1>5. ASSUME NEW e \in Fds PROVE IsHeld(e)'
  <2>1. CASE e \in D
      BY <2>1 DEF IsHeld, Free
  <2>2. CASE e \notin D
    <3>1. IsHeld(e) /\ sock'[e] = sock[e]
        BY <1>5, <2>2 DEF Running, Connections
    <3>2. ASSUME sock[e].owner # Nobody
          PROVE  /\ sock[e].owner \in handle'
                 /\ e \in {ctl'[sock[e].owner], data'[sock[e].owner]}
      <4>1. sock[e].owner \in handle /\ e \in {ctl[sock[e].owner], data[sock[e].owner]}
          BY <3>1, <3>2 DEF IsHeld
      <4>2. CASE sock[e].owner = f
          BY <1>0, <2>2, <4>1, <4>2
      <4>3. CASE sock[e].owner # f
          BY <1>0, <4>1, <4>3
      <4> QED
          BY <4>2, <4>3
    <3> QED
        BY <3>1, <3>2 DEF IsHeld
  <2> QED
      BY <2>1, <2>2
<1>6. ASSUME NEW g \in handle' PROVE DataIsOwn(g)'
  <2>1. CASE g = f
      BY <2>1 DEF DataIsOwn
  <2>2. CASE g # f
    <3>1. g \in handle /\ DataIsOwn(g) /\ data'[g] = data[g] /\ g # Nobody
        BY <1>0, <1>6, <2>2 DEF Running, Connections, TypeOK
    <3>2. ASSUME g \notin refused, data[g] # NoFd PROVE sock'[data[g]].owner = g
      <4>1. sock[data[g]].owner = g /\ data[g] \in Fds
          BY <1>0, <3>1, <3>2 DEF DataIsOwn, OwnData, Running, TypeOK
      <4> QED
          BY <1>3, <2>2, <3>1, <4>1
    <3> QED
        BY <2>2, <3>1, <3>2 DEF DataIsOwn, OwnData
  <2> QED
      BY <2>1, <2>2
<1> QED
    BY <1>1, <1>2, <1>4, <1>5, <1>6 DEF Connections

\* A step that keeps the owner of every socket and what is in use, and the
\* control connections as they are.
LEMMA OwnersKept ==
    ASSUME Running, UNCHANGED <<handle, ctl, data, refused>>,
           mutex' \in handle \cup {Nobody},
           \A e \in Fds : /\ sock'[e].owner = sock[e].owner
                          /\ sock'[e].use = "free" <=> sock[e].use = "free"
                          /\ sock[e].use = "ctl" => sock'[e].use = "ctl"
    PROVE  FreeIsNobodys' /\ ReaderIsOpen' /\ Connections'
<1>1. FreeIsNobodys' /\ ReaderIsOpen'
    BY DEF Running, FreeIsNobodys, ReaderIsOpen
<1>2. ASSUME NEW g \in handle PROVE HasControl(g)'
    BY <1>2 DEF Running, Connections, HasControl
<1>3. ASSUME NEW e \in Fds PROVE IsHeld(e)'
    BY <1>3 DEF Running, Connections, IsHeld
<1>4. ASSUME NEW g \in handle PROVE DataIsOwn(g)'
  <2>1. g \in Files /\ data[g] \in Fds \cup {NoFd} /\ DataIsOwn(g)
      BY <1>4 DEF Running, Connections, TypeOK
  <2> QED
      BY <2>1 DEF DataIsOwn, OwnData
<1> QED
    BY <1>1, <1>2, <1>3, <1>4 DEF Connections
-----------------------------------------------------------------------------
\* The files hold their sockets at first.
LEMMA InitHInv == Init => HInv
<1> SUFFICES ASSUME Init PROVE HInv
    OBVIOUS
<1>1. TypeOK
    BY InitTypeOK
<1>2. handle = {} /\ fate = "running" /\ \A d \in Fds : sock[d].owner = Nobody
    BY DEF Init, Free
<1>3. FreeIsNobodys /\ ReaderIsOpen /\ Fates
    BY <1>2 DEF FreeIsNobodys, ReaderIsOpen, Fates, Init
<1>4. Connections
    BY <1>2 DEF Connections, IsHeld
<1>5. ClosedByServer
    BY DEF Init, ClosedByServer, None, Gone
<1> QED
    BY <1>1, <1>3, <1>4, <1>5 DEF HInv

\* ftpfs_open: a failure leaves sockets to nobody, a success has two of its own.
LEMMA OpenHolds ==
    ASSUME Running, TypeOK', UNCHANGED faults, NEW f \in Files, ftpfs_open(f)
    PROVE  Holds'
<1>0. UNCHANGED <<mutex, refused>> /\ mutex = Nobody
    BY DEF ftpfs_open, Idle
<1>1. CASE LoginFailed /\ UNCHANGED <<handle, ctl, data, offset, size, pend>>
  <2>1. PICK c \in FreeFds : sock' = [sock EXCEPT ![c] = Socket(Nobody, "ctl", 0)]
      BY <1>1 DEF LoginFailed
  <2>2. \A e \in Fds : \/ sock'[e] = sock[e]
                       \/ /\ sock[e].use = "free"
                          /\ sock'[e].use # "free"
                          /\ sock'[e].owner = Nobody
      BY <2>1 DEF Running, TypeOK, Socket, FreeFds
  <2>3. fate' = "running"
      BY <1>1 DEF LoginFailed, Running
  <2> QED
      BY <1>0, <1>1, <2>2, <2>3, GivenToNobody DEF Holds, Fates
<1>2. ASSUME NEW p \in LoggedIn \cup Stated(LoggedIn), OpenSucceeds(f, p)
      PROVE  Holds'
  <2>1. PICK c \in FreeFds : \E d \in FreeFds \ {c} :
            \E out \in OpenFileOutcomes(p, 0, d) : out.ok /\ Opened(f, c, d, out)
      BY <1>2 DEF OpenSucceeds
  <2>2. PICK d \in FreeFds \ {c} :
            \E out \in OpenFileOutcomes(p, 0, d) : out.ok /\ Opened(f, c, d, out)
      BY <2>1
  <2>3. PICK out \in OpenFileOutcomes(p, 0, d) : out.ok /\ Opened(f, c, d, out)
      BY <2>2
  <2>4. /\ c \in Fds /\ d \in Fds /\ c # d
        /\ sock[c].use = "free" /\ sock[d].use = "free"
      BY DEF FreeFds
  <2>5. out.use = "sending"
    <3>1. p \in Replies /\ 0 \in Int /\ d \in Fds \cup {NoFd}
        BY <2>4, LoginType DEF Unread
    <3> QED
        BY <2>3, <3>1, OpenFileOutcome
  <2>6. /\ sock'[c] = Socket(f, "ctl", 0)
        /\ sock'[d] = Socket(f, "sending", out.at)
        /\ \A e \in Fds \ {c, d} : sock'[e] = sock[e]
        /\ ctl'[f] = c /\ data'[f] = d
        /\ \A g \in Files \ {f} : ctl'[g] = ctl[g] /\ data'[g] = data[g]
      BY <2>3, <2>4, <2>5 DEF Opened, Running, TypeOK
  <2>7. /\ sock'[c].use = "ctl" /\ sock'[c].owner = f
        /\ sock'[d].use # "free" /\ sock'[d].owner = f
      BY <2>6 DEF Socket
  <2>8. f \notin handle /\ handle' = handle \cup {f} /\ fate' = "running"
      BY <1>2 DEF ftpfs_open, OpenSucceeds, Running
  <2>9. mutex' \in {Nobody, f} /\ refused \subseteq refused'
      BY <1>0
  <2>10. FreeIsNobodys' /\ ReaderIsOpen' /\ Connections'
      BY <2>4, <2>6, <2>7, <2>8, <2>9, GivenToFile
  <2> QED
      BY <2>8, <2>10 DEF Holds, Fates
<1>3. ASSUME NEW p \in LoggedIn \cup Stated(LoggedIn), OpenFailed(p),
             UNCHANGED <<handle, ctl, data, offset, size, pend>>
      PROVE  Holds'
  <2>1. PICK c \in FreeFds : \E d \in NewFds(FreeFds \ {c}) :
            \E out \in OpenFileOutcomes(p, 0, d) : Leaked(c, d, out)
      BY <1>3 DEF OpenFailed
  <2>2. PICK d \in NewFds(FreeFds \ {c}) :
            \E out \in OpenFileOutcomes(p, 0, d) : Leaked(c, d, out)
      BY <2>1
  <2>3. PICK out \in OpenFileOutcomes(p, 0, d) : Leaked(c, d, out)
      BY <2>2
  <2>4. /\ c \in Fds /\ d \in Fds \cup {NoFd}
        /\ sock[c].use = "free" /\ (d \in Fds => sock[d].use = "free")
      BY DEF FreeFds, NewFds, NoFd
  <2>5. /\ out.use \in {"abort", "refused", "idle", "sending"}
        /\ out.use = "abort" => faults \cap {"late", "hangup"} # {}
    <3>1. p \in Replies /\ 0 \in Int /\ (p = Gone => "hangup" \in faults)
        BY LoginType DEF Unread
    <3>2. out.use \in {"abort", "refused", "idle", "sending"}
        BY <2>4, <3>1, OpenFileOutcome
    <3>3. out.use = "abort" => faults \cap {"late", "hangup"} # {}
        BY <2>4, <3>1, AbortIsLate
    <3> QED
        BY <3>2, <3>3
  <2>6. \A e \in Fds : \/ sock'[e] = sock[e]
                       \/ /\ sock[e].use = "free"
                          /\ sock'[e].use # "free"
                          /\ sock'[e].owner = Nobody
      BY <2>3, <2>4, <2>5 DEF Leaked, Running, TypeOK, Socket
  <2>7. Fates'
      BY <2>3, <2>5 DEF Leaked, Fates, Running
  <2> QED
      BY <1>0, <1>3, <2>6, <2>7, GivenToNobody DEF Holds
<1> QED
    BY <1>1, <1>2, <1>3 DEF ftpfs_open

\* ftpfs_read: what a refusal leaves behind is noted, what it gets is its own.
LEMMA ReadHolds ==
    ASSUME Running, TypeOK', UNCHANGED faults, NEW f \in Files, ftpfs_read(f)
    PROVE  Holds'
<1>0. /\ f \in handle /\ mutex' = f
      /\ UNCHANGED <<handle, ctl>>
    BY DEF ftpfs_read
<1>1. CASE data[f] # NoFd
  <2>1. UNCHANGED <<data, sock, refused, fate>>
      BY <1>1 DEF ftpfs_read
  <2> QED
      BY <1>0, <2>1, OwnersKept DEF Holds, Fates, Running
<1>2. CASE data[f] = NoFd
  <2>1. PICK d \in NewFds(FreeFds) :
            \E out \in OpenFileOutcomes(pend[f], offset[f], d) : Reopen(f, d, out)
      BY <1>2 DEF ftpfs_read
  <2>2. PICK out \in OpenFileOutcomes(pend[f], offset[f], d) : Reopen(f, d, out)
      BY <2>1
  <2>3. /\ d \in Fds \cup {NoFd} /\ (d \in Fds => sock[d].use = "free")
        /\ pend[f] \in Replies /\ offset[f] \in Int
        /\ pend[f] = Gone => "hangup" \in faults
      BY DEF FreeFds, NewFds, NoFd, Running, TypeOK, ClosedByServer
  <2>4. /\ out.use \in {"abort", "refused", "idle", "sending"}
        /\ out.use = "abort" => faults \cap {"late", "hangup"} # {}
        /\ d = NoFd => out.use \in {"abort", "refused"}
    <3>1. /\ out.use \in {"abort", "refused", "idle", "sending"}
          /\ d = NoFd => out.use \in {"abort", "refused"}
        BY <2>3, OpenFileOutcome
    <3>2. out.use = "abort" => faults \cap {"late", "hangup"} # {}
        BY <2>3, AbortIsLate
    <3> QED
        BY <3>1, <3>2
  <2>5. Fates'
      BY <2>2, <2>4 DEF Reopen, Fates, Running
  <2>6. \A g \in Files \ {f} : ctl'[g] = ctl[g] /\ data'[g] = data[g]
      BY <1>0, <2>2 DEF Reopen, Running, TypeOK
  <2>7. CASE out.use \in {"idle", "sending"}
    <3>1. d \in Fds /\ data'[f] = d /\ refused' = refused
        BY <2>2, <2>3, <2>4, <2>7 DEF Reopen, Running, TypeOK
    <3>2. /\ sock'[d].use # "free" /\ sock'[d].owner = f
          /\ \A e \in Fds \ {d} : sock'[e] = sock[e]
        BY <2>2, <2>7, <3>1 DEF Reopen, Running, TypeOK, Socket
    <3>3. HasControl(f)
        BY <1>0 DEF Running, Connections
    <3>4. ctl[f] \in Fds /\ ctl[f] # d /\ sock'[ctl[f]] = sock[ctl[f]]
        BY <2>3, <3>1, <3>2, <3>3 DEF HasControl
    <3>5. handle' = handle \cup {f} /\ ctl'[f] = ctl[f]
        BY <1>0
    <3>6. PICK c \in Fds : c = ctl[f]
        BY <3>4
    <3>7. /\ sock[d].use = "free" /\ c # d
          /\ mutex' \in {Nobody, f} /\ refused \subseteq refused'
          /\ f \in handle /\ c = ctl[f] /\ sock'[c] = sock[c]
          /\ \A e \in Fds \ {c, d} : sock'[e] = sock[e]
          /\ ctl'[f] = c
        BY <1>0, <2>3, <3>1, <3>2, <3>4, <3>5, <3>6
    <3>8. FreeIsNobodys' /\ ReaderIsOpen' /\ Connections'
        BY <1>2, <2>6, <3>1, <3>2, <3>5, <3>7, GivenToFile
    <3> QED
        BY <2>5, <3>8 DEF Holds
  <2>8. CASE out.use \in {"abort", "refused"}
    <3>1. /\ sock' = sock
          /\ data'[f] \in {NoFd, d}
          /\ data'[f] # NoFd => f \in refused'
          /\ refused \subseteq refused'
        BY <1>2, <2>2, <2>8 DEF Reopen, Running, TypeOK
    <3>2. FreeIsNobodys' /\ ReaderIsOpen'
        BY <1>0, <3>1 DEF Running, FreeIsNobodys, ReaderIsOpen
    <3>3. ASSUME NEW g \in handle PROVE HasControl(g)' /\ DataIsOwn(g)'
      <4>1. g \in Files /\ HasControl(g) /\ DataIsOwn(g)
          BY <3>3 DEF Running, Connections, TypeOK
      <4>2. CASE g = f
          BY <1>0, <2>3, <3>1, <4>1, <4>2 DEF HasControl, DataIsOwn, NoFd
      <4>3. CASE g # f
          BY <1>0, <2>6, <3>1, <4>1, <4>3 DEF HasControl, DataIsOwn, OwnData
      <4> QED
          BY <4>2, <4>3
    <3>4. ASSUME NEW e \in Fds PROVE IsHeld(e)'
      <4>1. IsHeld(e) /\ handle \subseteq Files /\ NoFd \notin Fds
          BY <3>4 DEF Running, Connections, TypeOK, NoFd
      <4> QED
          BY <1>0, <1>2, <2>6, <3>1, <4>1 DEF IsHeld
    <3> QED
        BY <1>0, <2>5, <3>2, <3>3, <3>4 DEF Holds, Connections
  <2> QED
      BY <2>4, <2>7, <2>8
<1> QED
    BY <1>1, <1>2

\* The rest of a read: it moves its own connection, or uses somebody else's.
LEMMA ReturnHolds ==
    ASSUME Running, TypeOK', UNCHANGED faults, NEW f \in Files, ReadReturns(f)
    PROVE  Holds'
<1>0. /\ f \in handle /\ f # Nobody /\ mutex' = Nobody
      /\ UNCHANGED <<handle, ctl, data, refused>>
    BY DEF ReadReturns, Running, ReaderIsOpen
<1>1. CASE ReadNothing(f)
  <2>1. UNCHANGED <<sock, fate>>
      BY <1>1 DEF ReadNothing
  <2> QED
      BY <1>0, <2>1, OwnersKept DEF Holds, Fates, Running
<1>2. CASE ReadForeign(f)
  <2>1. Foreign(f) /\ fate' = "stole" /\ sock' = sock
      BY <1>2 DEF ReadForeign
  <2>2. DataIsOwn(f)
      BY <1>0 DEF Running, Connections
  <2>3. f \in refused
      BY <2>1, <2>2 DEF DataIsOwn, OwnData, Foreign
  <2> QED
      BY <1>0, <2>1, <2>3
      DEF Holds, Fates, Running, FreeIsNobodys, ReaderIsOpen
<1>3. ASSUME Sending(f), NEW n \in Readable(f), Advance(f, n) PROVE Holds'
  <2>1. data[f] \in Fds /\ sock \in [Fds -> Sockets]
      BY <1>3 DEF Running, TypeOK, Sending, OwnData
  <2>2. \A e \in Fds : sock'[e].owner = sock[e].owner /\ sock'[e].use = sock[e].use
      BY <1>3, <2>1 DEF Advance, Sockets
  <2>3. fate' = fate
      BY <1>3 DEF Advance
  <2> QED
      BY <1>0, <2>2, <2>3, OwnersKept DEF Holds, Fates, Running
<1> QED
    BY <1>1, <1>2, <1>3 DEF ReadReturns

\* Closing the data connection: only a refused file can hit another's.
LEMMA CrossesOnlyRefused ==
    ASSUME Running, NEW f \in handle, ClosesForeign(f), Reconciled(f)
    PROVE  /\ Foreign(f) => fate' = "stole" /\ refused' # {}
           /\ ~Foreign(f) => fate' = "running" /\ refused' = refused \ {f}
<1>1. DataIsOwn(f)
    BY DEF Running, Connections
<1>2. Foreign(f) => f \in refused
    BY <1>1 DEF DataIsOwn, OwnData, Foreign
<1> QED
    BY <1>2 DEF ClosesForeign, Reconciled, Running

\* A file that does not give back two descriptors is crossed with another, and
\* all that is left to show is that nothing free is owned.
LEMMA SeekHolds ==
    ASSUME Running, TypeOK', UNCHANGED faults, NEW f \in Files, ftpfs_seek(f)
    PROVE  Holds'
<1>0. /\ f \in handle /\ mutex' = Nobody /\ mutex = Nobody
      /\ UNCHANGED <<handle, ctl>>
      /\ sock \in [Fds -> Sockets] /\ data \in [Files -> Fds \cup {NoFd}]
    BY DEF ftpfs_seek, Idle, Running, TypeOK
<1>1. CASE UNCHANGED <<data, pend, sock, refused, fate>>
    BY <1>0, <1>1, OwnersKept DEF Holds, Fates, Running
<1>2. CASE UFTP_AbortTransfer(f)
  <2>1. /\ data'[f] = NoFd
        /\ \A g \in Files \ {f} : ctl'[g] = ctl[g] /\ data'[g] = data[g]
        /\ \A e \in Fds : sock'[e] = IF e \in {data[f]} THEN Free ELSE sock[e]
    <3>1. sock' = DataClosed(f) /\ data' = [data EXCEPT ![f] = NoFd]
        BY <1>2 DEF UFTP_AbortTransfer
    <3>2. \A e \in Fds : sock'[e] = IF e = data[f] THEN Free ELSE sock[e]
        BY <1>0, <3>1 DEF DataClosed, NoFd
    <3> QED
        BY <1>0, <3>1, <3>2
  <2>2. CASE ~Foreign(f)
    <3>1. fate' = "running" /\ refused' = refused \ {f}
        BY <1>0, <1>2, <2>2, CrossesOnlyRefused DEF UFTP_AbortTransfer
    <3>2. {data[f]} \in SUBSET {ctl[f], data[f]}
        OBVIOUS
    <3>3. FreeIsNobodys' /\ ReaderIsOpen' /\ Connections'
        BY <1>0, <2>1, <2>2, <3>1, <3>2, GivenBack
    <3> QED
        BY <3>1, <3>3 DEF Holds, Fates
  <2>3. CASE Foreign(f)
    <3>1. fate' = "stole" /\ refused' # {}
        BY <1>0, <1>2, <2>3, CrossesOnlyRefused DEF UFTP_AbortTransfer
    <3>2. FreeIsNobodys'
        BY <2>1 DEF FreeIsNobodys, Running, Free
    <3> QED
        BY <1>0, <3>1, <3>2 DEF Holds, Fates, ReaderIsOpen
  <2> QED
      BY <2>2, <2>3
<1> QED
    BY <1>1, <1>2 DEF ftpfs_seek

\* ftpfs_close gives up the sockets of its file alone.
LEMMA CloseHolds ==
    ASSUME Running, TypeOK', UNCHANGED faults, NEW f \in Files, ftpfs_close(f)
    PROVE  Holds'
<1>0. /\ f \in handle /\ mutex' = Nobody
      /\ handle' = handle \ {f}
      /\ sock \in [Fds -> Sockets] /\ data \in [Files -> Fds \cup {NoFd}]
      /\ ctl \in [Files -> Fds \cup {NoFd}]
    BY DEF ftpfs_close, Idle, Running, TypeOK
<1>1. HasControl(f)
    BY <1>0 DEF Running, Connections
<1>2. /\ data'[f] = NoFd
      /\ \A g \in Files \ {f} : ctl'[g] = ctl[g] /\ data'[g] = data[g]
      /\ \A e \in Fds : sock'[e] = IF e \in {ctl[f], data[f]} THEN Free ELSE sock[e]
  <2>1. /\ sock' = [DataClosed(f) EXCEPT ![ctl[f]] = Free]
        /\ data' = [data EXCEPT ![f] = NoFd]
        /\ ctl' = [ctl EXCEPT ![f] = NoFd]
      BY DEF ftpfs_close
  <2>2. /\ DataClosed(f) \in [Fds -> Sockets]
        /\ \A e \in Fds : DataClosed(f)[e] = IF e = data[f] THEN Free ELSE sock[e]
      BY <1>0, SocketType DEF DataClosed, NoFd
  <2>3. \A e \in Fds : sock'[e] = IF e \in {ctl[f], data[f]} THEN Free ELSE sock[e]
      BY <1>1, <2>1, <2>2 DEF HasControl
  <2> QED
      BY <1>0, <2>1, <2>3
<1>3. CASE ~Foreign(f)
  <2>1. fate' = "running" /\ refused' = refused \ {f}
      BY <1>0, <1>3, CrossesOnlyRefused DEF ftpfs_close
  <2>2. {ctl[f], data[f]} \in SUBSET {ctl[f], data[f]}
      OBVIOUS
  <2> QED
      BY <1>0, <1>2, <1>3, <2>1, <2>2, GivenBack DEF Holds, Fates
<1>4. CASE Foreign(f)
  <2>1. fate' = "stole" /\ refused' # {}
      BY <1>0, <1>4, CrossesOnlyRefused DEF ftpfs_close
  <2>2. FreeIsNobodys'
      BY <1>2 DEF FreeIsNobodys, Running, Free
  <2> QED
      BY <1>0, <2>1, <2>2 DEF Holds, Fates, ReaderIsOpen
<1> QED
    BY <1>3, <1>4

\* The server changes what its end of a connection does, not whose it is.
LEMMA ServerHolds ==
    ASSUME Running, TypeOK', UNCHANGED faults, NEW f \in Files,
           ServerEnd(f) \/ Reset(f) \/ ServerDrop(f)
    PROVE  Holds'
<1>0. /\ UNCHANGED <<handle, ctl, data, refused, mutex, fate>>
      /\ OwnData(f)
      /\ sock[data[f]].use \in {"idle", "sending"}
      /\ data[f] \in Fds /\ sock \in [Fds -> Sockets]
    BY DEF ServerEnd, Reset, ServerDrop, Sending, OwnData, Running, TypeOK
<1>1. \/ sock' = [sock EXCEPT ![data[f]].ended = TRUE]
      \/ sock' = [sock EXCEPT ![data[f]] = Socket(f, "eof", 0)]
    BY DEF ServerEnd, Reset, ServerDrop
<1>2. \A e \in Fds : /\ sock'[e].owner = sock[e].owner
                     /\ sock'[e].use = "free" <=> sock[e].use = "free"
                     /\ sock[e].use = "ctl" => sock'[e].use = "ctl"
    BY <1>0, <1>1 DEF Sockets, Socket, OwnData
<1>3. mutex' \in handle \cup {Nobody}
    BY <1>0 DEF Running, ReaderIsOpen
<1> QED
    BY <1>0, <1>2, <1>3, OwnersKept DEF Holds, Fates, Running

-----------------------------------------------------------------------------
\* Only a read of the control connection finds it closed, and only where the
\* server can have closed it.
LEMMA NextClosed ==
    ASSUME TypeOK, TypeOK', ClosedByServer, UNCHANGED faults, Step
    PROVE  ClosedByServer'
<1>0. pend \in [Files -> Replies]
    BY DEF TypeOK
<1>1. ASSUME NEW f \in Files, NEW left,
             pend' = [pend EXCEPT ![f] = left],
             left = Gone => "hangup" \in faults
      PROVE  ClosedByServer'
    BY <1>0, <1>1 DEF ClosedByServer
<1>2. ASSUME NEW f \in Files, ftpfs_open(f) PROVE ClosedByServer'
  <2>1. CASE UNCHANGED pend
      BY <2>1 DEF ClosedByServer
  <2>2. ASSUME NEW p \in LoggedIn \cup Stated(LoggedIn), OpenSucceeds(f, p)
        PROVE  ClosedByServer'
    <3>1. PICK d \in FreeFds : \E out \in OpenFileOutcomes(p, 0, d) :
              pend' = [pend EXCEPT ![f] = out.pend]
        BY <2>2 DEF OpenSucceeds, Opened
    <3>2. PICK out \in OpenFileOutcomes(p, 0, d) :
              pend' = [pend EXCEPT ![f] = out.pend]
        BY <3>1
    <3>3. /\ p \in Replies /\ (p = Gone => "hangup" \in faults)
          /\ 0 \in Int /\ d \in Fds \cup {NoFd}
        BY LoginType DEF Unread, FreeFds
    <3>4. out.pend = Gone => "hangup" \in faults
        BY <3>2, <3>3, OpenFileOutcome
    <3> QED
        BY <1>1, <3>2, <3>4
  <2> QED
      BY <1>2, <2>1, <2>2 DEF ftpfs_open
<1>3. ASSUME NEW f \in Files, ftpfs_read(f) PROVE ClosedByServer'
  <2>1. CASE UNCHANGED pend
      BY <2>1 DEF ClosedByServer
  <2>2. CASE data[f] = NoFd
    <3>1. PICK d \in NewFds(FreeFds) :
              \E out \in OpenFileOutcomes(pend[f], offset[f], d) : Reopen(f, d, out)
        BY <1>3, <2>2 DEF ftpfs_read
    <3>2. PICK out \in OpenFileOutcomes(pend[f], offset[f], d) : Reopen(f, d, out)
        BY <3>1
    <3>3. /\ pend[f] \in Replies /\ (pend[f] = Gone => "hangup" \in faults)
          /\ offset[f] \in Int /\ d \in Fds \cup {NoFd}
        BY DEF ClosedByServer, TypeOK, FreeFds, NewFds
    <3>4. out.pend = Gone => "hangup" \in faults
        BY <3>2, <3>3, OpenFileOutcome
    <3> QED
        BY <1>1, <3>2, <3>4 DEF Reopen
  <2> QED
      BY <1>3, <2>1, <2>2 DEF ftpfs_read
<1>4. ASSUME NEW f \in Files, ftpfs_seek(f) PROVE ClosedByServer'
  <2>1. CASE UNCHANGED pend
      BY <2>1 DEF ClosedByServer
  <2>2. CASE UFTP_AbortTransfer(f)
    <3>1. PICK left \in UFTP_ReadServerCommand(pend[f], EndReply(f)) :
              pend' = [pend EXCEPT ![f] = left]
        BY <2>2 DEF UFTP_AbortTransfer
    <3>2. pend[f] \in Replies /\ EndReply(f) \in Codes \cup {None}
        BY <1>0 DEF EndReply, Codes
    <3>3. left = Gone => pend[f] = Gone \/ "hangup" \in faults
        BY <3>1, <3>2, ReadServerCommandType
    <3>4. left = Gone => "hangup" \in faults
        BY <3>3 DEF ClosedByServer
    <3> QED
        BY <1>1, <3>1, <3>4
  <2> QED
      BY <1>4, <2>1, <2>2 DEF ftpfs_seek
<1>5. ASSUME NEW f \in Files, \/ ReadReturns(f) \/ ftpfs_close(f)
                               \/ ServerEnd(f) \/ Reset(f) \/ ServerDrop(f)
      PROVE  ClosedByServer'
  <2>1. \/ pend' = pend
        \/ pend' = [pend EXCEPT ![f] = None]
        \/ pend' = [pend EXCEPT ![f] = "end"]
      BY <1>5 DEF ReadReturns, ftpfs_close, ServerEnd, Reset, ServerDrop, Post
  <2>2. None # Gone /\ "end" # Gone
      BY DEF None, Gone
  <2>3. CASE pend' = pend
      BY <2>3 DEF ClosedByServer
  <2> QED
      BY <1>1, <2>1, <2>2, <2>3
<1> QED
    BY <1>2, <1>3, <1>4, <1>5 DEF Step

\* Every step keeps it.
LEMMA NextHInv == HInv /\ [Next]_vars => HInv'
<1> SUFFICES ASSUME HInv, [Next]_vars PROVE HInv'
    OBVIOUS
<1>1. TypeOK /\ TypeOK' /\ faults' = faults
    BY NextTypeOK DEF HInv, Next, vars
<1>2. CASE UNCHANGED vars
    BY <1>2 DEF vars, HInv, TypeOK, ClosedByServer, FreeIsNobodys, ReaderIsOpen,
                Fates, Connections, HasControl, IsHeld, DataIsOwn, OwnData
<1>3. CASE Step
  <2>1. fate = "running"
      BY <1>3 DEF Step, ftpfs_open, ftpfs_read, ReadReturns, ftpfs_seek,
                  ftpfs_close, ServerEnd, Reset, ServerDrop, Idle
  <2>2. Running
      BY <1>1, <2>1 DEF HInv, Running
  <2>3. Holds'
      BY <1>1, <1>3, <2>2, OpenHolds, ReadHolds, ReturnHolds, SeekHolds,
         CloseHolds, ServerHolds DEF Step
  <2>4. ClosedByServer'
      BY <1>1, <1>3, NextClosed DEF HInv
  <2> QED
      BY <1>1, <2>3, <2>4 DEF Holds, HInv
<1> QED
    BY <1>2, <1>3 DEF Next

\* So it always holds.
LEMMA SpecHInv == Spec => []HInv
    BY InitHInv, NextHInv, PTL DEF Spec

\* As long as no step has crossed two files, every open file has its control
\* connection and no socket of a file outlives it.
THEOREM SocketsAreHeld == Spec => []SocketsHeld
<1>1. HInv => SocketsHeld
    BY DEF HInv, SocketsHeld, Connections, HasControl, IsHeld, NoFd
<1> QED
    BY <1>1, SpecHInv, PTL

\* Two files are crossed only after a refused reopening, and the process dies
\* in parse_epsv only when a reply is late or the server has closed the control
\* connection.
THEOREM FateIsExplained == Spec => []FateExplained
<1>1. HInv => FateExplained
    BY DEF HInv, Fates, FateExplained, Connections, DataIsOwn
<1> QED
    BY <1>1, SpecHInv, PTL

-----------------------------------------------------------------------------
(***************************************************************************)
(* A network in time: no reply is late, none is an error, no connection is *)
(* refused.  The dialogue then stays in step: whenever ftpfs_read reopens  *)
(* a file nothing is unread on its control connection, so that a           *)
(* connection without a transfer is only left where REST was given a       *)
(* negative number.                                                        *)
(***************************************************************************)
InTime == faults \subseteq {"reset"}

InStep(f) ==
    /\ data[f] = NoFd => pend[f] = None
    /\ Sending(f) /\ ~sock[data[f]].ended => pend[f] = None
    /\ /\ OwnData(f)
       /\ \/ sock[data[f]].use = "idle"
          \/ sock[data[f]].use = "eof" /\ "reset" \notin faults
       => ToInt(offset[f]) < 0

EInv ==
    /\ IInv
    /\ HInv
    /\ InTime => refused = {} /\ \A f \in handle : InStep(f)

\* Where a step starts from.
Timely ==
    /\ Running
    /\ InTime
    /\ refused = {}
    /\ \A f \in handle : InStep(f)

\* A command the server can carry out is answered by the code that is hoped
\* for, and any other by an error; nothing is left.
LEMMA AnsweredInTime ==
    ASSUME InTime, NEW good \in Codes \ {"err"}, NEW can \in BOOLEAN,
           NEW a \in UFTP_SendCommand(None, good, can)
    PROVE  /\ a.pend = None
           /\ a.code = IF can THEN good ELSE "err"
           /\ a.done = can
<1>1. /\ {"late", "reject", "hangup"} \cap faults = {}
      /\ None \in Replies /\ None # Gone
    BY DEF InTime, Replies, None, Gone
<1>2. PICK r \in {good, "err"} : \E read \in ftp_net_read(None, r) :
          /\ IF r = good THEN can ELSE ~can
          /\ a = [code |-> read.got, pend |-> read.left, done |-> r = good]
    BY <1>1, SendCommand
<1>3. PICK read \in ftp_net_read(None, r) :
          a = [code |-> read.got, pend |-> read.left, done |-> r = good]
    BY <1>2
<1>4. "err" \in Codes
    BY DEF Codes
<1>5. read.got = r /\ read.left = None
    BY <1>1, <1>4, NetRead
<1> QED
    BY <1>2, <1>3, <1>5

\* In a network that is in time a command is answered by its own reply.
LEMMA SentInTime ==
    ASSUME InTime, NEW P \in SUBSET {None}, NEW good \in Codes \ {"err"},
           NEW can \in BOOLEAN
    PROVE  \A a \in Send(P, good, can) :
               /\ a.pend = None
               /\ a.code = IF can THEN good ELSE "err"
               /\ a.done = can
<1>1. \A a \in Send(P, good, can) : a \in UFTP_SendCommand(None, good, can)
    BY DEF Send
<1> QED
    BY <1>1, AnsweredInTime

\* A command the server can carry out is then carried out.
LEMMA DoneInTime ==
    ASSUME InTime, NEW P \in SUBSET {None}, NEW good \in Codes \ {"err"}
    PROVE  \A a \in Send(P, good, TRUE) :
               a.pend = None /\ a.code = good /\ a.done = TRUE
<1> DEFINE can == TRUE
<1>1. can \in BOOLEAN
    OBVIOUS
<1> HIDE DEF can
<1>2. \A a \in Send(P, good, can) :
          a.pend = None /\ a.code = (IF can THEN good ELSE "err") /\ a.done = can
    BY <1>1, SentInTime
<1> QED
    BY <1>2 DEF can

\* After the login nothing is unread.
LEMMA LoginInTime ==
    ASSUME InTime
    PROVE  LoggedIn \cup Stated(LoggedIn) \subseteq {None}
<1>1. ASSUME NEW P \in SUBSET {None}, NEW good \in Codes \ {"err"}
      PROVE  /\ Passed(Send(P, good, TRUE), good) \in SUBSET {None}
             /\ {a.pend : a \in Send(P, good, TRUE)} \in SUBSET {None}
    BY DoneInTime DEF Passed
<1>2. {"331", "230", "213"} \subseteq Codes \ {"err"}
    BY DEF Codes
<1>3. UFTP_ReadServerCommand(None, "220") \in SUBSET {None}
  <2>1. \A read \in ftp_net_read(None, "220") : read.left = None
      BY DEF ftp_net_read, InTime, None, Gone
  <2> QED
      BY <2>1 DEF UFTP_ReadServerCommand
<1>4. LoggedIn \in SUBSET {None}
    BY <1>1, <1>2, <1>3 DEF LoggedIn
<1>5. Stated(LoggedIn) \in SUBSET {None}
    BY <1>1, <1>2, <1>4 DEF Stated
<1> QED
    BY <1>4, <1>5

\* UFTP_OpenFile in step: it fails only without a descriptor, and starts no
\* transfer only for a negative number.
LEMMA OpenedInTime ==
    ASSUME InTime, NEW o \in Int, NEW d \in Fds \cup {NoFd},
           NEW out \in OpenFileOutcomes(None, o, d)
    PROVE  /\ out.pend = None
           /\ \/ out.use = "refused" /\ d = NoFd
              \/ out.use = "idle" /\ ToInt(o) < 0
              \/ out.use = "sending"
<1> DEFINE Outcome(use, at, left, ok) ==
               [use |-> use, at |-> at, pend |-> left, ok |-> ok]
           epsv == UFTP_SendCommand(None, "229", TRUE)
           port == {a.pend : a \in {b \in epsv :
                            None = None /\ b.code = "229" /\ d # NoFd}}
           type == Send(port, "200", TRUE)
           can  == ToInt(o) >= 0
           rest == Send(Passed(type, "200"), "350", can)
           retr == Send(Passed(rest, "350"), "150", TRUE)
<1>1. {"229", "200", "350", "150"} \subseteq Codes \ {"err"} /\ can \in BOOLEAN
    BY DEF Codes
<1>2. \A a \in epsv : a.pend = None /\ a.code = "229"
    BY <1>1, AnsweredInTime
<1>3. port \in SUBSET {None}
    BY <1>2
<1> HIDE DEF epsv, port, can
<1>4. \A a \in type : a.pend = None /\ a.code = "200"
    BY <1>1, <1>3, DoneInTime
<1>5. Passed(type, "200") \in SUBSET {None}
    BY <1>4 DEF Passed
<1> HIDE DEF type
<1>6. \A a \in rest : a.pend = None /\ a.code = IF can THEN "350" ELSE "err"
    BY <1>1, <1>5, SentInTime
<1>7. Passed(rest, "350") \in SUBSET {None}
    BY <1>6 DEF Passed
<1> HIDE DEF rest
<1>8. \A a \in retr : a.pend = None /\ a.code = "150" /\ a.done = TRUE
    BY <1>1, <1>7, DoneInTime
<1> HIDE DEF retr
<1>9. \/ \E a \in {b \in epsv : b.code = None} :
            out = Outcome("abort", 0, a.pend, FALSE)
      \/ \E a \in {b \in epsv : /\ b.code # None
                                 /\ \/ None # None \/ b.code # "229"
                                    \/ d = NoFd
                                    \/ "refuse" \in faults} :
            out = Outcome("refused", 0, a.pend, FALSE)
      \/ \E a \in {b \in type : b.code # "200"} \cup {b \in rest : b.code # "350"} :
            out = Outcome("idle", 0, a.pend, FALSE)
      \/ \E a \in retr : out = Outcome(IF a.done THEN "sending" ELSE "idle",
                                       IF a.done THEN ToInt(o) ELSE 0,
                                       a.pend, a.code = "150")
    BY DEF OpenFileOutcomes, Failed, epsv, port, type, can, rest, retr
<1>10. None # "229" /\ "refuse" \notin faults
    BY DEF None, InTime
<1>11. ASSUME NEW a \in epsv, out = Outcome("refused", 0, a.pend, FALSE), d = NoFd
       PROVE  out.pend = None /\ out.use = "refused"
    BY <1>2, <1>11
<1>12. ASSUME NEW a \in rest, ~can, out = Outcome("idle", 0, a.pend, FALSE)
       PROVE  out.pend = None /\ out.use = "idle" /\ ToInt(o) < 0
  <2> DEFINE i == ToInt(o)
  <2>1. i \in Int
      BY ToIntProperty
  <2>2. ~(i >= 0)
      BY <1>12 DEF can
  <2> HIDE DEF i
  <2>3. i < 0
      BY <2>1, <2>2
  <2> QED
      BY <1>6, <1>12, <2>3 DEF i
<1>13. ASSUME NEW a \in retr,
              out = Outcome(IF a.done THEN "sending" ELSE "idle",
                            IF a.done THEN ToInt(o) ELSE 0,
                            a.pend, a.code = "150")
       PROVE  out.pend = None /\ out.use = "sending"
    BY <1>8, <1>13
<1> QED
    BY <1>2, <1>4, <1>6, <1>9, <1>10, <1>11, <1>12, <1>13

\* The data connection an open file has is its own.
LEMMA OwnsData ==
    ASSUME Timely, NEW g \in handle
    PROVE  /\ g \in Files /\ g # Nobody
           /\ data[g] \in Fds \cup {NoFd}
           /\ data[g] # NoFd => /\ sock[data[g]].owner = g
                                /\ sock[data[g]].use # "free"
           /\ ~Foreign(g)
           /\ InStep(g)
<1>1. DataIsOwn(g) /\ g \notin refused
    BY DEF Timely, Running, Connections
<1>2. g \in Files /\ data[g] \in Fds \cup {NoFd} /\ g # Nobody
    BY DEF Timely, Running, TypeOK
<1>3. data[g] # NoFd => sock[data[g]].owner = g
    BY <1>1 DEF DataIsOwn, OwnData
<1>4. data[g] # NoFd => sock[data[g]].use # "free"
    BY <1>2, <1>3 DEF Timely, Running, FreeIsNobodys
<1> QED
    BY <1>2, <1>3, <1>4 DEF Foreign, Timely

\* What a step does with free descriptors and those of one file leaves the
\* others in step.
LEMMA OthersInStep ==
    ASSUME Timely, UNCHANGED faults, NEW f \in Files, handle' \ {f} \subseteq handle,
           \A g \in Files \ {f} : /\ offset'[g] = offset[g]
                                 /\ data'[g] = data[g]
                                 /\ pend'[g] = pend[g],
           \A e \in Fds : \/ sock'[e] = sock[e]
                          \/ sock[e].use = "free"
                          \/ sock[e].owner = f
    PROVE  \A g \in handle' \ {f} : InStep(g)'
<1> SUFFICES ASSUME NEW g \in handle' \ {f} PROVE InStep(g)'
    OBVIOUS
<1>1. g \in handle
    OBVIOUS
<1>2. /\ g \in Files /\ g # f
      /\ data[g] \in Fds \cup {NoFd}
      /\ data[g] # NoFd => sock[data[g]].owner = g /\ sock[data[g]].use # "free"
      /\ InStep(g)
    BY <1>1, OwnsData
<1>3. data[g] # NoFd => sock'[data[g]] = sock[data[g]]
    BY <1>2
<1> QED
    BY <1>2, <1>3 DEF InStep, Sending, OwnData

\* ftpfs_open leaves every file in step with its server.
LEMMA OpenInStep ==
    ASSUME Timely, UNCHANGED faults, NEW f \in Files, ftpfs_open(f)
    PROVE  refused' = {} /\ \A g \in handle' : InStep(g)'
<1>0. /\ f \notin handle /\ refused' = {}
      /\ sock \in [Fds -> Sockets] /\ handle \subseteq Files
      /\ data \in [Files -> Fds \cup {NoFd}] /\ pend \in [Files -> Replies]
      /\ offset \in [Files -> Int] /\ ctl \in [Files -> Fds \cup {NoFd}]
    BY DEF ftpfs_open, Timely, Running, TypeOK
<1>1. \A c \in FreeFds : c \in Fds /\ sock[c].use = "free"
    BY DEF FreeFds
<1>2. CASE LoginFailed /\ UNCHANGED <<handle, ctl, data, offset, size, pend>>
  <2>1. PICK c \in FreeFds : sock' = [sock EXCEPT ![c] = Socket(Nobody, "ctl", 0)]
      BY <1>2 DEF LoginFailed
  <2>2. \A e \in Fds : sock'[e] = sock[e] \/ sock[e].use = "free"
      BY <1>0, <1>1, <2>1
  <2> QED
      BY <1>0, <1>2, <2>2, OthersInStep
<1>3. ASSUME NEW p \in LoggedIn \cup Stated(LoggedIn), OpenSucceeds(f, p)
      PROVE  \A g \in handle' : InStep(g)'
  <2>1. PICK c \in FreeFds : \E d \in FreeFds \ {c} :
            \E out \in OpenFileOutcomes(p, 0, d) : out.ok /\ Opened(f, c, d, out)
      BY <1>3 DEF OpenSucceeds
  <2>2. PICK d \in FreeFds \ {c} :
            \E out \in OpenFileOutcomes(p, 0, d) : out.ok /\ Opened(f, c, d, out)
      BY <2>1
  <2>3. PICK out \in OpenFileOutcomes(p, 0, d) : out.ok /\ Opened(f, c, d, out)
      BY <2>2
  <2>4. p = None /\ d \in Fds /\ 0 \in Int /\ d # NoFd /\ None \in Replies
      BY <1>1, LoginInTime DEF Timely, NoFd, Replies
  <2>5. out.pend = None /\ out.use = "sending"
      BY <2>3, <2>4, OpenedInTime, OpenFileOutcome DEF Timely
  <2>6. /\ data'[f] = d /\ pend'[f] = None
        /\ sock'[d] = Socket(f, "sending", out.at)
        /\ \A e \in Fds : sock'[e] = sock[e] \/ sock[e].use = "free"
        /\ \A g \in Files \ {f} : data'[g] = data[g] /\ pend'[g] = pend[g]
      BY <1>0, <1>1, <2>3, <2>4, <2>5 DEF Opened
  <2>7. handle' = handle \cup {f} /\ offset' = [offset EXCEPT ![f] = 0]
      BY <1>3 DEF OpenSucceeds
  <2>8. InStep(f)'
      BY <2>4, <2>6 DEF InStep, Sending, OwnData, Socket
  <2>9. \A g \in handle' \ {f} : InStep(g)'
      BY <1>0, <2>6, <2>7, OthersInStep
  <2> QED
      BY <2>8, <2>9
<1>4. ASSUME NEW p \in LoggedIn \cup Stated(LoggedIn), OpenFailed(p),
             UNCHANGED <<handle, ctl, data, offset, size, pend>>
      PROVE  \A g \in handle' : InStep(g)'
  <2>1. PICK c \in FreeFds : \E d \in NewFds(FreeFds \ {c}) :
            \E out \in OpenFileOutcomes(p, 0, d) : Leaked(c, d, out)
      BY <1>4 DEF OpenFailed
  <2>2. PICK d \in NewFds(FreeFds \ {c}) :
            \E out \in OpenFileOutcomes(p, 0, d) : Leaked(c, d, out)
      BY <2>1
  <2>3. PICK out \in OpenFileOutcomes(p, 0, d) : Leaked(c, d, out)
      BY <2>2
  <2>4. d \in Fds => sock[d].use = "free"
      BY <1>1 DEF NewFds, NoFd
  <2>5. \A e \in Fds : sock'[e] = sock[e] \/ sock[e].use = "free"
      BY <1>0, <1>1, <2>3, <2>4 DEF Leaked
  <2> QED
      BY <1>0, <1>4, <2>5, OthersInStep
<1> QED
    BY <1>0, <1>2, <1>3, <1>4 DEF ftpfs_open

\* ftpfs_read, up to the transfer, leaves every file in step.
LEMMA ReadInStep ==
    ASSUME Timely, UNCHANGED faults, NEW f \in Files, ftpfs_read(f)
    PROVE  refused' = {} /\ \A g \in handle' : InStep(g)'
<1>0. /\ f \in handle /\ refused = {} /\ InStep(f)
      /\ UNCHANGED <<handle, ctl, offset, size>>
      /\ sock \in [Fds -> Sockets] /\ handle \subseteq Files
      /\ data \in [Files -> Fds \cup {NoFd}] /\ pend \in [Files -> Replies]
      /\ offset \in [Files -> Int]
    BY DEF ftpfs_read, Timely, Running, TypeOK
<1>1. CASE data[f] # NoFd
  <2>1. UNCHANGED <<data, pend, sock, refused>>
      BY <1>1 DEF ftpfs_read
  <2> QED
      BY <1>0, <2>1 DEF Timely, InStep, Sending, OwnData
<1>2. CASE data[f] = NoFd
  <2>1. PICK d \in NewFds(FreeFds) :
            \E out \in OpenFileOutcomes(pend[f], offset[f], d) : Reopen(f, d, out)
      BY <1>2 DEF ftpfs_read
  <2>2. PICK out \in OpenFileOutcomes(pend[f], offset[f], d) : Reopen(f, d, out)
      BY <2>1
  <2>3. /\ d \in Fds \cup {NoFd} /\ (d \in Fds => sock[d].use = "free")
        /\ NoFd \notin Fds
      BY DEF FreeFds, NewFds, NoFd
  <2>4. pend[f] = None
      BY <1>0, <1>2 DEF InStep
  <2>5. /\ out.pend = None
        /\ \/ out.use = "refused" /\ d = NoFd
           \/ out.use = "idle" /\ ToInt(offset[f]) < 0
           \/ out.use = "sending"
    <3>1. InTime /\ offset[f] \in Int
        BY <1>0 DEF Timely
    <3>2. out \in OpenFileOutcomes(None, offset[f], d)
        BY <2>4
    <3> QED
        BY <2>3, <3>1, <3>2, OpenedInTime
  <2>6. d = NoFd => out.use = "refused"
    <3>1. pend[f] \in Replies /\ offset[f] \in Int
        BY <1>0
    <3> QED
        BY <2>3, <2>5, <3>1, OpenFileOutcome
  <2>7. /\ data'[f] = d /\ pend'[f] = None /\ refused' = {}
        /\ d # NoFd => sock' = [sock EXCEPT ![d] = Socket(f, out.use, out.at)]
        /\ d = NoFd => sock' = sock
        /\ \A g \in Files \ {f} : data'[g] = data[g] /\ pend'[g] = pend[g]
      BY <1>0, <2>2, <2>5, <2>6 DEF Reopen
  <2>8. InStep(f)'
    <3>1. CASE d = NoFd
        BY <2>7, <3>1 DEF InStep, Sending, OwnData
    <3>2. CASE d # NoFd
      <4>1. sock'[d] = Socket(f, out.use, out.at) /\ out.use \in {"idle", "sending"}
          BY <1>0, <2>3, <2>5, <2>7, <3>2
      <4>2. out.use = "idle" => ToInt(offset'[f]) < 0
          BY <1>0, <2>5
      <4> QED
          BY <2>7, <3>2, <4>1, <4>2 DEF InStep, Sending, OwnData, Socket
    <3> QED
        BY <3>1, <3>2
  <2>9. \A e \in Fds : sock'[e] = sock[e] \/ sock[e].use = "free"
      BY <1>0, <2>3, <2>7
  <2>10. \A g \in handle' \ {f} : InStep(g)'
      BY <1>0, <2>7, <2>9, OthersInStep
  <2> QED
      BY <2>7, <2>8, <2>10
<1> QED
    BY <1>1, <1>2

\* What an operation returns leaves every file in step.
LEMMA ReturnInStep ==
    ASSUME Timely, UNCHANGED faults, NEW f \in Files, ReadReturns(f)
    PROVE  refused' = {} /\ \A g \in handle' : InStep(g)'
<1>0. /\ f \in handle /\ f \in Files /\ refused = {}
      /\ UNCHANGED <<handle, ctl, data, pend, refused>>
      /\ sock \in [Fds -> Sockets] /\ handle \subseteq Files
      /\ offset \in [Files -> Int]
    BY DEF ReadReturns, Timely, Running, ReaderIsOpen, TypeOK
<1>1. ~ReadForeign(f) /\ InStep(f)
    BY <1>0, OwnsData DEF ReadForeign
<1>2. CASE ReadNothing(f)
    BY <1>0, <1>2 DEF ReadNothing, Timely, InStep, Sending, OwnData
<1>3. ASSUME Sending(f), NEW n \in Readable(f), Advance(f, n)
      PROVE  \A g \in handle' : InStep(g)'
  <2>1. data[f] \in Fds /\ sock[data[f]].owner = f /\ sock[data[f]].use = "sending"
      BY <1>0, <1>3, OwnsData DEF Sending, OwnData
  <2>2. /\ sock'[data[f]] = [sock[data[f]] EXCEPT !.at = @ + n]
        /\ \A e \in Fds : sock'[e] = sock[e] \/ sock[e].owner = f
        /\ \A g \in Files \ {f} : offset'[g] = offset[g]
      BY <1>0, <1>3, <2>1 DEF Advance
  <2>3. /\ sock'[data[f]].use = "sending"
        /\ sock'[data[f]].ended = sock[data[f]].ended
      BY <1>0, <2>1, <2>2 DEF Sockets
  <2>4. InStep(f)'
      BY <1>0, <1>1, <1>3, <2>3 DEF InStep, Sending, OwnData
  <2>5. \A g \in handle' \ {f} : InStep(g)'
      BY <1>0, <2>2, OthersInStep
  <2> QED
      BY <2>4, <2>5
<1> QED
    BY <1>0, <1>1, <1>2, <1>3 DEF ReadReturns

\* Closing the data connection after a transfer that has not ended reads the
\* reply about it; after any other, what was unread answers nothing.
LEMMA SeekInStep ==
    ASSUME Timely, UNCHANGED faults, NEW f \in Files, ftpfs_seek(f)
    PROVE  refused' = {} /\ \A g \in handle' : InStep(g)'
<1>0. /\ f \in handle /\ refused = {} /\ UNCHANGED handle
      /\ sock \in [Fds -> Sockets] /\ handle \subseteq Files
      /\ data \in [Files -> Fds \cup {NoFd}] /\ pend \in [Files -> Replies]
      /\ offset \in [Files -> Int]
    BY DEF ftpfs_seek, Timely, Running, TypeOK
<1>1. /\ data[f] \in Fds \cup {NoFd} /\ InStep(f)
      /\ data[f] # NoFd => sock[data[f]].owner = f
      /\ \A g \in Files \ {f} : offset'[g] = offset[g]
    BY <1>0, OwnsData DEF ftpfs_seek
<1>2. CASE UNCHANGED <<data, pend, sock, refused, fate>> /\ ~(data[f] > 0)
  <2>1. data[f] = NoFd
    <3>1. \A d \in Fds : d > 0
        OBVIOUS
    <3> QED
        BY <1>1, <1>2, <3>1
  <2>2. InStep(f)'
      BY <1>1, <1>2, <2>1 DEF InStep, Sending, OwnData
  <2>3. \A g \in handle' \ {f} : InStep(g)'
      BY <1>0, <1>1, <1>2, OthersInStep
  <2> QED
      BY <1>0, <1>2, <2>2, <2>3
<1>3. CASE UFTP_AbortTransfer(f)
  <2>1. PICK left \in UFTP_ReadServerCommand(pend[f], EndReply(f)) :
            pend' = [pend EXCEPT ![f] = left]
      BY <1>3 DEF UFTP_AbortTransfer
  <2>2. pend[f] # None => EndReply(f) = None
      BY <1>1 DEF EndReply, InStep
  <2>3. left = None
    <3>1. pend[f] # Gone /\ "late" \notin faults /\ "hangup" \notin faults
        BY <1>0 DEF Timely, InTime, Running, ClosedByServer
    <3>2. PICK read \in ftp_net_read(pend[f], EndReply(f)) : left = read.left
        BY <2>1 DEF UFTP_ReadServerCommand
    <3> QED
        BY <2>2, <3>1, <3>2 DEF ftp_net_read
  <2>4. /\ data'[f] = NoFd /\ pend'[f] = None /\ refused' = {}
        /\ \A g \in Files \ {f} : data'[g] = data[g] /\ pend'[g] = pend[g]
      BY <1>0, <1>3, <2>1, <2>3 DEF UFTP_AbortTransfer, Reconciled
  <2>5. \A e \in Fds : sock'[e] = sock[e] \/ sock[e].owner = f
      BY <1>0, <1>1, <1>3 DEF UFTP_AbortTransfer, DataClosed
  <2>6. InStep(f)'
      BY <2>4 DEF InStep, Sending, OwnData
  <2>7. \A g \in handle' \ {f} : InStep(g)'
      BY <1>0, <1>1, <2>4, <2>5, OthersInStep
  <2> QED
      BY <2>4, <2>6, <2>7
<1> QED
    BY <1>2, <1>3 DEF ftpfs_seek

\* ftpfs_close leaves the others in step.
LEMMA CloseInStep ==
    ASSUME Timely, UNCHANGED faults, NEW f \in Files, ftpfs_close(f)
    PROVE  refused' = {} /\ \A g \in handle' : InStep(g)'
<1>0. /\ f \in handle /\ refused' = {} /\ handle' = handle \ {f}
      /\ UNCHANGED offset
      /\ sock \in [Fds -> Sockets] /\ handle \subseteq Files
      /\ data \in [Files -> Fds \cup {NoFd}] /\ pend \in [Files -> Replies]
      /\ HasControl(f)
    BY DEF ftpfs_close, Reconciled, Timely, Running, TypeOK, Connections
<1>1. data[f] # NoFd => sock[data[f]].owner = f
    BY <1>0, OwnsData
<1>2. /\ \A e \in Fds : sock'[e] = sock[e] \/ sock[e].owner = f
      /\ \A g \in Files \ {f} : data'[g] = data[g] /\ pend'[g] = pend[g]
    BY <1>0, <1>1 DEF ftpfs_close, DataClosed, HasControl
<1> QED
    BY <1>0, <1>2, OthersInStep

\* What the server does leaves every file in step.
LEMMA ServerInStep ==
    ASSUME Timely, UNCHANGED faults, NEW f \in Files,
           ServerEnd(f) \/ Reset(f) \/ ServerDrop(f)
    PROVE  refused' = {} /\ \A g \in handle' : InStep(g)'
<1>0. /\ UNCHANGED <<handle, ctl, data, offset, refused>> /\ refused = {}
      /\ sock \in [Fds -> Sockets] /\ handle \subseteq Files
      /\ data[f] \in Fds /\ data[f] # NoFd /\ sock[data[f]].owner = f
      /\ pend \in [Files -> Replies]
    BY DEF ServerEnd, Reset, ServerDrop, Timely, Running, TypeOK, Sending, OwnData
<1>1. /\ \A e \in Fds \ {data[f]} : sock'[e] = sock[e]
      /\ \A g \in Files \ {f} : pend'[g] = pend[g]
    BY <1>0 DEF ServerEnd, Reset, ServerDrop, Post
<1>2. ASSUME f \in handle PROVE InStep(f)'
  <2>1. CASE ServerEnd(f)
    <3>1. sock'[data[f]].ended = TRUE /\ sock'[data[f]].use = "sending"
        BY <1>0, <2>1 DEF ServerEnd, Sending, Sockets
    <3> QED
        BY <1>0, <3>1 DEF InStep, Sending
  <2>2. CASE Reset(f)
    <3>1. sock'[data[f]].use = "eof" /\ "reset" \in faults'
        BY <1>0, <2>2 DEF Reset, Socket
    <3> QED
        BY <1>0, <3>1 DEF InStep, Sending
  <2>3. CASE ServerDrop(f)
    <3>1. sock'[data[f]].use = "eof" /\ sock[data[f]].use = "idle"
        BY <1>0, <2>3 DEF ServerDrop, Socket
    <3>2. ToInt(offset[f]) < 0
        BY <1>0, <1>2, <3>1 DEF Timely, InStep, OwnData
    <3> QED
        BY <1>0, <3>1, <3>2 DEF InStep, Sending
  <2> QED
      BY <2>1, <2>2, <2>3
<1>3. \A g \in handle' \ {f} : InStep(g)'
    BY <1>0, <1>1, OthersInStep
<1> QED
    BY <1>0, <1>2, <1>3

-----------------------------------------------------------------------------
\* All files are in step at first.
LEMMA InitEInv == Init => EInv
<1> SUFFICES ASSUME Init PROVE EInv
    OBVIOUS
<1>1. refused = {} /\ handle = {}
    BY DEF Init
<1> QED
    BY <1>1, InitIInv, InitHInv DEF EInv

\* A file that is open is inside a running process.
LEMMA IsTimely ==
    ASSUME EInv, InTime, fate = "running"
    PROVE  Timely
    BY DEF EInv, Timely, HInv, Running

\* Every step keeps it.
LEMMA NextEInv == EInv /\ [Next]_vars => EInv'
<1> SUFFICES ASSUME EInv, [Next]_vars PROVE EInv'
    OBVIOUS
<1>1. IInv' /\ HInv' /\ faults' = faults
    BY NextIInv, NextHInv DEF EInv, Next, vars
<1>2. CASE UNCHANGED vars
    BY <1>1, <1>2 DEF vars, EInv, InTime, InStep, Sending, OwnData
<1>3. ASSUME Step, InTime PROVE refused' = {} /\ \A f \in handle' : InStep(f)'
  <2>1. fate = "running"
      BY <1>3 DEF Step, ftpfs_open, ftpfs_read, ReadReturns, ftpfs_seek,
                  ftpfs_close, ServerEnd, Reset, ServerDrop, Idle
  <2>2. Timely
      BY <1>3, <2>1, IsTimely
  <2> QED
      BY <1>1, <1>3, <2>2, OpenInStep, ReadInStep, ReturnInStep, SeekInStep,
         CloseInStep, ServerInStep DEF Step
<1> QED
    BY <1>1, <1>2, <1>3 DEF Next, EInv, InTime

\* A read that returns inside the file has delivered something.
LEMMA ReadDelivers ==
    ASSUME EInv, InTime, NEW f \in Files, ReadReturns(f),
           offset[f] >= 0, offset[f] < size[f], offset[f] < Len, offset[f] < Half,
           data[f] # NoFd, ~("reset" \in faults /\ sock[data[f]].use = "eof")
    PROVE  offset'[f] > offset[f]
<1>1. Timely
    BY IsTimely DEF ReadReturns
<1>2. /\ f \in handle /\ offset \in [Files -> Int] /\ size \in [Files -> Nat]
      /\ sock \in [Fds -> Sockets]
    BY <1>1 DEF Timely, Running, ReaderIsOpen, ReadReturns, TypeOK
<1>3. /\ data[f] \in Fds /\ sock[data[f]].owner = f /\ sock[data[f]].use # "free"
      /\ ~Foreign(f) /\ InStep(f) /\ OwnData(f)
    BY <1>1, <1>2, OwnsData DEF OwnData
<1>4. ToInt(offset[f]) >= 0
  <2>1. ToInt(offset[f]) = offset[f]
      BY <1>2, ToIntProperty
  <2> QED
      BY <2>1
<1>5. sock[data[f]].use # "eof"
  <2> DEFINE i == ToInt(offset[f])
  <2>1. i \in Int /\ ~(i < 0)
      BY <1>2, <1>4, ToIntProperty
  <2> HIDE DEF i
  <2>2. sock[data[f]].use = "eof" /\ "reset" \notin faults => i < 0
      BY <1>3 DEF InStep, i
  <2> QED
      BY <2>1, <2>2
<1>6. ~AtEnd(f)
    BY <1>2 DEF AtEnd
<1>7. ASSUME Sending(f) PROVE Readable(f) # {}
  <2>1. sock[data[f]].at = offset[f]
    <3>1. InPosition(f) /\ offset[f] < 2 * Half
        BY <1>2 DEF EInv, IInv
    <3> QED
        BY <1>7, <3>1 DEF InPosition
  <2>2. 1 \in Readable(f)
      BY <1>2, <2>1 DEF Readable
  <2> QED
      BY <2>2
<1>8. \E n \in Readable(f) : Advance(f, n)
    BY <1>3, <1>5, <1>6, <1>7 DEF ReadReturns, ReadNothing, ReadForeign
<1>9. PICK n \in Readable(f) : offset' = [offset EXCEPT ![f] = @ + n]
    BY <1>8 DEF Advance
<1>10. n \in Nat \ {0}
    BY DEF Readable
<1> QED
    BY <1>2, <1>9, <1>10

\* In a network in time, whatever else the files of the mount do, a read
\* inside the file delivers something, or its transfer broke, or the process
\* had no descriptor left.
THEOREM ShortReadsExplained == Spec => EndOnlyAtEnd
<1> DEFINE Delivers ==
        \A f \in Files :
           (/\ faults \subseteq {"reset"}
            /\ mutex = f /\ mutex' = Nobody
            /\ offset[f] >= 0 /\ offset[f] < size[f] /\ offset[f] < Len /\ offset[f] < Half)
           => \/ offset'[f] > offset[f]
              \/ data[f] = NoFd
              \/ "reset" \in faults /\ sock[data[f]].use = "eof"
<1>1. EInv /\ [Next]_vars => [Delivers]_vars
  <2> SUFFICES ASSUME EInv, Next, NEW f \in Files,
                      faults \subseteq {"reset"}, mutex = f, mutex' = Nobody,
                      offset[f] >= 0, offset[f] < size[f], offset[f] < Len, offset[f] < Half
               PROVE  \/ offset'[f] > offset[f]
                      \/ data[f] = NoFd
                      \/ "reset" \in faults /\ sock[data[f]].use = "eof"
      OBVIOUS
  <2>1. PICK g \in Files : \/ ftpfs_open(g) \/ ftpfs_read(g) \/ ReadReturns(g)
                           \/ ftpfs_seek(g) \/ ftpfs_close(g)
                           \/ ServerEnd(g) \/ Reset(g) \/ ServerDrop(g)
      BY DEF Next, Step
  <2>2. f # Nobody
      OBVIOUS
  <2>3. ReadReturns(g) /\ g = f
      BY <2>1, <2>2 DEF ftpfs_open, ftpfs_read, ReadReturns, ftpfs_seek,
                       ftpfs_close, ServerEnd, Reset, ServerDrop, Idle
  <2> QED
      BY <2>3, ReadDelivers DEF InTime
<1>2. Spec => []EInv
    BY InitEInv, NextEInv, PTL DEF Spec
<1> QED
    BY <1>1, <1>2, PTL DEF Spec, EndOnlyAtEnd

=============================================================================
