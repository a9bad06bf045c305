---------------------------- MODULE SshSessions -----------------------------
(***************************************************************************)
(* The life of CSSHFS objects: connect, register, calls through the device *)
(* table, and the destructor, for several objects that share libssh2 with  *)
(* its process-wide count of users (s_lib_refcount).                       *)
(*                                                                         *)
(* Each object is connected and destroyed by one thread; calls on the      *)
(* mounted file system come from others at any time.  connect gives the    *)
(* object a session, a socket and an SFTP channel one after the other and  *)
(* returns in between when something fails: the object keeps what it has   *)
(* got, and the next connect overwrites it.                                *)
(***************************************************************************)
EXTENDS Integers, FiniteSets

CONSTANTS
    Objects,     \* CSSHFS objects
    Names,       \* mount names
    NameOf,      \* each object's name
    Callers,     \* threads that use mounted file systems
    Nobody,      \* no owner, no device, no object
    Errors,      \* what libssh2 may report: a subset of ErrorCodes
    MaxConnects  \* how often the application tries to connect an object

ErrorCodes == {"NONE", "ALLOC", "SOCKET_SEND", "SOCKET_TIMEOUT", "EAGAIN",
               "SFTP_PROTOCOL", "AUTHENTICATION_FAILED"}

ASSUME SshSessionsAssumption ==
    /\ IsFiniteSet(Objects)
    /\ Objects \cap Callers = {}
    /\ Nobody \notin Objects \cup Callers
    /\ NameOf \in [Objects -> Names]
    /\ Errors \subseteq ErrorCodes
    /\ MaxConnects \in Nat

VARIABLES
    refcount,    \* s_lib_refcount
    library,     \* libssh2 is initialised
    devices,     \* devoptab_list: the object each name leads to
    taken,       \* lib_ref_taken
    session,     \* ssh_session
    sftp,        \* sftp_session
    socket,      \* socket
    connected,   \* is_connected
    registered,  \* fs_regisered
    mutex,       \* session_mutex: its owner
    step,        \* where the object's own thread is
    connects,    \* calls of connect so far
    failures,    \* those that did not end with is_connected set
    lost,        \* sessions and sockets connect has overwritten
    call         \* for each caller, the object it is in and how it found it

library_vars == <<refcount, library>>
handles == <<session, sftp, socket, connected, lost>>
counts  == <<connects, failures>>
vars == <<library_vars, devices, taken, handles, registered, mutex, step,
          counts, call>>

-----------------------------------------------------------------------------
Idle == [object |-> Nobody, inside |-> FALSE, live |-> FALSE]

Init ==
    /\ refcount = 0
    /\ library = FALSE
    /\ devices = [m \in Names |-> Nobody]
    /\ taken = [o \in Objects |-> FALSE]
    /\ session = [o \in Objects |-> "null"]
    /\ sftp = [o \in Objects |-> "null"]
    /\ socket = [o \in Objects |-> "none"]
    /\ connected = [o \in Objects |-> FALSE]
    /\ registered = [o \in Objects |-> FALSE]
    /\ mutex = [o \in Objects |-> Nobody]
    /\ step = [o \in Objects |-> "idle"]
    /\ connects = [o \in Objects |-> 0]
    /\ failures = [o \in Objects |-> 0]
    /\ lost = [o \in Objects |-> [sessions |-> 0, sockets |-> 0]]
    /\ call = [c \in Callers |-> Idle]

Goto(o, s) == step' = [step EXCEPT ![o] = s]

\* connect returns something other than 0.
Fails(o) ==
    /\ Goto(o, "idle")
    /\ failures' = [failures EXCEPT ![o] = @ + 1]

-----------------------------------------------------------------------------
\* Mutant: a reference is taken although the object already has one.
lib_ref_acquire_again(o) ==
    /\ library' = TRUE
    /\ refcount' = refcount + 1
    /\ taken' = [taken EXCEPT ![o] = TRUE]

\* The case that returns true; the rest runs under s_lib_mutex.
lib_ref_acquire(o) ==
    IF taken[o]
    THEN UNCHANGED <<library_vars, taken>>
    ELSE /\ library' = TRUE
         /\ refcount' = refcount + 1
         /\ taken' = [taken EXCEPT ![o] = TRUE]

\* Mutant: a reference is given back that was never taken.
lib_ref_release_always(o) ==
    /\ taken' = [taken EXCEPT ![o] = FALSE]
    /\ refcount' = refcount - 1
    /\ library' = (refcount # 1)

lib_ref_release(o) ==
    IF taken[o]
    THEN /\ taken' = [taken EXCEPT ![o] = FALSE]
         /\ refcount' = refcount - 1
         /\ library' = (refcount # 1)
    ELSE UNCHANGED <<library_vars, taken>>

\* Every error that has no case of its own becomes 0, which is success for the
\* callers.  SFTP_PROTOCOL asks the SFTP session, and there is none.
ssh2_translate_error(error) ==
    IF error \in {"ALLOC", "SOCKET_SEND", "SOCKET_TIMEOUT", "EAGAIN"}
    THEN -1 ELSE 0

(***************************************************************************)
(* connect, up to each of its returns.                                     *)
(***************************************************************************)
BeginConnect(o) ==
    /\ step[o] = "idle"
    /\ connects[o] < MaxConnects
    /\ connects' = [connects EXCEPT ![o] = @ + 1]
    /\ \/ /\ lib_ref_acquire(o)
          /\ Goto(o, "session")
          /\ UNCHANGED failures
       \/ /\ ~taken[o]
          /\ refcount = 0
          /\ Fails(o)
          /\ UNCHANGED <<library_vars, taken>>
    /\ UNCHANGED <<devices, handles, registered, mutex, call>>

\* this->ssh_session = libssh2_session_init()
SessionInit(o) ==
    /\ step[o] = "session"
    /\ lost' = IF session[o] = "live"
               THEN [lost EXCEPT ![o].sessions = @ + 1] ELSE lost
    /\ \/ /\ session' = [session EXCEPT ![o] = "live"]
          /\ Goto(o, "socket")
          /\ UNCHANGED failures
       \/ /\ session' = [session EXCEPT ![o] = "null"]
          /\ Fails(o)
    /\ UNCHANGED <<library_vars, devices, taken, sftp, socket, connected,
                   registered, mutex, connects, call>>

\* this->socket = ::socket(...), the address, and ::connect
OpenSocket(o) ==
    /\ step[o] = "socket"
    /\ lost' = IF socket[o] = "open"
               THEN [lost EXCEPT ![o].sockets = @ + 1] ELSE lost
    /\ \E s \in {"none", "open"} :
          /\ socket' = [socket EXCEPT ![o] = s]
          /\ \/ /\ s = "open"
                /\ Goto(o, "handshake")
                /\ UNCHANGED failures
             \/ Fails(o)
    /\ UNCHANGED <<library_vars, devices, taken, session, sftp, connected,
                   registered, mutex, connects, call>>

\* connect has returned 0: RegisterFilesystem goes on to register_fs,
\* CheckConnection says true and is done.
Succeeds(o) == Goto(o, "register") \/ Goto(o, "idle")

\* What connect's caller sees when something went wrong in it.
Returned(o, rc) ==
    /\ failures' = [failures EXCEPT ![o] = @ + 1]
    /\ IF rc = 0 THEN Succeeds(o) ELSE Goto(o, "idle")

\* Handshake, authentication and SFTP channel, all under session_mutex.
connect(o) ==
    /\ step[o] = "handshake"
    /\ mutex[o] = Nobody
    /\ \/ /\ sftp' = [sftp EXCEPT ![o] = "live"]
          /\ connected' = [connected EXCEPT ![o] = TRUE]
          /\ Succeeds(o)
          /\ UNCHANGED failures
       \/ \E error \in Errors :
             /\ Returned(o, ssh2_translate_error(error))
             /\ sftp' \in {sftp, [sftp EXCEPT ![o] = "null"]}
             /\ UNCHANGED connected
    /\ UNCHANGED <<library_vars, devices, taken, session, socket, lost,
                   registered, mutex, connects, call>>

(***************************************************************************)
(* RegisterFilesystem: the table is searched, and then entered, by the     *)
(* object's name.  AddDevice replaces a device of the same name, and does   *)
(* nothing when the table is full.                                         *)
(***************************************************************************)
FindDevice(o) ==
    /\ step[o] = "register"
    /\ Goto(o, IF devices[NameOf[o]] = Nobody THEN "add" ELSE "flag")
    /\ UNCHANGED <<library_vars, devices, taken, handles, registered, mutex,
                   counts, call>>

AddDevice(o) ==
    /\ step[o] = "add"
    /\ devices' \in {devices, [devices EXCEPT ![NameOf[o]] = o]}
    /\ Goto(o, "flag")
    /\ UNCHANGED <<library_vars, taken, handles, registered, mutex, counts, call>>

\* Mutant: the device is in the table and the object does not know.
RegisterFilesystem_forgets_flag(o) ==
    /\ step[o] = "flag"
    /\ Goto(o, "idle")
    /\ UNCHANGED <<library_vars, devices, taken, handles, registered, mutex,
                   counts, call>>

\* fs_regisered = true, whatever register_fs returned.
RegisterFilesystem(o) ==
    /\ step[o] = "flag"
    /\ registered' = [registered EXCEPT ![o] = TRUE]
    /\ Goto(o, "idle")
    /\ UNCHANGED <<library_vars, devices, taken, handles, mutex, counts, call>>

-----------------------------------------------------------------------------
(***************************************************************************)
(* The destructor: disconnect, session, library, device.                   *)
(***************************************************************************)
BeginDestroy(o) ==
    /\ step[o] = "idle"
    /\ Goto(o, IF connected[o] THEN "disconnect" ELSE "free")
    /\ UNCHANGED <<library_vars, devices, taken, handles, registered, mutex,
                   counts, call>>

\* What disconnect shuts down.
ShutDown(o) ==
    /\ sftp' = [sftp EXCEPT ![o] = IF @ = "live" THEN "closed" ELSE @]
    /\ socket' = [socket EXCEPT ![o] = IF @ = "open" THEN "closed" ELSE @]
    /\ connected' = [connected EXCEPT ![o] = FALSE]

\* Mutant: a call may be inside.
disconnect_without_mutex(o) ==
    /\ step[o] = "disconnect"
    /\ ShutDown(o)
    /\ Goto(o, "free")
    /\ UNCHANGED <<library_vars, devices, taken, session, lost, registered,
                   mutex, counts, call>>

\* Mutant: the socket stays open.
disconnect_keeps_socket(o) ==
    /\ step[o] = "disconnect"
    /\ mutex[o] = Nobody
    /\ sftp' = [sftp EXCEPT ![o] = IF @ = "live" THEN "closed" ELSE @]
    /\ connected' = [connected EXCEPT ![o] = FALSE]
    /\ Goto(o, "free")
    /\ UNCHANGED <<library_vars, devices, taken, session, socket, lost,
                   registered, mutex, counts, call>>

disconnect(o) ==
    /\ step[o] = "disconnect"
    /\ mutex[o] = Nobody
    /\ ShutDown(o)
    /\ Goto(o, "free")
    /\ UNCHANGED <<library_vars, devices, taken, session, lost, registered,
                   mutex, counts, call>>

\* libssh2_session_free, outside session_mutex.
FreeSession(o) ==
    /\ step[o] = "free"
    /\ session' = [session EXCEPT ![o] = IF @ = "live" THEN "freed" ELSE @]
    /\ Goto(o, "release")
    /\ UNCHANGED <<library_vars, devices, taken, sftp, socket, connected, lost,
                   registered, mutex, counts, call>>

ReleaseLibrary(o) ==
    /\ step[o] = "release"
    /\ lib_ref_release(o)
    /\ Goto(o, "unregister")
    /\ UNCHANGED <<devices, handles, registered, mutex, counts, call>>

\* RemoveDevice goes by the name alone.
unregister_fs(o) ==
    /\ step[o] = "unregister"
    /\ devices' = IF registered[o] THEN [devices EXCEPT ![NameOf[o]] = Nobody]
                                   ELSE devices
    /\ Goto(o, "dead")
    /\ UNCHANGED <<library_vars, taken, handles, registered, mutex, counts, call>>

-----------------------------------------------------------------------------
(***************************************************************************)
(* A call on a mounted file system finds its object in the table, waits    *)
(* for session_mutex and uses sftp_session.  A call that found its object  *)
(* before it was destroyed has nothing to wait for: it is not followed     *)
(* further.                                                                *)
(***************************************************************************)
BeginCall(c) ==
    /\ call[c] = Idle
    /\ \E m \in Names :
          /\ devices[m] # Nobody
          /\ call' = [call EXCEPT ![c].object = devices[m]]
    /\ UNCHANGED <<library_vars, devices, taken, handles, registered, mutex,
                   step, counts>>

EnterCall(c) ==
    /\ call[c].object # Nobody
    /\ ~call[c].inside
    /\ step[call[c].object] # "dead"
    /\ mutex[call[c].object] = Nobody
    /\ mutex' = [mutex EXCEPT ![call[c].object] = c]
    /\ call' = [call EXCEPT ![c] = [object |-> @.object, inside |-> TRUE,
                                    live |-> sftp[@.object] = "live"]]
    /\ UNCHANGED <<library_vars, devices, taken, handles, registered, step, counts>>

\* Mutant: the call ends without letting go of session_mutex.
LeaveCall_keeps_mutex(c) ==
    /\ call[c].inside
    /\ call' = [call EXCEPT ![c] = Idle]
    /\ UNCHANGED <<library_vars, devices, taken, handles, registered, mutex,
                   step, counts>>

LeaveCall(c) ==
    /\ call[c].inside
    /\ mutex' = [mutex EXCEPT ![call[c].object] = Nobody]
    /\ call' = [call EXCEPT ![c] = Idle]
    /\ UNCHANGED <<library_vars, devices, taken, handles, registered, step, counts>>

Connecting(o) ==
    \/ BeginConnect(o)
    \/ SessionInit(o)
    \/ OpenSocket(o)
    \/ connect(o)
    \/ FindDevice(o)
    \/ AddDevice(o)
    \/ RegisterFilesystem(o)

Destroying(o) ==
    \/ BeginDestroy(o)
    \/ disconnect(o)
    \/ FreeSession(o)
    \/ ReleaseLibrary(o)
    \/ unregister_fs(o)

Next ==
    \/ \E o \in Objects : Connecting(o) \/ Destroying(o)
    \/ \E c \in Callers : BeginCall(c) \/ EnterCall(c) \/ LeaveCall(c)

Spec == Init /\ [][Next]_vars

\* A destructor that has begun and a call that is inside go on, and the
\* application does not call the file systems for ever.  session_mutex need
\* not be fair: nothing is assumed of who gets it.
FairSpec ==
    /\ Spec
    /\ \A o \in Objects :
          /\ WF_vars(disconnect(o))
          /\ WF_vars(FreeSession(o))
          /\ WF_vars(ReleaseLibrary(o))
          /\ WF_vars(unregister_fs(o))
    /\ \A c \in Callers : WF_vars(LeaveCall(c))
    /\ <>[][~\E c \in Callers : EnterCall(c)]_vars

-----------------------------------------------------------------------------
Steps == {"idle", "session", "socket", "handshake", "register", "add", "flag",
          "disconnect", "free", "release", "unregister", "dead"}

\* Every variable keeps to its type; the count of users is never negative.
TypeOK ==
    /\ refcount \in Nat
    /\ library \in BOOLEAN
    /\ devices \in [Names -> Objects \cup {Nobody}]
    /\ taken \in [Objects -> BOOLEAN]
    /\ session \in [Objects -> {"null", "live", "freed"}]
    /\ sftp \in [Objects -> {"null", "live", "closed"}]
    /\ socket \in [Objects -> {"none", "open", "closed"}]
    /\ connected \in [Objects -> BOOLEAN]
    /\ registered \in [Objects -> BOOLEAN]
    /\ mutex \in [Objects -> Callers \cup {Nobody}]
    /\ step \in [Objects -> Steps]
    /\ connects \in [Objects -> Nat]
    /\ failures \in [Objects -> Nat]
    /\ lost \in [Objects -> [sessions : Nat, sockets : Nat]]
    /\ call \in [Callers -> [object : Objects \cup {Nobody},
                             inside : BOOLEAN, live : BOOLEAN]]

Users == {o \in Objects : taken[o]}

\* However connects and destructors of the objects interleave, and however
\* often an object tries to connect, libssh2 counts each object once, is
\* initialised exactly while somebody counts on it, and never exits while an
\* object still has a session to use or free.
LibraryCounted ==
    /\ refcount = Cardinality(Users)
    /\ library <=> refcount > 0
    /\ \A o \in Objects : session[o] = "live" => library

\* A call that got session_mutex while the SFTP channel was up keeps it until
\* it leaves, whatever connect and the destructor do meanwhile.
CallKeepsChannel ==
    \A c \in Callers :
        call[c].inside /\ call[c].live => sftp[call[c].object] = "live"

\* The device table never leads to a destroyed object, also when objects
\* share a name and replace or remove each other's device.
NoDanglingDevice ==
    \A m \in Names : devices[m] # Nobody => step[devices[m]] # "dead"

\* What a destroyed object leaves behind: its last session never, one session
\* and one socket for each repeated connect, and nothing at all when its only
\* connect succeeded.
LeaksBounded ==
    \A o \in Objects :
        step[o] = "dead" =>
            /\ session[o] # "live"
            /\ connects[o] > 0 =>
                   lost[o].sessions < connects[o] /\ lost[o].sockets < connects[o]
            /\ connects[o] = 1 /\ failures[o] = 0 =>
                   socket[o] = "closed" /\ sftp[o] = "closed"

\* A destructor that has begun ends, whoever holds session_mutex when it comes
\* to disconnect and whatever the other objects and calls do.
DestroyEnds ==
    \A o \in Objects :
        step[o] \in {"disconnect", "free", "release", "unregister"}
            ~> step[o] = "dead"

\* RegisterFilesystem_v2 returns true only for a connected file system.
RegisteredIsConnected ==
    \A o \in Objects :
        registered[o] /\ step[o] = "idle" => connected[o]
=============================================================================
