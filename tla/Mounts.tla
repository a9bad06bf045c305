------------------------------- MODULE Mounts -------------------------------
(***************************************************************************)
(* The life of the file system objects other than CSSHFS (which module     *)
(* SshSessions is about): constructor, CheckConnection, RegisterFilesystem *)
(* and destructor of CNFSFS, CSMB2FS, CFTPFS, CM3U8FS, CISO9660FS,         *)
(* CCUEBINFS and CARCHFS, and the device table they share.                 *)
(*                                                                         *)
(* The application creates, connects and destroys its objects in one       *)
(* thread, as main.cpp does; its other threads call mounted file systems   *)
(* at any time.                                                            *)
(***************************************************************************)
EXTENDS Integers, FiniteSets, FiniteSetsExt

CONSTANTS
    Kinds,        \* which classes the objects may be of
    Objects,
    NameOf,       \* mount_name of each object; name is the same, less the colon
    Slots,        \* entries of devoptab_list that are left for file systems
    Callers,      \* threads that use mounted file systems
    Nobody,       \* no object: a free slot, a free mutex, a thread at rest
    MaxConnects   \* bound: no connect begins once there have been so many

AllKinds == {"nfs", "smb", "ftp", "m3u8", "iso", "cue", "arch"}

ASSUME MountsAssumption ==
    /\ Kinds \subseteq AllKinds
    /\ Objects \cap Callers = {}
    /\ Nobody \notin Objects \cup Callers
    /\ Objects \subseteq DOMAIN NameOf
    /\ Slots \subseteq Nat /\ IsFiniteSet(Slots)
    /\ MaxConnects \in Nat

VARIABLES
    kind,        \* class of each object
    life,        \* "unborn", "alive" or "dead"
    devices,     \* devoptab_list: the object in each slot
    context,     \* nfs, smb2, m3u8_file_memory, ISOReader, discimage
    connected,   \* is_connected
    registered,  \* fs_regisered
    failed,      \* the last connect did not return 0
    connects,    \* calls of connect so far
    main,        \* what the application's thread is doing, and to which object
    mutex,       \* session_mutex: its owner
    call         \* for each caller, the object it is in and how it found it

vars == <<kind, life, devices, context, connected, registered, failed, connects,
          main, mutex, call>>

-----------------------------------------------------------------------------
Rest == [object |-> Nobody, at |-> "rest"]
Idle == [object |-> Nobody, inside |-> FALSE, live |-> FALSE, age |-> 0]

\* Classes whose constructor connects and registers.
Images == {"iso", "cue", "arch"}

\* Classes whose register_fs calls AddDevice without FindDevice before.
Blind == {"ftp", "m3u8", "arch"}

Init ==
    /\ kind \in [Objects -> Kinds]
    /\ life = [o \in Objects |-> "unborn"]
    /\ devices = [s \in Slots |-> Nobody]
    /\ context = [o \in Objects |-> "null"]
    /\ connected = [o \in Objects |-> FALSE]
    /\ registered = [o \in Objects |-> FALSE]
    /\ failed = [o \in Objects |-> FALSE]
    /\ connects = [o \in Objects |-> 0]
    /\ main = Rest
    /\ mutex = [o \in Objects |-> Nobody]
    /\ call = [c \in Callers |-> Idle]

At(o, at) == main = [object |-> o, at |-> at]
Goto(o, at) == main' = [object |-> o, at |-> at]

-----------------------------------------------------------------------------
(***************************************************************************)
(* The device table, which belongs to the C library.  AddDevice takes the  *)
(* first slot that is free or holds a device of the same name.             *)
(***************************************************************************)
Holding(name) == {s \in Slots : devices[s] # Nobody /\ NameOf[devices[s]] = name}
FreeSlots == {s \in Slots : devices[s] = Nobody}

AddDevice(o) ==
    LET open == FreeSlots \cup Holding(NameOf[o])
    IN  IF open = {} THEN devices ELSE [devices EXCEPT ![Min(open)] = o]

RemoveDevice(name) ==
    IF Holding(name) = {} THEN devices
    ELSE [devices EXCEPT ![Min(Holding(name))] = Nobody]

\* Mutant: the table is entered without a look at it.
register_fs_blind(o) == AddDevice(o)

\* Mutant: any device is taken for one of this name.
register_fs_finds_any(o) ==
    IF kind[o] \notin Blind /\ FreeSlots # Slots THEN devices ELSE AddDevice(o)

register_fs(o) ==
    IF kind[o] \notin Blind /\ Holding(NameOf[o]) # {}
    THEN devices
    ELSE AddDevice(o)

unregister_fs(o) == RemoveDevice(NameOf[o])

-----------------------------------------------------------------------------
\* CFTPFS has two constructors, of which the one with a URL connects.
Construct(o) ==
    /\ main = Rest
    /\ life[o] = "unborn"
    /\ life' = [life EXCEPT ![o] = "alive"]
    /\ \/ kind[o] \in Images \cup {"ftp"} /\ Goto(o, "construct")
       \/ kind[o] \notin Images /\ UNCHANGED main
    /\ UNCHANGED <<kind, devices, context, connected, registered, failed,
                   connects, mutex, call>>

CheckConnection(o) ==
    /\ main = Rest
    /\ life[o] = "alive"
    /\ kind[o] \notin Images
    /\ MapThenSumSet(LAMBDA p : connects[p], Objects) < MaxConnects
    /\ Goto(o, "check")
    /\ UNCHANGED <<kind, life, devices, context, connected, registered, failed,
                   connects, mutex, call>>

RegisterFilesystem(o) ==
    /\ main = Rest
    /\ life[o] = "alive"
    /\ kind[o] \notin Images
    /\ MapThenSumSet(LAMBDA p : connects[p], Objects) < MaxConnects
    /\ Goto(o, "register")
    /\ UNCHANGED <<kind, life, devices, context, connected, registered, failed,
                   connects, mutex, call>>

Calling == {"construct", "check", "register"}

\* connect returns: the three callers go on to register_fs when it is 0,
\* except CheckConnection of the classes other than CFTPFS.
Returns(o, rc) ==
    /\ main.object = o
    /\ main.at \in Calling
    /\ connects' = [connects EXCEPT ![o] = @ + 1]
    /\ failed' = [failed EXCEPT ![o] = rc # 0]
    /\ main' = IF rc # 0 \/ (main.at = "check" /\ kind[o] # "ftp") THEN Rest
               ELSE [object |-> o,
                     at |-> IF main.at = "register" THEN "flag" ELSE "enter"]
    /\ UNCHANGED <<kind, life, devices, registered, mutex, call>>

\* nfs_init_context and nfs_mount.  The context of a mount that failed is
\* destroyed, and nfs still points to it.
nfs_connect(o) ==
    /\ kind[o] = "nfs"
    /\ \/ /\ context[o] # "init"
          /\ main.object = o /\ main.at \in Calling
          /\ context' = [context EXCEPT ![o] = "init"]
          /\ UNCHANGED <<kind, life, devices, connected, registered, failed,
                         connects, main, mutex, call>>
       \/ /\ context[o] # "init"
          /\ Returns(o, -1)
          /\ context' = [context EXCEPT ![o] = "null"]
          /\ UNCHANGED connected
       \/ /\ context[o] = "init"
          /\ Returns(o, 0)
          /\ context' = [context EXCEPT ![o] = "live"]
          /\ connected' = [connected EXCEPT ![o] = TRUE]
       \/ /\ context[o] = "init"
          /\ Returns(o, -1)
          /\ context' = [context EXCEPT ![o] = "freed"]
          /\ UNCHANGED connected

\* Mutant: the context of a failed connect is destroyed, as in CNFSFS.
smb2_connect_destroys(o) ==
    /\ kind[o] = "smb"
    /\ \/ /\ Returns(o, -1)
          /\ context' \in {[context EXCEPT ![o] = "null"],
                           [context EXCEPT ![o] = "freed"]}
          /\ UNCHANGED connected
       \/ /\ Returns(o, 0)
          /\ context' = [context EXCEPT ![o] = "live"]
          /\ connected' = [connected EXCEPT ![o] = TRUE]

\* smb2_init_context and smb2_connect_share.  The context of a share that
\* could not be connected stays.
smb2_connect(o) ==
    /\ kind[o] = "smb"
    /\ \/ /\ Returns(o, -1)
          /\ context' \in {[context EXCEPT ![o] = "null"],
                           [context EXCEPT ![o] = "unconnected"]}
          /\ UNCHANGED connected
       \/ /\ Returns(o, 0)
          /\ context' = [context EXCEPT ![o] = "live"]
          /\ connected' = [connected EXCEPT ![o] = TRUE]

\* A dialogue over a connection of its own; the object keeps nothing of it.
ftp_connect(o) ==
    /\ kind[o] = "ftp"
    /\ \/ Returns(o, -1) /\ UNCHANGED connected
       \/ Returns(o, 0) /\ connected' = [connected EXCEPT ![o] = TRUE]
    /\ UNCHANGED context

\* The list is read into memory that lasts until disconnect.
m3u8_connect(o) ==
    /\ kind[o] = "m3u8"
    /\ \/ /\ Returns(o, -1)
          /\ context' \in {context, [context EXCEPT ![o] = "live"]}
          /\ UNCHANGED connected
       \/ /\ Returns(o, 0)
          /\ context' = [context EXCEPT ![o] = "live"]
          /\ connected' = [connected EXCEPT ![o] = TRUE]

\* new CISOReader, new CCDDAISO, or the list of the archive's entries: the
\* first two keep their reader whether the image is valid or not.
image_connect(o) ==
    /\ kind[o] \in Images
    /\ \E rc \in {0, -1} :
          /\ Returns(o, rc)
          /\ connected' = [connected EXCEPT ![o] = rc = 0 /\ kind[o] = "arch"]
    /\ context' = IF kind[o] = "arch" THEN context
                  ELSE [context EXCEPT ![o] = "live"]

\* register_fs, and fs_regisered where the caller sets it: before or after
\* register_fs, which is the same to everybody else.
Register(o) ==
    /\ \/ At(o, "enter") /\ registered' = [registered EXCEPT ![o] = @ \/ kind[o] = "iso"]
       \/ At(o, "flag") /\ registered' = [registered EXCEPT ![o] = TRUE]
    /\ devices' = register_fs(o)
    /\ main' = Rest
    /\ UNCHANGED <<kind, life, context, connected, failed, connects, mutex, call>>

-----------------------------------------------------------------------------
(***************************************************************************)
(* The destructors.                                                        *)
(***************************************************************************)
Destroy(o) ==
    /\ main = Rest
    /\ life[o] = "alive"
    /\ Goto(o, IF kind[o] \in {"nfs", "ftp", "m3u8"} /\ connected[o]
               THEN "disconnect" ELSE "free")
    /\ UNCHANGED <<kind, life, devices, context, connected, registered, failed,
                   connects, mutex, call>>

\* What the object's resource becomes when it is given back.
Freed(o) ==
    [context EXCEPT ![o] = CASE @ = "null"  -> "null"
                             [] @ = "freed" -> "twice"
                             [] OTHER       -> "freed"]

\* disconnect of CNFSFS, CFTPFS and CM3U8FS, under session_mutex.
disconnect(o) ==
    /\ At(o, "disconnect")
    /\ mutex[o] = Nobody
    /\ context' = IF kind[o] = "m3u8" THEN Freed(o) ELSE context
    /\ connected' = [connected EXCEPT ![o] = FALSE]
    /\ Goto(o, "free")
    /\ UNCHANGED <<kind, life, devices, registered, failed, connects, mutex, call>>

\* The device is removed, by some classes whether it was entered or not.
Removed(o) ==
    /\ devices' = IF registered[o] \/ kind[o] \in {"cue", "arch"}
                  THEN unregister_fs(o) ELSE devices
    /\ life' = [life EXCEPT ![o] = "dead"]
    /\ main' = Rest
    /\ UNCHANGED <<kind, registered, failed, connects, mutex, call>>

\* nfs_destroy_context, the reader of an image: nobody holds the mutex here.
FreeContext(o) ==
    /\ At(o, "free")
    /\ kind[o] \in {"nfs", "iso", "cue"}
    /\ context' = Freed(o)
    /\ Goto(o, "unregister")
    /\ UNCHANGED <<kind, life, devices, connected, registered, failed, connects,
                   mutex, call>>

Unregister(o) ==
    /\ \/ At(o, "unregister")
       \/ At(o, "free") /\ kind[o] \in {"ftp", "m3u8", "arch"}
    /\ Removed(o)
    /\ UNCHANGED <<context, connected>>

\* Mutant: the destructor does not wait for calls.
smb2_destructor_without_mutex(o) ==
    /\ At(o, "free")
    /\ kind[o] = "smb"
    /\ context' = IF connected[o] THEN Freed(o) ELSE context
    /\ Removed(o)
    /\ UNCHANGED connected

\* All of ~CSMB2FS holds session_mutex.
smb2_destructor(o) ==
    /\ At(o, "free")
    /\ kind[o] = "smb"
    /\ mutex[o] = Nobody
    /\ context' = IF connected[o] THEN Freed(o) ELSE context
    /\ Removed(o)
    /\ UNCHANGED connected

-----------------------------------------------------------------------------
(***************************************************************************)
(* A call finds its object in the table, waits for session_mutex and uses  *)
(* the object's context.  A call that finds its object destroyed is not    *)
(* followed further.                                                       *)
(***************************************************************************)
BeginCall(c) ==
    /\ call[c] = Idle
    /\ \E s \in Slots :
          /\ devices[s] # Nobody
          /\ call' = [call EXCEPT ![c].object = devices[s]]
    /\ UNCHANGED <<kind, life, devices, context, connected, registered, failed,
                   connects, main, mutex>>

EnterCall(c) ==
    LET o == call[c].object
    IN  /\ o # Nobody
        /\ ~call[c].inside
        /\ life[o] = "alive"
        /\ mutex[o] = Nobody
        /\ mutex' = [mutex EXCEPT ![o] = c]
        /\ call' = [call EXCEPT ![c] = [object |-> o, inside |-> TRUE,
                                        live |-> context[o] = "live",
                                        age |-> connects[o]]]
        /\ UNCHANGED <<kind, life, devices, context, connected, registered,
                       failed, connects, main>>

LeaveCall(c) ==
    /\ call[c].inside
    /\ mutex' = [mutex EXCEPT ![call[c].object] = Nobody]
    /\ call' = [call EXCEPT ![c] = Idle]
    /\ UNCHANGED <<kind, life, devices, context, connected, registered, failed,
                   connects, main>>

connect(o) ==
    \/ nfs_connect(o)
    \/ smb2_connect(o)
    \/ ftp_connect(o)
    \/ m3u8_connect(o)
    \/ image_connect(o)

Next ==
    \/ \E o \in Objects :
          \/ Construct(o)
          \/ CheckConnection(o)
          \/ RegisterFilesystem(o)
          \/ connect(o)
          \/ Register(o)
          \/ Destroy(o)
          \/ disconnect(o)
          \/ FreeContext(o)
          \/ Unregister(o)
          \/ smb2_destructor(o)
    \/ \E c \in Callers : BeginCall(c) \/ EnterCall(c) \/ LeaveCall(c)

Spec == Init /\ [][Next]_vars

-----------------------------------------------------------------------------
\* The device table leads to a destroyed object only under a name that one of
\* the classes that do not look for it before AddDevice has used too; and not
\* even then when the object alone has the name and registered once.
NoDanglingDevice ==
    \A s \in Slots :
        devices[s] # Nobody /\ life[devices[s]] = "dead" =>
            LET o == devices[s]
                namesakes == {p \in Objects : NameOf[p] = NameOf[o]}
            IN  /\ \E p \in namesakes : kind[p] \in Blind
                /\ namesakes = {o} => connects[o] > 1 \/ ~registered[o]

\* An object that nobody shares its name with and that RegisterFilesystem has
\* registered can be reached until its destructor runs, whatever the others
\* are entered and removed meanwhile.
StaysMounted ==
    \A o \in Objects :
        /\ registered[o]
        /\ life[o] = "alive"
        /\ \A p \in Objects \ {o} : NameOf[p] # NameOf[o]
        => \E s \in Slots : devices[s] = o

\* No context is destroyed twice, except that of an NFS mount that failed and
\* was not tried again.
FreedOnce ==
    \A o \in Objects :
        context[o] = "twice" => kind[o] = "nfs" /\ failed[o]

\* A call on an SMB mount that got session_mutex while the share was
\* connected keeps the context until it leaves, unless the object is
\* connected once more under it.
CallKeepsContext ==
    \A c \in Callers :
        LET o == call[c].object
        IN  call[c].inside /\ call[c].live /\ kind[o] = "smb"
            /\ connects[o] = call[c].age
            => context[o] = "live"
=============================================================================
