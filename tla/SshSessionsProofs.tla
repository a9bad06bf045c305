------------------------- MODULE SshSessionsProofs --------------------------
(***************************************************************************)
(* For any number of SFTP objects, callers and connects: libssh2 is        *)
(* counted, calls keep their channel, the device table never dangles, and  *)
(* a destroyed object has leaked no more than its repeated connects.       *)
(***************************************************************************)
EXTENDS SshSessions, FiniteSetTheorems, TLAPS

-----------------------------------------------------------------------------
(***************************************************************************)
(* What the steps keep, besides the types.                                 *)
(***************************************************************************)

\* An object with a session, or on its way to one, holds a reference until
\* the destructor has freed the session.
SessionsHoldLibrary ==
    \A o \in Objects :
        /\ session[o] = "live" => taken[o]
        /\ step[o] = "session" => taken[o]
        /\ step[o] \in {"release", "unregister", "dead"} => session[o] # "live"

\* A caller that is inside an object owns its mutex.
InsideOwnsMutex ==
    \A c \in Callers :
        call[c].inside => /\ call[c].object \in Objects
                          /\ mutex[call[c].object] = c

\* An object in the table is there under its name and knows it, or is about to.
DevicesKnown ==
    \A m \in Names :
        devices[m] # Nobody =>
            /\ NameOf[devices[m]] = m
            /\ registered[devices[m]] \/ step[devices[m]] = "flag"
            /\ step[devices[m]] # "dead"

\* How often connect has come past the session, or the socket.
Tried(o, before) == IF step[o] \in before THEN connects[o] - 1 ELSE connects[o]

\* The first of the sessions and of the sockets overwrites nothing.
Overwritten ==
    \A o \in Objects :
        /\ step[o] \in {"session", "socket"} => connects[o] > 0
        /\ session[o] = "live" => Tried(o, {"session"}) > 0
        /\ lost[o].sessions > 0 => lost[o].sessions < Tried(o, {"session"})
        /\ socket[o] = "open" => Tried(o, {"session", "socket"}) > 0
        /\ lost[o].sockets > 0 => lost[o].sockets < Tried(o, {"session", "socket"})

\* What an object has whose only connect has not failed.
OnlyConnect ==
    \A o \in Objects :
        connects[o] = 1 /\ failures[o] = 0 =>
            /\ step[o] = "handshake" => socket[o] = "open"
            /\ step[o] \in {"register", "add", "flag", "idle", "disconnect"} =>
                   connected[o] /\ socket[o] = "open" /\ sftp[o] = "live"
            /\ step[o] \in {"free", "release", "unregister", "dead"} =>
                   socket[o] = "closed" /\ sftp[o] = "closed"

IInv ==
    /\ TypeOK
    /\ LibraryCounted
    /\ SessionsHoldLibrary
    /\ InsideOwnsMutex
    /\ CallKeepsChannel
    /\ DevicesKnown
    /\ Overwritten
    /\ OnlyConnect

-----------------------------------------------------------------------------
\* The invariant holds at first.
LEMMA InitIInv == Init => IInv
<1> SUFFICES ASSUME Init PROVE IInv
  OBVIOUS
<1> USE SshSessionsAssumption
<1>1. TypeOK
  BY DEF Init, TypeOK, Idle, Steps
<1>2. LibraryCounted
  <2>1. Users = {}
    BY DEF Init, Users
  <2>2. Cardinality(Users) = 0
    BY <2>1, FS_EmptySet
  <2>3. library = FALSE /\ refcount = 0 /\ ~(refcount > 0)
    BY DEF Init
  <2>4. \A o \in Objects : session[o] # "live"
    BY DEF Init
  <2> QED
    BY <2>2, <2>3, <2>4 DEF LibraryCounted
<1>3. SessionsHoldLibrary /\ DevicesKnown /\ Overwritten /\ OnlyConnect
  BY DEF Init, SessionsHoldLibrary, DevicesKnown, Overwritten, OnlyConnect, Tried
<1>4. InsideOwnsMutex /\ CallKeepsChannel
  BY DEF Init, InsideOwnsMutex, CallKeepsChannel, Idle
<1> QED
  BY <1>1, <1>2, <1>3, <1>4 DEF IInv

\* A reference more, or less, is one to count more, or less.
LEMMA UsersCounted ==
    ASSUME TypeOK
    PROVE  IsFiniteSet(Users) /\ Cardinality(Users) \in Nat
  BY FS_Subset, FS_CardinalityType, SshSessionsAssumption DEF Users

\* An object that takes a reference is one more user.
LEMMA OneMore ==
    ASSUME TypeOK, NEW o \in Objects, ~taken[o],
           taken' = [taken EXCEPT ![o] = TRUE]
    PROVE  Cardinality(Users') = Cardinality(Users) + 1
<1>1. o \notin Users /\ Users' = Users \cup {o}
  BY DEF TypeOK, Users
<1> QED
  BY <1>1, UsersCounted, FS_AddElement

\* An object that gives it back is one less.
LEMMA OneLess ==
    ASSUME TypeOK, NEW o \in Objects, taken[o],
           taken' = [taken EXCEPT ![o] = FALSE]
    PROVE  /\ Users' = Users \ {o}
           /\ Cardinality(Users') = Cardinality(Users) - 1
<1>1. o \in Users /\ Users' = Users \ {o}
  BY DEF TypeOK, Users
<1> QED
  BY <1>1, UsersCounted, FS_RemoveElement

\* Whoever is counted makes the count positive.
LEMMA SomeUser ==
    ASSUME TypeOK, NEW o \in Objects, taken[o] PROVE Cardinality(Users) > 0
<1>1. Users # {}
  BY DEF Users
<1>2. Cardinality(Users) # 0
  BY <1>1, UsersCounted, FS_EmptySet
<1> QED
  BY <1>2, UsersCounted

\* What connect and the destructor do with libssh2 keeps the count.
LEMMA AcquireCounts ==
    ASSUME TypeOK, LibraryCounted, SessionsHoldLibrary,
           NEW o \in Objects, lib_ref_acquire(o), session' = session
    PROVE  LibraryCounted'
<1>1. CASE taken[o]
  BY <1>1 DEF lib_ref_acquire, LibraryCounted, Users, library_vars
<1>2. CASE ~taken[o]
  <2>1. /\ taken' = [taken EXCEPT ![o] = TRUE]
        /\ refcount' = refcount + 1
        /\ library' = TRUE
    BY <1>2 DEF lib_ref_acquire
  <2>2. Cardinality(Users') = Cardinality(Users) + 1
    BY <1>2, <2>1, OneMore
  <2>3. refcount = Cardinality(Users) /\ refcount \in Nat
    BY UsersCounted DEF LibraryCounted
  <2>4. refcount' = Cardinality(Users') /\ refcount' > 0
    BY <2>1, <2>2, <2>3
  <2> QED
    BY <2>1, <2>4 DEF LibraryCounted
<1> QED
  BY <1>1, <1>2

\* lib_ref_release keeps the count.
LEMMA ReleaseCounts ==
    ASSUME TypeOK, LibraryCounted, SessionsHoldLibrary,
           NEW o \in Objects, step[o] = "release", lib_ref_release(o),
           session' = session
    PROVE  LibraryCounted'
<1>1. CASE ~taken[o]
  BY <1>1 DEF lib_ref_release, LibraryCounted, Users, library_vars
<1>2. CASE taken[o]
  <2>1. /\ taken' = [taken EXCEPT ![o] = FALSE]
        /\ refcount' = refcount - 1
        /\ library' = (refcount # 1)
    BY <1>2 DEF lib_ref_release
  <2>2. Users' = Users \ {o} /\ Cardinality(Users') = Cardinality(Users) - 1
    BY <1>2, <2>1, OneLess
  <2>3. Cardinality(Users) > 0
    BY <1>2, SomeUser
  <2>4. refcount = Cardinality(Users) /\ refcount \in Nat
    BY UsersCounted DEF LibraryCounted
  <2>5. /\ refcount' = Cardinality(Users')
        /\ refcount' \in Nat
        /\ refcount' > 0 <=> refcount # 1
    BY <2>1, <2>2, <2>3, <2>4
  <2>6. library' <=> refcount' > 0
    BY <2>1, <2>5
  <2>7. ASSUME NEW p \in Objects, session[p] = "live" PROVE library'
    <3>1. p # o /\ taken[p]
      BY <2>7 DEF SessionsHoldLibrary
    <3>2. p \in Users /\ o \in Users
      BY <1>2, <3>1 DEF Users
    <3>3. Users \ {o} # {} /\ IsFiniteSet(Users \ {o})
      BY <3>1, <3>2, UsersCounted, FS_RemoveElement
    <3>4. Cardinality(Users \ {o}) # 0
      BY <3>3, FS_EmptySet
    <3>5. refcount' # 0
      BY <2>2, <2>5, <3>4
    <3> QED
      BY <2>5, <2>6, <3>5
  <2> QED
    BY <2>5, <2>6, <2>7 DEF LibraryCounted
<1> QED
  BY <1>1, <1>2

\* Every step keeps the count.
LEMMA CountPreserved ==
    ASSUME TypeOK, LibraryCounted, SessionsHoldLibrary, [Next]_vars
    PROVE  LibraryCounted'
<1>1. ASSUME NEW o \in Objects, BeginConnect(o) PROVE LibraryCounted'
  <2>1. CASE lib_ref_acquire(o)
    BY <1>1, <2>1, AcquireCounts DEF BeginConnect, handles
  <2>2. CASE UNCHANGED <<library_vars, taken>>
    BY <1>1, <2>2 DEF BeginConnect, LibraryCounted, Users, library_vars, handles
  <2> QED
    BY <1>1, <2>1, <2>2 DEF BeginConnect
<1>2. ASSUME NEW o \in Objects, SessionInit(o) PROVE LibraryCounted'
  <2>1. library /\ UNCHANGED <<library_vars, taken>>
    <3>1. taken[o]
      BY <1>2 DEF SessionInit, SessionsHoldLibrary
    <3> QED
      BY <1>2, <3>1, SomeUser DEF SessionInit, LibraryCounted
  <2> QED
    BY <2>1 DEF LibraryCounted, Users, library_vars
<1>3. ASSUME NEW o \in Objects, OpenSocket(o) PROVE LibraryCounted'
  BY <1>3 DEF OpenSocket, LibraryCounted, Users, library_vars, handles
<1>4. ASSUME NEW o \in Objects, connect(o) PROVE LibraryCounted'
  BY <1>4 DEF connect, LibraryCounted, Users, library_vars, handles
<1>5. ASSUME NEW o \in Objects, FindDevice(o) PROVE LibraryCounted'
  BY <1>5 DEF FindDevice, LibraryCounted, Users, library_vars, handles
<1>6. ASSUME NEW o \in Objects, AddDevice(o) PROVE LibraryCounted'
  BY <1>6 DEF AddDevice, LibraryCounted, Users, library_vars, handles
<1>7. ASSUME NEW o \in Objects, RegisterFilesystem(o) PROVE LibraryCounted'
  BY <1>7 DEF RegisterFilesystem, LibraryCounted, Users, library_vars, handles
<1>8. ASSUME NEW o \in Objects, BeginDestroy(o) PROVE LibraryCounted'
  BY <1>8 DEF BeginDestroy, LibraryCounted, Users, library_vars, handles
<1>9. ASSUME NEW o \in Objects, disconnect(o) PROVE LibraryCounted'
  BY <1>9 DEF disconnect, LibraryCounted, Users, library_vars, handles
<1>10. ASSUME NEW o \in Objects, FreeSession(o) PROVE LibraryCounted'
  BY <1>10 DEF FreeSession, TypeOK, LibraryCounted, Users, library_vars, handles
<1>11. ASSUME NEW o \in Objects, ReleaseLibrary(o) PROVE LibraryCounted'
  BY <1>11, ReleaseCounts DEF ReleaseLibrary, handles
<1>12. ASSUME NEW o \in Objects, unregister_fs(o) PROVE LibraryCounted'
  BY <1>12 DEF unregister_fs, LibraryCounted, Users, library_vars, handles
<1>13. ASSUME NEW c \in Callers, BeginCall(c) PROVE LibraryCounted'
  BY <1>13 DEF BeginCall, LibraryCounted, Users, library_vars, handles
<1>14. ASSUME NEW c \in Callers, EnterCall(c) PROVE LibraryCounted'
  BY <1>14 DEF EnterCall, LibraryCounted, Users, library_vars, handles
<1>15. ASSUME NEW c \in Callers, LeaveCall(c) PROVE LibraryCounted'
  BY <1>15 DEF LeaveCall, LibraryCounted, Users, library_vars, handles
<1>16. CASE UNCHANGED vars
  BY <1>16 DEF vars, LibraryCounted, Users, library_vars, handles
<1> QED
  BY <1>1, <1>2, <1>3, <1>4, <1>5, <1>6, <1>7, <1>8, <1>9,
     <1>10, <1>11, <1>12, <1>13, <1>14, <1>15, <1>16 DEF Next, Connecting, Destroying

\* Where an object goes next, and what it counts.
LEMMA GotoType ==
    ASSUME TypeOK, NEW o \in Objects, NEW s \in Steps, Goto(o, s)
    PROVE  step' \in [Objects -> Steps]
  BY DEF TypeOK, Goto

\* A connect that fails keeps the types.
LEMMA FailsType ==
    ASSUME TypeOK, NEW o \in Objects, Fails(o)
    PROVE  step' \in [Objects -> Steps] /\ failures' \in [Objects -> Nat]
<1>1. step' \in [Objects -> Steps]
  BY GotoType DEF Fails, Steps
<1>2. failures' \in [Objects -> Nat]
  BY DEF Fails, TypeOK
<1> QED
  BY <1>1, <1>2

\* A connect that returns keeps the types.
LEMMA ReturnedType ==
    ASSUME TypeOK, NEW o \in Objects, NEW rc, Returned(o, rc)
    PROVE  step' \in [Objects -> Steps] /\ failures' \in [Objects -> Nat]
<1>1. Goto(o, "idle") \/ Succeeds(o)
  BY DEF Returned
<1>2. step' \in [Objects -> Steps]
  BY <1>1, GotoType DEF Succeeds, Steps
<1>3. failures' \in [Objects -> Nat]
  BY DEF Returned, TypeOK
<1> QED
  BY <1>2, <1>3

\* Every step keeps to the types.
LEMMA TypePreserved ==
    ASSUME TypeOK, LibraryCounted, LibraryCounted', [Next]_vars PROVE TypeOK'
<1> USE SshSessionsAssumption
<1>0. refcount' \in Nat
  <2>1. IsFiniteSet(Users')
    BY FS_Subset DEF Users
  <2> QED
    BY <2>1, FS_CardinalityType DEF LibraryCounted
<1>1. ASSUME NEW o \in Objects, BeginConnect(o) PROVE TypeOK'
  <2>1. step' \in [Objects -> Steps] /\ failures' \in [Objects -> Nat]
    <3>1. CASE Fails(o)
      BY <1>1, <3>1, FailsType
    <3>2. CASE Goto(o, "session") /\ UNCHANGED failures
      BY <3>2, GotoType DEF TypeOK, Steps
    <3> QED
      BY <1>1, <3>1, <3>2 DEF BeginConnect
  <2>2. taken' \in [Objects -> BOOLEAN] /\ library' \in BOOLEAN
    BY <1>1 DEF BeginConnect, lib_ref_acquire, library_vars, TypeOK
  <2>3. connects' \in [Objects -> Nat]
    BY <1>1 DEF BeginConnect, TypeOK
  <2> QED
    BY <1>1, <2>1, <2>2, <2>3, <1>0 DEF BeginConnect, TypeOK, handles
<1>2. ASSUME NEW o \in Objects, SessionInit(o) PROVE TypeOK'
  <2>1. step' \in [Objects -> Steps] /\ failures' \in [Objects -> Nat]
    <3>1. CASE Fails(o)
      BY <1>2, <3>1, FailsType
    <3>2. CASE Goto(o, "socket") /\ UNCHANGED failures
      BY <3>2, GotoType DEF TypeOK, Steps
    <3> QED
      BY <1>2, <3>1, <3>2 DEF SessionInit
  <2>2. lost' \in [Objects -> [sessions : Nat, sockets : Nat]]
    BY <1>2 DEF SessionInit, TypeOK
  <2>3. session' \in [Objects -> {"null", "live", "freed"}]
    BY <1>2 DEF SessionInit, TypeOK
  <2> QED
    BY <1>2, <2>1, <2>2, <2>3, <1>0 DEF SessionInit, TypeOK, library_vars
<1>3. ASSUME NEW o \in Objects, OpenSocket(o) PROVE TypeOK'
  <2>1. step' \in [Objects -> Steps] /\ failures' \in [Objects -> Nat]
    <3>1. CASE Fails(o)
      BY <1>3, <3>1, FailsType
    <3>2. CASE Goto(o, "handshake") /\ UNCHANGED failures
      BY <3>2, GotoType DEF TypeOK, Steps
    <3> QED
      BY <1>3, <3>1, <3>2 DEF OpenSocket
  <2>2. lost' \in [Objects -> [sessions : Nat, sockets : Nat]]
    BY <1>3 DEF OpenSocket, TypeOK
  <2>3. socket' \in [Objects -> {"none", "open", "closed"}]
    BY <1>3 DEF OpenSocket, TypeOK
  <2> QED
    BY <1>3, <2>1, <2>2, <2>3, <1>0 DEF OpenSocket, TypeOK, library_vars
<1>4. ASSUME NEW o \in Objects, connect(o) PROVE TypeOK'
  <2>1. step' \in [Objects -> Steps] /\ failures' \in [Objects -> Nat]
    <3>1. CASE \E error \in Errors : Returned(o, ssh2_translate_error(error))
      BY <3>1, ReturnedType
    <3>2. CASE Succeeds(o) /\ UNCHANGED failures
      BY <3>2, GotoType DEF Succeeds, TypeOK, Steps
    <3> QED
      BY <1>4, <3>1, <3>2 DEF connect
  <2>2. /\ sftp' \in [Objects -> {"null", "live", "closed"}]
        /\ connected' \in [Objects -> BOOLEAN]
    BY <1>4 DEF connect, TypeOK
  <2> QED
    BY <1>4, <2>1, <2>2, <1>0 DEF connect, TypeOK, library_vars
<1>5. ASSUME NEW o \in Objects, FindDevice(o) PROVE TypeOK'
  BY <1>5 DEF FindDevice, Goto, TypeOK, Steps, library_vars, handles, counts
<1>6. ASSUME NEW o \in Objects, AddDevice(o) PROVE TypeOK'
  BY <1>6 DEF AddDevice, Goto, TypeOK, Steps, library_vars, handles, counts
<1>7. ASSUME NEW o \in Objects, RegisterFilesystem(o) PROVE TypeOK'
  BY <1>7 DEF RegisterFilesystem, Goto, TypeOK, Steps, library_vars, handles,
        counts
<1>8. ASSUME NEW o \in Objects, BeginDestroy(o) PROVE TypeOK'
  BY <1>8 DEF BeginDestroy, Goto, TypeOK, Steps, library_vars, handles, counts
<1>9. ASSUME NEW o \in Objects, disconnect(o) PROVE TypeOK'
  BY <1>9 DEF disconnect, ShutDown, Goto, TypeOK, Steps, library_vars, handles,
        counts
<1>10. ASSUME NEW o \in Objects, FreeSession(o) PROVE TypeOK'
  BY <1>10 DEF FreeSession, Goto, TypeOK, Steps, library_vars, handles, counts
<1>11. ASSUME NEW o \in Objects, ReleaseLibrary(o) PROVE TypeOK'
  <2>1. taken' \in [Objects -> BOOLEAN] /\ library' \in BOOLEAN
    BY <1>11 DEF ReleaseLibrary, lib_ref_release, library_vars, TypeOK
  <2>2. step' \in [Objects -> Steps]
    BY <1>11 DEF ReleaseLibrary, Goto, TypeOK, Steps
  <2> QED
    BY <1>11, <2>1, <2>2, <1>0 DEF ReleaseLibrary, TypeOK, handles, counts
<1>12. ASSUME NEW o \in Objects, unregister_fs(o) PROVE TypeOK'
  BY <1>12 DEF unregister_fs, Goto, TypeOK, Steps, library_vars, handles,
        counts
<1>13. ASSUME NEW c \in Callers, BeginCall(c) PROVE TypeOK'
  <2>1. call' \in [Callers -> [object : Objects \cup {Nobody},
                                inside : BOOLEAN, live : BOOLEAN]]
    BY <1>13 DEF BeginCall, TypeOK
  <2> QED
    BY <1>13, <2>1 DEF BeginCall, TypeOK, library_vars, handles, counts
<1>14. ASSUME NEW c \in Callers, EnterCall(c) PROVE TypeOK'
  <2>1. call' \in [Callers -> [object : Objects \cup {Nobody},
                                inside : BOOLEAN, live : BOOLEAN]]
    <3> DEFINE up == sftp[call[c].object] = "live"
    <3>1. up \in BOOLEAN
      OBVIOUS
    <3>2. call' = [call EXCEPT ![c] = [object |-> call[c].object, inside |-> TRUE,
                                       live |-> up]]
      BY <1>14 DEF EnterCall
    <3> HIDE DEF up
    <3> QED
      BY <3>1, <3>2 DEF TypeOK
  <2>2. mutex' \in [Objects -> Callers \cup {Nobody}]
    BY <1>14 DEF EnterCall, TypeOK
  <2> QED
    BY <1>14, <2>1, <2>2 DEF EnterCall, TypeOK, library_vars, handles, counts
<1>15. ASSUME NEW c \in Callers, LeaveCall(c) PROVE TypeOK'
  BY <1>15 DEF LeaveCall, Idle, TypeOK, Steps, library_vars, handles, counts
<1>16. CASE UNCHANGED vars
  BY <1>16 DEF vars, TypeOK, Steps, library_vars, handles, counts
<1> QED
  BY <1>1, <1>2, <1>3, <1>4, <1>5, <1>6, <1>7, <1>8, <1>9,
     <1>10, <1>11, <1>12, <1>13, <1>14, <1>15, <1>16 DEF Next, Connecting, Destroying

\* A session is had and freed while the library is held.
LEMMA HoldPreserved ==
    ASSUME TypeOK, SessionsHoldLibrary, [Next]_vars PROVE SessionsHoldLibrary'
<1> USE SshSessionsAssumption
<1>1. ASSUME NEW o \in Objects, BeginConnect(o) PROVE SessionsHoldLibrary'
  BY <1>1 DEF BeginConnect, lib_ref_acquire, Fails, Goto, TypeOK,
        SessionsHoldLibrary, library_vars, handles, counts
<1>2. ASSUME NEW o \in Objects, SessionInit(o) PROVE SessionsHoldLibrary'
  BY <1>2 DEF SessionInit, Fails, Goto, TypeOK, SessionsHoldLibrary,
        library_vars, handles, counts
<1>3. ASSUME NEW o \in Objects, OpenSocket(o) PROVE SessionsHoldLibrary'
  BY <1>3 DEF OpenSocket, Fails, Goto, TypeOK, SessionsHoldLibrary,
        library_vars, handles, counts
<1>4. ASSUME NEW o \in Objects, connect(o) PROVE SessionsHoldLibrary'
  BY <1>4 DEF connect, Returned, Succeeds, Goto, TypeOK, SessionsHoldLibrary,
        library_vars, handles, counts
<1>5. ASSUME NEW o \in Objects, FindDevice(o) PROVE SessionsHoldLibrary'
  BY <1>5 DEF FindDevice, Goto, TypeOK, SessionsHoldLibrary, library_vars,
        handles, counts
<1>6. ASSUME NEW o \in Objects, AddDevice(o) PROVE SessionsHoldLibrary'
  BY <1>6 DEF AddDevice, Goto, TypeOK, SessionsHoldLibrary, library_vars,
        handles, counts
<1>7. ASSUME NEW o \in Objects, RegisterFilesystem(o) PROVE SessionsHoldLibrary'
  BY <1>7 DEF RegisterFilesystem, Goto, TypeOK, SessionsHoldLibrary,
        library_vars, handles, counts
<1>8. ASSUME NEW o \in Objects, BeginDestroy(o) PROVE SessionsHoldLibrary'
  BY <1>8 DEF BeginDestroy, Goto, TypeOK, SessionsHoldLibrary, library_vars,
        handles, counts
<1>9. ASSUME NEW o \in Objects, disconnect(o) PROVE SessionsHoldLibrary'
  BY <1>9 DEF disconnect, ShutDown, Goto, TypeOK, SessionsHoldLibrary,
        library_vars, handles, counts
<1>10. ASSUME NEW o \in Objects, FreeSession(o) PROVE SessionsHoldLibrary'
  BY <1>10 DEF FreeSession, Goto, TypeOK, SessionsHoldLibrary, library_vars,
        handles, counts
<1>11. ASSUME NEW o \in Objects, ReleaseLibrary(o) PROVE SessionsHoldLibrary'
  BY <1>11 DEF ReleaseLibrary, lib_ref_release, Goto, TypeOK,
        SessionsHoldLibrary, library_vars, handles, counts
<1>12. ASSUME NEW o \in Objects, unregister_fs(o) PROVE SessionsHoldLibrary'
  BY <1>12 DEF unregister_fs, Goto, TypeOK, SessionsHoldLibrary, library_vars,
        handles, counts
<1>13. ASSUME NEW c \in Callers, BeginCall(c) PROVE SessionsHoldLibrary'
  BY <1>13 DEF BeginCall, Idle, TypeOK, SessionsHoldLibrary, library_vars,
        handles, counts
<1>14. ASSUME NEW c \in Callers, EnterCall(c) PROVE SessionsHoldLibrary'
  BY <1>14 DEF EnterCall, Idle, TypeOK, SessionsHoldLibrary, library_vars,
        handles, counts
<1>15. ASSUME NEW c \in Callers, LeaveCall(c) PROVE SessionsHoldLibrary'
  BY <1>15 DEF LeaveCall, Idle, TypeOK, SessionsHoldLibrary, library_vars,
        handles, counts
<1>16. CASE UNCHANGED vars
  BY <1>16 DEF vars, TypeOK, SessionsHoldLibrary, library_vars, handles, counts
<1> QED
  BY <1>1, <1>2, <1>3, <1>4, <1>5, <1>6, <1>7, <1>8, <1>9,
     <1>10, <1>11, <1>12, <1>13, <1>14, <1>15, <1>16 DEF Next, Connecting, Destroying

\* The mutex goes from one caller to the next.
LEMMA InsidePreserved ==
    ASSUME TypeOK, InsideOwnsMutex, [Next]_vars PROVE InsideOwnsMutex'
<1> USE SshSessionsAssumption
<1>1. ASSUME NEW o \in Objects, BeginConnect(o) PROVE InsideOwnsMutex'
  BY <1>1 DEF BeginConnect, lib_ref_acquire, Fails, Goto, TypeOK,
        InsideOwnsMutex, library_vars, handles, counts
<1>2. ASSUME NEW o \in Objects, SessionInit(o) PROVE InsideOwnsMutex'
  BY <1>2 DEF SessionInit, Fails, Goto, TypeOK, InsideOwnsMutex, library_vars,
        handles, counts
<1>3. ASSUME NEW o \in Objects, OpenSocket(o) PROVE InsideOwnsMutex'
  BY <1>3 DEF OpenSocket, Fails, Goto, TypeOK, InsideOwnsMutex, library_vars,
        handles, counts
<1>4. ASSUME NEW o \in Objects, connect(o) PROVE InsideOwnsMutex'
  BY <1>4 DEF connect, Returned, Succeeds, Goto, TypeOK, InsideOwnsMutex, library_vars,
        handles, counts
<1>5. ASSUME NEW o \in Objects, FindDevice(o) PROVE InsideOwnsMutex'
  BY <1>5 DEF FindDevice, Goto, TypeOK, InsideOwnsMutex, library_vars, handles,
        counts
<1>6. ASSUME NEW o \in Objects, AddDevice(o) PROVE InsideOwnsMutex'
  BY <1>6 DEF AddDevice, Goto, TypeOK, InsideOwnsMutex, library_vars, handles,
        counts
<1>7. ASSUME NEW o \in Objects, RegisterFilesystem(o) PROVE InsideOwnsMutex'
  BY <1>7 DEF RegisterFilesystem, Goto, TypeOK, InsideOwnsMutex, library_vars,
        handles, counts
<1>8. ASSUME NEW o \in Objects, BeginDestroy(o) PROVE InsideOwnsMutex'
  BY <1>8 DEF BeginDestroy, Goto, TypeOK, InsideOwnsMutex, library_vars,
        handles, counts
<1>9. ASSUME NEW o \in Objects, disconnect(o) PROVE InsideOwnsMutex'
  BY <1>9 DEF disconnect, ShutDown, Goto, TypeOK, InsideOwnsMutex,
        library_vars, handles, counts
<1>10. ASSUME NEW o \in Objects, FreeSession(o) PROVE InsideOwnsMutex'
  BY <1>10 DEF FreeSession, Goto, TypeOK, InsideOwnsMutex, library_vars,
        handles, counts
<1>11. ASSUME NEW o \in Objects, ReleaseLibrary(o) PROVE InsideOwnsMutex'
  BY <1>11 DEF ReleaseLibrary, lib_ref_release, Goto, TypeOK, InsideOwnsMutex,
        library_vars, handles, counts
<1>12. ASSUME NEW o \in Objects, unregister_fs(o) PROVE InsideOwnsMutex'
  BY <1>12 DEF unregister_fs, Goto, TypeOK, InsideOwnsMutex, library_vars,
        handles, counts
<1>13. ASSUME NEW c \in Callers, BeginCall(c) PROVE InsideOwnsMutex'
  BY <1>13 DEF BeginCall, Idle, TypeOK, InsideOwnsMutex, library_vars, handles,
        counts
<1>14. ASSUME NEW c \in Callers, EnterCall(c) PROVE InsideOwnsMutex'
  BY <1>14 DEF EnterCall, Idle, TypeOK, InsideOwnsMutex, library_vars, handles,
        counts
<1>15. ASSUME NEW c \in Callers, LeaveCall(c) PROVE InsideOwnsMutex'
  BY <1>15 DEF LeaveCall, Idle, TypeOK, InsideOwnsMutex, library_vars, handles,
        counts
<1>16. CASE UNCHANGED vars
  BY <1>16 DEF vars, TypeOK, InsideOwnsMutex, library_vars, handles, counts
<1> QED
  BY <1>1, <1>2, <1>3, <1>4, <1>5, <1>6, <1>7, <1>8, <1>9,
     <1>10, <1>11, <1>12, <1>13, <1>14, <1>15, <1>16 DEF Next, Connecting, Destroying

\* Who changes the channel does so while nobody is inside.
LEMMA ChannelPreserved ==
    ASSUME TypeOK, InsideOwnsMutex, CallKeepsChannel, [Next]_vars PROVE CallKeepsChannel'
<1> USE SshSessionsAssumption
<1>1. ASSUME NEW o \in Objects, BeginConnect(o) PROVE CallKeepsChannel'
  BY <1>1 DEF BeginConnect, lib_ref_acquire, Fails, Goto, TypeOK,
        InsideOwnsMutex, CallKeepsChannel, library_vars, handles, counts
<1>2. ASSUME NEW o \in Objects, SessionInit(o) PROVE CallKeepsChannel'
  BY <1>2 DEF SessionInit, Fails, Goto, TypeOK, InsideOwnsMutex,
        CallKeepsChannel, library_vars, handles, counts
<1>3. ASSUME NEW o \in Objects, OpenSocket(o) PROVE CallKeepsChannel'
  BY <1>3 DEF OpenSocket, Fails, Goto, TypeOK, InsideOwnsMutex,
        CallKeepsChannel, library_vars, handles, counts
<1>4. ASSUME NEW o \in Objects, connect(o) PROVE CallKeepsChannel'
  <2>1. UNCHANGED call /\ mutex[o] = Nobody
    BY <1>4 DEF connect
  <2>2. \A p \in Objects : p # o => sftp'[p] = sftp[p]
    BY <1>4 DEF connect, TypeOK
  <2>3. ASSUME NEW c \in Callers, call[c].inside, call[c].live
        PROVE  sftp'[call[c].object] = "live"
    <3>1. mutex[call[c].object] = c /\ sftp[call[c].object] = "live"
      BY <2>3 DEF InsideOwnsMutex, CallKeepsChannel
    <3>2. call[c].object # o
      BY <2>1, <3>1
    <3>3. call[c].object \in Objects
      BY <2>3 DEF InsideOwnsMutex
    <3> QED
      BY <2>2, <3>1, <3>2, <3>3
  <2> QED
    BY <2>1, <2>3 DEF CallKeepsChannel
<1>5. ASSUME NEW o \in Objects, FindDevice(o) PROVE CallKeepsChannel'
  BY <1>5 DEF FindDevice, Goto, TypeOK, InsideOwnsMutex, CallKeepsChannel,
        library_vars, handles, counts
<1>6. ASSUME NEW o \in Objects, AddDevice(o) PROVE CallKeepsChannel'
  BY <1>6 DEF AddDevice, Goto, TypeOK, InsideOwnsMutex, CallKeepsChannel,
        library_vars, handles, counts
<1>7. ASSUME NEW o \in Objects, RegisterFilesystem(o) PROVE CallKeepsChannel'
  BY <1>7 DEF RegisterFilesystem, Goto, TypeOK, InsideOwnsMutex,
        CallKeepsChannel, library_vars, handles, counts
<1>8. ASSUME NEW o \in Objects, BeginDestroy(o) PROVE CallKeepsChannel'
  BY <1>8 DEF BeginDestroy, Goto, TypeOK, InsideOwnsMutex, CallKeepsChannel,
        library_vars, handles, counts
<1>9. ASSUME NEW o \in Objects, disconnect(o) PROVE CallKeepsChannel'
  BY <1>9 DEF disconnect, ShutDown, Goto, TypeOK, InsideOwnsMutex,
        CallKeepsChannel, library_vars, handles, counts
<1>10. ASSUME NEW o \in Objects, FreeSession(o) PROVE CallKeepsChannel'
  BY <1>10 DEF FreeSession, Goto, TypeOK, InsideOwnsMutex, CallKeepsChannel,
        library_vars, handles, counts
<1>11. ASSUME NEW o \in Objects, ReleaseLibrary(o) PROVE CallKeepsChannel'
  BY <1>11 DEF ReleaseLibrary, lib_ref_release, Goto, TypeOK, InsideOwnsMutex,
        CallKeepsChannel, library_vars, handles, counts
<1>12. ASSUME NEW o \in Objects, unregister_fs(o) PROVE CallKeepsChannel'
  BY <1>12 DEF unregister_fs, Goto, TypeOK, InsideOwnsMutex, CallKeepsChannel,
        library_vars, handles, counts
<1>13. ASSUME NEW c \in Callers, BeginCall(c) PROVE CallKeepsChannel'
  BY <1>13 DEF BeginCall, Idle, TypeOK, InsideOwnsMutex, CallKeepsChannel,
        library_vars, handles, counts
<1>14. ASSUME NEW c \in Callers, EnterCall(c) PROVE CallKeepsChannel'
  BY <1>14 DEF EnterCall, Idle, TypeOK, InsideOwnsMutex, CallKeepsChannel,
        library_vars, handles, counts
<1>15. ASSUME NEW c \in Callers, LeaveCall(c) PROVE CallKeepsChannel'
  BY <1>15 DEF LeaveCall, Idle, TypeOK, InsideOwnsMutex, CallKeepsChannel,
        library_vars, handles, counts
<1>16. CASE UNCHANGED vars
  BY <1>16 DEF vars, TypeOK, InsideOwnsMutex, CallKeepsChannel, library_vars,
        handles, counts
<1> QED
  BY <1>1, <1>2, <1>3, <1>4, <1>5, <1>6, <1>7, <1>8, <1>9,
     <1>10, <1>11, <1>12, <1>13, <1>14, <1>15, <1>16 DEF Next, Connecting, Destroying

\* An object takes its name out of the table before it is gone.
LEMMA DevicesPreserved ==
    ASSUME TypeOK, DevicesKnown, [Next]_vars PROVE DevicesKnown'
<1> USE SshSessionsAssumption
<1>1. ASSUME NEW o \in Objects, BeginConnect(o) PROVE DevicesKnown'
  BY <1>1 DEF BeginConnect, lib_ref_acquire, Fails, Goto, TypeOK, DevicesKnown,
        library_vars, handles, counts
<1>2. ASSUME NEW o \in Objects, SessionInit(o) PROVE DevicesKnown'
  BY <1>2 DEF SessionInit, Fails, Goto, TypeOK, DevicesKnown, library_vars,
        handles, counts
<1>3. ASSUME NEW o \in Objects, OpenSocket(o) PROVE DevicesKnown'
  BY <1>3 DEF OpenSocket, Fails, Goto, TypeOK, DevicesKnown, library_vars,
        handles, counts
<1>4. ASSUME NEW o \in Objects, connect(o) PROVE DevicesKnown'
  BY <1>4 DEF connect, Returned, Succeeds, Goto, TypeOK, DevicesKnown, library_vars,
        handles, counts
<1>5. ASSUME NEW o \in Objects, FindDevice(o) PROVE DevicesKnown'
  BY <1>5 DEF FindDevice, Goto, TypeOK, DevicesKnown, library_vars, handles,
        counts
<1>6. ASSUME NEW o \in Objects, AddDevice(o) PROVE DevicesKnown'
  BY <1>6 DEF AddDevice, Goto, TypeOK, DevicesKnown, library_vars, handles,
        counts
<1>7. ASSUME NEW o \in Objects, RegisterFilesystem(o) PROVE DevicesKnown'
  BY <1>7 DEF RegisterFilesystem, Goto, TypeOK, DevicesKnown, library_vars,
        handles, counts
<1>8. ASSUME NEW o \in Objects, BeginDestroy(o) PROVE DevicesKnown'
  BY <1>8 DEF BeginDestroy, Goto, TypeOK, DevicesKnown, library_vars, handles,
        counts
<1>9. ASSUME NEW o \in Objects, disconnect(o) PROVE DevicesKnown'
  BY <1>9 DEF disconnect, ShutDown, Goto, TypeOK, DevicesKnown, library_vars,
        handles, counts
<1>10. ASSUME NEW o \in Objects, FreeSession(o) PROVE DevicesKnown'
  BY <1>10 DEF FreeSession, Goto, TypeOK, DevicesKnown, library_vars, handles,
        counts
<1>11. ASSUME NEW o \in Objects, ReleaseLibrary(o) PROVE DevicesKnown'
  BY <1>11 DEF ReleaseLibrary, lib_ref_release, Goto, TypeOK, DevicesKnown,
        library_vars, handles, counts
<1>12. ASSUME NEW o \in Objects, unregister_fs(o) PROVE DevicesKnown'
  BY <1>12 DEF unregister_fs, Goto, TypeOK, DevicesKnown, library_vars,
        handles, counts
<1>13. ASSUME NEW c \in Callers, BeginCall(c) PROVE DevicesKnown'
  BY <1>13 DEF BeginCall, Idle, TypeOK, DevicesKnown, library_vars, handles,
        counts
<1>14. ASSUME NEW c \in Callers, EnterCall(c) PROVE DevicesKnown'
  BY <1>14 DEF EnterCall, Idle, TypeOK, DevicesKnown, library_vars, handles,
        counts
<1>15. ASSUME NEW c \in Callers, LeaveCall(c) PROVE DevicesKnown'
  BY <1>15 DEF LeaveCall, Idle, TypeOK, DevicesKnown, library_vars, handles,
        counts
<1>16. CASE UNCHANGED vars
  BY <1>16 DEF vars, TypeOK, DevicesKnown, library_vars, handles, counts
<1> QED
  BY <1>1, <1>2, <1>3, <1>4, <1>5, <1>6, <1>7, <1>8, <1>9,
     <1>10, <1>11, <1>12, <1>13, <1>14, <1>15, <1>16 DEF Next, Connecting, Destroying

\* A session or socket is overwritten by one of a later connect.
LEMMA OverwrittenPreserved ==
    ASSUME TypeOK, Overwritten, [Next]_vars PROVE Overwritten'
<1> USE SshSessionsAssumption
<1>1. ASSUME NEW o \in Objects, BeginConnect(o) PROVE Overwritten'
  BY <1>1 DEF BeginConnect, lib_ref_acquire, Fails, Goto, TypeOK, Overwritten,
        Tried, library_vars, handles, counts
<1>2. ASSUME NEW o \in Objects, SessionInit(o) PROVE Overwritten'
  BY <1>2 DEF SessionInit, Fails, Goto, TypeOK, Overwritten, Tried,
        library_vars, handles, counts
<1>3. ASSUME NEW o \in Objects, OpenSocket(o) PROVE Overwritten'
  BY <1>3 DEF OpenSocket, Fails, Goto, TypeOK, Overwritten, Tried,
        library_vars, handles, counts
<1>4. ASSUME NEW o \in Objects, connect(o) PROVE Overwritten'
  BY <1>4 DEF connect, Returned, Succeeds, Goto, TypeOK, Overwritten, Tried,
        library_vars, handles, counts
<1>5. ASSUME NEW o \in Objects, FindDevice(o) PROVE Overwritten'
  BY <1>5 DEF FindDevice, Goto, TypeOK, Overwritten, Tried, library_vars,
        handles, counts
<1>6. ASSUME NEW o \in Objects, AddDevice(o) PROVE Overwritten'
  BY <1>6 DEF AddDevice, Goto, TypeOK, Overwritten, Tried, library_vars,
        handles, counts
<1>7. ASSUME NEW o \in Objects, RegisterFilesystem(o) PROVE Overwritten'
  BY <1>7 DEF RegisterFilesystem, Goto, TypeOK, Overwritten, Tried,
        library_vars, handles, counts
<1>8. ASSUME NEW o \in Objects, BeginDestroy(o) PROVE Overwritten'
  BY <1>8 DEF BeginDestroy, Goto, TypeOK, Overwritten, Tried, library_vars,
        handles, counts
<1>9. ASSUME NEW o \in Objects, disconnect(o) PROVE Overwritten'
  BY <1>9 DEF disconnect, ShutDown, Goto, TypeOK, Overwritten, Tried,
        library_vars, handles, counts
<1>10. ASSUME NEW o \in Objects, FreeSession(o) PROVE Overwritten'
  BY <1>10 DEF FreeSession, Goto, TypeOK, Overwritten, Tried, library_vars,
        handles, counts
<1>11. ASSUME NEW o \in Objects, ReleaseLibrary(o) PROVE Overwritten'
  BY <1>11 DEF ReleaseLibrary, lib_ref_release, Goto, TypeOK, Overwritten,
        Tried, library_vars, handles, counts
<1>12. ASSUME NEW o \in Objects, unregister_fs(o) PROVE Overwritten'
  BY <1>12 DEF unregister_fs, Goto, TypeOK, Overwritten, Tried, library_vars,
        handles, counts
<1>13. ASSUME NEW c \in Callers, BeginCall(c) PROVE Overwritten'
  BY <1>13 DEF BeginCall, Idle, TypeOK, Overwritten, Tried, library_vars,
        handles, counts
<1>14. ASSUME NEW c \in Callers, EnterCall(c) PROVE Overwritten'
  BY <1>14 DEF EnterCall, Idle, TypeOK, Overwritten, Tried, library_vars,
        handles, counts
<1>15. ASSUME NEW c \in Callers, LeaveCall(c) PROVE Overwritten'
  BY <1>15 DEF LeaveCall, Idle, TypeOK, Overwritten, Tried, library_vars,
        handles, counts
<1>16. CASE UNCHANGED vars
  BY <1>16 DEF vars, TypeOK, Overwritten, Tried, library_vars, handles, counts
<1> QED
  BY <1>1, <1>2, <1>3, <1>4, <1>5, <1>6, <1>7, <1>8, <1>9,
     <1>10, <1>11, <1>12, <1>13, <1>14, <1>15, <1>16 DEF Next, Connecting, Destroying

\* The one connect that did not fail got everything, and disconnect closes it.
LEMMA OnlyConnectPreserved ==
    ASSUME TypeOK, OnlyConnect, [Next]_vars PROVE OnlyConnect'
<1> USE SshSessionsAssumption
<1>1. ASSUME NEW o \in Objects, BeginConnect(o) PROVE OnlyConnect'
  BY <1>1 DEF BeginConnect, lib_ref_acquire, Fails, Goto, TypeOK, OnlyConnect,
        library_vars, handles, counts
<1>2. ASSUME NEW o \in Objects, SessionInit(o) PROVE OnlyConnect'
  BY <1>2 DEF SessionInit, Fails, Goto, TypeOK, OnlyConnect, library_vars,
        handles, counts
<1>3. ASSUME NEW o \in Objects, OpenSocket(o) PROVE OnlyConnect'
  BY <1>3 DEF OpenSocket, Fails, Goto, TypeOK, OnlyConnect, library_vars,
        handles, counts
<1>4. ASSUME NEW o \in Objects, connect(o) PROVE OnlyConnect'
  BY <1>4 DEF connect, Returned, Succeeds, Goto, TypeOK, OnlyConnect, library_vars,
        handles, counts
<1>5. ASSUME NEW o \in Objects, FindDevice(o) PROVE OnlyConnect'
  BY <1>5 DEF FindDevice, Goto, TypeOK, OnlyConnect, library_vars, handles,
        counts
<1>6. ASSUME NEW o \in Objects, AddDevice(o) PROVE OnlyConnect'
  BY <1>6 DEF AddDevice, Goto, TypeOK, OnlyConnect, library_vars, handles,
        counts
<1>7. ASSUME NEW o \in Objects, RegisterFilesystem(o) PROVE OnlyConnect'
  BY <1>7 DEF RegisterFilesystem, Goto, TypeOK, OnlyConnect, library_vars,
        handles, counts
<1>8. ASSUME NEW o \in Objects, BeginDestroy(o) PROVE OnlyConnect'
  BY <1>8 DEF BeginDestroy, Goto, TypeOK, OnlyConnect, library_vars, handles,
        counts
<1>9. ASSUME NEW o \in Objects, disconnect(o) PROVE OnlyConnect'
  BY <1>9 DEF disconnect, ShutDown, Goto, TypeOK, OnlyConnect, library_vars,
        handles, counts
<1>10. ASSUME NEW o \in Objects, FreeSession(o) PROVE OnlyConnect'
  BY <1>10 DEF FreeSession, Goto, TypeOK, OnlyConnect, library_vars, handles,
        counts
<1>11. ASSUME NEW o \in Objects, ReleaseLibrary(o) PROVE OnlyConnect'
  BY <1>11 DEF ReleaseLibrary, lib_ref_release, Goto, TypeOK, OnlyConnect,
        library_vars, handles, counts
<1>12. ASSUME NEW o \in Objects, unregister_fs(o) PROVE OnlyConnect'
  BY <1>12 DEF unregister_fs, Goto, TypeOK, OnlyConnect, library_vars, handles,
        counts
<1>13. ASSUME NEW c \in Callers, BeginCall(c) PROVE OnlyConnect'
  BY <1>13 DEF BeginCall, Idle, TypeOK, OnlyConnect, library_vars, handles,
        counts
<1>14. ASSUME NEW c \in Callers, EnterCall(c) PROVE OnlyConnect'
  BY <1>14 DEF EnterCall, Idle, TypeOK, OnlyConnect, library_vars, handles,
        counts
<1>15. ASSUME NEW c \in Callers, LeaveCall(c) PROVE OnlyConnect'
  BY <1>15 DEF LeaveCall, Idle, TypeOK, OnlyConnect, library_vars, handles,
        counts
<1>16. CASE UNCHANGED vars
  BY <1>16 DEF vars, TypeOK, OnlyConnect, library_vars, handles, counts
<1> QED
  BY <1>1, <1>2, <1>3, <1>4, <1>5, <1>6, <1>7, <1>8, <1>9,
     <1>10, <1>11, <1>12, <1>13, <1>14, <1>15, <1>16 DEF Next, Connecting, Destroying

-----------------------------------------------------------------------------
\* Every step keeps the invariant.
LEMMA StepIInv == IInv /\ [Next]_vars => IInv'
  BY CountPreserved, TypePreserved, HoldPreserved, InsidePreserved,
     ChannelPreserved, DevicesPreserved, OverwrittenPreserved,
     OnlyConnectPreserved DEF IInv

\* So it always holds.
LEMMA SpecIInv == Spec => []IInv
<1> QED
  BY InitIInv, StepIInv, PTL DEF Spec

\* The variables keep to their types, and s_lib_refcount never goes below 0.
THEOREM TypeCorrect == Spec => []TypeOK
<1>1. IInv => TypeOK
  BY DEF IInv
<1> QED
  BY <1>1, SpecIInv, PTL

\* libssh2 counts each object once, is initialised exactly while somebody
\* counts on it, and does not exit under an object that still has a session.
THEOREM LibraryIsCounted == Spec => []LibraryCounted
<1>1. IInv => LibraryCounted
  BY DEF IInv
<1> QED
  BY <1>1, SpecIInv, PTL

\* A call that got session_mutex while the channel was up keeps the channel.
THEOREM CallsKeepChannel == Spec => []CallKeepsChannel
<1>1. IInv => CallKeepsChannel
  BY DEF IInv
<1> QED
  BY <1>1, SpecIInv, PTL

\* The device table never leads to a destroyed object, whatever names the
\* objects share.
THEOREM NoDeviceDangles == Spec => []NoDanglingDevice
<1>1. IInv => NoDanglingDevice
  BY DEF IInv, DevicesKnown, NoDanglingDevice
<1> QED
  BY <1>1, SpecIInv, PTL

\* A destroyed object leaves at most one session and one socket behind for
\* each repeated connect, and nothing when its only connect succeeded.
THEOREM LeaksAreBounded == Spec => []LeaksBounded
<1>1. IInv => LeaksBounded
  BY DEF IInv, TypeOK, SessionsHoldLibrary, Overwritten, Tried, OnlyConnect,
         LeaksBounded
<1> QED
  BY <1>1, SpecIInv, PTL
=============================================================================
