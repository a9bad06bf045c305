---------------------------- MODULE MountsProofs ----------------------------
(***************************************************************************)
(* For any objects of any classes, any names, slots and callers, and any   *)
(* number of connects: what the device table may lead to, who stays        *)
(* mounted, and who may be left with a context that is gone.               *)
(***************************************************************************)
EXTENDS Mounts, FiniteSetTheorems, TLAPS

-----------------------------------------------------------------------------
(***************************************************************************)
(* What the steps keep.                                                    *)
(***************************************************************************)
Contexts == {"null", "init", "live", "unconnected", "freed", "twice"}

Places == {"rest", "construct", "check", "register", "enter", "flag",
           "disconnect", "free", "unregister"}

Types ==
    /\ kind \in [Objects -> Kinds]
    /\ life \in [Objects -> {"unborn", "alive", "dead"}]
    /\ devices \in [Slots -> Objects \cup {Nobody}]
    /\ context \in [Objects -> Contexts]
    /\ connected \in [Objects -> BOOLEAN]
    /\ registered \in [Objects -> BOOLEAN]
    /\ failed \in [Objects -> BOOLEAN]
    /\ connects \in [Objects -> Nat]
    /\ main \in [object : Objects \cup {Nobody}, at : Places]
    /\ mutex \in [Objects -> Callers \cup {Nobody}]
    /\ call \in [Callers -> [object : Objects \cup {Nobody}, inside : BOOLEAN,
                             live : BOOLEAN, age : Nat]]

\* The application's thread is with an object that lives.
MainWithLiving ==
    /\ main.object = Nobody => main = Rest
    /\ main.object \in Objects => life[main.object] = "alive"

\* The destructor of the object is past the point where it gives its context back.
Ending(o) ==
    \/ life[o] = "dead"
    \/ At(o, "unregister")
    \/ At(o, "free") /\ kind[o] = "m3u8"

\* A context that was destroyed belongs to an object at its end, or is that of an
\* NFS mount that failed.
ContextsGone ==
    \A o \in Objects :
        /\ context[o] = "freed" => Ending(o) \/ (kind[o] = "nfs" /\ failed[o])
        /\ context[o] = "twice" =>
              /\ kind[o] = "nfs" /\ failed[o]
              /\ life[o] = "dead" \/ At(o, "unregister")

\* A caller that is inside an object owns its mutex, and its object is not
\* connected less often than when it came in.
InsideOwnsMutex ==
    \A c \in Callers :
        call[c].inside => /\ call[c].object \in Objects
                          /\ mutex[call[c].object] = c
                          /\ call[c].age <= connects[call[c].object]

-----------------------------------------------------------------------------
\* At the start there is no object, no device and no call.
LEMMA InitTypes == Init => Types /\ MainWithLiving /\ ContextsGone /\ InsideOwnsMutex
  BY MountsAssumption DEF Init, Types, MainWithLiving, ContextsGone, InsideOwnsMutex,
     Rest, Idle, Contexts, Places

\* What connect leaves alone, whatever it returns.
LEMMA ReturnsTypes ==
    ASSUME Types, NEW o \in Objects, NEW rc, Returns(o, rc)
    PROVE  /\ connects' \in [Objects -> Nat]
           /\ failed' \in [Objects -> BOOLEAN]
           /\ main' \in [object : Objects \cup {Nobody}, at : Places]
           /\ UNCHANGED <<kind, life, devices, registered, mutex, call>>
  BY DEF Types, Returns, Rest, Places

\* Every step keeps the types of the variables.
LEMMA NextTypes ==
    ASSUME Types, MainWithLiving, Next
    PROVE  Types'
<1> USE MountsAssumption DEF Types, Goto, At, Rest, Idle, Contexts, Places
<1>1. ASSUME NEW o \in Objects, Construct(o) PROVE Types'
  BY <1>1 DEF Construct
<1>2. ASSUME NEW o \in Objects, CheckConnection(o) PROVE Types'
  BY <1>2 DEF CheckConnection
<1>3. ASSUME NEW o \in Objects, RegisterFilesystem(o) PROVE Types'
  BY <1>3 DEF RegisterFilesystem
<1>4. ASSUME NEW o \in Objects, nfs_connect(o) PROVE Types'
  <2>1. context' \in [Objects -> Contexts]
    BY <1>4 DEF nfs_connect, Contexts
  <2>2. connected' \in [Objects -> BOOLEAN]
    BY <1>4 DEF nfs_connect
  <2>3. \/ \E rc \in {0, -1} : Returns(o, rc)
        \/ UNCHANGED <<kind, life, devices, registered, failed, connects, main, mutex, call>>
    BY <1>4 DEF nfs_connect
  <2> QED
    BY <2>1, <2>2, <2>3, ReturnsTypes
<1>5. ASSUME NEW o \in Objects, smb2_connect(o) PROVE Types'
  <2>1. context' \in [Objects -> Contexts]
    BY <1>5 DEF smb2_connect, Contexts
  <2>2. connected' \in [Objects -> BOOLEAN]
    BY <1>5 DEF smb2_connect
  <2>3. PICK rc \in {0, -1} : Returns(o, rc)
    BY <1>5 DEF smb2_connect
  <2> QED
    BY <2>1, <2>2, <2>3, ReturnsTypes
<1>6. ASSUME NEW o \in Objects, ftp_connect(o) PROVE Types'
  <2>1. context' \in [Objects -> Contexts]
    BY <1>6 DEF ftp_connect, Contexts
  <2>2. connected' \in [Objects -> BOOLEAN]
    BY <1>6 DEF ftp_connect
  <2>3. PICK rc \in {0, -1} : Returns(o, rc)
    BY <1>6 DEF ftp_connect
  <2> QED
    BY <2>1, <2>2, <2>3, ReturnsTypes
<1>7. ASSUME NEW o \in Objects, m3u8_connect(o) PROVE Types'
  <2>1. context' \in [Objects -> Contexts]
    BY <1>7 DEF m3u8_connect, Contexts
  <2>2. connected' \in [Objects -> BOOLEAN]
    BY <1>7 DEF m3u8_connect
  <2>3. PICK rc \in {0, -1} : Returns(o, rc)
    BY <1>7 DEF m3u8_connect
  <2> QED
    BY <2>1, <2>2, <2>3, ReturnsTypes
<1>8. ASSUME NEW o \in Objects, image_connect(o) PROVE Types'
  <2>1. context' \in [Objects -> Contexts]
    BY <1>8 DEF image_connect, Contexts
  <2>2. connected' \in [Objects -> BOOLEAN]
    BY <1>8 DEF image_connect
  <2>3. PICK rc \in {0, -1} : Returns(o, rc)
    BY <1>8 DEF image_connect
  <2> QED
    BY <2>1, <2>2, <2>3, ReturnsTypes
<1>9. ASSUME NEW o \in Objects, Register(o) PROVE Types'
  BY <1>9 DEF Register, register_fs, AddDevice
<1>10. ASSUME NEW o \in Objects, Destroy(o) PROVE Types'
  BY <1>10 DEF Destroy
<1>11. ASSUME NEW o \in Objects, disconnect(o) PROVE Types'
  BY <1>11 DEF disconnect, Freed
<1>12. ASSUME NEW o \in Objects, FreeContext(o) PROVE Types'
  BY <1>12 DEF FreeContext, Freed
<1>13. ASSUME NEW o \in Objects, Unregister(o) PROVE Types'
  BY <1>13 DEF Unregister, Removed, unregister_fs, RemoveDevice
<1>14. ASSUME NEW o \in Objects, smb2_destructor(o) PROVE Types'
  BY <1>14 DEF smb2_destructor, Freed, Removed, unregister_fs, RemoveDevice
<1>15. ASSUME NEW c \in Callers, BeginCall(c) PROVE Types'
  <2>1. PICK s \in Slots : /\ devices[s] # Nobody
                          /\ call' = [call EXCEPT ![c].object = devices[s]]
    BY <1>15 DEF BeginCall
  <2>2. call' \in [Callers -> [object : Objects \cup {Nobody}, inside : BOOLEAN,
                              live : BOOLEAN, age : Nat]]
    BY <2>1
  <2> QED
    BY <1>15, <2>2 DEF BeginCall
<1>16. ASSUME NEW c \in Callers, EnterCall(c) PROVE Types'
  BY <1>16 DEF EnterCall
<1>17. ASSUME NEW c \in Callers, LeaveCall(c) PROVE Types'
  BY <1>17 DEF LeaveCall
<1> QED
  BY <1>1, <1>2, <1>3, <1>4, <1>5, <1>6, <1>7, <1>8,
     <1>9, <1>10, <1>11, <1>12, <1>13, <1>14, <1>15, <1>16, <1>17 DEF Next, connect

\* The application's thread goes from one living object to the next: the
\* destructor kills the object in its last step.
LEMMA NextMain ==
    ASSUME Types, MainWithLiving, Next
    PROVE  MainWithLiving'
<1> USE MountsAssumption DEF Types, MainWithLiving, Goto, At, Rest, Places
<1>1. ASSUME NEW o \in Objects, Construct(o) PROVE MainWithLiving'
  BY <1>1 DEF Construct
<1>2. ASSUME NEW o \in Objects, CheckConnection(o) PROVE MainWithLiving'
  BY <1>2 DEF CheckConnection
<1>3. ASSUME NEW o \in Objects, RegisterFilesystem(o) PROVE MainWithLiving'
  BY <1>3 DEF RegisterFilesystem
<1>4. ASSUME NEW o \in Objects, nfs_connect(o) PROVE MainWithLiving'
  BY <1>4 DEF nfs_connect, Returns, Calling
<1>5. ASSUME NEW o \in Objects, smb2_connect(o) PROVE MainWithLiving'
  BY <1>5 DEF smb2_connect, Returns, Calling
<1>6. ASSUME NEW o \in Objects, ftp_connect(o) PROVE MainWithLiving'
  BY <1>6 DEF ftp_connect, Returns, Calling
<1>7. ASSUME NEW o \in Objects, m3u8_connect(o) PROVE MainWithLiving'
  BY <1>7 DEF m3u8_connect, Returns, Calling
<1>8. ASSUME NEW o \in Objects, image_connect(o) PROVE MainWithLiving'
  BY <1>8 DEF image_connect, Returns, Calling
<1>9. ASSUME NEW o \in Objects, Register(o) PROVE MainWithLiving'
  BY <1>9 DEF Register, register_fs, AddDevice
<1>10. ASSUME NEW o \in Objects, Destroy(o) PROVE MainWithLiving'
  BY <1>10 DEF Destroy
<1>11. ASSUME NEW o \in Objects, disconnect(o) PROVE MainWithLiving'
  BY <1>11 DEF disconnect, Freed
<1>12. ASSUME NEW o \in Objects, FreeContext(o) PROVE MainWithLiving'
  BY <1>12 DEF FreeContext, Freed
<1>13. ASSUME NEW o \in Objects, Unregister(o) PROVE MainWithLiving'
  BY <1>13 DEF Unregister, Removed, unregister_fs, RemoveDevice
<1>14. ASSUME NEW o \in Objects, smb2_destructor(o) PROVE MainWithLiving'
  BY <1>14 DEF smb2_destructor, Freed, Removed, unregister_fs, RemoveDevice
<1>15. ASSUME NEW c \in Callers, BeginCall(c) PROVE MainWithLiving'
  BY <1>15 DEF BeginCall
<1>16. ASSUME NEW c \in Callers, EnterCall(c) PROVE MainWithLiving'
  BY <1>16 DEF EnterCall
<1>17. ASSUME NEW c \in Callers, LeaveCall(c) PROVE MainWithLiving'
  BY <1>17 DEF LeaveCall
<1> QED
  BY <1>1, <1>2, <1>3, <1>4, <1>5, <1>6, <1>7, <1>8,
     <1>9, <1>10, <1>11, <1>12, <1>13, <1>14, <1>15, <1>16, <1>17 DEF Next, connect

\* A context is given back once, or it is that of an NFS mount that failed.
LEMMA NextContextsGone ==
    ASSUME Types, MainWithLiving, ContextsGone, Next
    PROVE  ContextsGone'
<1> USE MountsAssumption DEF Types, MainWithLiving, ContextsGone, Ending, Goto, At, Rest
<1>1. ASSUME NEW o \in Objects, Construct(o) PROVE ContextsGone'
  BY <1>1 DEF Construct
<1>2. ASSUME NEW o \in Objects, CheckConnection(o) PROVE ContextsGone'
  BY <1>2 DEF CheckConnection
<1>3. ASSUME NEW o \in Objects, RegisterFilesystem(o) PROVE ContextsGone'
  BY <1>3 DEF RegisterFilesystem
<1>4. ASSUME NEW o \in Objects, nfs_connect(o) PROVE ContextsGone'
  <2>1. CASE Returns(o, -1) /\ context' = [context EXCEPT ![o] = "null"]
    BY <2>1 DEF Returns, Calling
  <2>2. CASE Returns(o, 0) /\ context' = [context EXCEPT ![o] = "live"]
    BY <2>2 DEF Returns, Calling
  <2>3. CASE Returns(o, -1) /\ context' = [context EXCEPT ![o] = "freed"]
    <3>1. kind[o] = "nfs"
      BY <1>4 DEF nfs_connect
    <3>2. /\ failed'[o]
          /\ \A p \in Objects : p # o => failed'[p] = failed[p]
          /\ UNCHANGED <<kind, life>>
      <4>1. -1 # 0
        OBVIOUS
      <4>2. failed' = [failed EXCEPT ![o] = -1 # 0] /\ UNCHANGED <<kind, life>>
        BY <2>3, Zenon DEF Returns
      <4>3. failed'[o] = (-1 # 0)
        BY <4>2
      <4> QED
        BY <4>1, <4>2, <4>3
    <3>3. \A p \in Objects : p # o => (Ending(p) => Ending(p)')
      BY <2>3, <3>2 DEF Returns, Calling
    <3> QED
      BY <2>3, <3>1, <3>2, <3>3
  <2>4. CASE /\ context' = [context EXCEPT ![o] = "init"]
             /\ UNCHANGED <<kind, life, failed, main>>
    BY <2>4
  <2> QED
    BY <1>4, <2>1, <2>2, <2>3, <2>4 DEF nfs_connect
<1>5. ASSUME NEW o \in Objects, smb2_connect(o) PROVE ContextsGone'
  BY <1>5 DEF smb2_connect, Returns, Calling
<1>6. ASSUME NEW o \in Objects, ftp_connect(o) PROVE ContextsGone'
  BY <1>6 DEF ftp_connect, Returns, Calling
<1>7. ASSUME NEW o \in Objects, m3u8_connect(o) PROVE ContextsGone'
  BY <1>7 DEF m3u8_connect, Returns, Calling
<1>8. ASSUME NEW o \in Objects, image_connect(o) PROVE ContextsGone'
  BY <1>8 DEF image_connect, Returns, Calling
<1>9. ASSUME NEW o \in Objects, Register(o) PROVE ContextsGone'
  BY <1>9 DEF Register, register_fs, AddDevice
<1>10. ASSUME NEW o \in Objects, Destroy(o) PROVE ContextsGone'
  BY <1>10 DEF Destroy
<1>11. ASSUME NEW o \in Objects, disconnect(o) PROVE ContextsGone'
  BY <1>11 DEF disconnect, Freed
<1>12. ASSUME NEW o \in Objects, FreeContext(o) PROVE ContextsGone'
  BY <1>12 DEF FreeContext, Freed
<1>13. ASSUME NEW o \in Objects, Unregister(o) PROVE ContextsGone'
  BY <1>13 DEF Unregister, Removed, unregister_fs, RemoveDevice
<1>14. ASSUME NEW o \in Objects, smb2_destructor(o) PROVE ContextsGone'
  BY <1>14 DEF smb2_destructor, Freed, Removed, unregister_fs, RemoveDevice
<1>15. ASSUME NEW c \in Callers, BeginCall(c) PROVE ContextsGone'
  BY <1>15 DEF BeginCall
<1>16. ASSUME NEW c \in Callers, EnterCall(c) PROVE ContextsGone'
  BY <1>16 DEF EnterCall
<1>17. ASSUME NEW c \in Callers, LeaveCall(c) PROVE ContextsGone'
  BY <1>17 DEF LeaveCall
<1> QED
  BY <1>1, <1>2, <1>3, <1>4, <1>5, <1>6, <1>7, <1>8,
     <1>9, <1>10, <1>11, <1>12, <1>13, <1>14, <1>15, <1>16, <1>17 DEF Next, connect

\* Only its owner gives the mutex back, and connects only grows.
LEMMA NextInside ==
    ASSUME Types, InsideOwnsMutex, Next
    PROVE  InsideOwnsMutex'
<1> USE MountsAssumption DEF Types, InsideOwnsMutex, Goto, At, Rest, Idle
<1>1. ASSUME NEW o \in Objects, Construct(o) PROVE InsideOwnsMutex'
  BY <1>1 DEF Construct
<1>2. ASSUME NEW o \in Objects, CheckConnection(o) PROVE InsideOwnsMutex'
  BY <1>2 DEF CheckConnection
<1>3. ASSUME NEW o \in Objects, RegisterFilesystem(o) PROVE InsideOwnsMutex'
  BY <1>3 DEF RegisterFilesystem
<1>4. ASSUME NEW o \in Objects, nfs_connect(o) PROVE InsideOwnsMutex'
  BY <1>4 DEF nfs_connect, Returns, Calling
<1>5. ASSUME NEW o \in Objects, smb2_connect(o) PROVE InsideOwnsMutex'
  BY <1>5 DEF smb2_connect, Returns, Calling
<1>6. ASSUME NEW o \in Objects, ftp_connect(o) PROVE InsideOwnsMutex'
  BY <1>6 DEF ftp_connect, Returns, Calling
<1>7. ASSUME NEW o \in Objects, m3u8_connect(o) PROVE InsideOwnsMutex'
  BY <1>7 DEF m3u8_connect, Returns, Calling
<1>8. ASSUME NEW o \in Objects, image_connect(o) PROVE InsideOwnsMutex'
  BY <1>8 DEF image_connect, Returns, Calling
<1>9. ASSUME NEW o \in Objects, Register(o) PROVE InsideOwnsMutex'
  BY <1>9 DEF Register, register_fs, AddDevice
<1>10. ASSUME NEW o \in Objects, Destroy(o) PROVE InsideOwnsMutex'
  BY <1>10 DEF Destroy
<1>11. ASSUME NEW o \in Objects, disconnect(o) PROVE InsideOwnsMutex'
  BY <1>11 DEF disconnect, Freed
<1>12. ASSUME NEW o \in Objects, FreeContext(o) PROVE InsideOwnsMutex'
  BY <1>12 DEF FreeContext, Freed
<1>13. ASSUME NEW o \in Objects, Unregister(o) PROVE InsideOwnsMutex'
  BY <1>13 DEF Unregister, Removed, unregister_fs, RemoveDevice
<1>14. ASSUME NEW o \in Objects, smb2_destructor(o) PROVE InsideOwnsMutex'
  BY <1>14 DEF smb2_destructor, Freed, Removed, unregister_fs, RemoveDevice
<1>15. ASSUME NEW c \in Callers, BeginCall(c) PROVE InsideOwnsMutex'
  BY <1>15 DEF BeginCall
<1>16. ASSUME NEW c \in Callers, EnterCall(c) PROVE InsideOwnsMutex'
  BY <1>16 DEF EnterCall
<1>17. ASSUME NEW c \in Callers, LeaveCall(c) PROVE InsideOwnsMutex'
  BY <1>17 DEF LeaveCall
<1> QED
  BY <1>1, <1>2, <1>3, <1>4, <1>5, <1>6, <1>7, <1>8,
     <1>9, <1>10, <1>11, <1>12, <1>13, <1>14, <1>15, <1>16, <1>17 DEF Next, connect

\* An SMB context that a call found live changes in smb2_connect, which counts
\* itself in connects, and in the destructor, which waits for the mutex.
LEMMA NextKeepsContext ==
    ASSUME Types, InsideOwnsMutex, CallKeepsContext, Next
    PROVE  CallKeepsContext'
<1> USE MountsAssumption DEF Types, InsideOwnsMutex, CallKeepsContext, Goto, At, Rest, Idle, Images
<1>1. ASSUME NEW o \in Objects, Construct(o) PROVE CallKeepsContext'
  BY <1>1 DEF Construct
<1>2. ASSUME NEW o \in Objects, CheckConnection(o) PROVE CallKeepsContext'
  BY <1>2 DEF CheckConnection
<1>3. ASSUME NEW o \in Objects, RegisterFilesystem(o) PROVE CallKeepsContext'
  BY <1>3 DEF RegisterFilesystem
<1>4. ASSUME NEW o \in Objects, nfs_connect(o) PROVE CallKeepsContext'
  BY <1>4 DEF nfs_connect, Returns, Calling
<1>5. ASSUME NEW o \in Objects, smb2_connect(o) PROVE CallKeepsContext'
  BY <1>5 DEF smb2_connect, Returns, Calling
<1>6. ASSUME NEW o \in Objects, ftp_connect(o) PROVE CallKeepsContext'
  BY <1>6 DEF ftp_connect, Returns, Calling
<1>7. ASSUME NEW o \in Objects, m3u8_connect(o) PROVE CallKeepsContext'
  BY <1>7 DEF m3u8_connect, Returns, Calling
<1>8. ASSUME NEW o \in Objects, image_connect(o) PROVE CallKeepsContext'
  BY <1>8 DEF image_connect, Returns, Calling
<1>9. ASSUME NEW o \in Objects, Register(o) PROVE CallKeepsContext'
  BY <1>9 DEF Register, register_fs, AddDevice
<1>10. ASSUME NEW o \in Objects, Destroy(o) PROVE CallKeepsContext'
  BY <1>10 DEF Destroy
<1>11. ASSUME NEW o \in Objects, disconnect(o) PROVE CallKeepsContext'
  BY <1>11 DEF disconnect, Freed
<1>12. ASSUME NEW o \in Objects, FreeContext(o) PROVE CallKeepsContext'
  BY <1>12 DEF FreeContext, Freed
<1>13. ASSUME NEW o \in Objects, Unregister(o) PROVE CallKeepsContext'
  BY <1>13 DEF Unregister, Removed, unregister_fs, RemoveDevice
<1>14. ASSUME NEW o \in Objects, smb2_destructor(o) PROVE CallKeepsContext'
  BY <1>14 DEF smb2_destructor, Freed, Removed, unregister_fs, RemoveDevice
<1>15. ASSUME NEW c \in Callers, BeginCall(c) PROVE CallKeepsContext'
  BY <1>15 DEF BeginCall
<1>16. ASSUME NEW c \in Callers, EnterCall(c) PROVE CallKeepsContext'
  BY <1>16 DEF EnterCall
<1>17. ASSUME NEW c \in Callers, LeaveCall(c) PROVE CallKeepsContext'
  BY <1>17 DEF LeaveCall
<1> QED
  BY <1>1, <1>2, <1>3, <1>4, <1>5, <1>6, <1>7, <1>8,
     <1>9, <1>10, <1>11, <1>12, <1>13, <1>14, <1>15, <1>16, <1>17 DEF Next, connect

-----------------------------------------------------------------------------
(***************************************************************************)
(* The device table.                                                       *)
(***************************************************************************)
\* No class that enters devices blindly uses the object's name.
Sighted(o) == \A p \in Objects : NameOf[p] = NameOf[o] => kind[p] \notin Blind

Alone(o) == \A p \in Objects : NameOf[p] = NameOf[o] => p = o

Enters(o) == At(o, "enter") \/ At(o, "flag")

\* register_fs is reached through connect, and without fs_regisered only in the
\* classes whose constructor or CheckConnection enters the device.
EntersConnected ==
    \A o \in Objects :
        /\ Enters(o) => connects[o] >= 1
        /\ At(o, "construct") \/ At(o, "enter") => kind[o] \in Images \cup {"ftp"}

\* A name that every class looks for is in one slot at most, and what is in it
\* lives and will be removed by its destructor.
SightedLive ==
    \A s \in Slots, p \in Objects :
        devices[s] = p /\ Sighted(p) =>
            /\ life[p] = "alive"
            /\ registered[p] \/ kind[p] = "cue"
            /\ \A t \in Slots, q \in Objects :
                  devices[t] = q /\ NameOf[q] = NameOf[p] => t = s

\* An object with a name of its own that was connected once is in one slot at
\* most, from register_fs to its destructor.
AloneOnce ==
    \A s \in Slots, p \in Objects :
        devices[s] = p /\ Alone(p) /\ connects[p] <= 1 =>
            /\ connects[p] = 1
            /\ ~Enters(p)
            /\ life[p] = "dead" => ~registered[p]
            /\ \A t \in Slots : devices[t] = p => t = s

\* The slot that AddDevice and RemoveDevice choose is one of those they look at.
LEMMA MinIsMember ==
    ASSUME NEW S \in SUBSET Nat, S # {}
    PROVE  /\ Min(S) \in S
           /\ \A y \in S : Min(S) <= y
<1>1. IsWellFoundedOn(OpToRel(<, Nat), Nat)
  BY NatLessThanWellFounded
<1>2. PICK x \in S : \A y \in S : ~ (<<y, x>> \in OpToRel(<, Nat))
  BY <1>1, WFMin
<1>3. \A y \in S : x <= y
  <2> TAKE y \in S
  <2>1. ~ (<<y, x>> \in {ss \in Nat \X Nat : ss[1] < ss[2]})
    BY <1>2 DEF OpToRel
  <2>2. <<y, x>> \in Nat \X Nat
    OBVIOUS
  <2> QED
    BY <2>1, <2>2
<1> QED
  BY <1>3 DEF Min

\* AddDevice enters the device in a slot that is free or has its name.
LEMMA AddDeviceEnters ==
    ASSUME Types, NEW o \in Objects, AddDevice(o) # devices
    PROVE  \E t \in Slots : /\ devices[t] # Nobody => NameOf[devices[t]] = NameOf[o]
                            /\ AddDevice(o) = [devices EXCEPT ![t] = o]
<1> DEFINE open == FreeSlots \cup Holding(NameOf[o])
<1>1. open # {} /\ AddDevice(o) = [devices EXCEPT ![Min(open)] = o]
  BY DEF AddDevice
<1>2. open \in SUBSET Nat
  BY MountsAssumption DEF FreeSlots, Holding
<1>3. Min(open) \in open
  BY <1>1, <1>2, MinIsMember
<1>4. Min(open) \in Slots /\ (devices[Min(open)] # Nobody => NameOf[devices[Min(open)]] = NameOf[o])
  BY <1>3 DEF FreeSlots, Holding
<1> QED
  BY <1>1, <1>4

\* RemoveDevice clears a slot with the name, unless there is none.
LEMMA RemoveDeviceClears ==
    ASSUME Types, NEW name
    PROVE  \/ /\ RemoveDevice(name) = devices
              /\ \A t \in Slots : devices[t] # Nobody => NameOf[devices[t]] # name
           \/ \E t \in Slots : /\ devices[t] # Nobody /\ NameOf[devices[t]] = name
                               /\ RemoveDevice(name) = [devices EXCEPT ![t] = Nobody]
<1>1. CASE Holding(name) = {}
  BY <1>1 DEF RemoveDevice, Holding
<1>2. CASE Holding(name) # {}
  <2>1. Holding(name) \in SUBSET Nat
    BY MountsAssumption DEF Holding
  <2>2. Min(Holding(name)) \in Holding(name)
    BY <1>2, <2>1, MinIsMember
  <2>3. RemoveDevice(name) = [devices EXCEPT ![Min(Holding(name))] = Nobody]
    BY <1>2 DEF RemoveDevice
  <2>4. /\ Min(Holding(name)) \in Slots
        /\ devices[Min(Holding(name))] # Nobody
        /\ NameOf[devices[Min(Holding(name))]] = name
    BY <2>2 DEF Holding
  <2> QED
    BY <2>3, <2>4
<1> QED
  BY <1>1, <1>2

\* register_fs is reached from connect alone.
LEMMA NextEnters ==
    ASSUME Types, MainWithLiving, EntersConnected, Next
    PROVE  EntersConnected'
<1> USE MountsAssumption DEF Types, MainWithLiving, EntersConnected, Enters, Goto, At, Rest
<1>1. ASSUME NEW o \in Objects, Construct(o) PROVE EntersConnected'
  BY <1>1 DEF Construct
<1>2. ASSUME NEW o \in Objects, CheckConnection(o) PROVE EntersConnected'
  BY <1>2 DEF CheckConnection
<1>3. ASSUME NEW o \in Objects, RegisterFilesystem(o) PROVE EntersConnected'
  BY <1>3 DEF RegisterFilesystem
<1>4. ASSUME NEW o \in Objects, nfs_connect(o) PROVE EntersConnected'
  BY <1>4 DEF nfs_connect, Returns, Calling
<1>5. ASSUME NEW o \in Objects, smb2_connect(o) PROVE EntersConnected'
  BY <1>5 DEF smb2_connect, Returns, Calling
<1>6. ASSUME NEW o \in Objects, ftp_connect(o) PROVE EntersConnected'
  BY <1>6 DEF ftp_connect, Returns, Calling
<1>7. ASSUME NEW o \in Objects, m3u8_connect(o) PROVE EntersConnected'
  BY <1>7 DEF m3u8_connect, Returns, Calling
<1>8. ASSUME NEW o \in Objects, image_connect(o) PROVE EntersConnected'
  BY <1>8 DEF image_connect, Returns, Calling
<1>9. ASSUME NEW o \in Objects, Register(o) PROVE EntersConnected'
  BY <1>9 DEF Register, register_fs, AddDevice
<1>10. ASSUME NEW o \in Objects, Destroy(o) PROVE EntersConnected'
  BY <1>10 DEF Destroy
<1>11. ASSUME NEW o \in Objects, disconnect(o) PROVE EntersConnected'
  BY <1>11 DEF disconnect, Freed
<1>12. ASSUME NEW o \in Objects, FreeContext(o) PROVE EntersConnected'
  BY <1>12 DEF FreeContext, Freed
<1>13. ASSUME NEW o \in Objects, Unregister(o) PROVE EntersConnected'
  BY <1>13 DEF Unregister, Removed, unregister_fs, RemoveDevice
<1>14. ASSUME NEW o \in Objects, smb2_destructor(o) PROVE EntersConnected'
  BY <1>14 DEF smb2_destructor, Freed, Removed, unregister_fs, RemoveDevice
<1>15. ASSUME NEW c \in Callers, BeginCall(c) PROVE EntersConnected'
  BY <1>15 DEF BeginCall
<1>16. ASSUME NEW c \in Callers, EnterCall(c) PROVE EntersConnected'
  BY <1>16 DEF EnterCall
<1>17. ASSUME NEW c \in Callers, LeaveCall(c) PROVE EntersConnected'
  BY <1>17 DEF LeaveCall
<1> QED
  BY <1>1, <1>2, <1>3, <1>4, <1>5, <1>6, <1>7, <1>8,
     <1>9, <1>10, <1>11, <1>12, <1>13, <1>14, <1>15, <1>16, <1>17 DEF Next, connect

\* No device is entered or removed, no object destroyed; register_fs comes next
\* only where connect returns.
StaysEntered ==
    /\ UNCHANGED <<kind, registered, devices>>
    /\ \A p \in Objects :
          \/ life'[p] = life[p]
          \/ life[p] = "unborn" /\ life'[p] = "alive"
    /\ \A p \in Objects :
          \/ connects'[p] = connects[p] + 1
          \/ /\ connects'[p] = connects[p]
             /\ \/ main' = main
                \/ main'.object # p
                \/ main'.at \notin {"enter", "flag"}

\* Such a step keeps what is said of the table.
LEMMA TableKept ==
    ASSUME Types, Types', SightedLive, AloneOnce, StaysEntered
    PROVE  SightedLive' /\ AloneOnce'
<1>1. SightedLive'
  BY DEF StaysEntered, SightedLive, Sighted, Types
<1>2. ASSUME NEW s \in Slots, NEW p \in Objects, devices[s] = p, Alone(p), connects'[p] <= 1
      PROVE  /\ connects'[p] = 1
             /\ ~Enters(p)'
             /\ life'[p] = "dead" => ~registered[p]
             /\ \A t \in Slots : devices[t] = p => t = s
  <2>1. connects[p] \in Nat
    BY DEF Types
  <2> QED
    BY <1>2, <2>1 DEF AloneOnce, StaysEntered, Enters, At, Rest
<1>3. AloneOnce'
  BY <1>2 DEF StaysEntered, AloneOnce, Alone
<1> QED
  BY <1>1, <1>3

\* nfs_init_context alone is no return of connect.
LEMMA StandsStays ==
    ASSUME UNCHANGED <<kind, life, devices, registered, connects, main>>
    PROVE  StaysEntered
  BY DEF StaysEntered

\* connect returns: the count goes up before register_fs is reached.
LEMMA ReturnsStays ==
    ASSUME Types, NEW o \in Objects, NEW rc, Returns(o, rc)
    PROVE  StaysEntered
<1>1. UNCHANGED <<kind, registered, devices, life>> /\ main.object = o
  BY DEF Returns
<1>2. \A p \in Objects : connects'[p] = IF p = o THEN connects[p] + 1 ELSE connects[p]
  BY DEF Returns, Types
<1>3. main' = Rest \/ main'.object = o
  BY DEF Returns
<1>4. \A p \in Objects : p # o => main'.object # p
  BY <1>3, MountsAssumption DEF Rest
<1> QED
  BY <1>1, <1>2, <1>4 DEF StaysEntered

\* register_fs, on a name that every class looks for and on any other.
LEMMA RegisterTable ==
    ASSUME Types, MainWithLiving, EntersConnected, SightedLive, AloneOnce, Types',
           NEW o \in Objects, Register(o)
    PROVE  SightedLive' /\ AloneOnce'
<1>1. /\ Enters(o) /\ life[o] = "alive" /\ connects[o] >= 1
      /\ UNCHANGED <<kind, life, connects>>
      /\ \A p \in Objects : p # o => registered'[p] = registered[p]
      /\ \A p \in Objects : registered[p] => registered'[p]
      /\ kind[o] \notin Blind => registered'[o] \/ kind[o] = "cue"
  BY MountsAssumption
  DEF Types, MainWithLiving, Register, EntersConnected, Enters, At, Images, Blind
<1>2. \A p \in Objects : ~Enters(p)'
  BY MountsAssumption DEF Register, Enters, At, Rest
<1>3. \A p \in Objects : Sighted(p)' = Sighted(p)
  BY <1>1 DEF Sighted
<1>4. devices' = register_fs(o)
  BY DEF Register
<1>5. CASE devices' = devices
  BY <1>1, <1>2, <1>3, <1>5 DEF SightedLive, AloneOnce, Alone
<1>6. CASE devices' # devices
  <2>1. /\ devices' = AddDevice(o)
        /\ kind[o] \notin Blind => Holding(NameOf[o]) = {}
    BY <1>4, <1>6 DEF register_fs
  <2>2. PICK t \in Slots : devices' = [devices EXCEPT ![t] = o]
    BY <1>6, <2>1, AddDeviceEnters
  <2>3. \A s \in Slots : devices'[s] = IF s = t THEN o ELSE devices[s]
    BY <2>2 DEF Types
  <2>4. ASSUME NEW s \in Slots, NEW p \in Objects, devices[s] = p, kind[o] \notin Blind
        PROVE  NameOf[p] # NameOf[o]
    BY <2>1, <2>4, MountsAssumption DEF Holding
  <2>5. ASSUME NEW s \in Slots, NEW p \in Objects, devices'[s] = p, Sighted(p)
        PROVE  /\ life[p] = "alive"
               /\ registered'[p] \/ kind[p] = "cue"
               /\ \A u \in Slots, q \in Objects :
                     devices'[u] = q /\ NameOf[q] = NameOf[p] => u = s
    <3>1. CASE s = t
      <4>1. p = o /\ kind[o] \notin Blind
        BY <2>3, <2>5, <3>1 DEF Sighted
      <4> QED
        BY <1>1, <2>3, <2>4, <3>1, <4>1
    <3>2. CASE s # t
      <4>1. devices[s] = p
        BY <2>3, <2>5, <3>2
      <4>2. NameOf[p] # NameOf[o]
        <5>1. CASE NameOf[p] = NameOf[o]
          BY <2>4, <2>5, <4>1, <5>1 DEF Sighted
        <5> QED
          BY <5>1
      <4> QED
        BY <1>1, <2>3, <2>5, <4>1, <4>2 DEF SightedLive
    <3> QED
      BY <3>1, <3>2
  <2>6. ASSUME NEW s \in Slots, NEW p \in Objects, devices'[s] = p, Alone(p), connects[p] <= 1
        PROVE  /\ connects[p] = 1
               /\ life[p] = "dead" => ~registered'[p]
               /\ \A u \in Slots : devices'[u] = p => u = s
    <3>1. connects[p] \in Nat
      BY DEF Types
    <3>2. p = o => \A u \in Slots : devices[u] # o
      BY <1>1, <2>6 DEF AloneOnce
    <3>3. CASE p = o
      BY <1>1, <2>3, <2>6, <3>1, <3>2, <3>3
    <3>4. CASE p # o
      BY <1>1, <2>3, <2>6, <3>4 DEF AloneOnce
    <3> QED
      BY <3>3, <3>4
  <2>7. SightedLive'
    BY <1>1, <1>3, <2>5 DEF SightedLive
  <2>8. AloneOnce'
    BY <1>1, <1>2, <2>6 DEF AloneOnce, Alone
  <2> QED
    BY <2>7, <2>8
<1> QED
  BY <1>5, <1>6

\* The end of a destructor.
LEMMA RemovedTable ==
    ASSUME Types, SightedLive, AloneOnce, Types', NEW o \in Objects, Removed(o)
    PROVE  SightedLive' /\ AloneOnce'
<1>1. /\ UNCHANGED <<kind, registered, connects>>
      /\ \A p \in Objects : p # o => life'[p] = life[p]
      /\ devices' = devices \/ devices' = RemoveDevice(NameOf[o])
      /\ registered[o] \/ kind[o] = "cue" => devices' = RemoveDevice(NameOf[o])
  BY DEF Removed, unregister_fs, Types
<1>2. \A p \in Objects : ~Enters(p)'
  BY MountsAssumption DEF Removed, Enters, At, Rest
<1>3. \A p \in Objects : Sighted(p)' = Sighted(p)
  BY <1>1 DEF Sighted
<1>4. \A s \in Slots, p \in Objects : devices'[s] = p => devices[s] = p
  BY <1>1, RemoveDeviceClears, MountsAssumption DEF Types
<1>5. ASSUME NEW s \in Slots, devices'[s] = o, devices' = RemoveDevice(NameOf[o])
      PROVE  \E t \in Slots, q \in Objects : t # s /\ devices[t] = q /\ NameOf[q] = NameOf[o]
  <2>1. devices[s] = o
    BY <1>4, <1>5
  <2>2. PICK t \in Slots : /\ devices[t] # Nobody /\ NameOf[devices[t]] = NameOf[o]
                           /\ devices' = [devices EXCEPT ![t] = Nobody]
    BY <1>5, <2>1, RemoveDeviceClears, MountsAssumption
  <2>3. t # s /\ devices[t] \in Objects
    BY <1>5, <2>2, MountsAssumption DEF Types
  <2> QED
    BY <2>2, <2>3
<1>6. ASSUME NEW s \in Slots, NEW p \in Objects, devices'[s] = p, Sighted(p)
      PROVE  p # o
  BY <1>1, <1>4, <1>5, <1>6 DEF SightedLive
<1>7. ASSUME NEW s \in Slots, devices'[s] = o, Alone(o), connects[o] <= 1
      PROVE  ~registered[o]
  BY <1>1, <1>4, <1>5, <1>7 DEF AloneOnce, Alone
<1>8. SightedLive'
  BY <1>1, <1>3, <1>4, <1>6 DEF SightedLive
<1>9. AloneOnce'
  BY <1>1, <1>2, <1>4, <1>7 DEF AloneOnce, Alone
<1> QED
  BY <1>8, <1>9

\* Every step but register_fs and the end of a destructor leaves the table alone.
LEMMA NextStays ==
    ASSUME Types, Next
    PROVE  \/ StaysEntered
           \/ \E o \in Objects : Register(o)
           \/ \E o \in Objects : Removed(o) /\ main.object = o
<1> USE MountsAssumption
<1>1. ASSUME NEW o \in Objects, Construct(o) PROVE StaysEntered
  BY <1>1 DEF Types, StaysEntered, Construct, Goto, At, Rest
<1>2. ASSUME NEW o \in Objects, CheckConnection(o) PROVE StaysEntered
  BY <1>2 DEF Types, StaysEntered, CheckConnection, Goto, At, Rest
<1>3. ASSUME NEW o \in Objects, RegisterFilesystem(o) PROVE StaysEntered
  BY <1>3 DEF Types, StaysEntered, RegisterFilesystem, Goto, At, Rest
<1>4. ASSUME NEW o \in Objects, connect(o) PROVE StaysEntered
  <2>1. \/ UNCHANGED <<kind, life, devices, registered, connects, main>>
        \/ \E rc \in {0, -1} : Returns(o, rc)
    BY <1>4 DEF connect, nfs_connect, smb2_connect, ftp_connect, m3u8_connect, image_connect
  <2> QED
    BY <2>1, StandsStays, ReturnsStays
<1>5. ASSUME NEW o \in Objects, Destroy(o) PROVE StaysEntered
  BY <1>5 DEF Types, StaysEntered, Destroy, Goto, At, Rest
<1>6. ASSUME NEW o \in Objects, disconnect(o) PROVE StaysEntered
  BY <1>6 DEF Types, StaysEntered, disconnect, Freed, Goto, At, Rest
<1>7. ASSUME NEW o \in Objects, FreeContext(o) PROVE StaysEntered
  BY <1>7 DEF Types, StaysEntered, FreeContext, Freed, Goto, At, Rest
<1>8. ASSUME NEW o \in Objects, Unregister(o) \/ smb2_destructor(o)
      PROVE  Removed(o) /\ main.object = o
  BY <1>8 DEF Unregister, smb2_destructor, At
<1>9. ASSUME NEW c \in Callers, BeginCall(c) PROVE StaysEntered
  BY <1>9 DEF Types, StaysEntered, BeginCall, Goto, At, Rest
<1>10. ASSUME NEW c \in Callers, EnterCall(c) PROVE StaysEntered
  BY <1>10 DEF Types, StaysEntered, EnterCall, Goto, At, Rest
<1>11. ASSUME NEW c \in Callers, LeaveCall(c) PROVE StaysEntered
  BY <1>11 DEF Types, StaysEntered, LeaveCall, Goto, At, Rest
<1> QED
  BY <1>1, <1>2, <1>3, <1>4, <1>5, <1>6, <1>7, <1>8, <1>9, <1>10, <1>11 DEF Next

\* What holds of the device table is kept by every step.
LEMMA NextTable ==
    ASSUME Types, MainWithLiving, EntersConnected, SightedLive, AloneOnce, Types', Next
    PROVE  SightedLive' /\ AloneOnce'
  BY NextStays, TableKept, RegisterTable, RemovedTable

-----------------------------------------------------------------------------
(***************************************************************************)
(* Who is registered stays mounted, while AddDevice finds room: when the   *)
(* table is full it returns -1, which no register_fs looks at.             *)
(***************************************************************************)
NeverFull ==
    \A o \in Objects : Enters(o) => FreeSlots \cup Holding(NameOf[o]) # {}

\* An object is registered in its life only.
BornUnregistered == \A o \in Objects : life[o] = "unborn" => ~registered[o]

\* A step that leaves the table alone unmounts nobody.
LEMMA MountedKept ==
    ASSUME BornUnregistered, StaysMounted, StaysEntered
    PROVE  BornUnregistered' /\ StaysMounted'
  BY DEF BornUnregistered, StaysMounted, StaysEntered

\* register_fs mounts the object, unless another has its name, and takes the
\* slot of no other name.
LEMMA RegisterMounts ==
    ASSUME Types, MainWithLiving, NeverFull, BornUnregistered, StaysMounted,
           NEW o \in Objects, Register(o)
    PROVE  BornUnregistered' /\ StaysMounted'
<1>1. /\ Enters(o) /\ life[o] = "alive" /\ UNCHANGED life
      /\ \A p \in Objects : p # o => registered'[p] = registered[p]
      /\ devices' = register_fs(o)
  BY MountsAssumption DEF Types, MainWithLiving, Register, Enters, At
<1>2. \/ devices' = devices /\ Holding(NameOf[o]) # {}
      \/ \E t \in Slots : /\ devices[t] # Nobody => NameOf[devices[t]] = NameOf[o]
                          /\ devices' = [devices EXCEPT ![t] = o]
  <2>1. CASE kind[o] \notin Blind /\ Holding(NameOf[o]) # {}
    BY <1>1, <2>1 DEF register_fs
  <2>2. CASE ~(kind[o] \notin Blind /\ Holding(NameOf[o]) # {})
    <3> DEFINE open == FreeSlots \cup Holding(NameOf[o])
    <3>1. open # {} /\ devices' = [devices EXCEPT ![Min(open)] = o]
      BY <1>1, <2>2 DEF NeverFull, register_fs, AddDevice
    <3>2. Min(open) \in open
      BY <3>1, MinIsMember, MountsAssumption DEF FreeSlots, Holding
    <3>3. Min(open) \in Slots /\ (devices[Min(open)] # Nobody => NameOf[devices[Min(open)]] = NameOf[o])
      BY <3>2 DEF FreeSlots, Holding
    <3> QED
      BY <3>1, <3>3
  <2> QED
    BY <2>1, <2>2
<1>3. ASSUME Alone(o) PROVE \E s \in Slots : devices'[s] = o
  <2>1. CASE devices' = devices /\ Holding(NameOf[o]) # {}
    <3>1. PICK s \in Slots : devices[s] \in Objects /\ NameOf[devices[s]] = NameOf[o]
      BY <2>1 DEF Holding, Types
    <3> QED
      BY <1>3, <2>1, <3>1 DEF Alone
  <2>2. CASE \E t \in Slots : devices' = [devices EXCEPT ![t] = o]
    BY <2>2 DEF Types
  <2> QED
    BY <1>2, <2>1, <2>2
<1>4. ASSUME NEW p \in Objects, p # o, NameOf[p] # NameOf[o], NEW s \in Slots, devices[s] = p
      PROVE  devices'[s] = p
  BY <1>2, <1>4, MountsAssumption DEF Types
<1>5. StaysMounted'
  <2> SUFFICES ASSUME NEW p \in Objects, registered'[p], life[p] = "alive",
                      \A q \in Objects \ {p} : NameOf[q] # NameOf[p]
               PROVE  \E s \in Slots : devices'[s] = p
    BY <1>1 DEF StaysMounted
  <2>1. CASE p = o
    BY <1>3, <2>1 DEF Alone
  <2>2. CASE p # o
    BY <1>1, <1>4, <2>2 DEF StaysMounted
  <2> QED
    BY <2>1, <2>2
<1>6. BornUnregistered'
  BY <1>1 DEF BornUnregistered
<1> QED
  BY <1>5, <1>6

\* A destructor removes no device of another name.
LEMMA RemovedMounts ==
    ASSUME Types, BornUnregistered, StaysMounted, NEW o \in Objects, Removed(o)
    PROVE  BornUnregistered' /\ StaysMounted'
<1>1. /\ UNCHANGED registered
      /\ life'[o] = "dead"
      /\ \A p \in Objects : p # o => life'[p] = life[p]
      /\ devices' = devices \/ devices' = RemoveDevice(NameOf[o])
  BY DEF Removed, unregister_fs, Types
<1>2. ASSUME NEW p \in Objects, NameOf[p] # NameOf[o], NEW s \in Slots, devices[s] = p
      PROVE  devices'[s] = p
  BY <1>1, <1>2, RemoveDeviceClears DEF Types
<1>3. StaysMounted'
  <2> SUFFICES ASSUME NEW p \in Objects, registered[p], life'[p] = "alive",
                      \A q \in Objects \ {p} : NameOf[q] # NameOf[p]
               PROVE  \E s \in Slots : devices'[s] = p
    BY <1>1 DEF StaysMounted
  <2>1. p # o /\ life[p] = "alive"
    BY <1>1
  <2> QED
    BY <1>2, <2>1 DEF StaysMounted
<1>4. BornUnregistered'
  BY <1>1 DEF BornUnregistered
<1> QED
  BY <1>3, <1>4

-----------------------------------------------------------------------------
(***************************************************************************)
(* The table has room for as many objects as there are slots, whatever     *)
(* dead devices it keeps: no slot is in use further down than the number   *)
(* of objects that died and of names in the table that are not done with.  *)
(***************************************************************************)
Dead == {o \in Objects : life[o] = "dead"}

\* Objects that may still be used and whose name is in the table, and the names.
Held == {o \in Objects : life[o] # "dead" /\ Holding(NameOf[o]) # {}}
HeldNames == {NameOf[o] : o \in Held}

\* The slots down to the last one in use.
Below == {s \in Slots : \E t \in Slots : devices[t] # Nobody /\ s <= t}

Fits == Cardinality(Below) <= Cardinality(Dead) + Cardinality(HeldNames)

\* There are no more names than objects that have them.
LEMMA FewerNames ==
    ASSUME NEW S \in SUBSET Objects, IsFiniteSet(S)
    PROVE  LET names == {NameOf[o] : o \in S}
           IN  IsFiniteSet(names) /\ Cardinality(names) <= Cardinality(S)
<1> DEFINE names == {NameOf[o] : o \in S}
           named == [o \in S |-> NameOf[o]]
<1>1. named \in Surjection(S, names)
  BY DEF Surjection
<1> HIDE DEF named, names
<1>2. IsFiniteSet(names) /\ Cardinality(names) <= Cardinality(S)
  BY <1>1, FS_Surjection
<1> QED
  BY <1>2 DEF names

\* The sets that are counted are finite.
LEMMA Counted ==
    ASSUME IsFiniteSet(Objects)
    PROVE  /\ IsFiniteSet(Below) /\ Cardinality(Below) \in Nat
           /\ IsFiniteSet(Dead) /\ Cardinality(Dead) \in Nat
           /\ IsFiniteSet(Held) /\ Cardinality(Held) \in Nat
           /\ IsFiniteSet(HeldNames) /\ Cardinality(HeldNames) \in Nat
           /\ Cardinality(HeldNames) <= Cardinality(Held)
<1>1. Below \in SUBSET Slots /\ Dead \in SUBSET Objects /\ Held \in SUBSET Objects
  BY DEF Below, Dead, Held
<1>2. IsFiniteSet(Below) /\ IsFiniteSet(Dead) /\ IsFiniteSet(Held)
  BY <1>1, FS_Subset, MountsAssumption
<1>3. IsFiniteSet(HeldNames) /\ Cardinality(HeldNames) <= Cardinality(Held)
  BY <1>1, <1>2, FewerNames DEF HeldNames
<1> QED
  BY <1>2, <1>3, FS_CardinalityType

\* While it fits, the object that is about to enter the table finds a slot.
LEMMA FitsFindsRoom ==
    ASSUME Types, MainWithLiving, Fits,
           IsFiniteSet(Objects), Cardinality(Objects) <= Cardinality(Slots)
    PROVE  NeverFull
<1> SUFFICES ASSUME NEW o \in Objects, Enters(o), FreeSlots \cup Holding(NameOf[o]) = {}
             PROVE  FALSE
  BY DEF NeverFull
<1>1. life[o] = "alive"
  BY DEF MainWithLiving, Enters, At
<1>2. Below = Slots
  <2>1. \A s \in Slots : devices[s] # Nobody /\ s <= s
    BY MountsAssumption DEF FreeSlots
  <2> QED
    BY <2>1 DEF Below
<1>3. /\ Dead \cap Held = {}
      /\ Dead \cup Held \in SUBSET (Objects \ {o})
  BY <1>1 DEF Dead, Held
<1>4. /\ IsFiniteSet(Objects \ {o})
      /\ Cardinality(Objects \ {o}) = Cardinality(Objects) - 1
      /\ Cardinality(Objects) \in Nat
  BY FS_RemoveElement, FS_CardinalityType
<1>5. Cardinality(Dead \cup Held) <= Cardinality(Objects) - 1
  BY <1>3, <1>4, FS_Subset
<1>6. Cardinality({}) = 0
  BY FS_EmptySet
<1>7. Cardinality(Dead \cup Held) = Cardinality(Dead) + Cardinality(Held)
  <2>1. Cardinality(Dead \cup Held)
           = Cardinality(Dead) + Cardinality(Held) - Cardinality(Dead \cap Held)
    BY Counted, FS_Union
  <2>2. Cardinality(Dead \cap Held) = 0
    BY <1>3, <1>6
  <2> QED
    BY <2>1, <2>2, Counted
<1>8. Cardinality(Slots) <= Cardinality(Dead) + Cardinality(HeldNames)
  BY <1>2 DEF Fits
<1>9. Cardinality(Slots) \in Nat
  BY FS_CardinalityType, MountsAssumption
<1> QED
  BY <1>4, <1>5, <1>7, <1>8, <1>9, Counted

\* A step that leaves the table alone.
LEMMA FitsKept ==
    ASSUME Fits, StaysEntered
    PROVE  Fits'
<1>1. Below' = Below
  BY DEF StaysEntered, Below
<1>2. Dead' = Dead
  BY DEF StaysEntered, Dead
<1>3. Held' = Held
  BY DEF StaysEntered, Held, Holding
<1>4. HeldNames' = HeldNames
  BY <1>3 DEF HeldNames
<1> QED
  BY <1>1, <1>2, <1>4 DEF Fits

\* A name that is in the table gets no slot further down; a new one is counted,
\* and takes the first slot that is free.
LEMMA RegisterFits ==
    ASSUME Types, MainWithLiving, NeverFull, Fits, IsFiniteSet(Objects),
           NEW o \in Objects, Register(o)
    PROVE  Fits'
<1>1. Enters(o) /\ life[o] = "alive" /\ UNCHANGED life /\ devices' = register_fs(o)
  BY MountsAssumption DEF Types, MainWithLiving, Register, Enters, At
<1>2. Dead' = Dead
  BY <1>1 DEF Dead
<1>3. CASE devices' = devices
  <2>1. Below' = Below /\ Held' = Held
    BY <1>1, <1>3 DEF Below, Held, Holding
  <2> QED
    BY <1>2, <2>1 DEF Fits, HeldNames
<1>4. CASE devices' # devices
  <2> DEFINE open == FreeSlots \cup Holding(NameOf[o])
             t == Min(open)
  <2>1. open # {} /\ devices' = [devices EXCEPT ![t] = o]
    BY <1>1, <1>4 DEF register_fs, AddDevice
  <2>2. open \in SUBSET Nat
    BY MountsAssumption DEF FreeSlots, Holding
  <2>3. t \in open /\ \A s \in open : t <= s
    BY <2>1, <2>2, MinIsMember
  <2> HIDE DEF t
  <2>4. t \in Slots /\ (devices[t] # Nobody => NameOf[devices[t]] = NameOf[o])
    BY <2>3 DEF FreeSlots, Holding
  <2>5. \A s \in Slots : devices'[s] = IF s = t THEN o ELSE devices[s]
    BY <2>1 DEF Types
  <2>6. Holding(NameOf[o])' # {}
    BY <2>4, <2>5, MountsAssumption DEF Holding
  <2>7. ASSUME NEW name, name # NameOf[o] PROVE Holding(name)' = Holding(name)
    BY <2>4, <2>5, <2>7, MountsAssumption DEF Holding
  <2>8. CASE Holding(NameOf[o]) # {}
    <3>1. PICK h \in Slots : devices[h] # Nobody /\ t <= h
      BY <2>3, <2>8 DEF Holding
    <3>2. Below' \in SUBSET Below
      <4>1. ASSUME NEW s \in Slots, NEW u \in Slots, devices'[u] # Nobody, s <= u
            PROVE  s \in Below
        <5>1. CASE u = t
          <6>1. s <= h
            BY <3>1, <4>1, <5>1, <2>4, MountsAssumption
          <6> QED
            BY <3>1, <6>1 DEF Below
        <5>2. CASE u # t
          BY <2>5, <4>1, <5>2 DEF Below
        <5> QED
          BY <5>1, <5>2
      <4> QED
        BY <4>1 DEF Below
    <3>3. Held' = Held
      BY <1>1, <2>6, <2>7, <2>8 DEF Held
    <3>4. HeldNames' = HeldNames
      BY <3>3 DEF HeldNames
    <3>5. Cardinality(Below') <= Cardinality(Below)
      BY <3>2, Counted, FS_Subset
    <3>6. Cardinality(Below') \in Nat
      BY <3>2, Counted, FS_Subset, FS_CardinalityType
    <3> QED
      BY <1>2, <3>4, <3>5, <3>6, Counted DEF Fits
  <2>9. CASE Holding(NameOf[o]) = {}
    <3>1. Below' \in SUBSET (Below \cup {t})
      <4>1. ASSUME NEW s \in Slots, NEW u \in Slots, devices'[u] # Nobody, s <= u, s # t
            PROVE  s \in Below
        <5>1. CASE u = t
          <6>1. s \notin open
            BY <2>3, <2>4, <4>1, <5>1, MountsAssumption
          <6>2. devices[s] # Nobody /\ s <= s
            BY <6>1, MountsAssumption DEF FreeSlots
          <6> QED
            BY <6>2 DEF Below
        <5>2. CASE u # t
          BY <2>5, <4>1, <5>2 DEF Below
        <5> QED
          BY <5>1, <5>2
      <4> QED
        BY <4>1 DEF Below
    <3>2. HeldNames' = HeldNames \cup {NameOf[o]}
      <4>1. ASSUME NEW p \in Objects, NameOf[p] # NameOf[o]
            PROVE  p \in Held' <=> p \in Held
        BY <1>1, <2>7, <4>1 DEF Held
      <4>2. o \in Held' /\ Held \in SUBSET Objects /\ Held' \in SUBSET Objects
        BY <1>1, <2>6 DEF Held
      <4>3. \A name : name \in HeldNames' <=> \E p \in Held' : name = NameOf[p]
        BY DEF HeldNames
      <4>4. \A name : name \in HeldNames <=> \E p \in Held : name = NameOf[p]
        BY DEF HeldNames
      <4> QED
        BY <4>1, <4>2, <4>3, <4>4
    <3>3. NameOf[o] \notin HeldNames
      BY <2>9 DEF HeldNames, Held
    <3>4. Cardinality(HeldNames') = Cardinality(HeldNames) + 1
      BY <3>2, <3>3, Counted, FS_AddElement
    <3>5. /\ IsFiniteSet(Below \cup {t})
          /\ Cardinality(Below \cup {t}) <= Cardinality(Below) + 1
      <4>1. /\ IsFiniteSet(Below \cup {t})
            /\ Cardinality(Below \cup {t}) = IF t \in Below THEN Cardinality(Below)
                                             ELSE Cardinality(Below) + 1
        BY Counted, FS_AddElement
      <4> QED
        BY <4>1, Counted
    <3>6. Cardinality(Below') <= Cardinality(Below \cup {t})
      BY <3>1, <3>5, FS_Subset
    <3>7. Cardinality(Below') \in Nat /\ Cardinality(Below \cup {t}) \in Nat
      BY <3>1, <3>5, FS_Subset, FS_CardinalityType
    <3> QED
      BY <1>2, <3>4, <3>5, <3>6, <3>7, Counted DEF Fits
  <2> QED
    BY <2>8, <2>9
<1> QED
  BY <1>3, <1>4

\* The object that dies counts for the device it may leave behind.
LEMMA RemovedFits ==
    ASSUME Types, Fits, IsFiniteSet(Objects),
           NEW o \in Objects, life[o] = "alive", Removed(o)
    PROVE  Fits'
<1>1. /\ life' = [life EXCEPT ![o] = "dead"]
      /\ devices' = devices \/ devices' = RemoveDevice(NameOf[o])
  BY DEF Removed, unregister_fs
<1>2. \A p \in Objects : life'[p] = IF p = o THEN "dead" ELSE life[p]
  BY <1>1 DEF Types
<1>3. \A s \in Slots : /\ devices'[s] # Nobody => devices'[s] = devices[s]
                       /\ devices[s] # Nobody /\ NameOf[devices[s]] # NameOf[o]
                             => devices'[s] = devices[s]
  BY <1>1, RemoveDeviceClears DEF Types
<1>4. Dead' = Dead \cup {o} /\ o \notin Dead
  BY <1>2 DEF Dead
<1>5. Below' \in SUBSET Below
  BY <1>3 DEF Below
<1>6. HeldNames \in SUBSET (HeldNames' \cup {NameOf[o]})
  <2>1. ASSUME NEW p \in Held, NameOf[p] # NameOf[o] PROVE p \in Held'
    <3>1. Holding(NameOf[p])' # {}
      <4>1. PICK s \in Slots : devices[s] # Nobody /\ NameOf[devices[s]] = NameOf[p]
        BY DEF Held, Holding
      <4> QED
        BY <1>3, <2>1, <4>1 DEF Holding
    <3> QED
      BY <1>2, <2>1, <3>1 DEF Held
  <2> QED
    BY <2>1 DEF HeldNames
<1>7. IsFiniteSet(HeldNames') /\ Cardinality(HeldNames') \in Nat
  <2>1. Held' \in SUBSET Objects
    BY DEF Held
  <2>2. IsFiniteSet(Held')
    BY <2>1, FS_Subset
  <2> QED
    BY <2>1, <2>2, FewerNames, FS_CardinalityType DEF HeldNames
<1>8. Cardinality(HeldNames) <= Cardinality(HeldNames') + 1
  <2>1. /\ IsFiniteSet(HeldNames' \cup {NameOf[o]})
        /\ Cardinality(HeldNames' \cup {NameOf[o]}) <= Cardinality(HeldNames') + 1
    BY <1>7, FS_AddElement
  <2>2. Cardinality(HeldNames' \cup {NameOf[o]}) \in Nat
    BY <2>1, FS_CardinalityType
  <2> QED
    BY <1>6, <1>7, <2>1, <2>2, Counted, FS_Subset
<1>9. Cardinality(Dead') = Cardinality(Dead) + 1
  BY <1>4, Counted, FS_AddElement
<1>10. Cardinality(Below') <= Cardinality(Below) /\ Cardinality(Below') \in Nat
  BY <1>5, Counted, FS_Subset, FS_CardinalityType
<1> QED
  BY <1>7, <1>8, <1>9, <1>10, Counted DEF Fits

-----------------------------------------------------------------------------
(***************************************************************************)
(* The theorems.                                                           *)
(***************************************************************************)
IInv ==
    /\ Types
    /\ MainWithLiving
    /\ ContextsGone
    /\ InsideOwnsMutex
    /\ CallKeepsContext
    /\ EntersConnected
    /\ SightedLive
    /\ AloneOnce

\* The invariant holds at first.
LEMMA InitIInv == Init => IInv
<1> SUFFICES ASSUME Init PROVE IInv
  OBVIOUS
<1>1. Types /\ MainWithLiving /\ ContextsGone /\ InsideOwnsMutex
  BY InitTypes
<1>2. CallKeepsContext
  BY DEF Init, Idle, CallKeepsContext
<1>3. EntersConnected
  BY MountsAssumption DEF Init, EntersConnected, Enters, At, Rest
<1>4. \A s \in Slots, p \in Objects : devices[s] # p
  BY MountsAssumption DEF Init
<1>5. SightedLive /\ AloneOnce
  BY <1>4 DEF SightedLive, AloneOnce
<1> QED
  BY <1>1, <1>2, <1>3, <1>5 DEF IInv

\* Every step keeps it.
LEMMA NextIInv == IInv /\ [Next]_vars => IInv'
<1> SUFFICES ASSUME IInv, [Next]_vars PROVE IInv'
  OBVIOUS
<1>1. CASE Next
  <2>1. Types'
    BY <1>1, NextTypes DEF IInv
  <2>2. MainWithLiving' /\ ContextsGone' /\ InsideOwnsMutex' /\ CallKeepsContext'
    BY <1>1, NextMain, NextContextsGone, NextInside, NextKeepsContext DEF IInv
  <2>3. EntersConnected'
    BY <1>1, NextEnters DEF IInv
  <2>4. SightedLive' /\ AloneOnce'
    BY <1>1, <2>1, NextTable DEF IInv
  <2> QED
    BY <2>1, <2>2, <2>3, <2>4 DEF IInv
<1>2. CASE UNCHANGED vars
  BY <1>2 DEF vars, IInv, Types, MainWithLiving, ContextsGone, Ending, InsideOwnsMutex,
     CallKeepsContext, EntersConnected, SightedLive, AloneOnce, Sighted, Enters, At, Rest
<1> QED
  BY <1>1, <1>2

\* So it always holds.
LEMMA SpecIInv == Spec => []IInv
  BY InitIInv, NextIInv, PTL DEF Spec

\* A slot that leads to a destroyed object breaks neither half of the promise.
LEMMA TableLeadsToLiving == IInv => NoDanglingDevice
<1> SUFFICES ASSUME IInv, NEW s \in Slots, devices[s] # Nobody, life[devices[s]] = "dead"
             PROVE  LET o == devices[s]
                        namesakes == {p \in Objects : NameOf[p] = NameOf[o]}
                    IN  /\ \E p \in namesakes : kind[p] \in Blind
                        /\ namesakes = {o} => connects[o] > 1 \/ ~registered[o]
  BY DEF NoDanglingDevice
<1> DEFINE o == devices[s]
           namesakes == {p \in Objects : NameOf[p] = NameOf[o]}
<1>1. o \in Objects /\ connects[o] \in Nat
  BY DEF IInv, Types
<1>2. ~Sighted(o)
  BY <1>1 DEF IInv, SightedLive
<1>3. \E p \in namesakes : kind[p] \in Blind
  BY <1>2 DEF Sighted
<1>4. ASSUME namesakes = {o} PROVE connects[o] > 1 \/ ~registered[o]
  <2>1. Alone(o)
    BY <1>4 DEF Alone
  <2> QED
    BY <1>1, <2>1 DEF IInv, AloneOnce
<1> QED
  BY <1>3, <1>4

\* The device table leads to a destroyed object only under a name that a class
\* which calls AddDevice without FindDevice has used, and not even then when the
\* object alone has the name and was connected and registered once.
THEOREM DevicesLead == Spec => []NoDanglingDevice
  BY SpecIInv, TableLeadsToLiving, PTL

\* No destructor gives a context back a second time, but for an NFS mount whose
\* last connect failed: CNFSFS::connect has destroyed its context already.
THEOREM ContextsFreedOnce == Spec => []FreedOnce
<1>1. IInv => FreedOnce
  BY DEF IInv, ContextsGone, FreedOnce
<1> QED
  BY <1>1, SpecIInv, PTL

\* A call that entered an SMB mount while its share was connected keeps the
\* context until it leaves, unless the mount is connected once more under it:
\* the destructor waits for session_mutex, connect does not.
THEOREM CallsKeepContext == Spec => []CallKeepsContext
<1>1. IInv => CallKeepsContext
  BY DEF IInv
<1> QED
  BY <1>1, SpecIInv, PTL

\* As long as no more objects are made than the table has slots, AddDevice finds
\* one for each, whatever devices of dead objects the blind classes leave there.
THEOREM TableHasRoom ==
    ASSUME IsFiniteSet(Objects), Cardinality(Objects) <= Cardinality(Slots)
    PROVE  Spec => []NeverFull
<1>1. Init => Fits
  <2> SUFFICES ASSUME Init PROVE Fits
    OBVIOUS
  <2>1. Below = {}
    BY DEF Init, Below
  <2>2. Cardinality(Below) = 0
    BY <2>1, FS_EmptySet
  <2> QED
    BY <2>2, Counted DEF Fits
<1>2. IInv /\ Fits => NeverFull
  BY FitsFindsRoom DEF IInv
<1>3. IInv /\ Fits /\ [Next]_vars => Fits'
  <2> SUFFICES ASSUME IInv, Fits, [Next]_vars PROVE Fits'
    OBVIOUS
  <2>1. Types /\ MainWithLiving /\ NeverFull
    BY <1>2 DEF IInv
  <2>2. CASE Next
    <3>1. CASE StaysEntered
      BY <3>1, FitsKept
    <3>2. CASE \E o \in Objects : Register(o)
      BY <2>1, <3>2, RegisterFits
    <3>3. CASE \E o \in Objects : Removed(o) /\ main.object = o
      BY <2>1, <3>3, RemovedFits DEF MainWithLiving
    <3> QED
      BY <2>1, <2>2, <3>1, <3>2, <3>3, NextStays
  <2>3. CASE UNCHANGED vars
    BY <2>3 DEF vars, Fits, Below, Dead, HeldNames, Held, Holding
  <2> QED
    BY <2>2, <2>3
<1> QED
  BY <1>1, <1>2, <1>3, SpecIInv, PTL DEF Spec

\* An object alone with its name that RegisterFilesystem has registered can be
\* reached until its destructor runs, whatever the others do and whichever slots
\* they take, if AddDevice never finds the table full.
THEOREM MountedWhileRoom == Spec /\ []NeverFull => []StaysMounted
<1> DEFINE Inv == BornUnregistered /\ StaysMounted
<1>1. Init => Inv
  BY DEF Init, BornUnregistered, StaysMounted
<1>2. IInv /\ NeverFull /\ Inv /\ [Next]_vars => Inv'
  <2> SUFFICES ASSUME IInv, NeverFull, Inv, [Next]_vars PROVE Inv'
    OBVIOUS
  <2>1. CASE Next
    <3>1. Types /\ MainWithLiving
      BY DEF IInv
    <3> QED
      BY <2>1, <3>1, NextStays, MountedKept, RegisterMounts, RemovedMounts
  <2>2. CASE UNCHANGED vars
    BY <2>2 DEF vars, BornUnregistered, StaysMounted
  <2> QED
    BY <2>1, <2>2
<1> QED
  BY <1>1, <1>2, SpecIInv, PTL DEF Spec

\* The same without a word of the table: no more objects than slots are made.
THEOREM MountedWhileObjectsFit ==
    ASSUME IsFiniteSet(Objects), Cardinality(Objects) <= Cardinality(Slots)
    PROVE  Spec => []StaysMounted
  BY TableHasRoom, MountedWhileRoom, PTL
=============================================================================
