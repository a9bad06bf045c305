---------------------------- MODULE ArchiveProofs ----------------------------
(***************************************************************************)
(* Proofs about Archive, for any archives, any number of DIRs and files    *)
(* and any reads and seeks: a DIR that has come to its end has returned    *)
(* what is in its directory (ListingExact), stat finds what the archive    *)
(* has (StatExact), and the handle of a large file follows its offset      *)
(* (HandleFollows).                                                        *)
(***************************************************************************)
EXTENDS Archive, SequenceTheorems, WellFoundedInduction, TLAPS

-----------------------------------------------------------------------------
(***************************************************************************)
(* Pathnames.                                                              *)
(***************************************************************************)
Name == Seq(STRING)
Path == Name \ {<<>>}

\* A path is what comes before its last part, and this part.
LEMMA FrontAndLast ==
    ASSUME NEW p \in Path
    PROVE  /\ Front(p) \in Name
           /\ Len(Front(p)) = Len(p) - 1
           /\ \A i \in 1 .. Len(p) - 1 : Front(p)[i] = p[i]
           /\ Last(p) \in STRING
           /\ Append(Front(p), Last(p)) = p
<1>1. p \in Seq(STRING) /\ Len(p) \in Nat \ {0}
    BY EmptySeq DEF Path, Name
<1>2. \A i \in 1 .. Len(p) - 1 : p[i] \in STRING
    BY <1>1, ElementOfSeq
<1>3. /\ Front(p) \in Seq(STRING)
      /\ Len(Front(p)) = Len(p) - 1
      /\ \A i \in 1 .. Len(p) - 1 : Front(p)[i] = p[i]
  <2> DEFINE q == SubSeq(p, 1, Len(p) - 1)
  <2>1. /\ q \in Seq(STRING)
        /\ Len(q) = IF 1 <= Len(p) - 1 THEN Len(p) - 1 - 1 + 1 ELSE 0
        /\ \A i \in 1 .. Len(p) - 1 - 1 + 1 : q[i] = p[1 + i - 1]
      BY <1>1, <1>2, SubSeqProperties
  <2> HIDE DEF q
  <2>2. Len(q) = Len(p) - 1
    <3>1. CASE Len(p) = 1
        BY <2>1, <3>1
    <3>2. CASE Len(p) > 1
        BY <1>1, <2>1, <3>2
    <3>3. Len(p) = 1 \/ Len(p) > 1
        BY <1>1
    <3> QED
        BY <3>1, <3>2, <3>3
  <2>3. \A i \in 1 .. Len(p) - 1 : q[i] = p[i]
      BY <1>1, <2>1
  <2> QED
      BY <2>1, <2>2, <2>3 DEF Front, q
<1>4. Last(p) \in STRING
    BY <1>1, ElementOfSeq DEF Last
<1>5. Append(Front(p), Last(p)) = p
  <2> DEFINE q == Front(p)
             r == Append(q, Last(p))
  <2>1. /\ r \in Seq(STRING) /\ Len(r) = Len(p)
        /\ \A i \in 1 .. Len(p) : r[i] = p[i]
    <3>1. q \in Seq(STRING) /\ Len(q) = Len(p) - 1 /\ \A i \in 1 .. Len(p) - 1 : q[i] = p[i]
        BY <1>3
    <3> HIDE DEF q
    <3>2. /\ r \in Seq(STRING) /\ Len(r) = Len(q) + 1
          /\ \A i \in 1 .. Len(q) : r[i] = q[i]
          /\ r[Len(q) + 1] = Last(p)
        BY <1>4, <3>1, AppendProperties
    <3> QED
        BY <1>1, <3>1, <3>2 DEF Last
  <2> HIDE DEF r
  <2>2. r = p
      BY <1>1, <2>1, SeqEqual
  <2> QED
      BY <2>2 DEF r
<1> QED
    BY <1>3, <1>4, <1>5 DEF Name

\* Paths with the same parts are the same.
LEMMA SameParts ==
    ASSUME NEW p \in Path, NEW q \in Path, Front(p) = Front(q), Last(p) = Last(q)
    PROVE  p = q
    BY FrontAndLast

\* The parent of an entry is what comes before its name, unless it has been
\* taken for a file in the root.
LEMMA ParentName ==
    ASSUME NEW e \in EntryType
    PROVE  /\ parentname(e) \in Name
           /\ \/ parentname(e) = Front(e.path)
              \/ /\ parentname(e) = <<>>
                 /\ Len(e.path) = 2
                 /\ e.path[1] = e.path[2]
                 /\ Front(e.path) = <<Last(e.path)>>
<1> DEFINE p == e.path
<1>1. p \in Path /\ Len(p) \in Nat \ {0} /\ <<>> \in Name
    BY EmptySeq DEF EntryType, Path, Name
<1>2. /\ Front(p) \in Name
      /\ Len(Front(p)) = Len(p) - 1
      /\ \A i \in 1 .. Len(p) - 1 : Front(p)[i] = p[i]
    BY <1>1, FrontAndLast
<1> HIDE DEF p
<1>3. CASE e.folder \/ Len(p) > 1
  <2>1. parentname(e) = IF Front(p) = <<Last(p)>> THEN <<>> ELSE Front(p)
      BY <1>3 DEF parentname, p
  <2>2. ASSUME Front(p) = <<Last(p)>>
        PROVE  Len(p) = 2 /\ p[1] = p[2]
    <3>1. Len(Front(p)) = 1 /\ Front(p)[1] = Last(p)
        BY <2>2
    <3>2. Len(p) = 2
      <4> DEFINE n == Len(p)
      <4>1. n \in Nat /\ n - 1 = 1
          BY <1>1, <1>2, <3>1
      <4> HIDE DEF n
      <4>2. n = 2
          BY <4>1
      <4> QED
          BY <4>2 DEF n
    <3> QED
        BY <1>2, <3>1, <3>2 DEF Last
  <2> QED
      BY <1>1, <1>2, <2>1, <2>2 DEF p
<1>4. CASE ~(e.folder \/ Len(p) > 1)
  <2>1. Len(p) = 1
      BY <1>1, <1>4
  <2>2. parentname(e) = IF p = <<Last(p)>> THEN <<>> ELSE p
      BY <1>4 DEF parentname, p
  <2>3. p = <<Last(p)>>
    <3>1. <<Last(p)>> \in Seq(STRING) /\ Last(p) \in STRING
        BY <1>1, FrontAndLast
    <3>2. Len(<<Last(p)>>) = 1 /\ <<Last(p)>>[1] = p[1]
        BY <2>1 DEF Last
    <3> HIDE DEF p
    <3> QED
        BY <1>1, <2>1, <3>1, <3>2, SeqEqual DEF Path, Name
  <2>4. Front(p) = <<>>
    <3>1. Len(Front(p)) = 0
        BY <1>2, <2>1
    <3> QED
        BY <1>2, <3>1, EmptySeq DEF Name
  <2> QED
      BY <1>1, <2>2, <2>3, <2>4 DEF p
<1> QED
    BY <1>3, <1>4

\* The least element of a set of numbers.
LEMMA MinProperty ==
    ASSUME NEW T \in SUBSET Nat, T # {}
    PROVE  Min(T) \in T /\ \A x \in T : Min(T) <= x
<1>1. \E x \in T : \A y \in T : ~(<<y, x>> \in OpToRel(<, Nat))
    BY NatLessThanWellFounded, WFMin
<1>2. \E x \in T : \A y \in T : ~(y < x)
    BY <1>1 DEF OpToRel
<1>3. \E x \in T : \A y \in T : x <= y
    BY <1>2
<1> QED
    BY <1>3 DEF Min

-----------------------------------------------------------------------------
(***************************************************************************)
(* What holds between the steps.  The list of names grows only until all   *)
(* readable entries are in it, and nothing else happens until then.  A DIR *)
(* has returned what its directory has up to its index.                    *)
(***************************************************************************)
Element == [entry : Nat, filename : STRING, parent : Name]

Complete == Len(totalfilelist) + 1 \notin Readable

TreeInv ==
    /\ archive \in Archives
    /\ totalfilelist \in Seq(Element)
    /\ \A i \in 1 .. Len(totalfilelist) : i \in Readable
    /\ \A i \in 1 .. Len(totalfilelist) : totalfilelist[i] = Listed(i)

DirType ==
    /\ folder \in [Dirs -> Name \cup {Closed}]
    /\ idx \in [Dirs -> Nat]
    /\ listed \in [Dirs -> Seq(Nat)]
    /\ ended \in SUBSET Dirs

Before(n, path) == {i \in 1 .. n : totalfilelist[i].parent = path}

DirInv(d) ==
    /\ idx[d] <= Len(totalfilelist)
    /\ InOrder(listed[d])
    /\ Range(listed[d]) = Before(idx[d], folder[d])
    /\ d \in ended => idx[d] = Len(totalfilelist)
    /\ idx[d] > 0 \/ d \in ended => Complete

FoundInv ==
    found.path # <<>> =>
        /\ Complete
        /\ found.path \in Path
        /\ found.entry = IF find_fileentry(found.path) = {} THEN NotFound
                         ELSE Min(find_fileentry(found.path))

FileInv ==
    /\ open \in [Files -> Nat]
    /\ offset \in [Files -> Int]
    /\ at \in [Files -> Int]
    /\ strayed \in SUBSET Files
    /\ \A f \in Files : open[f] # 0 => open[f] \in 1 .. Len(archive)
    /\ HandleFollows

IInv ==
    /\ TreeInv
    /\ DirType
    /\ \A d \in Dirs : DirInv(d)
    /\ FoundInv
    /\ FileInv

\* An entry of the archive and of the list.
LEMMA EntryIsTyped ==
    ASSUME TreeInv, NEW i \in 1 .. Len(archive)
    PROVE  /\ archive[i] \in EntryType
           /\ archive[i].path \in Path
           /\ Listed(i) \in Element
<1>1. archive \in Seq(EntryType)
    BY ArchiveAssumption DEF TreeInv
<1>2. archive[i] \in EntryType
    BY <1>1, ElementOfSeq
<1>3. archive[i].path \in Path
    BY <1>2 DEF EntryType, Path, Name
<1>4. i \in Nat
    BY <1>1
<1> QED
    BY <1>2, <1>3, <1>4, FrontAndLast, ParentName DEF Listed, Element

\* An entry that can be read is one of the archive.
LEMMA ReadableEntries ==
    ASSUME TreeInv
    PROVE  /\ Len(archive) \in Nat /\ Len(totalfilelist) \in Nat
           /\ Readable \subseteq 1 .. Len(archive)
           /\ \A i \in 1 .. Len(archive) :
                  i \in Readable <=> \A j \in 1 .. i : archive[j].ok
<1>1. archive \in Seq(EntryType) /\ totalfilelist \in Seq(Element)
    BY ArchiveAssumption DEF TreeInv
<1>2. DOMAIN archive = 1 .. Len(archive)
    BY <1>1, LenProperties
<1> QED
    BY <1>1, <1>2, LenProperties DEF Readable

\* A complete list has exactly the entries that can be read.
LEMMA ListIsReadable ==
    ASSUME TreeInv, Complete
    PROVE  Readable = 1 .. Len(totalfilelist)
<1> DEFINE n == Len(totalfilelist)
<1>1. n \in Nat /\ \A i \in 1 .. n : i \in Readable
    BY ReadableEntries DEF TreeInv
<1>2. ASSUME NEW i \in Readable PROVE i \in 1 .. n
  <2>1. i \in 1 .. Len(archive) /\ Len(archive) \in Nat
      BY ReadableEntries
  <2>2. ASSUME i > n PROVE FALSE
    <3>1. n + 1 \in 1 .. Len(archive) /\ \A j \in 1 .. n + 1 : j \in 1 .. i
        BY <1>1, <2>1, <2>2
    <3>2. n + 1 \in Readable
        BY <2>1, <3>1, ReadableEntries
    <3> QED
        BY <3>2 DEF Complete
  <2> QED
      BY <1>1, <2>1, <2>2
<1> QED
    BY <1>1, <1>2

\* The invariant holds at first.
LEMMA InitIInv == Init => IInv
<1> SUFFICES ASSUME Init PROVE IInv
    OBVIOUS
<1>1. /\ \A S : <<>> \in Seq(S) /\ Len(<<>>) = 0
      /\ DOMAIN <<>> = {}
    BY EmptySeq
<1>2. archive \in Seq(EntryType) /\ Len(archive) \in Nat
    BY ArchiveAssumption, LenProperties DEF Init
<1>3. TreeInv
    BY <1>1, <1>2 DEF Init, TreeInv
<1>4. DirType
    BY <1>1 DEF Init, DirType
<1>5. ASSUME NEW d \in Dirs PROVE DirInv(d)
  <2>1. idx[d] = 0 /\ listed[d] = <<>> /\ d \notin ended /\ Len(totalfilelist) = 0
      BY <1>1 DEF Init
  <2>2. Range(listed[d]) = {} /\ InOrder(listed[d])
      BY <1>1, <2>1 DEF Range, InOrder
  <2>3. Before(idx[d], folder[d]) = {}
      BY <2>1 DEF Before
  <2>4. idx[d] <= Len(totalfilelist)
      BY <2>1
  <2>5. ~(idx[d] > 0)
      BY <2>1
  <2>6. Range(listed[d]) = Before(idx[d], folder[d])
      BY <2>2, <2>3
  <2> QED
      BY <2>1, <2>2, <2>4, <2>5, <2>6 DEF DirInv
<1>6. FoundInv
    BY DEF Init, FoundInv
<1>7. FileInv
    BY DEF Init, FileInv, HandleFollows
<1> QED
    BY <1>3, <1>4, <1>5, <1>6, <1>7 DEF IInv

-----------------------------------------------------------------------------
(***************************************************************************)
(* What a step leaves alone.                                               *)
(***************************************************************************)
LEMMA TreeKept ==
    ASSUME TreeInv, UNCHANGED tree
    PROVE  TreeInv' /\ (Complete' <=> Complete)
    BY DEF TreeInv, tree, Complete, Listed, Readable

\* What a step that touches no directory keeps.
LEMMA DirsKept ==
    ASSUME DirType, \A d \in Dirs : DirInv(d), UNCHANGED <<tree, dirs>>
    PROVE  DirType' /\ \A d \in Dirs : DirInv(d)'
    BY DEF DirType, DirInv, tree, dirs, Complete, Readable, InOrder, Before

\* What a step that touches no stat keeps.
LEMMA FoundKept ==
    ASSUME FoundInv, UNCHANGED <<tree, found>>
    PROVE  FoundInv'
    BY DEF FoundInv, tree, Complete, Readable, find_fileentry

\* What a step that touches no file keeps.
LEMMA FilesKept ==
    ASSUME FileInv, UNCHANGED <<archive, files>>
    PROVE  FileInv'
    BY DEF FileInv, files, HandleFollows, memfile, Size

-----------------------------------------------------------------------------
(***************************************************************************)
(* The steps.                                                              *)
(***************************************************************************)
LEMMA ConnectKeeps ==
    ASSUME IInv, connect
    PROVE  IInv'
<1> DEFINE n == Len(totalfilelist)
           new == Listed(n + 1)
<1>0. /\ n + 1 \in Readable /\ totalfilelist' = Append(totalfilelist, new)
      /\ UNCHANGED <<archive, dirs, found, files>>
    BY DEF connect
<1>1. TreeInv /\ ~Complete /\ n \in Nat
    BY <1>0, ReadableEntries DEF IInv, Complete
<1>2. n + 1 \in 1 .. Len(archive)
    BY <1>0, <1>1, ReadableEntries
<1>3. new \in Element
    BY <1>1, <1>2, EntryIsTyped
<1>4. totalfilelist \in Seq(Element)
    BY <1>1 DEF TreeInv
<1> HIDE DEF new
<1>5. /\ totalfilelist' \in Seq(Element)
      /\ Len(totalfilelist') = n + 1
      /\ \A i \in 1 .. n : totalfilelist'[i] = totalfilelist[i]
      /\ totalfilelist'[n + 1] = new
    BY <1>0, <1>3, <1>4, AppendProperties
<1>6. TreeInv'
  <2>1. \A i : Listed(i)' = Listed(i)
      BY <1>0 DEF Listed
  <2>2. \A i \in 1 .. n + 1 : totalfilelist'[i] = Listed(i)
    <3> SUFFICES ASSUME NEW i \in 1 .. n + 1 PROVE totalfilelist'[i] = Listed(i)
        OBVIOUS
    <3>1. CASE i \in 1 .. n
        BY <1>1, <1>5, <3>1 DEF TreeInv
    <3>2. CASE i = n + 1
        BY <1>5, <3>2 DEF new
    <3> QED
        BY <1>1, <3>1, <3>2
  <2>3. Readable' = Readable /\ \A i \in 1 .. n + 1 : i \in Readable
      BY <1>0, <1>1 DEF TreeInv, Readable
  <2> QED
      BY <1>0, <1>1, <1>5, <2>1, <2>2, <2>3 DEF TreeInv
<1>7. ASSUME NEW d \in Dirs PROVE DirInv(d)'
  <2>1. DirInv(d) /\ idx[d] = 0 /\ d \notin ended
      BY <1>1 DEF IInv, DirInv, DirType
  <2>2. /\ Before(idx[d], folder[d]) = {}
        /\ Before(idx[d], folder[d])' = {}
      BY <1>0, <2>1 DEF Before, dirs
  <2>3. idx'[d] = 0 /\ listed'[d] = listed[d] /\ d \notin ended' /\ folder' = folder
      BY <1>0, <2>1 DEF dirs
  <2>4. idx'[d] <= Len(totalfilelist') /\ ~(idx'[d] > 0)
      BY <1>1, <1>5, <2>3
  <2>5. Range(listed'[d]) = Before(idx[d], folder[d])'
      BY <2>1, <2>2, <2>3 DEF DirInv
  <2>6. InOrder(listed[d])'
      BY <2>1, <2>3 DEF DirInv, InOrder
  <2> QED
      BY <2>3, <2>4, <2>5, <2>6 DEF DirInv
<1>8. FoundInv'
    BY <1>0, <1>1 DEF IInv, FoundInv
<1> QED
    BY <1>0, <1>6, <1>7, <1>8, FilesKept DEF IInv, DirType, dirs

\* archfs_diropen and archfs_dirclose keep it.
LEMMA DirOpenKeeps ==
    ASSUME IInv, NEW d \in Dirs,
           (\E path \in Folders : archfs_diropen(d, path)) \/ archfs_dirclose(d)
    PROVE  IInv'
<1>1. PICK path \in Name \cup {Closed} :
          /\ folder' = [folder EXCEPT ![d] = path]
          /\ idx' = [idx EXCEPT ![d] = 0]
          /\ listed' = [listed EXCEPT ![d] = <<>>]
          /\ ended' = ended \ {d}
          /\ UNCHANGED <<tree, found, files>>
  <2>1. CASE \E path \in Folders : archfs_diropen(d, path)
      BY <2>1, ArchiveAssumption DEF archfs_diropen, Name
  <2>2. CASE archfs_dirclose(d)
      BY <2>2 DEF archfs_dirclose
  <2> QED
      BY <2>1, <2>2
<1>2. TreeInv' /\ (Complete' <=> Complete) /\ FoundInv' /\ FileInv'
    BY <1>1, TreeKept, FoundKept, FilesKept DEF IInv, tree
<1>3. DirType'
  <2>1. <<>> \in Seq(Nat)
      BY EmptySeq
  <2> QED
      BY <1>1, <2>1 DEF IInv, DirType
<1>4. ASSUME NEW e \in Dirs PROVE DirInv(e)'
  <2>1. CASE e = d
    <3>1. idx'[e] = 0 /\ listed'[e] = <<>> /\ e \notin ended'
        BY <1>1, <2>1 DEF IInv, DirType
    <3>2. Range(listed'[e]) = {} /\ InOrder(listed'[e])
        BY <3>1 DEF Range, InOrder
    <3>3. Before(idx[e], folder[e])' = {}
        BY <3>1 DEF Before
    <3>4. idx'[e] <= Len(totalfilelist') /\ ~(idx'[e] > 0)
        BY <1>2, <3>1, LenProperties DEF TreeInv
    <3>5. Range(listed'[e]) = Before(idx[e], folder[e])'
        BY <3>2, <3>3
    <3>6. InOrder(listed[e])'
        BY <3>2 DEF InOrder
    <3> QED
        BY <3>1, <3>4, <3>5, <3>6 DEF DirInv
  <2>2. CASE e # d
    <3>1. /\ idx'[e] = idx[e] /\ listed'[e] = listed[e] /\ folder'[e] = folder[e]
          /\ e \in ended' <=> e \in ended
          /\ totalfilelist' = totalfilelist
        BY <1>1, <2>2 DEF IInv, DirType, tree
    <3> QED
        BY <1>2, <3>1 DEF IInv, DirInv, Before, InOrder
  <2> QED
      BY <2>1, <2>2
<1> QED
    BY <1>2, <1>3, <1>4 DEF IInv

\* A DIR returns the next entry of its directory, or has none left to return.
LEMMA DirNextKeeps ==
    ASSUME IInv, NEW d \in Dirs, archfs_dirnext(d)
    PROVE  IInv'
<1> DEFINE n == Len(totalfilelist)
           m == Min(Coming(d))
           L == listed[d]
<1>0. /\ Complete /\ UNCHANGED <<tree, folder, found, files>>
      /\ TreeInv /\ DirType /\ DirInv(d)
      /\ n \in Nat /\ idx[d] \in Nat /\ L \in Seq(Nat)
    BY LenProperties DEF archfs_dirnext, Mounted, Complete, IInv, TreeInv, DirType
<1>1. TreeInv' /\ (Complete' <=> Complete) /\ FoundInv' /\ FileInv'
    BY <1>0, TreeKept, FoundKept, FilesKept DEF IInv, tree
<1>2. \A i : i \in Coming(d) <=> /\ i \in idx[d] + 1 .. n
                                 /\ totalfilelist[i].parent = folder[d]
    BY DEF Coming
<1>3. \A e \in Dirs : e # d => DirInv(e)'
                     \/ ~(/\ idx'[e] = idx[e] /\ listed'[e] = listed[e]
                          /\ e \in ended' <=> e \in ended)
    BY <1>0, <1>1 DEF IInv, DirInv, Before, InOrder, tree
<1>4. CASE Coming(d) = {}
  <2>1. /\ idx' = [idx EXCEPT ![d] = n]
        /\ ended' = ended \cup {d} /\ listed' = listed
      BY <1>4 DEF archfs_dirnext
  <2>2. DirType'
      BY <1>0, <2>1 DEF DirType
  <2>3. idx'[d] = n /\ listed'[d] = L /\ folder' = folder /\ totalfilelist' = totalfilelist
      BY <1>0, <2>1 DEF DirType, tree
  <2>4. Before(n, folder[d]) = Before(idx[d], folder[d])
    <3>1. \A i \in 1 .. n : totalfilelist[i].parent = folder[d] => i \in 1 .. idx[d]
        BY <1>0, <1>2, <1>4
    <3>2. \A i \in 1 .. idx[d] : i \in 1 .. n
        BY <1>0 DEF DirInv
    <3> QED
        BY <3>1, <3>2 DEF Before
  <2>5. Range(listed'[d]) = Before(idx[d], folder[d])'
      BY <1>0, <2>3, <2>4 DEF DirInv, Before
  <2>6. InOrder(listed[d])'
      BY <1>0, <2>3 DEF DirInv, InOrder
  <2>7. idx'[d] <= Len(totalfilelist') /\ idx'[d] = Len(totalfilelist')
      BY <1>0, <2>3
  <2>8. DirInv(d)'
      BY <1>0, <1>1, <2>5, <2>6, <2>7 DEF DirInv
  <2>9. \A e \in Dirs : e # d => DirInv(e)'
      BY <1>0, <1>3, <2>1 DEF DirType
  <2> QED
      BY <1>1, <2>2, <2>8, <2>9 DEF IInv
<1>5. CASE Coming(d) # {}
  <2>1. m \in Coming(d) /\ \A i \in Coming(d) : m <= i
    <3>1. Coming(d) \in SUBSET Nat
        BY <1>0, <1>2
    <3> QED
        BY <1>5, <3>1, MinProperty
  <2> HIDE DEF m
  <2>2. m \in idx[d] + 1 .. n /\ totalfilelist[m].parent = folder[d] /\ m \in Nat
      BY <1>0, <1>2, <2>1
  <2>3. totalfilelist[m].entry = m
    <3>1. totalfilelist[m] = Listed(m)
        BY <1>0, <2>2 DEF TreeInv
    <3> QED
        BY <3>1 DEF Listed
  <2>4. /\ idx' = [idx EXCEPT ![d] = m]
        /\ listed' = [listed EXCEPT ![d] = Append(@, m)] /\ ended' = ended
      BY <1>5, <2>3 DEF archfs_dirnext, m
  <2>5. /\ Append(L, m) \in Seq(Nat)
        /\ Len(Append(L, m)) = Len(L) + 1
        /\ \A j \in 1 .. Len(L) : Append(L, m)[j] = L[j]
        /\ Append(L, m)[Len(L) + 1] = m
        /\ DOMAIN L = 1 .. Len(L) /\ Len(L) \in Nat
        /\ DOMAIN Append(L, m) = 1 .. Len(Append(L, m))
    <3>1. Append(L, m) \in Seq(Nat)
        BY <1>0, <2>2, AppendProperties
    <3> QED
        BY <1>0, <2>2, <3>1, AppendProperties, LenProperties
  <2>6. DirType'
      BY <1>0, <2>2, <2>4, <2>5 DEF DirType
  <2>7. /\ idx'[d] = m /\ listed'[d] = Append(L, m)
        /\ folder' = folder /\ totalfilelist' = totalfilelist
      BY <1>0, <2>4 DEF DirType, tree
  <2>8. \A j \in 1 .. Len(L) : L[j] \in Before(idx[d], folder[d])
      BY <1>0, <2>5 DEF DirInv, Range
  <2>9. Range(Append(L, m)) = Before(idx[d], folder[d]) \cup {m}
    <3>1. Range(Append(L, m)) = Range(L) \cup {m}
        BY <2>5 DEF Range
    <3> QED
        BY <1>0, <3>1 DEF DirInv
  <2>10. Before(m, folder[d]) = Before(idx[d], folder[d]) \cup {m}
    <3>1. \A i \in 1 .. m : totalfilelist[i].parent = folder[d] => i \in 1 .. idx[d] \/ i = m
      <4> SUFFICES ASSUME NEW i \in 1 .. m, totalfilelist[i].parent = folder[d],
                          ~(i \in 1 .. idx[d])
                   PROVE  i = m
          OBVIOUS
      <4>1. i \in idx[d] + 1 .. n
          BY <1>0, <2>2
      <4>2. m <= i
          BY <1>2, <2>1, <4>1
      <4> QED
          BY <2>2, <4>2
    <3>2. \A i \in 1 .. idx[d] : i \in 1 .. m
        BY <1>0, <2>2
    <3>3. m \in 1 .. m
        BY <1>0, <2>2
    <3> QED
        BY <2>2, <3>1, <3>2, <3>3 DEF Before
  <2>11. Range(listed'[d]) = Before(idx[d], folder[d])'
      BY <2>7, <2>9, <2>10 DEF Before
  <2>12. InOrder(Append(L, m))
    <3> SUFFICES ASSUME NEW j \in 1 .. Len(L) + 1, NEW k \in 1 .. Len(L) + 1, j < k
                 PROVE  Append(L, m)[j] < Append(L, m)[k]
        BY <2>5 DEF InOrder
    <3>1. j \in 1 .. Len(L) /\ L[j] \in 1 .. idx[d]
        BY <2>5, <2>8 DEF Before
    <3>2. CASE k = Len(L) + 1
        BY <1>0, <2>2, <2>5, <3>1, <3>2
    <3>3. CASE k \in 1 .. Len(L)
        BY <1>0, <2>5, <3>1, <3>3 DEF DirInv, InOrder
    <3> QED
        BY <2>5, <3>2, <3>3
  <2>13. idx'[d] <= Len(totalfilelist') /\ (d \in ended' => idx'[d] = Len(totalfilelist'))
    <3>1. d \notin ended
        BY <1>0, <2>2 DEF DirInv
    <3> QED
        BY <1>0, <2>2, <2>4, <2>7, <3>1
  <2>14. DirInv(d)'
      BY <1>0, <1>1, <2>7, <2>11, <2>12, <2>13 DEF DirInv, InOrder
  <2>15. \A e \in Dirs : e # d => DirInv(e)'
      BY <1>0, <1>3, <2>4 DEF DirType
  <2> QED
      BY <1>1, <2>6, <2>14, <2>15 DEF IInv
<1> QED
    BY <1>4, <1>5

\* archfs_stat keeps it, and has found the first entry of the name.
LEMMA StatKeeps ==
    ASSUME IInv, NEW path \in Asked, archfs_stat(path)
    PROVE  IInv'
<1> DEFINE S == find_fileentry(path)
<1>0. /\ Complete /\ UNCHANGED <<tree, dirs, files>>
      /\ TreeInv /\ path \in Path
      /\ found' = [path |-> path,
                   entry |-> IF S = {} THEN NotFound ELSE totalfilelist[Min(S)].entry]
    BY ArchiveAssumption DEF archfs_stat, Mounted, Complete, IInv, Path, Name
<1>1. ASSUME S # {} PROVE totalfilelist[Min(S)].entry = Min(S)
  <2>1. S \in SUBSET Nat /\ S \subseteq 1 .. Len(totalfilelist)
      BY <1>0, LenProperties DEF find_fileentry, TreeInv
  <2> HIDE DEF S
  <2>2. Min(S) \in 1 .. Len(totalfilelist)
      BY <1>1, <2>1, MinProperty
  <2>3. totalfilelist[Min(S)] = Listed(Min(S))
      BY <1>0, <2>2 DEF TreeInv
  <2> QED
      BY <2>3 DEF Listed
<1>2. S' = S
    BY <1>0 DEF find_fileentry, tree
<1>3. FoundInv'
  <2>1. find_fileentry(path)' = find_fileentry(path)
      BY <1>2
  <2>2. /\ found'.path = path
        /\ found'.entry = IF S = {} THEN NotFound ELSE Min(S)
      BY <1>0, <1>1
  <2>3. find_fileentry(found.path)' = find_fileentry(path)
      BY <1>0, <2>2 DEF find_fileentry, tree
  <2>4. Complete'
      BY <1>0, TreeKept
  <2> QED
      BY <1>0, <2>2, <2>3, <2>4 DEF FoundInv
<1> QED
    BY <1>0, <1>3, TreeKept, DirsKept, FilesKept DEF IInv, tree

\* Opening, closing, reading and seeking move the handle and the offset alike,
\* or note that they may have parted.
LEMMA FileStepsKeep ==
    ASSUME IInv, NEW f \in Files,
           \/ \E path \in Asked : archfs_open(f, path)
           \/ archfs_close(f)
           \/ \E len \in Lengths : archfs_read(f, len)
           \/ \E move \in Moves : archfs_seek(f, move)
    PROVE  IInv'
<1>0. /\ UNCHANGED <<tree, dirs, found>>
      /\ FileInv /\ TreeInv
    BY DEF archfs_open, archfs_close, archfs_read, archfs_seek, IInv
<1>1. /\ open \in [Files -> Nat] /\ offset \in [Files -> Int] /\ at \in [Files -> Int]
      /\ strayed \in SUBSET Files
      /\ \A g \in Files : open[g] # 0 => open[g] \in 1 .. Len(archive)
      /\ \A g \in Files \ strayed : open[g] # 0 /\ ~memfile(g) => at[g] = offset[g]
      /\ archive' = archive
    BY <1>0 DEF FileInv, HandleFollows, tree
<1>2. \A g \in Files : open'[g] = open[g] => (memfile(g)' <=> memfile(g))
    BY <1>1 DEF memfile, Size
<1>3. ASSUME NEW path \in Asked, archfs_open(f, path) PROVE FileInv'
  <2>1. CASE UNCHANGED <<open, offset, at, strayed>>
      BY <1>1, <1>2, <2>1 DEF FileInv, HandleFollows
  <2>2. CASE /\ Named(path) # {}
             /\ open' = [open EXCEPT ![f] = Min(Named(path))]
             /\ offset' = [offset EXCEPT ![f] = 0]
             /\ at' = [at EXCEPT ![f] = 0]
             /\ strayed' = strayed \ {f}
    <3>1. Named(path) \in SUBSET Nat /\ Named(path) \subseteq 1 .. Len(archive)
        BY <1>0, ReadableEntries DEF Named
    <3>2. Min(Named(path)) \in Nat /\ Min(Named(path)) \in 1 .. Len(archive)
        BY <2>2, <3>1, MinProperty
    <3>3. \A g \in Files \ {f} : /\ open'[g] = open[g] /\ offset'[g] = offset[g]
                                 /\ at'[g] = at[g]
        BY <1>1, <2>2
    <3>4. offset'[f] = 0 /\ at'[f] = 0 /\ open'[f] \in 1 .. Len(archive)
        BY <1>1, <2>2, <3>2
    <3>5. HandleFollows'
        BY <1>1, <1>2, <2>2, <3>3, <3>4 DEF HandleFollows
    <3> QED
        BY <1>1, <2>2, <3>2, <3>3, <3>4, <3>5 DEF FileInv
  <2> QED
      BY <1>3, <2>1, <2>2 DEF archfs_open
<1>4. ASSUME archfs_close(f) PROVE FileInv'
  <2>1. /\ open' = [open EXCEPT ![f] = 0]
        /\ offset' = [offset EXCEPT ![f] = 0]
        /\ at' = [at EXCEPT ![f] = 0]
        /\ strayed' = strayed \ {f}
      BY <1>4 DEF archfs_close
  <2>2. HandleFollows'
      BY <1>1, <1>2, <2>1 DEF HandleFollows
  <2>3. /\ open' \in [Files -> Nat] /\ offset' \in [Files -> Int] /\ at' \in [Files -> Int]
        /\ strayed' \in SUBSET Files
      BY <1>1, <2>1
  <2>4. \A g \in Files : open'[g] # 0 => open'[g] \in 1 .. Len(archive')
      BY <1>1, <2>1
  <2> QED
      BY <2>2, <2>3, <2>4 DEF FileInv
<1>5. ASSUME NEW len \in Lengths, archfs_read(f, len) PROVE FileInv'
  <2>0. open[f] # 0 /\ UNCHANGED <<open, strayed>> /\ len \in Nat
      BY <1>5, ArchiveAssumption DEF archfs_read
  <2>1. Size(f) \in Nat
    <3>1. archive[open[f]] \in EntryType
        BY <1>0, <1>1, <2>0, EntryIsTyped
    <3> QED
        BY <3>1 DEF Size, EntryType
  <2>2. \A y \in Int : Smaller(len, y) \in Int
      BY <2>0 DEF Smaller
  <2>3. CASE memfile(f)
    <3>1. CASE offset' = [offset EXCEPT ![f] = @ + Smaller(len, Size(f) - @)] /\ at' = at
      <4>0. PICK n \in Int : offset' = [offset EXCEPT ![f] = @ + n]
        <5>1. Smaller(len, Size(f) - offset[f]) \in Int
            BY <1>1, <2>1, <2>2
        <5> QED
            BY <3>1, <5>1
      <4>1. offset' \in [Files -> Int] /\ \A g \in Files \ {f} : offset'[g] = offset[g]
          BY <1>1, <4>0
      <4>2. HandleFollows'
          BY <1>1, <1>2, <2>0, <2>3, <3>1, <4>1 DEF HandleFollows
      <4> QED
          BY <1>1, <2>0, <3>1, <4>1, <4>2 DEF FileInv
    <3>2. CASE UNCHANGED <<offset, at>>
        BY <1>1, <1>2, <2>0, <3>2 DEF FileInv, HandleFollows
    <3> QED
        BY <1>5, <2>3, <3>1, <3>2 DEF archfs_read
  <2>4. CASE ~memfile(f)
    <3>1. PICK n \in Int : /\ offset' = [offset EXCEPT ![f] = @ + n]
                           /\ at' = [at EXCEPT ![f] = @ + n]
      <4>1. (IF at[f] \in 0 .. Size(f) THEN Smaller(len, Size(f) - at[f]) ELSE 0) \in Int
          BY <1>1, <2>1, <2>2
      <4> QED
          BY <1>5, <2>4, <4>1 DEF archfs_read
    <3>2. \A g \in Files : /\ at[g] = offset[g] => at'[g] = offset'[g]
                          /\ at'[g] \in Int /\ offset'[g] \in Int
        BY <1>1, <3>1
    <3>3. HandleFollows'
        BY <1>1, <1>2, <2>0, <3>2 DEF HandleFollows
    <3> QED
        BY <1>1, <2>0, <3>1, <3>3 DEF FileInv
  <2> QED
      BY <2>3, <2>4
<1>6. ASSUME NEW move \in Moves, archfs_seek(f, move) PROVE FileInv'
  <2> DEFINE o == Base(f, move.whence) + move.by
  <2>0. /\ open' = open /\ o \in Int
        /\ offset' = [offset EXCEPT ![f] = o]
        /\ move.whence \in {"SET", "CUR", "END"} /\ move.by \in Int
    <3>1. move \in [whence : {"SET", "CUR", "END"}, by : Int] /\ Bound \in Nat
        BY ArchiveAssumption
    <3> QED
        BY <1>6, <3>1 DEF archfs_seek
  <2>1. \A g \in Files \ {f} : offset'[g] = offset[g]
      BY <1>1, <2>0
  <2>2. CASE memfile(f)
    <3>1. UNCHANGED <<at, strayed>>
        BY <1>6, <2>2 DEF archfs_seek
    <3>2. HandleFollows'
        BY <1>1, <1>2, <2>0, <2>1, <2>2, <3>1 DEF HandleFollows
    <3> QED
        BY <1>1, <2>0, <3>1, <3>2 DEF FileInv
  <2>3. CASE ~memfile(f)
    <3>1. archive_seek_data(f, move.whence, o)
        BY <1>6, <2>3 DEF archfs_seek
    <3> HIDE DEF o
    <3>2. PICK p : /\ p \in {Sought(f, move.whence, o), at[f]}
                   /\ p # at[f] => p \in 0 .. Size(f)
                   /\ at' = [at EXCEPT ![f] = p]
                   /\ strayed' = IF move.whence = "SET" /\ p = Sought(f, move.whence, o)
                                 THEN strayed \ {f} ELSE strayed \cup {f}
        BY <3>1 DEF archive_seek_data
    <3>3. p \in Int /\ (move.whence = "SET" => Sought(f, move.whence, o) = o)
        BY <1>1, <3>2 DEF Sought
    <3>4. \A g \in Files \ {f} : at'[g] = at[g] /\ (g \in strayed' <=> g \in strayed)
        BY <1>1, <3>2
    <3>5. f \notin strayed' => at'[f] = offset'[f]
        BY <1>1, <2>0, <3>2, <3>3
    <3>6. HandleFollows'
        BY <1>1, <1>2, <2>0, <2>1, <3>4, <3>5 DEF HandleFollows
    <3> QED
        BY <1>1, <2>0, <3>2, <3>3, <3>6 DEF FileInv
  <2> QED
      BY <2>2, <2>3
<1> QED
    BY <1>0, <1>3, <1>4, <1>5, <1>6, TreeKept, DirsKept, FoundKept DEF IInv

\* Every step keeps it.
LEMMA NextIInv == IInv /\ [Next]_vars => IInv'
<1> SUFFICES ASSUME IInv, [Next]_vars PROVE IInv'
    OBVIOUS
<1>1. CASE UNCHANGED vars
  <2>1. UNCHANGED <<tree, dirs, found, files, archive>>
      BY <1>1 DEF vars, tree
  <2> QED
      BY <2>1, TreeKept, DirsKept, FoundKept, FilesKept DEF IInv
<1>2. CASE Next
    BY <1>2, ConnectKeeps, DirOpenKeeps, DirNextKeeps, StatKeeps, FileStepsKeep DEF Next
<1> QED
    BY <1>1, <1>2

\* So it always holds.
LEMMA SpecIInv == Spec => []IInv
    BY InitIInv, NextIInv, PTL DEF Spec

-----------------------------------------------------------------------------
(***************************************************************************)
(* The properties.                                                         *)
(***************************************************************************)

\* What the list says of an entry, once it is complete.
LEMMA Located ==
    ASSUME IInv, Complete, NEW i \in Readable
    PROVE  /\ archive[i].path \in Path
           /\ totalfilelist[i].filename = Last(archive[i].path)
           /\ \/ totalfilelist[i].parent = Front(archive[i].path)
              \/ /\ totalfilelist[i].parent = <<>>
                 /\ archive[i].path \in Doubles
                 /\ Front(archive[i].path) = <<Last(archive[i].path)>>
<1>1. TreeInv /\ i \in 1 .. Len(archive) /\ i \in 1 .. Len(totalfilelist)
    BY ReadableEntries, ListIsReadable DEF IInv
<1>2. archive[i] \in EntryType /\ archive[i].path \in Path
    BY <1>1, EntryIsTyped
<1>3. totalfilelist[i] = Listed(i)
    BY <1>1 DEF TreeInv
<1> QED
    BY <1>2, <1>3, ParentName DEF Listed, Doubles

\* A DIR that has come to its end has returned every entry of its directory,
\* once and in the order of the archive, and no other; of a damaged archive,
\* every entry before the damage; except where connect has moved an entry of
\* the name of its directory to the root.
THEOREM ListingsExact == Spec => []ListingExact
<1>1. IInv => ListingExact
  <2> SUFFICES ASSUME IInv, NEW d \in ended,
                      ~(Doubles # {} /\ folder[d] = <<>>),
                      \A p \in Doubles : folder[d] # Front(p)
               PROVE  Range(listed[d]) = EntriesIn(folder[d]) /\ InOrder(listed[d])
      BY DEF ListingExact
  <2>1. DirInv(d)
      BY DEF IInv, DirType
  <2>2. Complete /\ Range(listed[d]) = Before(Len(totalfilelist), folder[d])
      BY <2>1 DEF DirInv
  <2>3. \A i \in Readable :
            totalfilelist[i].parent = folder[d] <=> Front(archive[i].path) = folder[d]
      BY <2>2, Located
  <2>4. Readable = 1 .. Len(totalfilelist)
      BY <2>2, ListIsReadable DEF IInv
  <2>5. Before(Len(totalfilelist), folder[d]) = EntriesIn(folder[d])
      BY <2>3, <2>4 DEF Before, EntriesIn
  <2> QED
      BY <2>1, <2>2, <2>5 DEF DirInv
<1> QED
    BY <1>1, SpecIInv, PTL

\* stat describes the first entry that has the pathname, and finds none only
\* when there is none before the end or the damage of the archive; except where
\* connect has moved one.
THEOREM StatsExact == Spec => []StatExact
<1>1. IInv => StatExact
  <2> DEFINE path == found.path
             same == {i \in Readable : archive[i].path = path}
  <2> SUFFICES ASSUME IInv, path # <<>>,
                      \A p \in Doubles : path \notin {p, <<Last(p)>>}
               PROVE  found.entry = IF same = {} THEN NotFound ELSE Min(same)
      BY DEF StatExact
  <2>1. /\ Complete /\ path \in Path
        /\ found.entry = IF find_fileentry(path) = {} THEN NotFound
                         ELSE Min(find_fileentry(path))
      BY DEF IInv, FoundInv
  <2>2. DOMAIN totalfilelist = Readable
    <3>1. totalfilelist \in Seq(Element) /\ Readable = 1 .. Len(totalfilelist)
        BY <2>1, ListIsReadable DEF IInv, TreeInv
    <3> QED
        BY <3>1, LenProperties
  <2> HIDE DEF path
  <2>3. ASSUME NEW i \in Readable
        PROVE  Append(totalfilelist[i].parent, totalfilelist[i].filename) = path
               <=> archive[i].path = path
    <3> DEFINE p == archive[i].path
    <3>1. p \in Path /\ totalfilelist[i].filename = Last(p)
        BY <2>1, Located
    <3>2. CASE totalfilelist[i].parent = Front(p)
      <4>1. Append(Front(p), Last(p)) = p
          BY <3>1, FrontAndLast
      <4> QED
          BY <3>1, <3>2, <4>1
    <3>3. CASE totalfilelist[i].parent = <<>> /\ p \in Doubles
      <4>1. Append(<<>>, Last(p)) = <<Last(p)>>
          OBVIOUS
      <4>2. path # p /\ path # <<Last(p)>>
          BY <3>3
      <4> QED
          BY <3>1, <3>3, <4>1, <4>2
    <3> QED
        BY <2>1, <3>2, <3>3, Located
  <2>4. find_fileentry(path) = same
      BY <2>2, <2>3 DEF find_fileentry
  <2> QED
      BY <2>1, <2>4
<1> QED
    BY <1>1, SpecIInv, PTL

\* The handle of a file that is read from the archive stays at its offset
\* through reads and seeks with SEEK_SET that the archive performs.
THEOREM HandlesFollow == Spec => []HandleFollows
<1>1. IInv => HandleFollows
    BY DEF IInv, FileInv
<1> QED
    BY <1>1, SpecIInv, PTL

=============================================================================
