--------------------------- MODULE M3u8ListProofs ---------------------------
(***************************************************************************)
(* For any playlists, edited and read again any number of times: a name    *)
(* has one entry, which keeps every line that was read for it, and open    *)
(* files and directories keep agreeing with it.                            *)
(***************************************************************************)
EXTENDS M3u8List, SequenceTheorems, TLAPS

-----------------------------------------------------------------------------
(***************************************************************************)
(* OpenFilesMatch speaks of what a search for the name finds.  What steps  *)
(* keep is where the entry of an open file is and how its URLs begin; with *)
(* one entry for each name the search can find nothing else.               *)
(***************************************************************************)
Element == [name : Names, url : Seq(Line)]

ListType ==
    /\ playlist \in Playlists
    /\ m3u8_list \in Seq(Element)
    /\ tmpvector \in Seq(Line)
    /\ file \in [Files -> [idx : Nat, name : Names, size : Line] \cup {Nothing}]

SomeUrl == \A i \in DOMAIN m3u8_list : Len(m3u8_list[i].url) > 0

FilesInPlace ==
    \A f \in Files :
        file[f] # Nothing =>
            /\ file[f].name \notin Slashed
            /\ file[f].idx \in DOMAIN m3u8_list
            /\ m3u8_list[file[f].idx].name = file[f].name
            /\ m3u8_list[file[f].idx].url[1] = file[f].size

IInv == ListType /\ NamesOnce /\ SomeUrl /\ FilesInPlace

\* What a merge leaves as it was: entries keep their place, their name and
\* their first URL.
Kept ==
    \A i \in DOMAIN m3u8_list :
        /\ i \in DOMAIN m3u8_list'
        /\ m3u8_list'[i].name = m3u8_list[i].name
        /\ m3u8_list'[i].url[1] = m3u8_list[i].url[1]

-----------------------------------------------------------------------------
\* The smallest of one number.
LEMMA MinOfOne == \A i \in Int : Min({i}) = i
  BY DEF Min

\* A search for a name that has an entry finds that entry.
LEMMA SearchFindsEntry ==
    ASSUME ListType, NamesOnce, NEW i \in DOMAIN m3u8_list
    PROVE  /\ Entries(m3u8_list[i].name) = {i}
           /\ Min(Entries(m3u8_list[i].name)) = i
<1>1. Entries(m3u8_list[i].name) = {i}
  BY DEF Entries, NamesOnce
<1>2. i \in Int
  BY DEF ListType
<1> QED
  BY <1>1, <1>2, MinOfOne

\* A search that succeeds ends at an entry of the name.
LEMMA SearchResult ==
    ASSUME ListType, NamesOnce, NEW name, Entries(name) # {}
    PROVE  /\ Min(Entries(name)) \in DOMAIN m3u8_list
           /\ m3u8_list[Min(Entries(name))].name = name
<1>1. PICK i \in DOMAIN m3u8_list : m3u8_list[i].name = name
  BY DEF Entries
<1>2. Min(Entries(name)) = i
  BY <1>1, SearchFindsEntry
<1> QED
  BY <1>1, <1>2

\* What connect parses are lines.
LEMMA ParsedLines ==
    ASSUME NEW p \in Playlists, NEW rest \in Rest
    PROVE  Parsed(p, rest) \in Seq(Line)
<1>1. p.lines \in Seq([name : Names, url : Urls])
  BY M3u8ListAssumption
<1> DEFINE L(i) == [name |-> p.lines[i].name, url |-> p.lines[i].url,
                    rest |-> IF i = Len(p.lines) /\ ~p.newline THEN rest ELSE ""]
<1>2. ASSUME NEW i \in 1 .. Len(p.lines) PROVE L(i) \in Line
  <2>1. p.lines[i] \in [name : Names, url : Urls]
    BY <1>1, ElementOfSeq
  <2>2. (IF i = Len(p.lines) /\ ~p.newline THEN rest ELSE "") \in Rest
    BY DEF Rest
  <2> QED
    BY <2>1, <2>2 DEF Line
<1>3. DOMAIN p.lines = 1 .. Len(p.lines) /\ Len(p.lines) \in Nat
  BY <1>1
<1>4. Parsed(p, rest) = [i \in 1 .. Len(p.lines) |-> L(i)]
  BY <1>3, Zenon DEF Parsed
<1> HIDE DEF L
<1>5. Parsed(p, rest) \in [1 .. Len(p.lines) -> Line]
  BY <1>2, <1>4
<1> QED
  BY <1>3, <1>5, SeqDef

-----------------------------------------------------------------------------
\* One round of the merge, when the name is new.
LEMMA MergeNew ==
    ASSUME ListType, NamesOnce, SomeUrl, NEW line \in Line,
           Entries(line.name) = {},
           m3u8_list' = Append(m3u8_list, [name |-> line.name, url |-> <<line>>])
    PROVE  m3u8_list' \in Seq(Element) /\ NamesOnce' /\ SomeUrl' /\ Kept
<1> DEFINE e == [name |-> line.name, url |-> <<line>>]
<1>1. e \in Element /\ Len(e.url) = 1 /\ e.name = line.name
  BY DEF Element, Line
<1> HIDE DEF e
<1>2. m3u8_list' = Append(m3u8_list, e)
  BY DEF e
<1>3. /\ DOMAIN m3u8_list = 1 .. Len(m3u8_list)
      /\ DOMAIN m3u8_list' = 1 .. Len(m3u8_list) + 1
      /\ Len(m3u8_list) \in Nat
      /\ m3u8_list'[Len(m3u8_list) + 1] = e
      /\ \A i \in DOMAIN m3u8_list : m3u8_list'[i] = m3u8_list[i]
  BY <1>1, <1>2 DEF ListType
<1>4. m3u8_list' \in Seq(Element)
  BY <1>1, <1>2 DEF ListType
<1>5. \A i \in DOMAIN m3u8_list : m3u8_list[i].name # e.name
  BY <1>1 DEF Entries
<1>6. NamesOnce'
  BY <1>3, <1>5 DEF NamesOnce
<1>7. SomeUrl'
  BY <1>1, <1>3 DEF SomeUrl
<1>8. Kept
  BY <1>3 DEF Kept
<1> QED
  BY <1>4, <1>6, <1>7, <1>8

\* One round of the merge, when the name has an entry.
LEMMA MergeOld ==
    ASSUME ListType, NamesOnce, SomeUrl, NEW line \in Line,
           NEW k \in DOMAIN m3u8_list,
           m3u8_list' = [m3u8_list EXCEPT ![k].url = Append(@, line)]
    PROVE  m3u8_list' \in Seq(Element) /\ NamesOnce' /\ SomeUrl' /\ Kept
<1> DEFINE e == [m3u8_list[k] EXCEPT !.url = Append(@, line)]
<1>1. m3u8_list[k] \in Element /\ Len(m3u8_list[k].url) > 0
  BY DEF ListType, SomeUrl
<1>2. /\ e \in Element
      /\ e.name = m3u8_list[k].name
      /\ e.url = Append(m3u8_list[k].url, line)
  <2>1. m3u8_list[k].url \in Seq(Line)
    BY <1>1 DEF Element
  <2>2. Append(m3u8_list[k].url, line) \in Seq(Line)
    BY <2>1
  <2> QED
    BY <1>1, <2>2 DEF Element
<1>3. Len(e.url) > 0 /\ e.url[1] = m3u8_list[k].url[1]
  BY <1>1, <1>2 DEF Element
<1>4. /\ DOMAIN m3u8_list' = DOMAIN m3u8_list
      /\ m3u8_list'[k] = e
      /\ \A i \in DOMAIN m3u8_list : i # k => m3u8_list'[i] = m3u8_list[i]
  BY DEF ListType
<1>5. m3u8_list' = [m3u8_list EXCEPT ![k] = e]
  OBVIOUS
<1> HIDE DEF e
<1>6. m3u8_list' \in Seq(Element)
  <2>1. m3u8_list \in Seq(Element) /\ k \in 1 .. Len(m3u8_list)
    BY DEF ListType
  <2>2. e \in Element
    BY <1>2
  <2>3. [m3u8_list EXCEPT ![k] = e] \in Seq(Element)
    BY <2>1, <2>2, ExceptSeq, Zenon
  <2> QED
    BY <1>5, <2>3, Zenon
<1>7. NamesOnce'
  BY <1>2, <1>4 DEF NamesOnce
<1>8. SomeUrl'
  BY <1>3, <1>4 DEF SomeUrl
<1>9. Kept
  BY <1>2, <1>3, <1>4 DEF Kept
<1> QED
  BY <1>6, <1>7, <1>8, <1>9

\* One round of the merge.
LEMMA MergeKeeps ==
    ASSUME ListType, NamesOnce, SomeUrl, MergeLine
    PROVE  m3u8_list' \in Seq(Element) /\ NamesOnce' /\ SomeUrl' /\ Kept
<1> DEFINE line == Head(tmpvector)
<1>1. line \in Line
  BY DEF ListType, MergeLine
<1> HIDE DEF line
<1>2. CASE Entries(line.name) = {}
  <2>1. m3u8_list' = Append(m3u8_list, [name |-> line.name, url |-> <<line>>])
    BY <1>2 DEF MergeLine, line
  <2> QED
    BY <1>1, <1>2, <2>1, MergeNew
<1>3. CASE Entries(line.name) # {}
  <2> DEFINE k == Min(Entries(line.name))
  <2>1. m3u8_list' = [m3u8_list EXCEPT ![k].url = Append(@, line)]
    BY <1>3 DEF MergeLine, line
  <2>2. k \in DOMAIN m3u8_list
    BY <1>3, SearchResult
  <2> HIDE DEF k
  <2> QED
    BY <1>1, <2>1, <2>2, MergeOld
<1> QED
  BY <1>2, <1>3

-----------------------------------------------------------------------------
\* The program starts with an empty list and no open file.
LEMMA InitIInv == Init => IInv
  BY DEF Init, IInv, ListType, NamesOnce, SomeUrl, FilesInPlace

\* Every step keeps the invariant.
LEMMA NextIInv == IInv /\ [Next]_vars => IInv'
<1> SUFFICES ASSUME IInv, [Next]_vars PROVE IInv'
  OBVIOUS
<1>0. ListType /\ NamesOnce /\ SomeUrl /\ FilesInPlace
  BY DEF IInv
<1>1. ASSUME playlist' \in Playlists, UNCHANGED <<m3u8_list, tmpvector, file>> PROVE IInv'
  BY <1>0, <1>1 DEF IInv, ListType, NamesOnce, SomeUrl, FilesInPlace
<1>2. ASSUME NEW purpose \in {"check", "register"}, connect(purpose) PROVE IInv'
  <2>1. tmpvector' \in Seq(Line)
    BY <1>0, <1>2, ParsedLines DEF connect, ListType
  <2>2. UNCHANGED <<playlist, m3u8_list, file>>
    BY <1>2 DEF connect
  <2> QED
    BY <1>0, <2>1, <2>2 DEF IInv, ListType, NamesOnce, SomeUrl, FilesInPlace
<1>3. ASSUME MergeLine PROVE IInv'
  <2>1. m3u8_list' \in Seq(Element) /\ NamesOnce' /\ SomeUrl' /\ Kept
    BY <1>0, <1>3, MergeKeeps
  <2>2. file' = file /\ playlist' = playlist /\ tmpvector' \in Seq(Line)
    BY <1>0, <1>3 DEF MergeLine, ListType, disk
  <2>3. FilesInPlace'
    BY <1>0, <2>1, <2>2 DEF FilesInPlace, Kept
  <2> QED
    BY <1>0, <2>1, <2>2, <2>3 DEF IInv, ListType
<1>4. ASSUME NEW f \in Files, NEW name \in Names, m3u8fs_open(f, name) PROVE IInv'
  <2> DEFINE i == Min(Entries(name))
  <2>1. /\ name \notin Slashed /\ Entries(name) # {}
        /\ file' = [file EXCEPT ![f] = [idx |-> i, name |-> name, size |-> m3u8_list[i].url[1]]]
        /\ UNCHANGED <<playlist, m3u8_list, tmpvector>>
    BY <1>4 DEF m3u8fs_open, ByLeaf, SizeOf, lists, disk
  <2>2. i \in DOMAIN m3u8_list /\ m3u8_list[i].name = name
    BY <1>0, <2>1, SearchResult
  <2>3. i \in Nat /\ m3u8_list[i].url[1] \in Line
    <3>1. m3u8_list \in Seq(Element) /\ i \in 1 .. Len(m3u8_list) /\ Len(m3u8_list[i].url) > 0
      BY <1>0, <2>2 DEF ListType, SomeUrl
    <3>2. m3u8_list[i] \in Element
      BY <3>1, ElementOfSeq
    <3>3. m3u8_list[i].url \in Seq(Line)
      BY <3>2 DEF Element
    <3> QED
      BY <3>1, <3>3
  <2> HIDE DEF i
  <2>4. ListType'
    BY <1>0, <2>1, <2>3 DEF ListType
  <2>5. FilesInPlace'
    BY <1>0, <2>1, <2>2 DEF FilesInPlace, ListType
  <2> QED
    BY <1>0, <2>1, <2>4, <2>5 DEF IInv, NamesOnce, SomeUrl
<1>5. ASSUME NEW f \in Files, m3u8fs_close(f) PROVE IInv'
  BY <1>0, <1>5 DEF m3u8fs_close, lists, disk, IInv, ListType, NamesOnce, SomeUrl, FilesInPlace
<1>6. CASE UNCHANGED vars
  BY <1>0, <1>1, <1>6 DEF vars, lists, disk, ListType
<1>7. ASSUME NEW d \in Dirs, \/ \E path \in Names \cup Others \cup {Root} : m3u8fs_diropen(d, path)
                             \/ m3u8fs_dirnext(d)
                             \/ m3u8fs_dirclose(d)
      PROVE  IInv'
  BY <1>0, <1>1, <1>7 DEF m3u8fs_diropen, m3u8fs_dirnext, m3u8fs_dirclose, lists, disk, ListType
<1>8. CASE Edit \/ ShortRead \/ Connected
  BY <1>0, <1>1, <1>8 DEF Edit, ShortRead, Connected, lists, disk, ListType
<1> QED
  BY <1>2, <1>3, <1>4, <1>5, <1>6, <1>7, <1>8 DEF Next

\* With one entry for each name, a search finds the entry of an open file.
LEMMA IInvMatches == IInv => OpenFilesMatch
<1> SUFFICES ASSUME IInv, NEW f \in Files, file[f] # Nothing
             PROVE  /\ file[f].idx \in DOMAIN m3u8_list
                    /\ m3u8_list[file[f].idx].name = file[f].name
                    /\ m3u8fs_stat(file[f].name) = file[f].size
  BY DEF OpenFilesMatch
<1> DEFINE i == file[f].idx
<1>1. /\ file[f].name \notin Slashed
      /\ i \in DOMAIN m3u8_list
      /\ m3u8_list[i].name = file[f].name
      /\ m3u8_list[i].url[1] = file[f].size
  BY DEF IInv, FilesInPlace
<1>2. Entries(file[f].name) = {i} /\ Min(Entries(file[f].name)) = i
  BY <1>1, SearchFindsEntry DEF IInv
<1> HIDE DEF i
<1>3. m3u8fs_stat(file[f].name) = m3u8_list[i].url[1]
  BY <1>1, <1>2 DEF m3u8fs_stat, ByLeaf, SizeOf
<1> QED
  BY <1>1, <1>3 DEF i

\* However often and from whatever playlists m3u8_list was grown, a name has
\* one entry in it.
THEOREM OneEntryForEachName == Spec => []NamesOnce
<1>1. IInv => NamesOnce
  BY DEF IInv
<1> QED
  BY InitIInv, NextIInv, <1>1, PTL DEF Spec

\* Connecting again leaves every open file with the size stat tells for the
\* path it was opened by.
THEOREM OpenFilesSurviveConnect == Spec => []OpenFilesMatch
  BY InitIInv, NextIInv, IInvMatches, PTL DEF Spec

-----------------------------------------------------------------------------
(***************************************************************************)
(* Directories.  One that was found keeps the place of its entry, and has  *)
(* shown as many names as its index says.                                  *)
(***************************************************************************)
DirType ==
    /\ dir \in [Dirs -> [path : Names \cup Others \cup {Root}, known : BOOLEAN,
                         listoffset : Int, diridx : Nat] \cup {Nothing}]
    /\ shown = [d \in Dirs |-> shown[d]]

\* Where the directory d is, and what it has shown so far.
InPlace(d) ==
    LET root == dir[d].path = Root
    IN  /\ root => dir[d].listoffset = InRoot
        /\ ~root => /\ dir[d].listoffset \in DOMAIN m3u8_list
                    /\ m3u8_list[dir[d].listoffset].name = dir[d].path
        /\ shown[d] \in Seq(Names)
        /\ Len(shown[d]) = dir[d].diridx
        /\ \A i \in DOMAIN shown[d] :
              IF root THEN i \in DOMAIN m3u8_list /\ shown[d][i] = m3u8_list[i].name
                      ELSE shown[d][i] = dir[d].path

DirsInPlace ==
    \A d \in Dirs :
        /\ dir[d] = Nothing => shown[d] = <<>>
        /\ dir[d] # Nothing /\ dir[d].known => InPlace(d)

DInv == IInv /\ DirType /\ DirsInPlace

\* The largest of one number.
LEMMA MaxOfOne == \A i \in Int : Max({i}) = i
  BY DEF Max

\* While the list keeps what it has, directories that no call is about stay in place.
LEMMA InPlaceStays ==
    ASSUME NEW d \in Dirs, InPlace(d), Kept, dir'[d] = dir[d], shown'[d] = shown[d]
    PROVE  InPlace(d)'
  BY DEF InPlace, Kept

\* diropen of a path that is there.
LEMMA OpenedInPlace ==
    ASSUME DInv, NEW d \in Dirs, NEW path \in Names \cup Others \cup {Root},
           m3u8fs_diropen(d, path), dir'[d].known
    PROVE  InPlace(d)'
<1>1. /\ UNCHANGED <<m3u8_list, shown>> /\ dir[d] = Nothing
      /\ ListType /\ NamesOnce
  BY DEF m3u8fs_diropen, lists, DInv, IInv
<1> DEFINE there == path = Root \/ Entries(path) # {}
<1>2. PICK offset \in ListOffsets(path) :
          dir'[d] = [path |-> path, known |-> there, listoffset |-> offset, diridx |-> 0]
  BY DEF m3u8fs_diropen, DInv, DirType
<1> HIDE DEF there
<1>3. shown'[d] = <<>>
  BY <1>1 DEF DInv, DirsInPlace
<1>4. CASE path = Root
  BY <1>1, <1>2, <1>3, <1>4 DEF InPlace, ListOffsets
<1>5. CASE path # Root
  <2>a. there
    BY <1>2
  <2>b. Entries(path) # {}
    BY <1>5, <2>a DEF there
  <2>1. PICK i \in DOMAIN m3u8_list : m3u8_list[i].name = path
    BY <2>b DEF Entries
  <2>c. Entries(path) = {i}
    BY <1>1, <2>1, SearchFindsEntry
  <2>2. Entries(path) = {i} /\ i \in Int
    BY <1>1, <2>c DEF ListType
  <2>3. offset = i
    BY <1>2, <1>5, <2>2, MaxOfOne DEF ListOffsets
  <2> QED
    BY <1>1, <1>2, <1>3, <1>5, <2>1, <2>3 DEF InPlace
<1> QED
  BY <1>4, <1>5

\* dirnext shows the next name, or starts again at the end.
LEMMA NextInPlace ==
    ASSUME DInv, NEW d \in Dirs, dir[d].known, m3u8fs_dirnext(d)
    PROVE  InPlace(d)'
<1>1. /\ UNCHANGED m3u8_list /\ InPlace(d) /\ dir[d] # Nothing /\ d \in DOMAIN shown
      /\ m3u8_list \in Seq(Element)
  BY DEF m3u8fs_dirnext, lists, DInv, DirsInPlace, DirType, IInv, ListType
<1>2. dir[d] \in [path : Names \cup Others \cup {Root}, known : BOOLEAN,
                  listoffset : Int, diridx : Nat]
  BY <1>1 DEF DInv, DirType
<1> DEFINE names == Listing(dir[d].listoffset)
           next  == dir[d].diridx + 1
<1>3. /\ Len(shown[d]) = dir[d].diridx
      /\ shown[d] \in Seq(Names)
  BY <1>1 DEF InPlace
<1>4. ASSUME next \in DOMAIN names
      PROVE  /\ names[next] \in Names
             /\ IF dir[d].path = Root
                THEN next \in DOMAIN m3u8_list /\ names[next] = m3u8_list[next].name
                ELSE names[next] = dir[d].path
  <2>1. CASE dir[d].path = Root
    <3>1. names = [i \in DOMAIN m3u8_list |-> m3u8_list[i].name]
      BY <1>1, <2>1 DEF Listing, InPlace
    <3>2. next \in DOMAIN m3u8_list /\ names[next] = m3u8_list[next].name
      BY <1>4, <3>1
    <3>3. m3u8_list[next] \in Element
      BY <1>1, <3>2
    <3> QED
      BY <2>1, <3>2, <3>3 DEF Element
  <2>2. CASE dir[d].path # Root
    <3> DEFINE o == dir[d].listoffset
    <3>1. o \in DOMAIN m3u8_list /\ m3u8_list[o].name = dir[d].path
      BY <1>1, <2>2 DEF InPlace
    <3>2. o # InRoot
      BY <1>1, <3>1 DEF InRoot
    <3>3. names = [u \in DOMAIN m3u8_list[o].url |-> m3u8_list[o].name]
      BY <3>2 DEF Listing
    <3>4. names[next] = m3u8_list[o].name
      BY <1>4, <3>3
    <3>5. m3u8_list[o] \in Element
      BY <1>1, <3>1
    <3> QED
      BY <2>2, <3>1, <3>4, <3>5 DEF Element
  <2> QED
    BY <2>1, <2>2
<1> HIDE DEF names
<1>5. CASE next \in DOMAIN names
  <2>1. /\ shown'[d] = Append(shown[d], names[next])
        /\ dir'[d] = [dir[d] EXCEPT !.diridx = next]
    BY <1>1, <1>2, <1>5 DEF m3u8fs_dirnext, names, DInv, DirType
  <2>2. /\ dir'[d].path = dir[d].path /\ dir'[d].listoffset = dir[d].listoffset
        /\ dir'[d].diridx = next
    BY <1>2, <2>1
  <2>3. /\ shown'[d] \in Seq(Names) /\ Len(shown'[d]) = next
        /\ DOMAIN shown'[d] = 1 .. next
        /\ shown'[d][next] = names[next]
        /\ \A i \in DOMAIN shown[d] : shown'[d][i] = shown[d][i]
        /\ DOMAIN shown'[d] = DOMAIN shown[d] \cup {next}
    BY <1>2, <1>3, <1>4, <1>5, <2>1
  <2> HIDE DEF next
  <2> QED
    BY <1>1, <1>4, <1>5, <2>2, <2>3 DEF InPlace
<1>6. CASE next \notin DOMAIN names
  <2>1. /\ shown'[d] = <<>>
        /\ dir'[d] = [dir[d] EXCEPT !.diridx = 0]
    BY <1>1, <1>2, <1>6 DEF m3u8fs_dirnext, names, DInv, DirType
  <2>2. /\ dir'[d].path = dir[d].path /\ dir'[d].listoffset = dir[d].listoffset
        /\ dir'[d].diridx = 0
    BY <1>2, <2>1
  <2> QED
    BY <1>1, <2>1, <2>2 DEF InPlace
<1> QED
  BY <1>5, <1>6

\* The list stays or grows.
LEMMA NextKept == IInv /\ [Next]_vars => Kept
<1> SUFFICES ASSUME IInv, [Next]_vars PROVE Kept
  OBVIOUS
<1>1. CASE MergeLine
  BY <1>1, MergeKeeps DEF IInv
<1>2. CASE ~MergeLine
  <2>1. UNCHANGED m3u8_list
    BY <1>2 DEF Next, vars, Edit, connect, ShortRead, Connected, m3u8fs_open, m3u8fs_close,
       m3u8fs_diropen, m3u8fs_dirnext, m3u8fs_dirclose, lists, disk
  <2> QED
    BY <2>1 DEF Kept
<1> QED
  BY <1>1, <1>2

\* The types of the directories.
LEMMA NextDirType == DInv /\ [Next]_vars => DirType'
<1> SUFFICES ASSUME DInv, [Next]_vars PROVE DirType'
  OBVIOUS
<1>0. DirType /\ m3u8_list \in Seq(Element)
  BY DEF DInv, IInv, ListType
<1>1. ASSUME NEW d \in Dirs, NEW path \in Names \cup Others \cup {Root},
             m3u8fs_diropen(d, path)
      PROVE  DirType'
  <2>1. PICK offset \in ListOffsets(path) :
            dir' = [dir EXCEPT ![d] =
                [path |-> path, known |-> path = Root \/ Entries(path) # {},
                 listoffset |-> offset, diridx |-> 0]]
    BY <1>1 DEF m3u8fs_diropen
  <2>2. offset \in Int
    <3>1. CASE path # Root /\ Entries(path) # {}
      <4>1. PICK i \in DOMAIN m3u8_list : m3u8_list[i].name = path
        BY <3>1 DEF Entries
      <4>2. Entries(path) = {i}
        BY <4>1, SearchFindsEntry DEF DInv, IInv
      <4> QED
        BY <1>0, <2>1, <3>1, <4>1, <4>2, MaxOfOne DEF ListOffsets
    <3>2. CASE path = Root \/ Entries(path) = {}
      BY <1>0, <2>1, <3>2 DEF ListOffsets, InRoot, Wild
    <3> QED
      BY <3>1, <3>2
  <2>3. (path = Root \/ Entries(path) # {}) \in BOOLEAN
    OBVIOUS
  <2> QED
    BY <1>0, <1>1, <2>1, <2>2, <2>3 DEF DirType, m3u8fs_diropen
<1>2. ASSUME NEW d \in Dirs, m3u8fs_dirnext(d) PROVE DirType'
  <2>1. PICK k \in Nat : dir' = [dir EXCEPT ![d].diridx = k]
    <3>1. dir[d].diridx + 1 \in Nat
      BY <1>0, <1>2 DEF DirType, m3u8fs_dirnext
    <3>2. \/ dir' = [dir EXCEPT ![d].diridx = dir[d].diridx + 1]
          \/ dir' = [dir EXCEPT ![d].diridx = 0]
      BY <1>2 DEF m3u8fs_dirnext
    <3> QED
      BY <3>1, <3>2
  <2>2. shown' = [e \in Dirs |-> shown'[e]] /\ dir[d] # Nothing
    BY <1>0, <1>2 DEF DirType, m3u8fs_dirnext
  <2> QED
    BY <1>0, <2>1, <2>2 DEF DirType
<1>3. ASSUME NEW d \in Dirs, m3u8fs_dirclose(d) PROVE DirType'
  BY <1>0, <1>3 DEF DirType, m3u8fs_dirclose
<1>4. ASSUME UNCHANGED <<dir, shown>> PROVE DirType'
  BY <1>0, <1>4 DEF DirType
<1> QED
  BY <1>1, <1>2, <1>3, <1>4 DEF Next, vars, dirs, Edit, connect, ShortRead, MergeLine,
     Connected, m3u8fs_open, m3u8fs_close

\* Every step keeps the directories in place.
LEMMA NextDInv == DInv /\ [Next]_vars => DInv'
<1> SUFFICES ASSUME DInv, [Next]_vars PROVE DInv'
  OBVIOUS
<1>0. IInv' /\ DirType' /\ Kept /\ DirType /\ DirsInPlace
  BY NextIInv, NextKept, NextDirType DEF DInv
<1>1. ASSUME NEW e \in Dirs, UNCHANGED <<dir[e], shown[e]>>
      PROVE  /\ dir'[e] = Nothing => shown'[e] = <<>>
             /\ dir'[e] # Nothing /\ dir'[e].known => InPlace(e)'
  BY <1>0, <1>1, InPlaceStays DEF DirsInPlace
<1>2. ASSUME NEW d \in Dirs, NEW path \in Names \cup Others \cup {Root},
             m3u8fs_diropen(d, path)
      PROVE  DirsInPlace'
  <2>1. \A e \in Dirs \ {d} : UNCHANGED <<dir[e], shown[e]>>
    BY <1>0, <1>2 DEF m3u8fs_diropen, DirType
  <2>2. dir'[d] = Nothing => shown'[d] = <<>>
    BY <1>0, <1>2 DEF m3u8fs_diropen, DirsInPlace
  <2> QED
    BY <1>0, <1>1, <1>2, <2>1, <2>2, OpenedInPlace DEF DirsInPlace
<1>3. ASSUME NEW d \in Dirs, m3u8fs_dirnext(d) PROVE DirsInPlace'
  <2>1. \A e \in Dirs \ {d} : UNCHANGED <<dir[e], shown[e]>>
    BY <1>0, <1>3 DEF m3u8fs_dirnext, DirType
  <2>2. dir'[d] # Nothing /\ dir'[d].known = dir[d].known
    BY <1>0, <1>3, M3u8ListAssumption DEF m3u8fs_dirnext, DirType
  <2> QED
    BY <1>0, <1>1, <1>3, <2>1, <2>2, NextInPlace DEF DirsInPlace
<1>4. ASSUME NEW d \in Dirs, m3u8fs_dirclose(d) PROVE DirsInPlace'
  <2>1. \A e \in Dirs \ {d} : UNCHANGED <<dir[e], shown[e]>>
    BY <1>0, <1>4 DEF m3u8fs_dirclose, DirType
  <2>2. dir'[d] = Nothing /\ shown'[d] = <<>>
    BY <1>0, <1>4 DEF m3u8fs_dirclose, DirType
  <2> QED
    BY <1>1, <2>1, <2>2 DEF DirsInPlace
<1>5. ASSUME UNCHANGED <<dir, shown>> PROVE DirsInPlace'
  BY <1>1, <1>5 DEF DirsInPlace
<1>6. DirsInPlace'
  BY <1>2, <1>3, <1>4, <1>5 DEF Next, vars, dirs, Edit, connect, ShortRead, MergeLine,
     Connected, m3u8fs_open, m3u8fs_close
<1> QED
  BY <1>0, <1>6 DEF DInv

\* The program starts without directories.
LEMMA InitDInv == Init => DInv
  BY InitIInv DEF Init, DInv, DirType, DirsInPlace

\* A directory that was there when it was opened shows the names of the list, each
\* once, or the one name it was opened by, whatever connect adds meanwhile.
THEOREM DirectoriesSurviveConnect == Spec => []DirectoriesOrderly
<1>1. DInv => DirectoriesOrderly
  BY DEF DInv, DirsInPlace, InPlace, DirectoriesOrderly
<1> QED
  BY InitDInv, NextDInv, <1>1, PTL DEF Spec

-----------------------------------------------------------------------------
(***************************************************************************)
(* Lines.  A merge puts the line behind all that were merged before, and   *)
(* at the end of the URLs of one entry; where its URLs come from stays as  *)
(* it was for every other entry.                                           *)
(***************************************************************************)
LInv == IInv /\ merged \in Seq(Line) /\ EveryLineListed

\* An entry of another name has no part in the new line.
LEMMA OtherLines ==
    ASSUME NEW lines \in Seq(Line), NEW line \in Line, NEW more, more = Append(lines, line),
           NEW name, name # line.name, NEW url, LinesOf(lines, name, url)
    PROVE  LinesOf(more, name, url)
<1>1. PICK at \in [DOMAIN url -> DOMAIN lines] :
          /\ \A u, v \in DOMAIN url : u < v => at[u] < at[v]
          /\ \A u \in DOMAIN url : url[u] = lines[at[u]]
          /\ {at[u] : u \in DOMAIN url} = {k \in DOMAIN lines : lines[k].name = name}
  BY DEF LinesOf
<1>2. /\ DOMAIN lines = 1 .. Len(lines) /\ Len(lines) \in Nat
      /\ DOMAIN more = 1 .. Len(lines) + 1
      /\ more[Len(lines) + 1] = line
      /\ \A k \in DOMAIN lines : more[k] = lines[k]
  OBVIOUS
<1>3. {k \in DOMAIN more : more[k].name = name}
          = {k \in DOMAIN lines : lines[k].name = name}
  BY <1>2
<1>4. at \in [DOMAIN url -> DOMAIN more]
  BY <1>1, <1>2
<1>5. \A u \in DOMAIN url : url[u] = more[at[u]]
  BY <1>1, <1>2
<1> QED
  BY <1>1, <1>3, <1>4, <1>5 DEF LinesOf

\* The entry of its name gets the new line at the end.
LEMMA OwnLines ==
    ASSUME NEW lines \in Seq(Line), NEW line \in Line, NEW more, more = Append(lines, line),
           NEW url \in Seq(Line), LinesOf(lines, line.name, url)
    PROVE  LinesOf(more, line.name, Append(url, line))
<1>1. PICK at \in [DOMAIN url -> DOMAIN lines] :
          /\ \A u, v \in DOMAIN url : u < v => at[u] < at[v]
          /\ \A u \in DOMAIN url : url[u] = lines[at[u]]
          /\ {at[u] : u \in DOMAIN url} = {k \in DOMAIN lines : lines[k].name = line.name}
  BY DEF LinesOf
<1>2. /\ DOMAIN lines = 1 .. Len(lines) /\ Len(lines) \in Nat
      /\ DOMAIN more = 1 .. Len(lines) + 1
      /\ more[Len(lines) + 1] = line
      /\ \A k \in DOMAIN lines : more[k] = lines[k]
  OBVIOUS
<1> DEFINE longer == Append(url, line)
           last == Len(url) + 1
<1>3. /\ DOMAIN url = 1 .. Len(url) /\ Len(url) \in Nat
      /\ DOMAIN longer = 1 .. last
      /\ longer[last] = line
      /\ \A u \in DOMAIN url : longer[u] = url[u]
  OBVIOUS
<1> HIDE DEF longer
<1> DEFINE to == [u \in 1 .. last |-> IF u = last THEN Len(lines) + 1 ELSE at[u]]
<1>4. /\ to[last] = Len(lines) + 1
      /\ \A u \in DOMAIN url : to[u] = at[u] /\ to[u] \in DOMAIN lines
  BY <1>1, <1>3
<1>5. to \in [DOMAIN longer -> DOMAIN more]
  BY <1>2, <1>3, <1>4
<1> HIDE DEF to
<1>6. \A u, v \in DOMAIN longer : u < v => to[u] < to[v]
  <2> SUFFICES ASSUME NEW u \in 1 .. last, NEW v \in 1 .. last, u < v
               PROVE  to[u] < to[v]
    BY <1>3
  <2>1. u \in DOMAIN url
    BY <1>3
  <2>2. CASE v = last
    BY <1>2, <1>4, <2>1, <2>2
  <2>3. CASE v # last
    <3>1. v \in DOMAIN url
      BY <1>3, <2>1, <2>3
    <3>2. at[u] < at[v]
      BY <1>1, <2>1, <3>1
    <3> QED
      BY <1>4, <2>1, <3>1, <3>2
  <2> QED
    BY <2>2, <2>3
<1>7. \A u \in DOMAIN longer : longer[u] = more[to[u]]
  <2> SUFFICES ASSUME NEW u \in 1 .. last
               PROVE  longer[u] = more[to[u]]
    BY <1>3
  <2>1. CASE u = last
    BY <1>2, <1>3, <1>4, <2>1
  <2>2. CASE u # last
    BY <1>1, <1>2, <1>3, <1>4, <2>2
  <2> QED
    BY <2>1, <2>2
<1>8. {to[u] : u \in DOMAIN longer} = {k \in DOMAIN more : more[k].name = line.name}
  <2>1. ASSUME NEW u \in 1 .. last
        PROVE  to[u] \in DOMAIN more /\ more[to[u]].name = line.name
    <3>1. CASE u = last
      BY <1>2, <1>4, <3>1
    <3>2. CASE u # last
      <4>1. u \in DOMAIN url
        BY <1>3, <3>2
      <4>2. at[u] \in DOMAIN lines /\ lines[at[u]].name = line.name
        BY <1>1, <4>1
      <4> QED
        BY <1>2, <1>4, <4>1, <4>2
    <3> QED
      BY <3>1, <3>2
  <2>2. ASSUME NEW k \in DOMAIN more, more[k].name = line.name
        PROVE  \E u \in 1 .. last : to[u] = k
    <3>1. CASE k = Len(lines) + 1
      BY <1>3, <1>4, <3>1
    <3>2. CASE k # Len(lines) + 1
      <4>1. k \in DOMAIN lines /\ lines[k].name = line.name
        BY <1>2, <2>2, <3>2
      <4>2. PICK u \in DOMAIN url : at[u] = k
        BY <1>1, <4>1
      <4> QED
        BY <1>3, <1>4, <4>2
    <3> QED
      BY <3>1, <3>2
  <2>3. {to[u] : u \in 1 .. last} = {k \in DOMAIN more : more[k].name = line.name}
    <3>1. ASSUME NEW k, k \in {to[u] : u \in 1 .. last}
          PROVE  k \in DOMAIN more /\ more[k].name = line.name
      BY <2>1, <3>1
    <3>2. ASSUME NEW k \in DOMAIN more, more[k].name = line.name
          PROVE  k \in {to[u] : u \in 1 .. last}
      BY <2>2, <3>2
    <3> QED
      BY <3>1, <3>2
  <2> QED
    BY <1>3, <2>3
<1> QED
  BY <1>5, <1>6, <1>7, <1>8 DEF LinesOf, longer

\* A name that was not there comes from the new line alone.
LEMMA FirstLine ==
    ASSUME NEW lines \in Seq(Line), NEW line \in Line, NEW more, more = Append(lines, line),
           \A k \in DOMAIN lines : lines[k].name # line.name
    PROVE  LinesOf(more, line.name, <<line>>)
<1>1. LinesOf(lines, line.name, <<>>)
  <2> DEFINE at == [u \in {} |-> 1]
  <2>1. DOMAIN <<>> = {}
    OBVIOUS
  <2>2. at \in [DOMAIN <<>> -> DOMAIN lines]
    BY <2>1
  <2>3. {at[u] : u \in DOMAIN <<>>} = {k \in DOMAIN lines : lines[k].name = line.name}
    BY <2>1
  <2> QED
    BY <2>1, <2>2, <2>3 DEF LinesOf
<1>2. <<>> \in Seq(Line) /\ Append(<<>>, line) = <<line>>
  OBVIOUS
<1> QED
  BY <1>1, <1>2, OwnLines

\* Each merged line goes to the entry of its name.
LEMMA MergeListed ==
    ASSUME LInv, MergeLine
    PROVE  merged' \in Seq(Line) /\ EveryLineListed'
<1> DEFINE line == Head(tmpvector)
           new  == [name |-> line.name, url |-> <<line>>]
<1>0. /\ ListType /\ NamesOnce /\ m3u8_list \in Seq(Element) /\ merged \in Seq(Line)
      /\ EveryLineListed
  BY DEF LInv, IInv, ListType
<1>1. line \in Line /\ merged' = Append(merged, line)
  BY <1>0 DEF ListType, MergeLine
<1>2. \/ /\ Entries(line.name) = {}
         /\ m3u8_list' = Append(m3u8_list, new)
      \/ /\ Entries(line.name) # {}
         /\ m3u8_list' = [m3u8_list EXCEPT ![Min(Entries(line.name))].url = Append(@, line)]
  BY DEF MergeLine
<1> HIDE DEF line
<1>3. /\ merged' \in Seq(Line)
      /\ DOMAIN merged = 1 .. Len(merged) /\ Len(merged) \in Nat
      /\ DOMAIN merged' = 1 .. Len(merged) + 1
      /\ merged'[Len(merged) + 1] = line
      /\ \A k \in DOMAIN merged : merged'[k] = merged[k]
  BY <1>0, <1>1
<1>4. {merged'[k].name : k \in DOMAIN merged'}
          = {merged[k].name : k \in DOMAIN merged} \cup {line.name}
  BY <1>3
<1>5. /\ {m3u8_list[i].name : i \in DOMAIN m3u8_list}
             = {merged[k].name : k \in DOMAIN merged}
      /\ \A i \in DOMAIN m3u8_list : LinesOf(merged, m3u8_list[i].name, m3u8_list[i].url)
  BY <1>0 DEF EveryLineListed
<1>6. CASE Entries(line.name) = {}
  <2>1. \A k \in DOMAIN merged : merged[k].name # line.name
    BY <1>5, <1>6 DEF Entries
  <2>2. LinesOf(merged', line.name, <<line>>)
    BY <1>0, <1>1, <2>1, FirstLine
  <2>3. new.name = line.name /\ new.url = <<line>> /\ new \in Element
    BY <1>1 DEF Element, Line
  <2> HIDE DEF new
  <2>4. /\ DOMAIN m3u8_list = 1 .. Len(m3u8_list) /\ Len(m3u8_list) \in Nat
        /\ DOMAIN m3u8_list' = 1 .. Len(m3u8_list) + 1
        /\ m3u8_list'[Len(m3u8_list) + 1] = new
        /\ \A i \in DOMAIN m3u8_list : m3u8_list'[i] = m3u8_list[i]
    BY <1>0, <1>2, <1>6, <2>3
  <2>5. {m3u8_list'[i].name : i \in DOMAIN m3u8_list'}
            = {m3u8_list[i].name : i \in DOMAIN m3u8_list} \cup {line.name}
    BY <2>3, <2>4
  <2>6. ASSUME NEW i \in DOMAIN m3u8_list'
        PROVE  LinesOf(merged', m3u8_list'[i].name, m3u8_list'[i].url)
    <3>1. CASE i = Len(m3u8_list) + 1
      BY <2>2, <2>3, <2>4, <3>1
    <3>2. CASE i # Len(m3u8_list) + 1
      <4>1. i \in DOMAIN m3u8_list /\ m3u8_list'[i] = m3u8_list[i]
        BY <2>4, <3>2
      <4>2. m3u8_list[i].name # line.name
        BY <1>6, <4>1 DEF Entries
      <4>3. LinesOf(merged, m3u8_list[i].name, m3u8_list[i].url)
        BY <1>5, <4>1
      <4> DEFINE name == m3u8_list[i].name
                 url == m3u8_list[i].url
      <4>4. m3u8_list'[i].name = name /\ m3u8_list'[i].url = url
        BY <4>1
      <4> QED
        BY <1>0, <1>1, <4>2, <4>3, <4>4, OtherLines
    <3> QED
      BY <3>1, <3>2
  <2> QED
    BY <1>3, <1>4, <1>5, <2>5, <2>6 DEF EveryLineListed
<1>7. CASE Entries(line.name) # {}
  <2> DEFINE k == Min(Entries(line.name))
  <2>1. k \in DOMAIN m3u8_list /\ m3u8_list[k].name = line.name
    BY <1>0, <1>7, SearchResult
  <2>2. m3u8_list' = [m3u8_list EXCEPT ![k].url = Append(@, line)]
    BY <1>2, <1>7
  <2> HIDE DEF k
  <2>3. m3u8_list[k] \in Element
    BY <1>0, <2>1
  <2>4. /\ DOMAIN m3u8_list' = DOMAIN m3u8_list
        /\ m3u8_list'[k].name = m3u8_list[k].name
        /\ m3u8_list'[k].url = Append(m3u8_list[k].url, line)
        /\ \A i \in DOMAIN m3u8_list : i # k => m3u8_list'[i] = m3u8_list[i]
    BY <1>0, <2>1, <2>2, <2>3 DEF Element
  <2>5. {m3u8_list'[i].name : i \in DOMAIN m3u8_list'}
            = {m3u8_list[i].name : i \in DOMAIN m3u8_list}
    BY <2>4
  <2>6. ASSUME NEW i \in DOMAIN m3u8_list'
        PROVE  LinesOf(merged', m3u8_list'[i].name, m3u8_list'[i].url)
    <3> DEFINE name == m3u8_list[i].name
               url == m3u8_list[i].url
    <3>1. LinesOf(merged, name, url)
      BY <1>5, <2>4
    <3>2. CASE i = k
      <4>1. url \in Seq(Line) /\ name = line.name
        BY <2>1, <2>3, <3>2 DEF Element
      <4>2. LinesOf(merged', line.name, Append(url, line))
        BY <1>0, <1>1, <3>1, <4>1, OwnLines
      <4> QED
        BY <2>4, <3>2, <4>1, <4>2
    <3>3. CASE i # k
      <4>1. name # line.name
        BY <1>0, <2>1, <2>4, <3>3 DEF NamesOnce
      <4>2. m3u8_list'[i].name = name /\ m3u8_list'[i].url = url
        BY <2>4, <3>3
      <4> QED
        BY <1>0, <1>1, <3>1, <4>1, <4>2, OtherLines
    <3> QED
      BY <3>2, <3>3
  <2>7. {m3u8_list[i].name : i \in DOMAIN m3u8_list} \cup {line.name}
            = {m3u8_list[i].name : i \in DOMAIN m3u8_list}
    BY <2>1
  <2> QED
    BY <1>3, <1>4, <1>5, <2>5, <2>6, <2>7 DEF EveryLineListed
<1> QED
  BY <1>6, <1>7

\* Every step keeps it.
LEMMA NextLInv == LInv /\ [Next]_vars => LInv'
<1> SUFFICES ASSUME LInv, [Next]_vars PROVE LInv'
  OBVIOUS
<1>1. IInv'
  BY NextIInv DEF LInv
<1>2. CASE MergeLine
  BY <1>1, <1>2, MergeListed DEF LInv
<1>3. CASE UNCHANGED <<m3u8_list, merged>>
  BY <1>1, <1>3 DEF LInv, EveryLineListed
<1>4. MergeLine \/ UNCHANGED <<m3u8_list, merged>>
  BY DEF Next, vars, lists, Edit, connect, ShortRead, Connected, m3u8fs_open,
     m3u8fs_close, m3u8fs_diropen, m3u8fs_dirnext, m3u8fs_dirclose
<1> QED
  BY <1>2, <1>3, <1>4

\* No line of any playlist is lost in m3u8_list, however often connect merges, and each
\* entry holds the lines of its name in the order they came, once for each time.
THEOREM NoLineIsLost == Spec => []EveryLineListed
<1>1. Init => LInv
  BY InitIInv DEF Init, LInv, EveryLineListed
<1>2. LInv => EveryLineListed
  BY DEF LInv
<1> QED
  BY <1>1, <1>2, NextLInv, PTL DEF Spec

=============================================================================
