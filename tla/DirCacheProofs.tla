--------------------------- MODULE DirCacheProofs ---------------------------
(***************************************************************************)
(* For any directories, DIRs, paths and threads: what a DIR returns, of a  *)
(* mount that keeps one list for all of them (FTP, SMB and ISO) and of one *)
(* with handles (NFS and SFTP); that it implements DirStream; who touches  *)
(* the list while it is filled; what stat says; and how long a loop over a *)
(* directory can be while others exchange the list under it.               *)
(***************************************************************************)
EXTENDS DirCache, SequenceTheorems, WellFoundedInduction, TLAPS

-----------------------------------------------------------------------------
SharedKinds == {"ftp", "smb", "iso"}

Types ==
    /\ mutex \in Dirs \cup Callers \cup {Nobody}
    /\ opened \in SUBSET Dirs
    /\ idx = [d \in Dirs |-> idx[d]]
    /\ want = [d \in Dirs |-> want[d]]
    /\ seen = [d \in Dirs |-> seen[d]]
    /\ pc \in [Callers -> {"idle", "scan", "ask"}]

\* The list is a sequence, of whatever.
IsList == cache \in Seq(Range(cache))

\* Whoever fills the list has disturbed every open DIR, and has returned nothing.
FillerAlone ==
    \A d \in Dirs :
        mutex = d => /\ kind \in SharedKinds
                     /\ d \notin opened
                     /\ opened \subseteq disturbed
                     /\ seen[d] = <<>>
                     /\ d \notin ended
                     /\ kind = "ftp" => idx[d] = 0

\* The list is that of every DIR that is not disturbed, and one that has come to its
\* end stays there.
OwnList ==
    \A d \in opened \ disturbed :
        kind \in SharedKinds =>
            /\ want[d] = cache
            /\ idx[d] \in 0 .. Len(cache)
            /\ seen[d] = SubSeq(cache, 1, idx[d])
            /\ kind # "smb" /\ d \in ended => idx[d] = Len(cache)

\* stat of FTP scans the list inside the mutex.
ScanInside ==
    \A c \in Callers : kind = "ftp" /\ pc[c] = "scan" => mutex = c

-----------------------------------------------------------------------------
\* What push_back makes of a sequence is a sequence.
LEMMA AppendIsSeq ==
    ASSUME NEW s, s \in Seq(Range(s)), NEW e
    PROVE  Append(s, e) \in Seq(Range(Append(s, e)))
<1>1. s \in Seq(Range(s) \cup {e})
  OBVIOUS
<1>2. Append(s, e) \in Seq(Range(s) \cup {e})
  BY <1>1
<1>3. \A i \in 1 .. Len(Append(s, e)) : Append(s, e)[i] \in Range(Append(s, e))
  BY <1>2 DEF Range
<1> QED
  BY <1>2, <1>3

\* The part before the index grows by the entry at the index.
LEMMA SubSeqGrows ==
    ASSUME NEW s, s \in Seq(Range(s)), NEW n \in 0 .. Len(s)
    PROVE  /\ SubSeq(s, 1, 0) = <<>>
           /\ SubSeq(s, 1, Len(s)) = s
           /\ n < Len(s) => Append(SubSeq(s, 1, n), s[n + 1]) = SubSeq(s, 1, n + 1)
<1>1. SubSeq(s, 1, 0) = <<>>
  OBVIOUS
<1>2. SubSeq(s, 1, Len(s)) = s
  OBVIOUS
<1>3. n < Len(s) => Append(SubSeq(s, 1, n), s[n + 1]) = SubSeq(s, 1, n + 1)
  OBVIOUS
<1> QED
  BY <1>1, <1>2, <1>3

\* The list is cleared or grows at its end, or stays.
LEMMA NextIsList ==
    ASSUME IsList, Next
    PROVE  IsList'
<1>1. cache' = cache \/ cache' = <<>> \/ cache' = Append(cache, Head(feed))
  BY DEF Next, Step, DirOpen, Listing, DirNext, Change, ftpfs_diropen, smb2fs_diropen,
     iso9660fs_diropen, nfsfs_diropen, sshfs_diropen, StartListing, OpenHandle,
     ReadEntry, DirOpened, Opened, UFTP_DirReadline_times_out, GetPathDir_fails,
     DirOpenFails, ftpfs_dirnext, smb2fs_dirnext, iso9660fs_dirnext, NextEntry, AtEnd,
     nfsfs_dirnext, sshfs_dirnext, nfsfs_dirreset, dirclose, ftpfs_stat, smb2fs_stat,
     AskServer, StartStat, listing
<1>2. <<>> \in Seq(Range(<<>>))
  OBVIOUS
<1>3. Append(cache, Head(feed)) \in Seq(Range(Append(cache, Head(feed))))
  BY AppendIsSeq DEF IsList
<1> QED
  BY <1>1, <1>2, <1>3 DEF IsList

\* diropen returns: the list is that of the DIR it has opened, and of no other.
LEMMA OpenedOwnsList ==
    ASSUME Types, IsList, FillerAlone, UNCHANGED kind,
           NEW d \in Dirs, mutex = d, Opened(d)
    PROVE  OwnList'
<1> SUFFICES ASSUME NEW e \in opened' \ disturbed', kind \in SharedKinds
             PROVE  /\ want'[e] = cache'
                    /\ idx'[e] \in 0 .. Len(cache')
                    /\ seen'[e] = SubSeq(cache', 1, idx'[e])
                    /\ kind' # "smb" /\ e \in ended' => idx'[e] = Len(cache')
  BY DEF OwnList
<1>1. e = d
  BY DEF FillerAlone, Opened
<1>2. UNCHANGED <<cache, seen>> /\ want'[d] = cache
  BY DEF Opened, Types
<1>3. idx'[d] = 0
  BY DEF Opened, Types, FillerAlone
<1>4. seen[d] = <<>> /\ d \notin ended'
  BY DEF FillerAlone, Opened
<1> QED
  BY <1>1, <1>2, <1>3, <1>4, SubSeqGrows DEF IsList

\* dirnext returns the next entry of a list that is still the DIR's own.
LEMMA NextEntryOwnList ==
    ASSUME Types, IsList, OwnList, UNCHANGED kind, NEW d \in opened, NextEntry(d)
    PROVE  OwnList'
<1> SUFFICES ASSUME NEW e \in opened' \ disturbed', kind \in SharedKinds
             PROVE  /\ want'[e] = cache'
                    /\ idx'[e] \in 0 .. Len(cache')
                    /\ seen'[e] = SubSeq(cache', 1, idx'[e])
                    /\ kind' # "smb" /\ e \in ended' => idx'[e] = Len(cache')
  BY DEF OwnList
<1>1. UNCHANGED <<cache, want, opened, disturbed>> /\ Len(cache) \in Nat
  BY DEF NextEntry, IsList
<1>2. /\ e \in opened \ disturbed
      /\ want[e] = cache
      /\ idx[e] \in 0 .. Len(cache)
      /\ seen[e] = SubSeq(cache, 1, idx[e])
      /\ kind # "smb" /\ e \in ended => idx[e] = Len(cache)
  BY <1>1 DEF OwnList
<1>3. CASE e = d
  <2>1. /\ idx[d] < Len(cache)
        /\ idx'[d] = idx[d] + 1
        /\ seen'[d] = Append(seen[d], cache[idx[d] + 1])
    BY DEF NextEntry, Types
  <2>2. idx[d] \in 0 .. Len(cache)
    BY <1>2, <1>3
  <2>3. Append(SubSeq(cache, 1, idx[d]), cache[idx[d] + 1]) = SubSeq(cache, 1, idx[d] + 1)
    BY <2>1, <2>2, SubSeqGrows DEF IsList
  <2>4. want'[e] = cache' /\ idx'[e] \in 0 .. Len(cache')
    BY <1>1, <1>2, <1>3, <2>1, <2>2
  <2>5. seen'[e] = SubSeq(cache', 1, idx'[e])
    BY <1>1, <1>2, <1>3, <2>1, <2>3
  <2>6. ~(kind' # "smb" /\ e \in ended')
    BY <1>1, <1>2, <1>3, <2>1 DEF NextEntry
  <2> QED
    BY <2>4, <2>5, <2>6
<1>4. CASE e # d
  BY <1>1, <1>2, <1>4 DEF NextEntry, Types
<1> QED
  BY <1>3, <1>4

\* At the end of the list the index stays, or goes back to the start.
LEMMA AtEndOwnList ==
    ASSUME Types, IsList, OwnList, UNCHANGED kind, NEW d \in opened, AtEnd(d),
           \/ UNCHANGED <<idx, seen>>
           \/ /\ kind = "smb"
              /\ idx' = [idx EXCEPT ![d] = 0]
              /\ seen' = [seen EXCEPT ![d] = <<>>]
    PROVE  OwnList'
<1> SUFFICES ASSUME NEW e \in opened' \ disturbed', kind \in SharedKinds
             PROVE  /\ want'[e] = cache'
                    /\ idx'[e] \in 0 .. Len(cache')
                    /\ seen'[e] = SubSeq(cache', 1, idx'[e])
                    /\ kind' # "smb" /\ e \in ended' => idx'[e] = Len(cache')
  BY DEF OwnList
<1>1. UNCHANGED <<cache, want, opened, disturbed>> /\ Len(cache) \in Nat
  BY DEF AtEnd, IsList
<1>2. /\ e \in opened \ disturbed
      /\ want[e] = cache
      /\ idx[e] \in 0 .. Len(cache)
      /\ seen[e] = SubSeq(cache, 1, idx[e])
      /\ kind # "smb" /\ e \in ended => idx[e] = Len(cache)
  BY <1>1 DEF OwnList
<1>3. e \in Dirs
  BY <1>2 DEF Types
<1>4. SubSeq(cache, 1, 0) = <<>>
  BY <1>1, SubSeqGrows DEF IsList
<1>5. \/ idx'[e] = idx[e] /\ seen'[e] = seen[e]
      \/ kind = "smb" /\ idx'[e] = 0 /\ seen'[e] = <<>>
  BY <1>3 DEF Types
<1>6. CASE idx'[e] = idx[e] /\ seen'[e] = seen[e]
  <2>1. e \in ended' => e \in ended \/ idx[e] >= Len(cache)
    BY DEF AtEnd
  <2> QED
    BY <1>1, <1>2, <1>6, <2>1
<1>7. CASE kind = "smb" /\ idx'[e] = 0 /\ seen'[e] = <<>>
  <2>1. 0 \in 0 .. Len(cache)
    BY <1>1
  <2> QED
    BY <1>1, <1>2, <1>4, <1>7, <2>1
<1> QED
  BY <1>5, <1>6, <1>7

\* Every step keeps the types of the variables.
LEMMA NextTypes ==
    ASSUME Types, Next
    PROVE  Types'
<1> USE DirCacheAssumption DEF Types
<1>1. ASSUME UNCHANGED kind, NEW f \in Files, Change(f) PROVE Types'
  BY <1>1 DEF Change, listing, history, stats
<1>2. ASSUME UNCHANGED kind, NEW d \in Dirs, NEW p \in Opens, ftpfs_diropen(d, p)
      PROVE Types'
  BY <1>2 DEF ftpfs_diropen, StartListing, listing, history, stats
<1>3. ASSUME UNCHANGED kind, NEW d \in Dirs, NEW p \in Opens, smb2fs_diropen(d, p)
      PROVE Types'
  BY <1>3 DEF smb2fs_diropen, StartListing, listing, history, stats
<1>4. ASSUME UNCHANGED kind, NEW d \in Dirs, NEW p \in Opens, iso9660fs_diropen(d, p)
      PROVE Types'
  BY <1>4 DEF iso9660fs_diropen, StartListing, listing, history, stats
<1>5. ASSUME UNCHANGED kind, NEW d \in Dirs, NEW p \in Opens, nfsfs_diropen(d, p)
      PROVE Types'
  BY <1>5 DEF nfsfs_diropen, OpenHandle, listing, history, stats
<1>6. ASSUME UNCHANGED kind, NEW d \in Dirs, NEW p \in Opens, sshfs_diropen(d, p)
      PROVE Types'
  BY <1>6 DEF sshfs_diropen, OpenHandle, listing, history, stats
<1>7. ASSUME UNCHANGED kind, NEW d \in Dirs, ReadEntry(d) PROVE Types'
  BY <1>7 DEF ReadEntry, listing, history, stats
<1>8. ASSUME UNCHANGED kind, NEW d \in Dirs, DirOpened(d) PROVE Types'
  BY <1>8 DEF DirOpened, Opened, listing, history, stats
<1>9. ASSUME UNCHANGED kind, NEW d \in Dirs, UFTP_DirReadline_times_out(d) PROVE Types'
  BY <1>9 DEF UFTP_DirReadline_times_out, Opened, listing, history, stats
<1>10. ASSUME UNCHANGED kind, NEW d \in Dirs, GetPathDir_fails(d) PROVE Types'
  BY <1>10 DEF GetPathDir_fails, Opened, listing, history, stats
<1>11. ASSUME UNCHANGED kind, NEW d \in Dirs, DirOpenFails(d) PROVE Types'
  BY <1>11 DEF DirOpenFails, listing, history, stats
<1>12. ASSUME UNCHANGED kind, NEW d \in Dirs, ftpfs_dirnext(d) PROVE Types'
  BY <1>12 DEF ftpfs_dirnext, NextEntry, AtEnd, listing, history, stats
<1>13. ASSUME UNCHANGED kind, NEW d \in Dirs, smb2fs_dirnext(d) PROVE Types'
  BY <1>13 DEF smb2fs_dirnext, NextEntry, AtEnd, listing, history, stats
<1>14. ASSUME UNCHANGED kind, NEW d \in Dirs, iso9660fs_dirnext(d) PROVE Types'
  BY <1>14 DEF iso9660fs_dirnext, NextEntry, AtEnd, listing, history, stats
<1>15. ASSUME UNCHANGED kind, NEW d \in Dirs, nfsfs_dirnext(d) PROVE Types'
  BY <1>15 DEF nfsfs_dirnext, ReadHandle, HandleAtEnd, listing, history, stats
<1>16. ASSUME UNCHANGED kind, NEW d \in Dirs, sshfs_dirnext(d) PROVE Types'
  BY <1>16 DEF sshfs_dirnext, ReadHandle, HandleAtEnd, listing, history, stats
<1>17. ASSUME UNCHANGED kind, NEW d \in Dirs, nfsfs_dirreset(d) PROVE Types'
  BY <1>17 DEF nfsfs_dirreset, listing, history, stats
<1>18. ASSUME UNCHANGED kind, NEW d \in Dirs, dirclose(d) PROVE Types'
  BY <1>18 DEF dirclose, listing, history, stats
<1>19. ASSUME UNCHANGED kind, NEW c \in Callers, ftpfs_stat(c) PROVE Types'
  BY <1>19
     DEF ftpfs_stat, StartStat, AnswerFromCache, AnswerFromServer, Answered, listing, history, stats
<1>20. ASSUME UNCHANGED kind, NEW c \in Callers, smb2fs_stat(c) PROVE Types'
  BY <1>20
     DEF smb2fs_stat, StartStat, AnswerFromCache, AnswerFromServer, Answered, listing, history, stats
<1>21. ASSUME UNCHANGED kind, NEW c \in Callers, AskServer(c) PROVE Types'
  BY <1>21 DEF AskServer, StartStat, AnswerFromServer, Answered, listing, history, stats
<1> QED
  BY <1>1, <1>2, <1>3, <1>4, <1>5, <1>6, <1>7, <1>8, <1>9, <1>10,
     <1>11, <1>12, <1>13, <1>14, <1>15, <1>16, <1>17, <1>18, <1>19, <1>20, <1>21
  DEF Next, Step, DirOpen, Listing, DirNext

\* A listing begins by disturbing all, and ends with the mutex free.
LEMMA NextFiller ==
    ASSUME Types, FillerAlone, Next
    PROVE  FillerAlone'
<1> USE DirCacheAssumption DEF Types, FillerAlone, SharedKinds
<1>1. ASSUME UNCHANGED kind, NEW f \in Files, Change(f) PROVE FillerAlone'
  BY <1>1 DEF Change, listing, history, stats
<1>2. ASSUME UNCHANGED kind, NEW d \in Dirs, NEW p \in Opens, ftpfs_diropen(d, p)
      PROVE FillerAlone'
  BY <1>2 DEF ftpfs_diropen, StartListing, listing, history, stats
<1>3. ASSUME UNCHANGED kind, NEW d \in Dirs, NEW p \in Opens, smb2fs_diropen(d, p)
      PROVE FillerAlone'
  BY <1>3 DEF smb2fs_diropen, StartListing, listing, history, stats
<1>4. ASSUME UNCHANGED kind, NEW d \in Dirs, NEW p \in Opens, iso9660fs_diropen(d, p)
      PROVE FillerAlone'
  BY <1>4 DEF iso9660fs_diropen, StartListing, listing, history, stats
<1>5. ASSUME UNCHANGED kind, NEW d \in Dirs, NEW p \in Opens, nfsfs_diropen(d, p)
      PROVE FillerAlone'
  BY <1>5 DEF nfsfs_diropen, OpenHandle, listing, history, stats
<1>6. ASSUME UNCHANGED kind, NEW d \in Dirs, NEW p \in Opens, sshfs_diropen(d, p)
      PROVE FillerAlone'
  BY <1>6 DEF sshfs_diropen, OpenHandle, listing, history, stats
<1>7. ASSUME UNCHANGED kind, NEW d \in Dirs, ReadEntry(d) PROVE FillerAlone'
  BY <1>7 DEF ReadEntry, listing, history, stats
<1>8. ASSUME UNCHANGED kind, NEW d \in Dirs, DirOpened(d) PROVE FillerAlone'
  BY <1>8 DEF DirOpened, Opened, listing, history, stats
<1>9. ASSUME UNCHANGED kind, NEW d \in Dirs, UFTP_DirReadline_times_out(d)
      PROVE FillerAlone'
  BY <1>9 DEF UFTP_DirReadline_times_out, Opened, listing, history, stats
<1>10. ASSUME UNCHANGED kind, NEW d \in Dirs, GetPathDir_fails(d) PROVE FillerAlone'
  BY <1>10 DEF GetPathDir_fails, Opened, listing, history, stats
<1>11. ASSUME UNCHANGED kind, NEW d \in Dirs, DirOpenFails(d) PROVE FillerAlone'
  BY <1>11 DEF DirOpenFails, listing, history, stats
<1>12. ASSUME UNCHANGED kind, NEW d \in Dirs, ftpfs_dirnext(d) PROVE FillerAlone'
  BY <1>12 DEF ftpfs_dirnext, NextEntry, AtEnd, listing, history, stats
<1>13. ASSUME UNCHANGED kind, NEW d \in Dirs, smb2fs_dirnext(d) PROVE FillerAlone'
  BY <1>13 DEF smb2fs_dirnext, NextEntry, AtEnd, listing, history, stats
<1>14. ASSUME UNCHANGED kind, NEW d \in Dirs, iso9660fs_dirnext(d) PROVE FillerAlone'
  BY <1>14 DEF iso9660fs_dirnext, NextEntry, AtEnd, listing, history, stats
<1>15. ASSUME UNCHANGED kind, NEW d \in Dirs, nfsfs_dirnext(d) PROVE FillerAlone'
  BY <1>15 DEF nfsfs_dirnext, ReadHandle, HandleAtEnd, listing, history, stats
<1>16. ASSUME UNCHANGED kind, NEW d \in Dirs, sshfs_dirnext(d) PROVE FillerAlone'
  BY <1>16 DEF sshfs_dirnext, ReadHandle, HandleAtEnd, listing, history, stats
<1>17. ASSUME UNCHANGED kind, NEW d \in Dirs, nfsfs_dirreset(d) PROVE FillerAlone'
  BY <1>17 DEF nfsfs_dirreset, listing, history, stats
<1>18. ASSUME UNCHANGED kind, NEW d \in Dirs, dirclose(d) PROVE FillerAlone'
  BY <1>18 DEF dirclose, listing, history, stats
<1>19. ASSUME UNCHANGED kind, NEW c \in Callers, ftpfs_stat(c) PROVE FillerAlone'
  BY <1>19
     DEF ftpfs_stat, StartStat, AnswerFromCache, AnswerFromServer, Answered, listing, history, stats
<1>20. ASSUME UNCHANGED kind, NEW c \in Callers, smb2fs_stat(c) PROVE FillerAlone'
  BY <1>20
     DEF smb2fs_stat, StartStat, AnswerFromCache, AnswerFromServer, Answered, listing, history, stats
<1>21. ASSUME UNCHANGED kind, NEW c \in Callers, AskServer(c) PROVE FillerAlone'
  BY <1>21 DEF AskServer, StartStat, AnswerFromServer, Answered, listing, history, stats
<1> QED
  BY <1>1, <1>2, <1>3, <1>4, <1>5, <1>6, <1>7, <1>8, <1>9, <1>10,
     <1>11, <1>12, <1>13, <1>14, <1>15, <1>16, <1>17, <1>18, <1>19, <1>20, <1>21
  DEF Next, Step, DirOpen, Listing, DirNext

\* Only its own diropen and dirnext touch the list of a DIR that is not disturbed.
LEMMA NextOwnList ==
    ASSUME Types, IsList, FillerAlone, OwnList, Next
    PROVE  OwnList'
<1> USE DirCacheAssumption DEF Types, FillerAlone, OwnList, SharedKinds
<1>1. ASSUME UNCHANGED kind, NEW f \in Files, Change(f) PROVE OwnList'
  BY <1>1 DEF Change, listing, history, stats
<1>2. ASSUME UNCHANGED kind, NEW d \in Dirs, NEW p \in Opens, ftpfs_diropen(d, p)
      PROVE OwnList'
  BY <1>2 DEF ftpfs_diropen, StartListing, listing, history, stats
<1>3. ASSUME UNCHANGED kind, NEW d \in Dirs, NEW p \in Opens, smb2fs_diropen(d, p)
      PROVE OwnList'
  BY <1>3 DEF smb2fs_diropen, StartListing, listing, history, stats
<1>4. ASSUME UNCHANGED kind, NEW d \in Dirs, NEW p \in Opens, iso9660fs_diropen(d, p)
      PROVE OwnList'
  BY <1>4 DEF iso9660fs_diropen, StartListing, listing, history, stats
<1>5. ASSUME UNCHANGED kind, NEW d \in Dirs, NEW p \in Opens, nfsfs_diropen(d, p)
      PROVE OwnList'
  BY <1>5 DEF nfsfs_diropen, OpenHandle, listing, history, stats
<1>6. ASSUME UNCHANGED kind, NEW d \in Dirs, NEW p \in Opens, sshfs_diropen(d, p)
      PROVE OwnList'
  BY <1>6 DEF sshfs_diropen, OpenHandle, listing, history, stats
<1>7. ASSUME UNCHANGED kind, NEW d \in Dirs, ReadEntry(d) PROVE OwnList'
  BY <1>7 DEF ReadEntry, listing, history, stats
<1>8. ASSUME UNCHANGED kind, NEW d \in Dirs, DirOpened(d) PROVE OwnList'
  BY <1>8, OpenedOwnsList DEF DirOpened
<1>9. ASSUME UNCHANGED kind, NEW d \in Dirs, UFTP_DirReadline_times_out(d)
      PROVE OwnList'
  BY <1>9, OpenedOwnsList DEF UFTP_DirReadline_times_out
<1>10. ASSUME UNCHANGED kind, NEW d \in Dirs, GetPathDir_fails(d) PROVE OwnList'
  BY <1>10, OpenedOwnsList DEF GetPathDir_fails
<1>11. ASSUME UNCHANGED kind, NEW d \in Dirs, DirOpenFails(d) PROVE OwnList'
  BY <1>11 DEF DirOpenFails, listing, history, stats
<1>12. ASSUME UNCHANGED kind, NEW d \in Dirs, ftpfs_dirnext(d) PROVE OwnList'
  BY <1>12, NextEntryOwnList, AtEndOwnList DEF ftpfs_dirnext
<1>13. ASSUME UNCHANGED kind, NEW d \in Dirs, smb2fs_dirnext(d) PROVE OwnList'
  BY <1>13, NextEntryOwnList, AtEndOwnList DEF smb2fs_dirnext
<1>14. ASSUME UNCHANGED kind, NEW d \in Dirs, iso9660fs_dirnext(d) PROVE OwnList'
  BY <1>14, NextEntryOwnList, AtEndOwnList DEF iso9660fs_dirnext
<1>15. ASSUME UNCHANGED kind, NEW d \in Dirs, nfsfs_dirnext(d) PROVE OwnList'
  BY <1>15 DEF nfsfs_dirnext, ReadHandle, HandleAtEnd, listing, history, stats
<1>16. ASSUME UNCHANGED kind, NEW d \in Dirs, sshfs_dirnext(d) PROVE OwnList'
  BY <1>16 DEF sshfs_dirnext, ReadHandle, HandleAtEnd, listing, history, stats
<1>17. ASSUME UNCHANGED kind, NEW d \in Dirs, nfsfs_dirreset(d) PROVE OwnList'
  BY <1>17 DEF nfsfs_dirreset, listing, history, stats
<1>18. ASSUME UNCHANGED kind, NEW d \in Dirs, dirclose(d) PROVE OwnList'
  BY <1>18 DEF dirclose, listing, history, stats
<1>19. ASSUME UNCHANGED kind, NEW c \in Callers, ftpfs_stat(c) PROVE OwnList'
  BY <1>19
     DEF ftpfs_stat, StartStat, AnswerFromCache, AnswerFromServer, Answered, listing, history, stats
<1>20. ASSUME UNCHANGED kind, NEW c \in Callers, smb2fs_stat(c) PROVE OwnList'
  BY <1>20
     DEF smb2fs_stat, StartStat, AnswerFromCache, AnswerFromServer, Answered, listing, history, stats
<1>21. ASSUME UNCHANGED kind, NEW c \in Callers, AskServer(c) PROVE OwnList'
  BY <1>21 DEF AskServer, StartStat, AnswerFromServer, Answered, listing, history, stats
<1> QED
  BY <1>1, <1>2, <1>3, <1>4, <1>5, <1>6, <1>7, <1>8, <1>9, <1>10,
     <1>11, <1>12, <1>13, <1>14, <1>15, <1>16, <1>17, <1>18, <1>19, <1>20, <1>21
  DEF Next, Step, DirOpen, Listing, DirNext

\* The mutex of a scan is given back by the scan alone.
LEMMA NextScan ==
    ASSUME Types, ScanInside, Next
    PROVE  ScanInside'
<1> USE DirCacheAssumption DEF Types, ScanInside
<1>1. ASSUME UNCHANGED kind, NEW f \in Files, Change(f) PROVE ScanInside'
  BY <1>1 DEF Change, listing, history, stats
<1>2. ASSUME UNCHANGED kind, NEW d \in Dirs, NEW p \in Opens, ftpfs_diropen(d, p)
      PROVE ScanInside'
  BY <1>2 DEF ftpfs_diropen, StartListing, listing, history, stats
<1>3. ASSUME UNCHANGED kind, NEW d \in Dirs, NEW p \in Opens, smb2fs_diropen(d, p)
      PROVE ScanInside'
  BY <1>3 DEF smb2fs_diropen, StartListing, listing, history, stats
<1>4. ASSUME UNCHANGED kind, NEW d \in Dirs, NEW p \in Opens, iso9660fs_diropen(d, p)
      PROVE ScanInside'
  BY <1>4 DEF iso9660fs_diropen, StartListing, listing, history, stats
<1>5. ASSUME UNCHANGED kind, NEW d \in Dirs, NEW p \in Opens, nfsfs_diropen(d, p)
      PROVE ScanInside'
  BY <1>5 DEF nfsfs_diropen, OpenHandle, listing, history, stats
<1>6. ASSUME UNCHANGED kind, NEW d \in Dirs, NEW p \in Opens, sshfs_diropen(d, p)
      PROVE ScanInside'
  BY <1>6 DEF sshfs_diropen, OpenHandle, listing, history, stats
<1>7. ASSUME UNCHANGED kind, NEW d \in Dirs, ReadEntry(d) PROVE ScanInside'
  BY <1>7 DEF ReadEntry, listing, history, stats
<1>8. ASSUME UNCHANGED kind, NEW d \in Dirs, DirOpened(d) PROVE ScanInside'
  BY <1>8 DEF DirOpened, Opened, listing, history, stats
<1>9. ASSUME UNCHANGED kind, NEW d \in Dirs, UFTP_DirReadline_times_out(d)
      PROVE ScanInside'
  BY <1>9 DEF UFTP_DirReadline_times_out, Opened, listing, history, stats
<1>10. ASSUME UNCHANGED kind, NEW d \in Dirs, GetPathDir_fails(d) PROVE ScanInside'
  BY <1>10 DEF GetPathDir_fails, Opened, listing, history, stats
<1>11. ASSUME UNCHANGED kind, NEW d \in Dirs, DirOpenFails(d) PROVE ScanInside'
  BY <1>11 DEF DirOpenFails, listing, history, stats
<1>12. ASSUME UNCHANGED kind, NEW d \in Dirs, ftpfs_dirnext(d) PROVE ScanInside'
  BY <1>12 DEF ftpfs_dirnext, NextEntry, AtEnd, listing, history, stats
<1>13. ASSUME UNCHANGED kind, NEW d \in Dirs, smb2fs_dirnext(d) PROVE ScanInside'
  BY <1>13 DEF smb2fs_dirnext, NextEntry, AtEnd, listing, history, stats
<1>14. ASSUME UNCHANGED kind, NEW d \in Dirs, iso9660fs_dirnext(d) PROVE ScanInside'
  BY <1>14 DEF iso9660fs_dirnext, NextEntry, AtEnd, listing, history, stats
<1>15. ASSUME UNCHANGED kind, NEW d \in Dirs, nfsfs_dirnext(d) PROVE ScanInside'
  BY <1>15 DEF nfsfs_dirnext, ReadHandle, HandleAtEnd, listing, history, stats
<1>16. ASSUME UNCHANGED kind, NEW d \in Dirs, sshfs_dirnext(d) PROVE ScanInside'
  BY <1>16 DEF sshfs_dirnext, ReadHandle, HandleAtEnd, listing, history, stats
<1>17. ASSUME UNCHANGED kind, NEW d \in Dirs, nfsfs_dirreset(d) PROVE ScanInside'
  BY <1>17 DEF nfsfs_dirreset, listing, history, stats
<1>18. ASSUME UNCHANGED kind, NEW d \in Dirs, dirclose(d) PROVE ScanInside'
  BY <1>18 DEF dirclose, listing, history, stats
<1>19. ASSUME UNCHANGED kind, NEW c \in Callers, ftpfs_stat(c) PROVE ScanInside'
  BY <1>19
     DEF ftpfs_stat, StartStat, AnswerFromCache, AnswerFromServer, Answered, listing, history, stats
<1>20. ASSUME UNCHANGED kind, NEW c \in Callers, smb2fs_stat(c) PROVE ScanInside'
  BY <1>20
     DEF smb2fs_stat, StartStat, AnswerFromCache, AnswerFromServer, Answered, listing, history, stats
<1>21. ASSUME UNCHANGED kind, NEW c \in Callers, AskServer(c) PROVE ScanInside'
  BY <1>21 DEF AskServer, StartStat, AnswerFromServer, Answered, listing, history, stats
<1> QED
  BY <1>1, <1>2, <1>3, <1>4, <1>5, <1>6, <1>7, <1>8, <1>9, <1>10,
     <1>11, <1>12, <1>13, <1>14, <1>15, <1>16, <1>17, <1>18, <1>19, <1>20, <1>21
  DEF Next, Step, DirOpen, Listing, DirNext

-----------------------------------------------------------------------------
\* A set of numbers has a least one: the order of the numbers is well-founded.
LEMMA Least ==
    ASSUME NEW T \in SUBSET Nat, T # {}
    PROVE  \E x \in T : \A y \in T : x <= y
<1>1. \E x \in T : \A y \in T : ~(<<y, x>> \in OpToRel(<, Nat))
  BY NatLessThanWellFounded, WFMin
<1>2. \E x \in T : \A y \in T : ~(y < x)
  BY <1>1 DEF OpToRel
<1> QED
  BY <1>2

\* Induction, over the set of the numbers a fact holds of.
LEMMA SetInduction ==
    ASSUME NEW S \in SUBSET Nat, 0 \in S, \A n \in S : n + 1 \in S
    PROVE  \A n \in Nat : n \in S
<1> SUFFICES ASSUME Nat \ S # {} PROVE FALSE
  OBVIOUS
<1>1. PICK x \in Nat \ S : \A y \in Nat \ S : x <= y
  BY Least
<1>2. x - 1 \in S
  BY <1>1
<1> QED
  BY <1>2

Collects(f, s, P) ==
    /\ f[0] = <<>>
    /\ \A n \in Nat : f[n + 1] = IF n + 1 \in P THEN Append(f[n], s[n + 1]) ELSE f[n]

\* There is a function that collects the elements at P, front to back.
LEMMA TakenExists ==
    ASSUME NEW W, NEW s, NEW P, \A i \in P : s[i] \in W
    PROVE  \E f \in [Nat -> Seq(W)] : Collects(f, s, P)
<1> DEFINE V == Seq(W)
           t(n, v) == IF n + 1 \in P THEN Append(v, s[n + 1]) ELSE v
           a == <<>>
<1>a. a \in V
  BY EmptySeq
<1>b. ASSUME NEW n \in Nat, NEW v \in V PROVE t(n, v) \in V
  BY AppendProperties
<1>c. \E f \in [Nat -> V] : f[0] = a /\ \A n \in Nat : f[n + 1] = t(n, f[n])
  <2> HIDE DEF V, t, a
  <2> DEFINE Upto(g, n) == g \in [0 .. n -> V] /\ g[0] = a /\ \A i \in 0 .. n - 1 : g[i + 1] = t(i, g[i])
             S == {n \in Nat : \E g : Upto(g, n)}
  <2>1. 0 \in S
    <3>1. Upto([i \in 0 .. 0 |-> a], 0)
      BY <1>a
    <3> QED
      BY <3>1
  <2>2. ASSUME NEW n \in S PROVE n + 1 \in S
    <3>1. PICK g : Upto(g, n)
      OBVIOUS
    <3> DEFINE h == [i \in 0 .. n + 1 |-> IF i <= n THEN g[i] ELSE t(n, g[n])]
    <3>2. n \in Nat /\ g[n] \in V /\ t(n, g[n]) \in V
      BY <1>b, <3>1
    <3>3. h \in [0 .. n + 1 -> V]
      BY <3>1, <3>2
    <3>4. h[0] = a
      BY <3>1, <3>2
    <3>5. ASSUME NEW i \in 0 .. n PROVE h[i + 1] = t(i, h[i])
      <4>1. CASE i = n
        BY <3>2, <4>1
      <4>2. CASE i < n
        BY <3>1, <3>2, <4>2
      <4> QED
        BY <3>2, <4>1, <4>2
    <3>6. 0 .. (n + 1) - 1 = 0 .. n
      BY <3>2
    <3> HIDE DEF h
    <3>7. Upto(h, n + 1)
      BY <3>3, <3>4, <3>5, <3>6
    <3> HIDE DEF Upto
    <3> QED
      BY <3>2, <3>7
  <2>3. \A n \in Nat : \E g : Upto(g, n)
    <3> HIDE DEF Upto
    <3>1. S \in SUBSET Nat
      OBVIOUS
    <3> HIDE DEF S
    <3>2. \A n \in Nat : n \in S
      BY <2>1, <2>2, <3>1, SetInduction
    <3> QED
      BY <3>2 DEF S
  <2>4. ASSUME NEW n \in Nat, NEW g, Upto(g, n), NEW h, Upto(h, n + 1)
        PROVE  g[n] = h[n]
    <3> DEFINE E == {i \in Nat : i <= n => g[i] = h[i]}
    <3>1. 0 \in E
      BY <2>4
    <3>2. ASSUME NEW i \in E PROVE i + 1 \in E
      BY <2>4
    <3>3. E \in SUBSET Nat
      OBVIOUS
    <3> HIDE DEF E
    <3>4. n \in E
      BY <3>1, <3>2, <3>3, SetInduction
    <3> QED
      BY <3>4 DEF E
  <2> DEFINE G(n) == CHOOSE g : Upto(g, n)
             f == [n \in Nat |-> G(n)[n]]
  <2> HIDE DEF Upto
  <2>5. \A n \in Nat : Upto(G(n), n)
    BY <2>3
  <2> HIDE DEF G
  <2>6. f \in [Nat -> V]
    BY <2>5 DEF Upto
  <2>7. f[0] = a
    BY <2>5 DEF Upto
  <2>8. ASSUME NEW n \in Nat PROVE f[n + 1] = t(n, f[n])
    <3>1. Upto(G(n), n) /\ Upto(G(n + 1), n + 1)
      BY <2>5
    <3>2. G(n)[n] = G(n + 1)[n]
      BY <2>4, <3>1
    <3>3. G(n + 1)[n + 1] = t(n, G(n + 1)[n])
      BY <3>1 DEF Upto
    <3> QED
      BY <3>2, <3>3
  <2> QED
    BY <2>6, <2>7, <2>8
<1> QED
  BY <1>c DEF Collects

\* Taken is this function, as its recursion says.
LEMMA TakenFrom ==
    ASSUME NEW V, NEW s, NEW P, \A i \in P : s[i] \in V
    PROVE  Taken(s, P) \in [Nat -> Seq(V)] /\ Collects(Taken(s, P), s, P)
<1> DEFINE W == Seq(V)
           Def(f) == [n \in Nat |-> IF n = 0 THEN <<>>
                                   ELSE IF n \in P THEN Append(f[n - 1], s[n]) ELSE f[n - 1]]
<1>2. <<>> \in W
  BY EmptySeq
<1>3. PICK f \in [Nat -> W] : Collects(f, s, P)
  BY TakenExists
<1>4. \A n \in Nat : f[n + 1] = IF n + 1 \in P THEN Append(f[n], s[n + 1]) ELSE f[n]
  BY <1>3 DEF Collects
<1>5. f = Def(f)
  <2>1. ASSUME NEW n \in Nat PROVE f[n] = Def(f)[n]
    <3>1. CASE n = 0
      BY <1>3, <3>1 DEF Collects
    <3>2. CASE n # 0
      <4>1. n - 1 \in Nat /\ (n - 1) + 1 = n
        BY <3>2
      <4>2. f[n] = IF n \in P THEN Append(f[n - 1], s[n]) ELSE f[n - 1]
        BY <1>4, <4>1
      <4> QED
        BY <3>2, <4>2
    <3> QED
      BY <3>1, <3>2
  <2> QED
    BY <1>3, <2>1
<1>6. Taken(s, P) = CHOOSE g : g = Def(g)
  BY DEF Taken
<1> DEFINE F == Taken(s, P)
<1>7. F = Def(F)
  <2> HIDE DEF Def
  <2> QED
    BY <1>5, <1>6
<1> HIDE DEF F
<1>8. F[0] = <<>>
  BY <1>7
<1>9. ASSUME NEW n \in Nat
      PROVE  F[n + 1] = IF n + 1 \in P THEN Append(F[n], s[n + 1]) ELSE F[n]
  <2>1. n + 1 \in Nat /\ n + 1 # 0 /\ (n + 1) - 1 = n
    OBVIOUS
  <2>2. F[n + 1] = Def(F)[n + 1]
    BY <1>7
  <2> QED
    BY <2>1, <2>2
<1>10. F \in [Nat -> W]
  <2> DEFINE E == {n \in Nat : F[n] \in W}
  <2>1. 0 \in E
    BY <1>2, <1>8
  <2>2. ASSUME NEW n \in E PROVE n + 1 \in E
    <3>1. n + 1 \in P => s[n + 1] \in V
      OBVIOUS
    <3>2. F[n + 1] = IF n + 1 \in P THEN Append(F[n], s[n + 1]) ELSE F[n]
      BY <1>9
    <3>3. n + 1 \in Nat /\ F[n] \in Seq(V)
      OBVIOUS
    <3>4. F[n + 1] \in Seq(V)
      BY <3>1, <3>2, <3>3, AppendProperties
    <3> QED
      BY <3>3, <3>4
  <2>3. \A n \in Nat : n \in E
    <3>1. E \in SUBSET Nat
      OBVIOUS
    <3> HIDE DEF E
    <3> QED
      BY <2>1, <2>2, <3>1, SetInduction
  <2>4. F = [n \in Nat |-> F[n]]
    BY <1>7
  <2> QED
    BY <2>3, <2>4
<1> QED
  BY <1>8, <1>9, <1>10 DEF F, Collects

\* Taken, for the positions of a sequence.
LEMMA TakenGrows ==
    ASSUME NEW V, NEW s \in Seq(V), NEW P \in SUBSET (1 .. Len(s))
    PROVE  Taken(s, P) \in [Nat -> Seq(V)] /\ Collects(Taken(s, P), s, P)
<1>1. \A i \in P : s[i] \in V
  BY ElementOfSeq
<1> QED
  BY <1>1, TakenFrom

\* What is not picked adds nothing.
LEMMA TakenSkips ==
    ASSUME NEW V, NEW s \in Seq(V), NEW P \in SUBSET (1 .. Len(s)),
           NEW n \in Nat, NEW m \in Nat, n <= m,
           \A i \in P : ~(n < i /\ i <= m)
    PROVE  Taken(s, P)[m] = Taken(s, P)[n]
<1> DEFINE F == Taken(s, P)
           E == {k \in Nat : n <= k /\ k <= m => F[k] = F[n]}
<1>0. \A k \in Nat : F[k + 1] = IF k + 1 \in P THEN Append(F[k], s[k + 1]) ELSE F[k]
  BY TakenGrows DEF Collects
<1> HIDE DEF F
<1>1. 0 \in E
  OBVIOUS
<1>2. ASSUME NEW k \in E PROVE k + 1 \in E
  <2>1. CASE k + 1 <= n
    BY <2>1
  <2>2. CASE n <= k /\ k + 1 <= m
    <3>1. k + 1 \notin P
      BY <2>2
    <3>2. F[k + 1] = F[k]
      BY <1>0, <3>1
    <3> QED
      BY <2>2, <3>2
  <2>3. CASE k + 1 > m
    BY <2>3
  <2> QED
    BY <2>1, <2>2, <2>3
<1>3. m \in E
  <2>1. E \in SUBSET Nat
    OBVIOUS
  <2> HIDE DEF E
  <2> QED
    BY <1>1, <1>2, <2>1, SetInduction
<1> QED
  BY <1>3 DEF F

\* What has been taken stays the beginning of what will be.
LEMMA TakenPrefix ==
    ASSUME NEW V, NEW s \in Seq(V), NEW P \in SUBSET (1 .. Len(s)),
           NEW n \in Nat, NEW m \in Nat, n <= m
    PROVE  /\ Len(Taken(s, P)[n]) <= Len(Taken(s, P)[m])
           /\ Taken(s, P)[n] = SubSeq(Taken(s, P)[m], 1, Len(Taken(s, P)[n]))
<1> DEFINE F == Taken(s, P)
           E == {k \in Nat : n <= k => /\ Len(F[n]) <= Len(F[k])
                                      /\ F[n] = SubSeq(F[k], 1, Len(F[n]))}
<1>0. /\ \A k \in Nat : F[k] \in Seq(V)
      /\ \A k \in Nat : F[k + 1] = IF k + 1 \in P THEN Append(F[k], s[k + 1]) ELSE F[k]
  BY TakenGrows DEF Collects
<1>a. F[n] \in Seq(V)
  BY <1>0
<1> HIDE DEF F
<1>b. Len(F[n]) <= Len(F[n]) /\ F[n] = SubSeq(F[n], 1, Len(F[n]))
  BY <1>a
<1>1. 0 \in E
  BY <1>b
<1>2. ASSUME NEW k \in E PROVE k + 1 \in E
  <2>1. CASE k + 1 < n
    BY <2>1
  <2>2. CASE k + 1 = n
    BY <1>b, <2>2
  <2>3. CASE n <= k
    <3>1. F[k] \in Seq(V) /\ Len(F[n]) <= Len(F[k]) /\ F[n] = SubSeq(F[k], 1, Len(F[n]))
      BY <1>0, <2>3
    <3>2. CASE k + 1 \notin P
      <4>1. F[k + 1] = F[k]
        BY <1>0, <3>2
      <4> QED
        BY <3>1, <4>1
    <3>3. CASE k + 1 \in P
      <4>1. s[k + 1] \in V
        BY <3>3, ElementOfSeq
      <4>2. F[k + 1] = Append(F[k], s[k + 1])
        BY <1>0, <3>3
      <4>3. Len(F[k + 1]) = Len(F[k]) + 1 /\ F[k + 1] \in Seq(V)
        BY <3>1, <4>1, <4>2
      <4>4. Len(F[n]) <= Len(F[k + 1])
        BY <1>a, <3>1, <4>3
      <4>5. SubSeq(F[k + 1], 1, Len(F[n])) = SubSeq(F[k], 1, Len(F[n]))
        BY <1>a, <3>1, <4>1, <4>2
      <4> QED
        BY <3>1, <4>4, <4>5
    <3> QED
      BY <3>2, <3>3
  <2> QED
    BY <2>1, <2>2, <2>3
<1>3. m \in E
  <2>1. E \in SUBSET Nat
    OBVIOUS
  <2> HIDE DEF E
  <2> QED
    BY <1>1, <1>2, <2>1, SetInduction
<1> QED
  BY <1>3 DEF F

\* What is taken of the first n elements depends on nothing behind them.
LEMMA TakenAlike ==
    ASSUME NEW V, NEW s \in Seq(V), NEW P \in SUBSET (1 .. Len(s)),
           NEW r \in Seq(V), NEW Q \in SUBSET (1 .. Len(r)), NEW n \in Nat,
           \A i \in 1 .. n : s[i] = r[i] /\ (i \in P <=> i \in Q)
    PROVE  Taken(s, P)[n] = Taken(r, Q)[n]
<1> DEFINE F == Taken(s, P)
           G == Taken(r, Q)
           E == {k \in Nat : k <= n => F[k] = G[k]}
<1>0. Collects(F, s, P)
  BY TakenGrows
<1>a. Collects(G, r, Q)
  BY TakenGrows
<1> HIDE DEF F, G
<1>1. 0 \in E
  BY <1>0, <1>a DEF Collects
<1>2. ASSUME NEW k \in E PROVE k + 1 \in E
  <2>1. k + 1 <= n => s[k + 1] = r[k + 1] /\ (k + 1 \in P <=> k + 1 \in Q)
    OBVIOUS
  <2>2. F[k + 1] = IF k + 1 \in P THEN Append(F[k], s[k + 1]) ELSE F[k]
    BY <1>0 DEF Collects
  <2>3. G[k + 1] = IF k + 1 \in Q THEN Append(G[k], r[k + 1]) ELSE G[k]
    BY <1>a DEF Collects
  <2> QED
    BY <2>1, <2>2, <2>3
<1>3. n \in E
  <2>1. E \in SUBSET Nat
    OBVIOUS
  <2> HIDE DEF E
  <2> QED
    BY <1>1, <1>2, <2>1, SetInduction
<1> QED
  BY <1>3 DEF F, G

-----------------------------------------------------------------------------
(***************************************************************************)
(* Handles of their own: NFS and SFTP.                                     *)
(***************************************************************************)
HandleKinds == {"nfs", "ssh"}

\* What a handle lists is a sequence.
IsHandleList(d) == want[d] \in Seq(Range(want[d]))

\* A DIR has passed over the entries up to its index and returned what dirnext
\* shows of them; one that has come to its end has nothing ahead.  What is said of
\* a DIR is said of one that is open.
OwnHandle ==
    kind \in HandleKinds =>
        /\ ended \subseteq opened
        /\ disturbed \subseteq opened
        /\ \A d \in opened :
              /\ IsHandleList(d)
              /\ idx[d] \in 0 .. Len(want[d])
              /\ seen[d] = Taken(want[d], Visible(want[d]))[idx[d]]
              /\ d \in ended \ disturbed => Ahead(d) = {}

\* What diropen gets is a sequence, of whatever.
LEMMA EntriesIsSeq ==
    ASSUME NEW p \in Opens
    PROVE  Entries(p) \in Seq(Range(Entries(p)))
<1> DEFINE listed == Lines[Folder(p)]
           lines  == IF kind = "ftp" THEN UFTP_ParseDirLine2(listed)
                     ELSE Picked(listed, {i \in DOMAIN listed : listed[i].kind \in {"file", "dots"}})
<1>1. listed \in Seq(Line)
  BY DirCacheAssumption
<1>2. DOMAIN listed = 1 .. Len(listed) /\ Len(listed) \in Nat
  BY <1>1
<1>3. ASSUME NEW P \in SUBSET (1 .. Len(listed)) PROVE Picked(listed, P) \in Seq(Line)
  <2> HIDE DEF listed
  <2> QED
    BY <1>1, <1>2, TakenGrows DEF Picked
<1>4. lines \in Seq(Line)
  BY <1>2, <1>3 DEF UFTP_ParseDirLine2
<1>5. Entries(p) = [i \in DOMAIN lines |-> Entry(p, lines[i])]
  BY DEF Entries
<1> HIDE DEF lines
<1>6. DOMAIN Entries(p) = 1 .. Len(lines) /\ Len(lines) \in Nat
  BY <1>4, <1>5
<1> QED
  BY <1>5, <1>6 DEF Range

\* Nothing is shown of nothing.
LEMMA TakenNothing ==
    ASSUME NEW w, w \in Seq(Range(w))
    PROVE  Taken(w, Visible(w))[0] = <<>>
<1>1. Visible(w) \in SUBSET (1 .. Len(w))
  BY DEF Visible
<1>2. Collects(Taken(w, Visible(w)), w, Visible(w))
  BY <1>1, TakenGrows
<1> QED
  BY <1>2 DEF Collects

\* Where the next entry to show is, there is a first.
LEMMA AheadFirst ==
    ASSUME NEW d \in opened, IsHandleList(d), Ahead(d) # {}
    PROVE  /\ Min(Ahead(d)) \in Ahead(d)
           /\ \A i \in Ahead(d) : Min(Ahead(d)) <= i
<1>1. Ahead(d) \in SUBSET Nat
  BY DEF Ahead, Visible, IsHandleList
<1>2. \E x \in Ahead(d) : \A y \in Ahead(d) : x <= y
  BY <1>1, Least
<1> QED
  BY <1>2 DEF Min

\* dirnext of a handle goes to the next entry to show, and returns it.
LEMMA ReadHandleTakes ==
    ASSUME Types, NEW d \in opened, IsHandleList(d), idx[d] \in 0 .. Len(want[d]),
           seen[d] = Taken(want[d], Visible(want[d]))[idx[d]], ReadHandle(d)
    PROVE  /\ idx'[d] \in 0 .. Len(want[d])
           /\ seen'[d] = Taken(want[d], Visible(want[d]))[idx'[d]]
           /\ \A e \in Dirs \ {d} : idx'[e] = idx[e] /\ seen'[e] = seen[e]
           /\ Len(seen'[d]) = Len(seen[d]) + 1
<1> DEFINE w == want[d]
           V == Visible(w)
           n == idx[d]
           m == Min(Ahead(d))
           F == Taken(w, V)
<1>1. d \in Dirs /\ Ahead(d) # {}
  BY DEF Types, ReadHandle
<1>2. /\ w \in Seq(Range(w)) /\ V \in SUBSET (1 .. Len(w)) /\ n \in 0 .. Len(w)
      /\ Len(w) \in Nat /\ n \in Nat
  BY DEF IsHandleList, Visible
<1>3. m \in V /\ n < m /\ m \in 1 .. Len(w) /\ \A i \in V : n < i => m <= i
  BY <1>1, <1>2, AheadFirst DEF Ahead
<1>4. idx'[d] = m /\ seen'[d] = Append(seen[d], w[m])
  BY <1>1 DEF ReadHandle, Types
<1>5. \A e \in Dirs \ {d} : idx'[e] = idx[e] /\ seen'[e] = seen[e]
  BY <1>1 DEF ReadHandle, Types
<1>6. seen[d] = F[n]
  OBVIOUS
<1> HIDE DEF w, V, n, m
<1>7. F \in [Nat -> Seq(Range(w))] /\ Collects(F, w, V)
  BY <1>2, TakenGrows
<1>8. F[m - 1] = F[n]
  <2>1. m - 1 \in Nat /\ n <= m - 1
    BY <1>2, <1>3
  <2>2. \A i \in V : ~(n < i /\ i <= m - 1)
    BY <1>2, <1>3
  <2> QED
    BY <1>2, <2>1, <2>2, TakenSkips
<1> HIDE DEF F
<1>9. F[m] = Append(F[n], w[m])
  <2>1. m - 1 \in Nat /\ (m - 1) + 1 = m
    BY <1>2, <1>3
  <2>2. F[(m - 1) + 1] = IF (m - 1) + 1 \in V THEN Append(F[m - 1], w[(m - 1) + 1]) ELSE F[m - 1]
    BY <1>7, <2>1 DEF Collects
  <2> QED
    BY <1>3, <1>8, <2>1, <2>2
<1>10. Len(seen'[d]) = Len(seen[d]) + 1
  <2>1. F[n] \in Seq(Range(w)) /\ w[m] \in Range(w)
    BY <1>2, <1>3, <1>7 DEF Range
  <2> QED
    BY <1>4, <1>6, <2>1
<1>11. idx'[d] \in 0 .. Len(w)
  BY <1>3, <1>4
<1>12. seen'[d] = F[idx'[d]]
  BY <1>4, <1>6, <1>9
<1> QED
  BY <1>5, <1>10, <1>11, <1>12 DEF w, V, F

\* A handle with nothing to show ahead of it has shown all there is.
LEMMA NothingAhead ==
    ASSUME NEW d \in opened, IsHandleList(d), idx[d] \in 0 .. Len(want[d]), Ahead(d) = {}
    PROVE  Taken(want[d], Visible(want[d]))[idx[d]] = Picked(want[d], Visible(want[d]))
<1> DEFINE w == want[d]
           V == Visible(w)
           n == idx[d]
<1>1. /\ w \in Seq(Range(w)) /\ V \in SUBSET (1 .. Len(w)) /\ n \in Nat
      /\ Len(w) \in Nat /\ n <= Len(w)
  BY DEF IsHandleList, Visible
<1>2. \A i \in V : ~(n < i /\ i <= Len(w))
  BY <1>1 DEF Ahead
<1> HIDE DEF w, V, n
<1>3. Taken(w, V)[Len(w)] = Taken(w, V)[n]
  BY <1>1, <1>2, TakenSkips
<1> QED
  BY <1>3 DEF Picked, w, V, n

\* What is shown of the entries before an index is what is shown of the list up to it.
LEMMA ShownBefore ==
    ASSUME NEW w, w \in Seq(Range(w)), NEW n \in 0 .. Len(w)
    PROVE  Picked(SubSeq(w, 1, n), Visible(SubSeq(w, 1, n))) = Taken(w, Visible(w))[n]
<1> DEFINE r == SubSeq(w, 1, n)
           V == Visible(w)
           Q == Visible(r)
<1>1. r \in Seq(Range(w)) /\ Len(r) = n /\ n \in Nat /\ \A i \in 1 .. n : r[i] = w[i]
  OBVIOUS
<1>2. V \in SUBSET (1 .. Len(w)) /\ Q \in SUBSET (1 .. Len(r))
  BY <1>1 DEF Visible
<1>3. \A i \in 1 .. n : w[i] = r[i] /\ (i \in V <=> i \in Q)
  BY <1>1 DEF Visible
<1> HIDE DEF r, V, Q
<1>4. Taken(w, V)[n] = Taken(r, Q)[n]
  BY <1>1, <1>2, <1>3, TakenAlike
<1> QED
  BY <1>1, <1>4 DEF Picked, r, V, Q

\* The steps of a mount with handles keep what is said of them.
LEMMA NextOwnHandle ==
    ASSUME Types, FillerAlone, OwnHandle, Next
    PROVE  OwnHandle'
<1> SUFFICES ASSUME kind \in HandleKinds PROVE OwnHandle'
  BY DEF Next, OwnHandle
<1> USE DEF HandleKinds
<1>0. /\ ended \subseteq opened /\ disturbed \subseteq opened /\ opened \subseteq Dirs
      /\ UNCHANGED kind
      /\ \A d \in opened :
              /\ IsHandleList(d)
              /\ idx[d] \in 0 .. Len(want[d])
              /\ seen[d] = Taken(want[d], Visible(want[d]))[idx[d]]
              /\ d \in ended \ disturbed => Ahead(d) = {}
  BY DEF OwnHandle, Types, Next
\* It is enough to look at each DIR by itself.
<1>a. ASSUME ended' \subseteq opened', disturbed' \subseteq opened',
             \A d \in opened' :
              /\ want'[d] \in Seq(Range(want'[d]))
              /\ idx'[d] \in 0 .. Len(want'[d])
              /\ seen'[d] = Taken(want'[d], Visible(want'[d]))[idx'[d]]
              /\ d \in ended' \ disturbed' => \A i \in Visible(want'[d]) : ~(i > idx'[d])
      PROVE  OwnHandle'
  BY <1>a DEF OwnHandle, IsHandleList, Ahead
<1>b. ASSUME NEW d \in opened, want'[d] = want[d], idx'[d] = idx[d], seen'[d] = seen[d],
             d \in ended' \ disturbed' => d \in ended \ disturbed
      PROVE   /\ want'[d] \in Seq(Range(want'[d]))
              /\ idx'[d] \in 0 .. Len(want'[d])
              /\ seen'[d] = Taken(want'[d], Visible(want'[d]))[idx'[d]]
              /\ d \in ended' \ disturbed' => \A i \in Visible(want'[d]) : ~(i > idx'[d])
  BY <1>0, <1>b DEF IsHandleList, Ahead
<1>1. ASSUME UNCHANGED <<opened, idx, history>> PROVE OwnHandle'
  BY <1>0, <1>1, <1>a, <1>b DEF history
<1>2. ASSUME NEW d \in Dirs, NEW p \in Opens, OpenHandle(d, p) PROVE OwnHandle'
  <2>1. /\ opened' = opened \cup {d} /\ d \notin opened
        /\ UNCHANGED <<ended, disturbed>>
        /\ want'[d] = Entries(p) /\ idx'[d] = 0 /\ seen'[d] = <<>>
        /\ \A e \in Dirs \ {d} : want'[e] = want[e] /\ idx'[e] = idx[e] /\ seen'[e] = seen[e]
    BY <1>2 DEF OpenHandle, Types
  <2>2. Entries(p) \in Seq(Range(Entries(p)))
    BY EntriesIsSeq
  <2>3. Taken(Entries(p), Visible(Entries(p)))[0] = <<>>
    <3> DEFINE w == Entries(p)
    <3> HIDE DEF w
    <3>1. Taken(w, Visible(w))[0] = <<>>
      BY <2>2, TakenNothing DEF w
    <3> QED
      BY <3>1 DEF w
  <2>4. Len(Entries(p)) \in Nat
    BY <2>2
  <2>5. d \notin ended'
    BY <1>0, <2>1
  <2>6. /\ want'[d] \in Seq(Range(want'[d]))
        /\ idx'[d] \in 0 .. Len(want'[d])
        /\ seen'[d] = Taken(want'[d], Visible(want'[d]))[idx'[d]]
    BY <2>1, <2>2, <2>3, <2>4
  <2>7. \A e \in opened : e \in Dirs \ {d}
    BY <1>0, <2>1
  <2> QED
    BY <1>0, <1>a, <1>b, <2>1, <2>5, <2>6, <2>7
<1>3. ASSUME NEW d \in opened, ReadHandle(d), UNCHANGED <<opened, want, disturbed>>
      PROVE  OwnHandle'
  <2>1. /\ idx'[d] \in 0 .. Len(want[d])
        /\ seen'[d] = Taken(want[d], Visible(want[d]))[idx'[d]]
        /\ \A e \in Dirs \ {d} : idx'[e] = idx[e] /\ seen'[e] = seen[e]
    BY <1>0, <1>3, ReadHandleTakes
  <2>2. d \notin ended \ disturbed /\ UNCHANGED ended
    BY <1>0, <1>3 DEF ReadHandle
  <2> QED
    BY <1>0, <1>3, <1>a, <1>b, <2>1, <2>2 DEF IsHandleList
<1>4. ASSUME NEW d \in opened, HandleAtEnd(d), UNCHANGED <<opened, want, disturbed>>
      PROVE  OwnHandle'
  <2>1. /\ idx'[d] = Len(want[d]) /\ UNCHANGED seen /\ ended' = ended \cup {d}
        /\ \A e \in Dirs \ {d} : idx'[e] = idx[e]
    BY <1>0, <1>4 DEF HandleAtEnd, Types
  <2>2. seen[d] = Taken(want[d], Visible(want[d]))[Len(want[d])]
    BY <1>0, <1>4, NothingAhead DEF HandleAtEnd, Picked
  <2>3. Len(want[d]) \in Nat /\ \A i \in Visible(want[d]) : ~(i > Len(want[d]))
    BY <1>0 DEF IsHandleList, Visible
  <2>4. Len(want[d]) \in 0 .. Len(want[d])
    BY <2>3
  <2> QED
    BY <1>0, <1>4, <1>a, <1>b, <2>1, <2>2, <2>3, <2>4 DEF IsHandleList
<1>5. ASSUME NEW d \in opened, ended' = ended \cup {d}, disturbed' = disturbed \cup {d},
             UNCHANGED <<opened, want, idx, seen>>
      PROVE  OwnHandle'
  BY <1>0, <1>5, <1>a, <1>b
<1>6. ASSUME NEW d \in Dirs, nfsfs_dirreset(d) PROVE OwnHandle'
  <2>1. /\ d \in opened /\ UNCHANGED <<opened, want, disturbed>> /\ ended' = ended \ {d}
        /\ idx'[d] = 0 /\ seen'[d] = <<>>
        /\ \A e \in Dirs \ {d} : idx'[e] = idx[e] /\ seen'[e] = seen[e]
    BY <1>6 DEF nfsfs_dirreset, Types
  <2>2. Len(want[d]) \in Nat /\ want[d] \in Seq(Range(want[d]))
    BY <1>0, <2>1 DEF IsHandleList
  <2>3. Taken(want[d], Visible(want[d]))[0] = <<>>
    <3> DEFINE w == want[d]
    <3> HIDE DEF w
    <3>1. Taken(w, Visible(w))[0] = <<>>
      BY <2>2, TakenNothing DEF w
    <3> QED
      BY <3>1 DEF w
  <2>4. 0 \in 0 .. Len(want[d])
    BY <2>2
  <2> QED
    BY <1>0, <1>a, <1>b, <2>1, <2>2, <2>3, <2>4
<1>7. ASSUME NEW d \in Dirs, dirclose(d) PROVE OwnHandle'
  <2>1. /\ opened' = opened \ {d} /\ ended' = ended \ {d} /\ disturbed' = disturbed \ {d}
        /\ \A e \in Dirs \ {d} : want'[e] = want[e] /\ idx'[e] = idx[e] /\ seen'[e] = seen[e]
    BY <1>7 DEF dirclose, Types
  <2> QED
    BY <1>0, <1>a, <1>b, <2>1
<1>8. \A d \in Dirs : ~Listing(d)
  BY DEF FillerAlone, SharedKinds, Listing, ReadEntry, DirOpened,
     UFTP_DirReadline_times_out, GetPathDir_fails, DirOpenFails
<1>9. ASSUME NEW d \in Dirs, DirNext(d) PROVE OwnHandle'
  <2>1. d \in opened /\ UNCHANGED <<opened, want>>
    BY <1>9 DEF DirNext, ftpfs_dirnext, smb2fs_dirnext, iso9660fs_dirnext, nfsfs_dirnext,
       sshfs_dirnext
  <2>2. \/ (ReadHandle(d) \/ HandleAtEnd(d)) /\ UNCHANGED disturbed
        \/ /\ ended' = ended \cup {d} /\ disturbed' = disturbed \cup {d}
           /\ UNCHANGED <<idx, seen>>
    BY <1>9 DEF DirNext, ftpfs_dirnext, smb2fs_dirnext, iso9660fs_dirnext, nfsfs_dirnext,
       sshfs_dirnext
  <2> QED
    BY <1>3, <1>4, <1>5, <2>1, <2>2
<1>10. ASSUME NEW d \in Dirs, NEW p \in Opens, DirOpen(d, p) PROVE OwnHandle'
  BY <1>2, <1>10 DEF DirOpen, ftpfs_diropen, smb2fs_diropen, iso9660fs_diropen,
     nfsfs_diropen, sshfs_diropen
<1>11. ASSUME NEW c \in Callers, ftpfs_stat(c) \/ smb2fs_stat(c) \/ AskServer(c)
       PROVE  OwnHandle'
  BY <1>1, <1>11 DEF ftpfs_stat, smb2fs_stat, AskServer, StartStat, listing
<1>12. ASSUME NEW f \in Files, Change(f) PROVE OwnHandle'
  BY <1>1, <1>12 DEF Change, listing
<1> QED
  BY <1>6, <1>7, <1>8, <1>9, <1>10, <1>11, <1>12 DEF Next, Step

-----------------------------------------------------------------------------
(***************************************************************************)
(* The theorems.                                                           *)
(***************************************************************************)
IInv ==
    /\ kind \in SharedKinds \cup HandleKinds
    /\ Types
    /\ IsList
    /\ FillerAlone
    /\ OwnList
    /\ OwnHandle
    /\ ScanInside

\* The invariant holds at first.
LEMMA InitIInv == Init => IInv
<1> SUFFICES ASSUME Init PROVE IInv
  OBVIOUS
<1>1. kind \in SharedKinds \cup HandleKinds
  BY DirCacheAssumption DEF Init, SharedKinds, HandleKinds
<1>2. Types /\ IsList /\ FillerAlone /\ OwnList /\ ScanInside
  BY DirCacheAssumption DEF Init, Types, IsList, FillerAlone, OwnList, ScanInside
<1>3. OwnHandle
  BY DEF Init, OwnHandle
<1> QED
  BY <1>1, <1>2, <1>3 DEF IInv

\* Every step keeps it.
LEMMA NextIInv == IInv /\ [Next]_vars => IInv'
<1>1. ASSUME IInv, Next PROVE IInv'
  <2>1. UNCHANGED kind
    BY <1>1 DEF Next
  <2> QED
    BY <1>1, <2>1, NextTypes, NextIsList, NextFiller, NextOwnList, NextOwnHandle, NextScan
       DEF IInv
<1>2. ASSUME IInv, UNCHANGED vars PROVE IInv'
  BY <1>2 DEF vars, listing, history, stats, IInv, Types, IsList, FillerAlone, OwnList,
     OwnHandle, IsHandleList, Ahead, ScanInside
<1> QED
  BY <1>1, <1>2

\* So it always holds.
LEMMA SpecIInv == Spec => []IInv
  BY InitIInv, NextIInv, PTL DEF Spec

\* A DIR whose list no other diropen has cleared has returned, since it was opened,
\* rewound or last came to its end, what its own diropen read and dirnext shows, each
\* entry once and in order, and no diropen is under way.  For any directories, DIRs,
\* threads and failures of a diropen, and for all five classes.
THEOREM ListingsOrderly == Spec => []OrderlyListing
<1>1. IInv => OrderlyListing
  <2> SUFFICES ASSUME IInv, NEW d \in opened \ disturbed
               PROVE  /\ mutex \notin Dirs
                      /\ seen[d] = Shown(SubSeq(want[d], 1, idx[d]))
    BY DEF OrderlyListing
  <2>1. mutex \notin Dirs
    BY DEF IInv, FillerAlone
  <2>2. CASE kind \in SharedKinds
    <3>1. seen[d] = SubSeq(want[d], 1, idx[d])
      BY <2>2 DEF IInv, OwnList
    <3>2. Shown(SubSeq(want[d], 1, idx[d])) = SubSeq(want[d], 1, idx[d])
      BY <2>2 DEF Shown, SharedKinds
    <3> QED
      BY <2>1, <3>1, <3>2
  <2>3. CASE kind \in HandleKinds
    <3>1. /\ want[d] \in Seq(Range(want[d])) /\ idx[d] \in 0 .. Len(want[d])
          /\ seen[d] = Taken(want[d], Visible(want[d]))[idx[d]]
      BY <2>3 DEF IInv, OwnHandle, IsHandleList
    <3>2. Shown(SubSeq(want[d], 1, idx[d]))
          = Picked(SubSeq(want[d], 1, idx[d]), Visible(SubSeq(want[d], 1, idx[d])))
      BY <2>3 DEF Shown, HandleKinds
    <3> QED
      BY <2>1, <3>1, <3>2, ShownBefore
  <2> QED
    BY <2>2, <2>3 DEF IInv
<1> QED
  BY <1>1, SpecIInv, PTL

\* When dirnext of such a DIR first reports the end, nothing has been left out.
THEOREM ListingsComplete == Spec => CompleteListing
<1>1. IInv /\ [Next]_vars
      => [\A d \in Dirs : d \in ended' \ ended /\ d \notin disturbed'
                            => seen[d] = Shown(want[d])]_vars
  <2> SUFFICES ASSUME IInv, Next,
                      NEW d \in Dirs, d \in ended' \ ended, d \notin disturbed'
               PROVE  seen[d] = Shown(want[d])
    OBVIOUS
  <2>1. d \in opened /\ d \notin disturbed
    BY DEF Next, Step, DirOpen, Listing, DirNext, Change, ftpfs_diropen,
       smb2fs_diropen, iso9660fs_diropen, nfsfs_diropen, sshfs_diropen, StartListing,
       OpenHandle, ReadEntry, DirOpened, Opened, UFTP_DirReadline_times_out,
       GetPathDir_fails, DirOpenFails, ftpfs_dirnext, smb2fs_dirnext, iso9660fs_dirnext,
       NextEntry, AtEnd, nfsfs_dirnext, sshfs_dirnext, ReadHandle, HandleAtEnd,
       nfsfs_dirreset, dirclose, ftpfs_stat, smb2fs_stat, AskServer, StartStat, history
  <2>2. \/ kind \in SharedKinds /\ AtEnd(d)
        \/ kind \in HandleKinds /\ HandleAtEnd(d)
    BY DEF SharedKinds, HandleKinds, Next, Step, DirOpen, Listing, DirNext, Change,
       ftpfs_diropen, smb2fs_diropen, iso9660fs_diropen, nfsfs_diropen, sshfs_diropen,
       StartListing, OpenHandle, ReadEntry, DirOpened, Opened, UFTP_DirReadline_times_out,
       GetPathDir_fails, DirOpenFails, ftpfs_dirnext, smb2fs_dirnext, iso9660fs_dirnext,
       NextEntry, AtEnd, nfsfs_dirnext, sshfs_dirnext, ReadHandle, HandleAtEnd,
       nfsfs_dirreset, dirclose, ftpfs_stat, smb2fs_stat, AskServer, StartStat, history
  <2>3. CASE kind \in SharedKinds /\ AtEnd(d)
    <3>1. idx[d] >= Len(cache)
      BY <2>3 DEF AtEnd
    <3>2. /\ want[d] = cache
          /\ idx[d] \in 0 .. Len(cache)
          /\ seen[d] = SubSeq(cache, 1, idx[d])
      BY <2>1, <2>3 DEF IInv, OwnList
    <3>3. Len(cache) \in Nat /\ SubSeq(cache, 1, Len(cache)) = cache
      BY SubSeqGrows DEF IInv, IsList
    <3>4. seen[d] = want[d]
      BY <3>1, <3>2, <3>3
    <3> QED
      BY <2>3, <3>4 DEF Shown, SharedKinds
  <2>4. CASE kind \in HandleKinds /\ HandleAtEnd(d)
    <3>1. /\ IsHandleList(d) /\ idx[d] \in 0 .. Len(want[d])
          /\ seen[d] = Taken(want[d], Visible(want[d]))[idx[d]]
          /\ Ahead(d) = {}
      BY <2>1, <2>4 DEF IInv, OwnHandle, HandleAtEnd
    <3>2. seen[d] = Picked(want[d], Visible(want[d]))
      BY <2>1, <3>1, NothingAhead
    <3> QED
      BY <2>4, <3>2 DEF Shown, HandleKinds
  <2> QED
    BY <2>2, <2>3, <2>4
<1> QED
  BY <1>1, SpecIInv, PTL DEF Spec, CompleteListing

\* While a diropen clears and grows the list, no dirnext takes from it, and no stat
\* walks through it but one of SMB.
THEOREM NobodyReadsWhileFilled == Spec => NoUseWhileFilled
<1>1. IInv /\ [Next]_vars
      => [\/ mutex \notin Dirs
          \/ /\ UNCHANGED seen
             /\ \A c \in Callers : pc[c] # "scan" \/ pc'[c] = "scan" \/ kind = "smb"]_vars
  <2> SUFFICES ASSUME IInv, Next, mutex \in Dirs
               PROVE  /\ UNCHANGED seen
                      /\ \A c \in Callers : pc[c] # "scan" \/ pc'[c] = "scan" \/ kind = "smb"
    OBVIOUS
  <2>1. mutex # Nobody /\ mutex \notin Callers /\ kind \in SharedKinds
    BY DirCacheAssumption DEF IInv, FillerAlone
  <2>2. UNCHANGED seen
    BY <2>1 DEF SharedKinds, Next, Step, DirOpen, Listing, DirNext, Change, ftpfs_diropen,
       smb2fs_diropen, iso9660fs_diropen, nfsfs_diropen, sshfs_diropen, StartListing,
       ReadEntry, DirOpened, Opened, UFTP_DirReadline_times_out, GetPathDir_fails,
       DirOpenFails, ftpfs_dirnext, smb2fs_dirnext, iso9660fs_dirnext,
       nfsfs_dirnext, sshfs_dirnext, nfsfs_dirreset, dirclose, ftpfs_stat, smb2fs_stat,
       AskServer, StartStat, history
  <2>3. ASSUME NEW c \in Callers, pc[c] = "scan", kind # "smb"
        PROVE  pc'[c] = "scan"
    <3>1. kind # "ftp"
      BY <2>1, <2>3 DEF IInv, ScanInside
    <3>2. UNCHANGED pc
      BY <2>1, <2>3, <3>1 DEF SharedKinds, Next, Step, DirOpen, Listing, DirNext, Change,
         ftpfs_diropen, smb2fs_diropen, iso9660fs_diropen, nfsfs_diropen, sshfs_diropen,
         StartListing, ReadEntry, DirOpened, Opened, UFTP_DirReadline_times_out,
         GetPathDir_fails, DirOpenFails, ftpfs_dirnext, smb2fs_dirnext, iso9660fs_dirnext,
         NextEntry, AtEnd, nfsfs_dirnext, sshfs_dirnext, nfsfs_dirreset, dirclose,
         ftpfs_stat, smb2fs_stat, AskServer, stats
    <3> QED
      BY <2>3, <3>2
  <2> QED
    BY <2>2, <2>3
<1> QED
  BY <1>1, SpecIInv, PTL DEF Spec, NoUseWhileFilled

-----------------------------------------------------------------------------
(***************************************************************************)
(* The refinement of DirStream.  A diropen that clears the list takes all  *)
(* streams away at once, and none is there until it returns; a handle is a *)
(* stream from diropen to dirclose, unless the server reports an error.    *)
(***************************************************************************)
\* The lists of the streams, as DirStream sees them.
Lists == [d \in Dirs |-> IF d \in Streams THEN Shown(want[d]) ELSE <<>>]

\* What is shown of a list depends on the list and on the class.
LEMMA ShownStays ==
    ASSUME UNCHANGED kind
    PROVE  \A d : want'[d] = want[d] => Shown(want[d])' = Shown(want[d])
  BY DEF Shown

\* What a stream is depends on nothing but the DIRs that are streams.
LEMMA SameStreams ==
    ASSUME UNCHANGED kind, UNCHANGED Streams,
           ended' \cap Streams = ended \cap Streams,
           \A e \in Streams : want'[e] = want[e] /\ seen'[e] = seen[e]
    PROVE  UNCHANGED Stream!vars
<1>1. \A e \in Streams : Shown(want[e])' = Shown(want[e])
  BY ShownStays
<1>2. UNCHANGED Lists
  BY <1>1 DEF Lists
<1> QED
  BY <1>2 DEF Stream!vars, Lists

\* Streams go, all or some of them.
LEMMA StreamsClosed ==
    ASSUME UNCHANGED kind,
           Streams' \subseteq Streams, Streams \subseteq Dirs,
           \A e \in Streams' : want'[e] = want[e] /\ seen'[e] = seen[e]
                               /\ (e \in ended' <=> e \in ended)
    PROVE  [Stream!Next]_Stream!vars
<1> DEFINE closed == Streams \ Streams'
<1>1. CASE closed = {}
  <2>1. UNCHANGED Streams /\ ended' \cap Streams = ended \cap Streams
    BY <1>1
  <2> QED
    BY <2>1, SameStreams
<1>2. CASE closed # {}
  <2>1. closed \in SUBSET Streams
    OBVIOUS
  <2>2. \A e \in Streams' : Shown(want[e])' = Shown(want[e])
    BY ShownStays
  <2>3. \A e \in Streams' : Lists'[e] = Lists[e]
    BY <2>2 DEF Lists
  <2>4. Stream!Close(closed)
    BY <2>3 DEF Stream!Close, Lists
  <2> QED
    BY <1>2, <2>1, <2>4 DEF Stream!Next, Stream!Close, Lists
<1> QED
  BY <1>1, <1>2

\* Without streams before and after there is nothing to see.
LEMMA NoStreams ==
    ASSUME Streams = {}, Streams' = {}
    PROVE  UNCHANGED Stream!vars
  BY DEF Stream!vars

\* diropen returns: the DIR is the only stream there is.
LEMMA OpenedStream ==
    ASSUME IInv, IInv', UNCHANGED kind, NEW d \in Dirs, mutex = d, Opened(d)
    PROVE  [Stream!Next]_Stream!vars
<1>1. Streams = {}
  BY DEF IInv, FillerAlone, Streams
<1>2. Streams' \subseteq {d}
  BY DEF IInv, FillerAlone, Streams, Opened
<1>3. CASE Streams' = {}
  BY <1>1, <1>3, NoStreams
<1>4. CASE Streams' = {d}
  <2>1. seen'[d] = <<>> /\ d \notin ended'
    BY DEF IInv, FillerAlone, Opened
  <2>2. Stream!Open(d)
    BY <1>1, <1>4, <2>1 DEF Stream!Open, Stream!Others
  <2> QED
    BY <2>2 DEF Stream!Next
<1> QED
  BY <1>2, <1>3, <1>4

\* A stream returns what comes after what it has returned.
LEMMA StreamReturns ==
    ASSUME UNCHANGED <<kind, Streams, want, ended>>, Streams \subseteq Dirs,
           NEW d \in Streams, d \notin ended,
           \A e \in Streams \ {d} : seen'[e] = seen[e],
           Len(seen[d]) < Len(Shown(want[d])),
           seen'[d] = SubSeq(Shown(want[d]), 1, Len(seen[d]) + 1)
    PROVE  [Stream!Next]_Stream!vars
<1>1. \A e \in Streams : Shown(want[e])' = Shown(want[e])
  BY ShownStays
<1>2. UNCHANGED Lists /\ Lists[d] = Shown(want[d])
  BY <1>1 DEF Lists
<1>3. Stream!Others(d)
  BY <1>2 DEF Stream!Others, Lists
<1>4. Stream!Return(d)
  BY <1>2, <1>3 DEF Stream!Return, Lists
<1> QED
  BY <1>4 DEF Stream!Next

\* A stream reports its end when all has been returned.
LEMMA StreamEnds ==
    ASSUME UNCHANGED <<kind, Streams, want, seen>>, Streams \subseteq Dirs,
           NEW d \in Streams, ended' = ended \cup {d}, seen[d] = Shown(want[d])
    PROVE  [Stream!Next]_Stream!vars
<1>1. \A e \in Streams : Shown(want[e])' = Shown(want[e])
  BY ShownStays
<1>2. UNCHANGED Lists /\ Lists[d] = Shown(want[d])
  BY <1>1 DEF Lists
<1>3. Stream!End(d)
  BY <1>2 DEF Stream!End, Lists
<1> QED
  BY <1>3 DEF Stream!Next

\* dirnext of a stream returns the entry after those it has returned.
LEMMA NextEntryStream ==
    ASSUME IInv, IInv', UNCHANGED kind, kind \in SharedKinds, NEW d \in opened, NextEntry(d)
    PROVE  [Stream!Next]_Stream!vars
<1> USE DEF SharedKinds
<1>1. UNCHANGED <<Streams, want, ended, cache>> /\ Types /\ Len(cache) \in Nat
  BY DEF NextEntry, Streams, IInv, IsList
<1>2. \A e \in Dirs \ {d} : seen'[e] = seen[e]
  BY <1>1 DEF NextEntry, Types
<1>3. d \in Dirs /\ Streams \subseteq Dirs
  BY <1>1 DEF Types, Streams
<1>4. CASE d \in Streams
  <2>1. /\ kind # "smb" /\ want[d] = cache
        /\ idx[d] \in 0 .. Len(cache) /\ idx[d] < Len(cache)
        /\ seen[d] = SubSeq(cache, 1, idx[d])
        /\ d \notin ended
    BY <1>4 DEF Streams, IInv, OwnList, NextEntry
  <2>2. /\ idx'[d] = idx[d] + 1
        /\ seen'[d] = SubSeq(cache, 1, idx[d] + 1)
    BY <1>1, <1>3, <2>1, SubSeqGrows DEF NextEntry, Types, IInv, IsList
  <2>3. Len(seen[d]) = idx[d]
    BY <2>1 DEF IInv, IsList
  <2>4. Shown(want[d]) = cache
    BY <2>1 DEF Shown
  <2> QED
    BY <1>1, <1>2, <1>3, <1>4, <2>1, <2>2, <2>3, <2>4, StreamReturns
<1>5. CASE d \notin Streams
  BY <1>1, <1>2, <1>3, <1>5, SameStreams
<1> QED
  BY <1>4, <1>5

\* dirnext of a stream reports the end when all has been returned.
LEMMA AtEndStream ==
    ASSUME IInv, IInv', UNCHANGED kind, kind \in SharedKinds, NEW d \in opened, AtEnd(d),
           kind = "smb" \/ UNCHANGED <<idx, seen>>
    PROVE  [Stream!Next]_Stream!vars
<1> USE DEF SharedKinds
<1>1. CASE kind = "smb"
  BY <1>1, NoStreams DEF Streams
<1>2. CASE kind # "smb"
  <2>1. /\ UNCHANGED <<Streams, want, seen, cache>> /\ ended' = ended \cup {d}
        /\ d \in Dirs /\ Len(cache) \in Nat /\ Streams \subseteq Dirs
    BY <1>2 DEF AtEnd, Streams, IInv, Types, IsList
  <2>2. CASE d \in Streams
    <3>1. /\ want[d] = cache /\ idx[d] = Len(cache)
          /\ seen[d] = SubSeq(cache, 1, idx[d])
      BY <2>1, <2>2 DEF Streams, IInv, OwnList, AtEnd
    <3>2. seen[d] = Shown(want[d])
      BY <3>1, SubSeqGrows DEF IInv, IsList, Shown
    <3> QED
      BY <2>1, <2>2, <3>2, StreamEnds
  <2>3. CASE d \notin Streams
    BY <2>1, <2>3, SameStreams
  <2> QED
    BY <2>2, <2>3
<1> QED
  BY <1>1, <1>2

\* The same of a handle, which passes over the directory and the one above.
LEMMA ReadHandleStream ==
    ASSUME IInv, IInv', UNCHANGED kind, kind \in HandleKinds, NEW d \in opened,
           ReadHandle(d), UNCHANGED <<opened, want, disturbed>>
    PROVE  [Stream!Next]_Stream!vars
<1> USE DEF HandleKinds
<1>1. UNCHANGED <<Streams, want, ended>> /\ Types
  BY DEF ReadHandle, Streams, IInv
<1>2. d \in Dirs /\ Streams \subseteq Dirs
  BY <1>1 DEF Types, Streams
<1>3. /\ IsHandleList(d) /\ idx[d] \in 0 .. Len(want[d])
      /\ seen[d] = Taken(want[d], Visible(want[d]))[idx[d]]
      /\ d \in ended \ disturbed => Ahead(d) = {}
  BY DEF IInv, OwnHandle
<1>4. /\ idx'[d] \in 0 .. Len(want[d])
      /\ seen'[d] = Taken(want[d], Visible(want[d]))[idx'[d]]
      /\ \A e \in Dirs \ {d} : seen'[e] = seen[e]
      /\ Len(seen'[d]) = Len(seen[d]) + 1
  BY <1>1, <1>3, ReadHandleTakes
<1>5. CASE d \in Streams
  <2>1. d \notin ended
    BY <1>3, <1>5 DEF Streams, ReadHandle
  <2> DEFINE w == want[d]
             V == Visible(w)
             m == idx'[d]
  <2>2. w \in Seq(Range(w)) /\ V \in SUBSET (1 .. Len(w)) /\ Len(w) \in Nat
        /\ m \in Nat /\ m <= Len(w)
    BY <1>3, <1>4 DEF IsHandleList, Visible
  <2>3. Shown(w) = Picked(w, V)
    BY DEF Shown
  <2>4. seen'[d] = Taken(w, V)[m]
    BY <1>4
  <2>5. seen[d] \in Seq(Range(w))
    <3>1. idx[d] \in Nat
      BY <1>3, <2>2
    <3> HIDE DEF w, V
    <3>2. Taken(w, V) \in [Nat -> Seq(Range(w))]
      BY <2>2, TakenGrows
    <3> QED
      BY <1>3, <3>1, <3>2 DEF w, V
  <2> HIDE DEF w, V, m
  <2>6. /\ Len(Taken(w, V)[m]) <= Len(Taken(w, V)[Len(w)])
        /\ Taken(w, V)[m] = SubSeq(Taken(w, V)[Len(w)], 1, Len(Taken(w, V)[m]))
    BY <2>2, TakenPrefix
  <2>7. Taken(w, V) \in [Nat -> Seq(Range(w))]
    BY <2>2, TakenGrows
  <2>8. Len(seen[d]) \in Nat /\ Len(Shown(w)) \in Nat
    <3>1. Shown(w) \in Seq(Range(w))
      BY <2>2, <2>3, <2>7 DEF Picked
    <3> QED
      BY <2>5, <3>1
  <2>9. Len(seen[d]) < Len(Shown(w))
    BY <1>4, <2>3, <2>4, <2>6, <2>8 DEF Picked
  <2>10. seen'[d] = SubSeq(Shown(w), 1, Len(seen[d]) + 1)
    BY <1>4, <2>3, <2>4, <2>6 DEF Picked
  <2> QED
    BY <1>1, <1>2, <1>4, <1>5, <2>1, <2>9, <2>10, StreamReturns DEF w
<1>6. CASE d \notin Streams
  BY <1>1, <1>2, <1>4, <1>6, SameStreams
<1> QED
  BY <1>5, <1>6

\* A handle at its end ends its stream.
LEMMA HandleAtEndStream ==
    ASSUME IInv, IInv', UNCHANGED kind, kind \in HandleKinds, NEW d \in opened,
           HandleAtEnd(d), UNCHANGED <<opened, want, disturbed>>
    PROVE  [Stream!Next]_Stream!vars
<1>1. /\ UNCHANGED <<Streams, want, seen>> /\ ended' = ended \cup {d}
      /\ Streams \subseteq Dirs
  BY DEF HandleAtEnd, Streams, IInv, Types
<1>2. CASE d \in Streams
  <2>1. seen[d] = Shown(want[d])
    BY NothingAhead DEF HandleAtEnd, IInv, OwnHandle, Shown, HandleKinds
  <2> QED
    BY <1>1, <1>2, <2>1, StreamEnds
<1>3. CASE d \notin Streams
  BY <1>1, <1>3, SameStreams
<1> QED
  BY <1>2, <1>3

\* A handle is opened beside the others, rewound, or given up after an error.
LEMMA OpenHandleStream ==
    ASSUME IInv, IInv', UNCHANGED kind, kind \in HandleKinds,
           NEW d \in Dirs, NEW p \in Opens, OpenHandle(d, p)
    PROVE  [Stream!Next]_Stream!vars
<1> USE DEF HandleKinds
<1>1. /\ d \notin opened /\ d \notin ended /\ d \notin disturbed
      /\ UNCHANGED <<ended, disturbed>> /\ Types
  BY DEF OpenHandle, IInv, OwnHandle
<1>2. /\ Streams' = Streams \cup {d} /\ d \notin Streams /\ Streams \subseteq Dirs
      /\ seen'[d] = <<>>
      /\ \A e \in Streams : want'[e] = want[e] /\ seen'[e] = seen[e]
  BY <1>1 DEF OpenHandle, Streams, Types
<1>3. \A e \in Streams : Shown(want[e])' = Shown(want[e])
  BY <1>2, ShownStays
<1>4. \A e \in Streams : Lists'[e] = Lists[e]
  BY <1>2, <1>3 DEF Lists
<1>5. Stream!Others(d)
  BY <1>1, <1>2, <1>4 DEF Stream!Others, Lists
<1>6. Stream!Open(d)
  BY <1>1, <1>2, <1>5 DEF Stream!Open
<1> QED
  BY <1>6 DEF Stream!Next

\* nfsfs_dirreset starts a stream again.
LEMMA DirResetStream ==
    ASSUME IInv, IInv', UNCHANGED kind, NEW d \in Dirs, nfsfs_dirreset(d)
    PROVE  [Stream!Next]_Stream!vars
<1>1. /\ UNCHANGED <<Streams, want>> /\ Streams \subseteq Dirs /\ Types
      /\ ended' = ended \ {d} /\ seen'[d] = <<>>
      /\ \A e \in Dirs \ {d} : seen'[e] = seen[e]
  BY DEF nfsfs_dirreset, Streams, IInv, Types
<1>2. \A e \in Streams : Shown(want[e])' = Shown(want[e])
  BY <1>1, ShownStays
<1>3. UNCHANGED Lists
  BY <1>1, <1>2 DEF Lists
<1>4. CASE d \in Streams
  <2>1. Stream!Rewind(d)
    BY <1>1, <1>3, <1>4 DEF Stream!Rewind, Stream!Others, Lists
  <2> QED
    BY <2>1 DEF Stream!Next
<1>5. CASE d \notin Streams
  BY <1>1, <1>5, SameStreams
<1> QED
  BY <1>4, <1>5

\* An error of the server takes the DIR from the streams.
LEMMA HandleErrorStream ==
    ASSUME IInv, UNCHANGED kind, NEW d \in opened,
           ended' = ended \cup {d}, disturbed' = disturbed \cup {d},
           UNCHANGED <<opened, want, idx, seen>>
    PROVE  [Stream!Next]_Stream!vars
<1>1. Streams \subseteq Dirs /\ Streams' = Streams \ {d}
  BY DEF Streams, IInv, Types
<1> QED
  BY <1>1, StreamsClosed

\* Steps that open, read or close no stream but by taking it away.
LEMMA OtherStreams ==
    ASSUME IInv, IInv', UNCHANGED kind,
           \/ \E f \in Files : Change(f)
           \/ \E d \in Dirs : ReadEntry(d) \/ DirOpenFails(d) \/ dirclose(d)
           \/ \E d \in Dirs, p \in Opens : StartListing(d, p)
           \/ \E c \in Callers : ftpfs_stat(c) \/ smb2fs_stat(c) \/ AskServer(c)
    PROVE  [Stream!Next]_Stream!vars
<1>1. Types /\ Streams \subseteq Dirs
  BY DEF IInv, Types, Streams
<1>2. ASSUME UNCHANGED <<opened, history>> PROVE UNCHANGED Stream!vars
  BY <1>2, SameStreams DEF history, Streams
<1>3. ASSUME NEW f \in Files, Change(f) PROVE UNCHANGED Stream!vars
  BY <1>2, <1>3 DEF Change, listing
<1>4. ASSUME NEW d \in Dirs, ReadEntry(d) PROVE UNCHANGED Stream!vars
  BY <1>2, <1>4 DEF ReadEntry
<1>5. ASSUME NEW d \in Dirs, DirOpenFails(d) PROVE UNCHANGED Stream!vars
  BY <1>5, NoStreams DEF DirOpenFails, IInv, FillerAlone, Streams
<1>6. ASSUME NEW d \in Dirs, dirclose(d) PROVE [Stream!Next]_Stream!vars
  <2>1. Streams' = Streams \ {d}
    BY <1>6 DEF dirclose, Streams
  <2>2. \A e \in Streams' : want'[e] = want[e] /\ seen'[e] = seen[e]
                            /\ (e \in ended' <=> e \in ended)
    BY <1>1, <1>6, <2>1 DEF dirclose, Types
  <2> QED
    BY <1>1, <2>1, <2>2, StreamsClosed
<1>7. ASSUME NEW d \in Dirs, NEW p \in Opens, StartListing(d, p)
      PROVE [Stream!Next]_Stream!vars
  <2>1. Streams' = {}
    BY <1>7 DEF StartListing, Streams
  <2> QED
    BY <1>1, <2>1, StreamsClosed
<1>8. ASSUME NEW c \in Callers, ftpfs_stat(c) \/ smb2fs_stat(c) \/ AskServer(c)
      PROVE UNCHANGED Stream!vars
  BY <1>2, <1>8 DEF ftpfs_stat, smb2fs_stat, AskServer, StartStat, listing
<1> QED
  BY <1>3, <1>4, <1>5, <1>6, <1>7, <1>8

\* Every step of a mount is a step of DirStream, or none.
LEMMA NextStream ==
    IInv /\ IInv' /\ [Next]_vars => [Stream!Next]_Stream!vars
<1> SUFFICES ASSUME IInv, IInv', [Next]_vars PROVE [Stream!Next]_Stream!vars
  OBVIOUS
<1>0. UNCHANGED kind
  BY DEF Next, vars
<1>1. CASE UNCHANGED vars
  BY <1>0, <1>1, SameStreams DEF vars, listing, history, Streams
<1>2. ASSUME NEW d \in Dirs, Listing(d) PROVE [Stream!Next]_Stream!vars
  BY <1>0, <1>2, OpenedStream, OtherStreams
     DEF Listing, DirOpened, UFTP_DirReadline_times_out, GetPathDir_fails
<1>3. ASSUME NEW d \in Dirs, DirNext(d) PROVE [Stream!Next]_Stream!vars
  <2>1. CASE kind \in SharedKinds
    <3>1. /\ d \in opened
          /\ NextEntry(d) \/ (AtEnd(d) /\ (kind = "smb" \/ UNCHANGED <<idx, seen>>))
      BY <1>0, <1>3, <2>1 DEF DirNext, ftpfs_dirnext, smb2fs_dirnext, iso9660fs_dirnext,
         nfsfs_dirnext, sshfs_dirnext, SharedKinds
    <3> QED
      BY <1>0, <2>1, <3>1, NextEntryStream, AtEndStream
  <2>2. CASE kind \in HandleKinds
    <3>1. /\ d \in opened /\ UNCHANGED <<opened, want>>
          /\ \/ (ReadHandle(d) \/ HandleAtEnd(d)) /\ UNCHANGED disturbed
             \/ /\ ended' = ended \cup {d} /\ disturbed' = disturbed \cup {d}
                /\ UNCHANGED <<idx, seen>>
      BY <1>0, <1>3, <2>2 DEF DirNext, ftpfs_dirnext, smb2fs_dirnext, iso9660fs_dirnext,
         nfsfs_dirnext, sshfs_dirnext, HandleKinds
    <3> QED
      BY <1>0, <2>2, <3>1, ReadHandleStream, HandleAtEndStream, HandleErrorStream
  <2> QED
    BY <2>1, <2>2 DEF IInv
<1>4. ASSUME NEW d \in Dirs, NEW p \in Opens, DirOpen(d, p) PROVE [Stream!Next]_Stream!vars
  <2>1. \/ StartListing(d, p)
        \/ kind \in HandleKinds /\ OpenHandle(d, p)
    BY <1>4 DEF DirOpen, ftpfs_diropen, smb2fs_diropen, iso9660fs_diropen, nfsfs_diropen,
       sshfs_diropen, HandleKinds
  <2>2. CASE StartListing(d, p)
    BY <1>0, <2>2, OtherStreams
  <2> QED
    BY <1>0, <2>1, <2>2, OpenHandleStream
<1>5. CASE Next
  BY <1>0, <1>2, <1>3, <1>4, <1>5, OtherStreams, DirResetStream DEF Next, Step
<1> QED
  BY <1>1, <1>5

\* Until another diropen takes its list away, a DIR of FTP or ISO is a stream of its
\* own over what its diropen read, and so is one of NFS or SFTP over what its handle
\* lists, until the server reports an error; for any directories and any number of DIRs.
THEOREM DirsAreStreams == Spec => ImplementsDirStream
<1>1. Init => Stream!Init
  BY DEF Init, Stream!Init, Streams
<1> QED
  BY <1>1, SpecIInv, NextStream, PTL DEF Spec, ImplementsDirStream, Stream!Spec

-----------------------------------------------------------------------------
(***************************************************************************)
(* What stat says, when directories are opened with the slash at the end   *)
(* that fullpathname relies on.                                            *)
(***************************************************************************)
Slashed == \A p \in Opens : Last(p) = "/"

\* What the list holds or is about to get.
Known == Range(cache) \cup Range(feed)

IsFeed == feed \in Seq(Range(feed))

\* Only a diropen inside the mutex leaves entries to read; and a mount with handles
\* has no list.
FeedInside ==
    /\ feed # <<>> => mutex \in Dirs
    /\ kind \in HandleKinds => cache = <<>> /\ feed = <<>>

\* An entry is about the file its path names.
Named == \A e \in Known : e.file \in {e.path, Nothing}

AnswersTyped == answer = [c \in Callers |-> answer[c]]

\* What stat has said of a file is no newer than the file, and no newer than what
\* the list says of it; two entries do not say different things of a file.
Current ==
    kind # "smb" =>
        /\ version \in [Files -> Nat]
        /\ told \in [Files -> Int]
        /\ \A f \in Files : told[f] <= version[f]
        /\ \A e \in Known :
              e.file \in Files => /\ e.version \in Int
                                 /\ told[e.file] <= e.version
                                 /\ e.version <= version[e.file]
        /\ \A e1, e2 \in Known :
              e1.file \in Files /\ e1.file = e2.file => e1.version = e2.version

SInv ==
    /\ IInv
    /\ IsFeed
    /\ FeedInside
    /\ Named
    /\ AnswersTyped
    /\ StatOfFile
    /\ Current

\* Every file has a name.
LEMMA NothingIsNoFile == Nothing \notin Files
<1> SUFFICES ASSUME NEW dir \in DOMAIN Lines, NEW i \in DOMAIN Lines[dir]
             PROVE  dir \o Lines[dir][i].name # <<>>
  BY DEF Files, FilesOf, Nothing
<1>1. dir \in Seq(STRING) /\ dir # <<>> /\ Lines[dir] \in Seq(Line)
  BY DirCacheAssumption
<1>2. Lines[dir][i] \in Line
  BY <1>1, ElementOfSeq
<1>3. Lines[dir][i].name \in Seq(STRING)
  BY <1>2 DEF Line
<1> DEFINE name == Lines[dir][i].name
<1> HIDE DEF name
<1>4. Len(dir) \in Nat /\ Len(dir) # 0
  BY <1>1, EmptySeq
<1>5. name \in Seq(STRING) /\ Len(name) \in Nat
  BY <1>3 DEF name
<1>6. Len(dir \o name) = Len(dir) + Len(name)
  BY <1>1, <1>5
<1>7. Len(dir \o name) # Len(<<>>)
  BY <1>4, <1>5, <1>6
<1> QED
  BY <1>7 DEF name

\* What a listing is about to bring: about the files its lines name, as they are now.
LEMMA EntriesNow ==
    ASSUME Slashed, NEW p \in Opens, NEW e \in Range(Entries(p))
    PROVE  /\ e.file \in {e.path, Nothing}
           /\ e.file \in Files => e.version = version[e.file]
<1> DEFINE listed == Lines[Folder(p)]
           lines  == IF kind = "ftp" THEN UFTP_ParseDirLine2(listed)
                     ELSE Picked(listed, {i \in DOMAIN listed : listed[i].kind \in {"file", "dots"}})
           named  == {i \in DOMAIN listed : listed[i].kind # "link"}
           kept   == {listed[i] : i \in named}
<1>1. listed \in Seq(Line)
  BY DirCacheAssumption
<1>2. DOMAIN listed = 1 .. Len(listed) /\ Len(listed) \in Nat
  BY <1>1
<1>3. ASSUME NEW P \in SUBSET named PROVE Picked(listed, P) \in Seq(kept)
  <2>1. \A i \in P : listed[i] \in kept
    OBVIOUS
  <2> HIDE DEF listed, kept
  <2> QED
    BY <1>2, <2>1, TakenFrom DEF Picked
<1>4. lines \in Seq(kept)
  BY <1>3 DEF UFTP_ParseDirLine2
<1>a. Entries(p) = [i \in DOMAIN lines |-> Entry(p, lines[i])]
  BY DEF Entries
<1> HIDE DEF lines
<1>5. PICK i \in DOMAIN lines : e = Entry(p, lines[i])
  BY <1>a DEF Range
<1>6. lines[i] \in kept
  BY <1>4, <1>5, ElementOfSeq
<1>7. PICK j \in DOMAIN listed : listed[j].kind # "link" /\ e = Entry(p, listed[j])
  BY <1>5, <1>6
<1>8. listed[j].kind \in {"file", "dots", "other"}
  <2> HIDE DEF listed
  <2>1. listed[j] \in Line
    BY <1>1, <1>7, ElementOfSeq
  <2> QED
    BY <1>7, <2>1 DEF Line
<1>9. CASE listed[j].kind = "file"
  <2>1. /\ e.path = p \o listed[j].name
        /\ e.file = p \o listed[j].name
        /\ e.version = version[e.file]
    BY <1>7, <1>9 DEF Entry, fullpathname, Slashed, Folder
  <2> QED
    BY <2>1
<1>10. CASE listed[j].kind \in {"dots", "other"}
  <2>1. e.file = Nothing
    BY <1>7, <1>10 DEF Entry
  <2> QED
    BY <2>1, NothingIsNoFile
<1> QED
  BY <1>8, <1>9, <1>10

\* Taking the first element of a sequence leaves a sequence of the others.
LEMMA TailIsSeq ==
    ASSUME NEW s, s \in Seq(Range(s)), s # <<>>
    PROVE  /\ Tail(s) \in Seq(Range(Tail(s)))
           /\ Range(Tail(s)) \subseteq Range(s)
           /\ Head(s) \in Range(s)
<1>1. Len(s) \in Nat /\ Len(s) # 0 /\ DOMAIN s = 1 .. Len(s)
  BY EmptySeq
<1>2. Head(s) = s[1] /\ 1 \in DOMAIN s
  BY <1>1
<1>3. /\ Tail(s) \in Seq(Range(s)) /\ Len(Tail(s)) = Len(s) - 1
      /\ \A i \in 1 .. Len(Tail(s)) : Tail(s)[i] = s[i + 1]
  BY <1>1, HeadTailProperties
<1>4. DOMAIN Tail(s) = 1 .. Len(Tail(s)) /\ Len(Tail(s)) \in Nat
  BY <1>3
<1>5. \A i \in 1 .. Len(Tail(s)) : Tail(s)[i] \in Range(Tail(s))
  BY <1>4 DEF Range
<1>6. Tail(s) \in Seq(Range(Tail(s)))
  <2> DEFINE t == Tail(s)
             R == Range(t)
  <2>1. t \in Seq(Range(s)) /\ Len(t) \in Nat /\ \A i \in 1 .. Len(t) : t[i] \in R
    BY <1>3, <1>4, <1>5
  <2> HIDE DEF t, R
  <2>2. t \in Seq(R)
    BY <2>1
  <2> QED
    BY <2>2 DEF t, R
<1>7. Range(Tail(s)) \subseteq Range(s)
  BY <1>1, <1>3, <1>4 DEF Range
<1> QED
  BY <1>2, <1>6, <1>7 DEF Range

\* Appending adds one element at most.
LEMMA RangeAppends ==
    ASSUME NEW s, s \in Seq(Range(s)), NEW e
    PROVE  Range(Append(s, e)) \subseteq Range(s) \cup {e}
<1>1. s \in Seq(Range(s) \cup {e})
  OBVIOUS
<1>2. Append(s, e) \in Seq(Range(s) \cup {e})
  BY <1>1
<1> QED
  BY <1>2, ElementOfSeq DEF Range

\* Clearing, filling and ending a list: what is known is what was known, or what a new
\* diropen is about to read.
LEMMA KnownSteps ==
    ASSUME SInv, Next
    PROVE  /\ IsFeed'
           /\ FeedInside'
           /\ \/ Known' \subseteq Known
              \/ /\ \E p \in Opens : Known' = Range(Entries(p))
                 /\ UNCHANGED <<version, told, answer>>
<1> USE DEF SharedKinds, HandleKinds
<1>0. UNCHANGED kind /\ IsFeed /\ FeedInside /\ FillerAlone /\ IsList
  BY DEF Next, SInv, IInv
<1>1. ASSUME UNCHANGED <<cache, feed>>, feed = <<>> \/ UNCHANGED mutex
      PROVE  IsFeed' /\ FeedInside' /\ Known' \subseteq Known
  BY <1>0, <1>1 DEF IsFeed, FeedInside, Known
<1>2. ASSUME NEW d \in Dirs, NEW p \in Opens, StartListing(d, p), kind \notin HandleKinds
      PROVE  /\ IsFeed' /\ FeedInside' /\ Known' = Range(Entries(p))
             /\ UNCHANGED <<version, told, answer>>
  <2>1. /\ cache' = <<>> /\ feed' = Entries(p) /\ mutex' \in Dirs
        /\ UNCHANGED <<version, told, answer>>
    BY <1>2 DEF StartListing, stats
  <2>2. Range(<<>>) = {}
    BY DEF Range
  <2> QED
    BY <1>0, <1>2, <2>1, <2>2, EntriesIsSeq DEF IsFeed, FeedInside, Known
<1>3. ASSUME NEW d \in Dirs, ReadEntry(d)
      PROVE  IsFeed' /\ FeedInside' /\ Known' \subseteq Known
  <2>1. /\ feed # <<>> /\ cache' = Append(cache, Head(feed)) /\ feed' = Tail(feed)
        /\ mutex = d /\ UNCHANGED mutex
    BY <1>3 DEF ReadEntry
  <2>2. /\ Tail(feed) \in Seq(Range(Tail(feed))) /\ Range(Tail(feed)) \subseteq Range(feed)
        /\ Head(feed) \in Range(feed)
    BY <1>0, <2>1, TailIsSeq DEF IsFeed
  <2>3. Range(Append(cache, Head(feed))) \subseteq Range(cache) \cup {Head(feed)}
    BY <1>0, RangeAppends DEF IsList
  <2>4. kind \notin HandleKinds
    BY <1>0, <2>1 DEF FillerAlone
  <2> QED
    BY <1>0, <2>1, <2>2, <2>3, <2>4 DEF IsFeed, FeedInside, Known
<1>4. ASSUME UNCHANGED cache, feed' = <<>>
      PROVE  IsFeed' /\ FeedInside' /\ Known' \subseteq Known
  <2>1. Range(<<>>) = {} /\ <<>> \in Seq({})
    BY DEF Range
  <2> QED
    BY <1>0, <1>4, <2>1 DEF IsFeed, FeedInside, Known
<1>5. ASSUME NEW d \in Dirs, NEW p \in Opens, DirOpen(d, p)
      PROVE  \/ StartListing(d, p) /\ kind \notin HandleKinds
             \/ UNCHANGED <<cache, feed, mutex>>
  BY <1>5 DEF DirOpen, ftpfs_diropen, smb2fs_diropen, iso9660fs_diropen, nfsfs_diropen,
     sshfs_diropen, OpenHandle
<1>6. ASSUME NEW d \in Dirs, Listing(d)
      PROVE  ReadEntry(d) \/ (UNCHANGED cache /\ feed' = <<>>)
  BY <1>6 DEF Listing, DirOpened, UFTP_DirReadline_times_out, GetPathDir_fails, Opened,
     DirOpenFails
<1>7. ASSUME NEW d \in Dirs, DirNext(d) \/ nfsfs_dirreset(d) \/ dirclose(d)
      PROVE  UNCHANGED <<cache, feed, mutex>>
  BY <1>7 DEF DirNext, ftpfs_dirnext, smb2fs_dirnext, iso9660fs_dirnext, nfsfs_dirnext,
     sshfs_dirnext, NextEntry, AtEnd, nfsfs_dirreset, dirclose
<1>8. ASSUME NEW c \in Callers, ftpfs_stat(c) \/ smb2fs_stat(c) \/ AskServer(c)
      PROVE  UNCHANGED <<cache, feed>> /\ (feed = <<>> \/ UNCHANGED mutex)
  <2>1. UNCHANGED <<cache, feed>>
    BY <1>8 DEF ftpfs_stat, smb2fs_stat, AskServer, StartStat, listing
  <2>2. mutex \in {Nobody, c} \/ UNCHANGED mutex
    BY <1>8 DEF ftpfs_stat, smb2fs_stat, AskServer, SInv, IInv, ScanInside
  <2> QED
    BY <1>0, <2>1, <2>2, DirCacheAssumption DEF FeedInside
<1>9. ASSUME NEW f \in Files, Change(f) PROVE UNCHANGED <<cache, feed, mutex>>
  BY <1>9 DEF Change, listing
<1> QED
  BY <1>1, <1>2, <1>3, <1>4, <1>5, <1>6, <1>7, <1>8, <1>9 DEF Next, Step

\* What stat has said changes with its answers, from the list or from the server.
LEMMA StatSteps ==
    ASSUME SInv, Next
    PROVE  \/ UNCHANGED <<version, told, answer>>
           \/ \E f \in Files : Change(f)
           \/ \E c \in Callers :
                 UNCHANGED <<version, told>> /\ answer' = [answer EXCEPT ![c] = Nothing]
           \/ \E c \in Callers :
                 /\ Hits(asked[c]) # {} /\ AnswerFromCache(c)
                 /\ UNCHANGED <<version, cache, feed>>
           \/ \E c \in Callers :
                 /\ AnswerFromServer(c)
                 /\ UNCHANGED <<version, cache, feed>>
                 /\ kind # "smb" => Hits(asked[c]) = {} /\ feed = <<>>
<1> USE DEF SharedKinds, HandleKinds
<1>0. FeedInside /\ ScanInside /\ Types
  BY DEF SInv, IInv
<1>1. ASSUME NEW d \in Dirs, NEW p \in Opens, DirOpen(d, p)
      PROVE  UNCHANGED <<version, told, answer>>
  BY <1>1 DEF DirOpen, ftpfs_diropen, smb2fs_diropen, iso9660fs_diropen, nfsfs_diropen,
     sshfs_diropen, OpenHandle, StartListing, stats
<1>2. ASSUME NEW d \in Dirs, Listing(d) PROVE UNCHANGED <<version, told, answer>>
  BY <1>2 DEF Listing, ReadEntry, DirOpened, UFTP_DirReadline_times_out, GetPathDir_fails,
     Opened, DirOpenFails, stats
<1>3. ASSUME NEW d \in Dirs, DirNext(d) \/ nfsfs_dirreset(d) \/ dirclose(d)
      PROVE  UNCHANGED <<version, told, answer>>
  BY <1>3 DEF DirNext, ftpfs_dirnext, smb2fs_dirnext, iso9660fs_dirnext, nfsfs_dirnext,
     sshfs_dirnext, NextEntry, AtEnd, nfsfs_dirreset, dirclose, stats
<1>4. ASSUME NEW c \in Callers, NEW p \in Asks, StartStat(c, p)
      PROVE  UNCHANGED <<version, told>> /\ answer' = [answer EXCEPT ![c] = Nothing]
  BY <1>4 DEF StartStat
<1>5. ASSUME NEW c \in Callers, ftpfs_stat(c)
      PROVE  \/ \E p \in Asks : StartStat(c, p)
             \/ /\ Hits(asked[c]) # {} /\ AnswerFromCache(c)
                /\ UNCHANGED <<version, cache, feed>>
             \/ /\ AnswerFromServer(c)
                /\ UNCHANGED <<version, cache, feed>>
                /\ Hits(asked[c]) = {} /\ feed = <<>>
  <2>1. pc[c] = "scan" => feed = <<>>
    BY <1>0, <1>5, DirCacheAssumption DEF ftpfs_stat, ScanInside, FeedInside
  <2> QED
    BY <1>5, <2>1 DEF ftpfs_stat, listing
<1>6. ASSUME NEW c \in Callers, smb2fs_stat(c)
      PROVE  \/ \E p \in Asks : StartStat(c, p)
             \/ /\ Hits(asked[c]) # {} /\ AnswerFromCache(c)
                /\ UNCHANGED <<version, cache, feed>>
             \/ UNCHANGED <<version, told, answer>>
             \/ /\ AnswerFromServer(c)
                /\ UNCHANGED <<version, cache, feed>> /\ kind = "smb"
  BY <1>6 DEF smb2fs_stat, listing
<1>7. ASSUME NEW c \in Callers, AskServer(c)
      PROVE  \/ \E p \in Asks : StartStat(c, p)
             \/ /\ AnswerFromServer(c)
                /\ UNCHANGED <<version, cache, feed>>
                /\ Hits(asked[c]) = {} /\ feed = <<>>
  <2>1. cache = <<>> /\ feed = <<>>
    BY <1>0, <1>7 DEF AskServer, FeedInside
  <2>2. Hits(asked[c]) = {}
    BY <2>1 DEF Hits
  <2> QED
    BY <1>7, <2>1, <2>2 DEF AskServer, listing
<1> QED
  BY <1>1, <1>2, <1>3, <1>4, <1>5, <1>6, <1>7 DEF Next, Step

\* The entry that answers has the path that was asked for.
LEMMA HitAnswers ==
    ASSUME IInv, NEW c \in Callers, Hits(asked[c]) # {}
    PROVE  /\ cache[Min(Hits(asked[c]))] \in Known
           /\ cache[Min(Hits(asked[c]))].path = asked[c]
<1>1. Hits(asked[c]) \in SUBSET Nat
  BY DEF Hits, IInv, IsList
<1>2. \E x \in Hits(asked[c]) : \A y \in Hits(asked[c]) : x <= y
  BY <1>1, Least
<1>3. Min(Hits(asked[c])) \in Hits(asked[c])
  BY <1>2 DEF Min
<1> QED
  BY <1>3 DEF Hits, Known, Range

\* What an answer says of a file: nothing older than before, nothing newer than the
\* file or than what the list says.
LEMMA AnswersCurrent ==
    ASSUME SInv, NEW c \in Callers, UNCHANGED <<kind, version, cache, feed>>,
           \/ Hits(asked[c]) # {} /\ AnswerFromCache(c)
           \/ /\ AnswerFromServer(c)
              /\ kind # "smb" => Hits(asked[c]) = {} /\ feed = <<>>
    PROVE  /\ answer'[c].file \in {answer'[c].path, Nothing}
           /\ \A b \in Callers \ {c} : answer'[b] = answer[b]
           /\ AnswersTyped'
           /\ Current'
           /\ kind # "smb" => \A f \in Files : told'[f] >= told[f]
<1> DEFINE p == asked[c]
<1>1. /\ AnswersTyped /\ Current /\ Named /\ IInv
      /\ Known' = Known
  BY DEF SInv, Known
<1>2. ASSUME NEW file, NEW v, Answered(c, file, v), file \in {p, Nothing}
      PROVE  /\ answer'[c].file \in {answer'[c].path, Nothing}
             /\ \A b \in Callers \ {c} : answer'[b] = answer[b]
             /\ AnswersTyped'
  BY <1>1, <1>2 DEF Answered, AnswersTyped
<1>3. ASSUME NEW file, NEW v, Answered(c, file, v), file \notin Files
      PROVE  UNCHANGED told
  BY <1>3 DEF Answered
<1>4. ASSUME NEW f \in Files, NEW v, Answered(c, f, v), kind # "smb", v \in Int,
             told[f] <= v, v <= version[f],
             \A e \in Known : e.file = f => v <= e.version
      PROVE  Current' /\ \A g \in Files : told'[g] >= told[g]
  <2>1. told' = [told EXCEPT ![f] = v]
    BY <1>4 DEF Answered
  <2>2. version \in [Files -> Nat] /\ told \in [Files -> Int]
    BY <1>1, <1>4 DEF Current
  <2>3. told' \in [Files -> Int] /\ \A g \in Files : told'[g] >= told[g]
    BY <1>4, <2>1, <2>2
  <2>4. \A g \in Files : told'[g] <= version'[g]
    BY <1>1, <1>4, <2>1, <2>2 DEF Current
  <2>5. \A e \in Known' :
              e.file \in Files => /\ e.version \in Int
                                 /\ told'[e.file] <= e.version
                                 /\ e.version <= version'[e.file]
    BY <1>1, <1>4, <2>1, <2>2 DEF Current
  <2>6. version' \in [Files -> Nat]
    BY <2>2
  <2> QED
    BY <1>1, <1>4, <2>3, <2>4, <2>5, <2>6 DEF Current
<1>5. UNCHANGED told => Current' /\ (kind # "smb" => \A f \in Files : told'[f] >= told[f])
  BY <1>1 DEF Current
<1>6. CASE Hits(p) # {} /\ AnswerFromCache(c)
  <2> DEFINE e == cache[Min(Hits(p))]
  <2>1. e \in Known /\ e.path = p
    BY <1>1, <1>6, HitAnswers
  <2>2. Answered(c, e.file, e.version)
    BY <1>6 DEF AnswerFromCache
  <2> HIDE DEF e
  <2>3. e.file \in {p, Nothing}
    BY <1>1, <2>1 DEF Named
  <2>4. CASE e.file \notin Files \/ kind = "smb"
    <3>1. kind = "smb" => Current'
      BY DEF Current
    <3> QED
      BY <1>2, <1>3, <1>5, <2>2, <2>3, <2>4, <3>1
  <2>5. CASE e.file \in Files /\ kind # "smb"
    <3>1. /\ e.version \in Int /\ told[e.file] <= e.version /\ e.version <= version[e.file]
          /\ \A g \in Known : g.file = e.file => e.version = g.version
      BY <1>1, <2>1, <2>5 DEF Current
    <3>2. \A g \in Known : g.file = e.file => e.version <= g.version
      BY <3>1
    <3> QED
      BY <1>2, <1>4, <2>2, <2>3, <2>5, <3>1, <3>2
  <2> QED
    BY <2>4, <2>5
<1>7. CASE AnswerFromServer(c) /\ (kind # "smb" => Hits(p) = {} /\ feed = <<>>)
  <2>1. CASE p \notin Files
    <3>1. Answered(c, Nothing, 0)
      BY <1>7, <2>1 DEF AnswerFromServer
    <3> QED
      BY <1>2, <1>3, <1>5, <3>1, NothingIsNoFile
  <2>2. CASE p \in Files
    <3>1. Answered(c, p, version[p])
      BY <1>7, <2>2 DEF AnswerFromServer
    <3>2. CASE kind = "smb"
      BY <1>2, <3>1, <3>2 DEF Current
    <3>3. CASE kind # "smb"
      <4>1. /\ version[p] \in Int /\ told[p] <= version[p] /\ version[p] <= version[p]
        BY <1>1, <2>2, <3>3 DEF Current
      <4>2. \A e \in Known : e.file # p
        <5>1. Range(feed) = {}
          BY <1>7, <3>3 DEF Range
        <5>2. \A e \in Range(cache) : e.path # p
          BY <1>7, <3>3 DEF Range, Hits
        <5>3. p # Nothing
          BY <2>2, NothingIsNoFile
        <5> QED
          BY <1>1, <5>1, <5>2, <5>3 DEF Known, Named
      <4> QED
        BY <1>2, <1>4, <2>2, <3>1, <3>3, <4>1, <4>2
    <3> QED
      BY <3>2, <3>3
  <2> QED
    BY <2>1, <2>2
<1> QED
  BY <1>6, <1>7

\* Every step keeps what stat relies on, and what it says never becomes older.
LEMMA NextSInv ==
    ASSUME Slashed, SInv, [Next]_vars
    PROVE  /\ SInv'
           /\ kind # "smb" => \A f \in Files : told'[f] >= told[f]
<1>0. /\ IInv /\ Named /\ AnswersTyped /\ StatOfFile /\ Current
      /\ UNCHANGED kind /\ IInv'
  BY NextIInv DEF SInv, Next, vars
<1>1. CASE UNCHANGED vars
  <2>1. UNCHANGED <<kind, version, cache, feed, mutex, told, answer>>
    BY <1>1 DEF vars, listing, stats
  <2>2. Known' = Known
    BY <2>1 DEF Known
  <2> QED
    BY <1>0, <2>1, <2>2
       DEF SInv, IsFeed, FeedInside, Named, AnswersTyped, StatOfFile, Current
<1>2. CASE Next
  <2>1. IsFeed' /\ FeedInside'
    BY <1>2, KnownSteps
  <2>2. ASSUME NEW p \in Opens, Known' = Range(Entries(p)), UNCHANGED <<version, told, answer>>
        PROVE  /\ SInv'
               /\ kind # "smb" => \A f \in Files : told'[f] >= told[f]
    <3>1. \A e \in Known' : /\ e.file \in {e.path, Nothing}
                            /\ e.file \in Files => e.version = version[e.file]
      BY <2>2, EntriesNow
    <3>2. Named' /\ AnswersTyped' /\ StatOfFile'
      BY <1>0, <2>2, <3>1 DEF Named, AnswersTyped, StatOfFile
    <3>3. Current'
      BY <1>0, <2>2, <3>1 DEF Current
    <3>4. kind # "smb" => \A f \in Files : told'[f] >= told[f]
      BY <1>0, <2>2 DEF Current
    <3> QED
      BY <1>0, <2>1, <3>2, <3>3, <3>4 DEF SInv
  <2>3. ASSUME Known' \subseteq Known, UNCHANGED <<version, told>>,
               \/ UNCHANGED answer
               \/ \E c \in Callers : answer' = [answer EXCEPT ![c] = Nothing]
        PROVE  /\ SInv'
               /\ kind # "smb" => \A f \in Files : told'[f] >= told[f]
    <3>1. Named' /\ AnswersTyped' /\ StatOfFile'
      BY <1>0, <2>3 DEF Named, AnswersTyped, StatOfFile
    <3>2. Current'
      BY <1>0, <2>3 DEF Current
    <3>3. kind # "smb" => \A f \in Files : told'[f] >= told[f]
      BY <1>0, <2>3 DEF Current
    <3> QED
      BY <1>0, <2>1, <3>1, <3>2, <3>3 DEF SInv
  <2>4. ASSUME NEW f \in Files, Change(f)
        PROVE  /\ SInv'
               /\ kind # "smb" => \A g \in Files : told'[g] >= told[g]
    <3>1. /\ version' = [version EXCEPT ![f] = @ + 1]
          /\ UNCHANGED <<cache, feed, told, answer>>
      BY <2>4 DEF Change, listing, stats
    <3>2. Known' = Known
      BY <3>1 DEF Known
    <3>3. Named' /\ AnswersTyped' /\ StatOfFile'
      BY <1>0, <3>1, <3>2 DEF Named, AnswersTyped, StatOfFile
    <3>4. kind # "smb" => /\ version' \in [Files -> Nat]
                          /\ \A g \in Files : version[g] <= version'[g]
      BY <1>0, <3>1 DEF Current
    <3>5. kind # "smb" => \A g \in Files : /\ told[g] \in Int /\ version[g] \in Nat
                                           /\ version'[g] \in Nat
      BY <1>0, <3>4 DEF Current
    <3>6. Current'
      BY <1>0, <3>1, <3>2, <3>4, <3>5 DEF Current
    <3>7. kind # "smb" => \A g \in Files : told'[g] >= told[g]
      BY <3>1, <3>5
    <3> QED
      BY <1>0, <2>1, <3>3, <3>6, <3>7 DEF SInv
  <2>5. ASSUME NEW c \in Callers, UNCHANGED <<version, cache, feed>>,
               \/ Hits(asked[c]) # {} /\ AnswerFromCache(c)
               \/ /\ AnswerFromServer(c)
                  /\ kind # "smb" => Hits(asked[c]) = {} /\ feed = <<>>
        PROVE  /\ SInv'
               /\ kind # "smb" => \A f \in Files : told'[f] >= told[f]
    <3>1. /\ answer'[c].file \in {answer'[c].path, Nothing}
          /\ \A b \in Callers \ {c} : answer'[b] = answer[b]
          /\ AnswersTyped'
          /\ Current'
          /\ kind # "smb" => \A f \in Files : told'[f] >= told[f]
      BY <1>0, <2>5, AnswersCurrent
    <3>2. StatOfFile'
      BY <1>0, <3>1 DEF StatOfFile
    <3>3. Named'
      BY <1>0, <2>5 DEF Named, Known
    <3> QED
      BY <1>0, <2>1, <3>1, <3>2, <3>3 DEF SInv
  <2>6. \/ Known' \subseteq Known
        \/ /\ \E p \in Opens : Known' = Range(Entries(p))
           /\ UNCHANGED <<version, told, answer>>
    BY <1>2, KnownSteps
  <2> QED
    BY <1>2, <2>2, <2>3, <2>4, <2>5, <2>6, StatSteps
<1> QED
  BY <1>1, <1>2

\* So it always holds.
LEMMA SpecSInv ==
    ASSUME Slashed
    PROVE  Spec => []SInv
<1>1. Init => SInv
  <2> SUFFICES ASSUME Init PROVE SInv
    OBVIOUS
  <2>1. IInv
    BY InitIInv
  <2>2. cache = <<>> /\ feed = <<>> /\ Range(<<>>) = {} /\ <<>> \in Seq({})
    BY DEF Init, Range
  <2>3. Known = {}
    BY <2>2 DEF Known
  <2>4. IsFeed /\ FeedInside /\ Named
    BY <2>2, <2>3 DEF IsFeed, FeedInside, Named
  <2>5. AnswersTyped /\ StatOfFile
    BY DEF Init, AnswersTyped, StatOfFile
  <2>6. Current
    BY <2>3 DEF Init, Current
  <2> QED
    BY <2>1, <2>4, <2>5, <2>6 DEF SInv
<1>2. SInv /\ [Next]_vars => SInv'
  BY NextSInv
<1> QED
  BY <1>1, <1>2, PTL DEF Spec

\* stat describes the file it was asked about, or nothing at all, whichever lists were
\* read and cleared meanwhile.
THEOREM StatsOfFiles ==
    ASSUME Slashed
    PROVE  Spec => []StatOfFile
<1>1. SInv => StatOfFile
  BY DEF SInv
<1> QED
  BY <1>1, SpecSInv, PTL

\* What stat says of a file never becomes older, although FTP answers now from the
\* list and now by the server.
THEOREM StatsNeverOlder ==
    ASSUME Slashed
    PROVE  Spec => StatNeverOlder
<1>1. SInv /\ [Next]_vars
      => [kind # "smb" => \A f \in Files : told'[f] >= told[f]]_vars
  BY NextSInv
<1> QED
  BY <1>1, SpecSInv, PTL DEF Spec, StatNeverOlder

-----------------------------------------------------------------------------
(***************************************************************************)
(* How long a loop over a directory can be.                                *)
(***************************************************************************)
Size(p) == Len(Entries(p))

\* Some directory has as many entries.
Fits(n) == n = 0 \/ \E p \in Opens : n <= Size(p)

\* No index of a DIR is beyond the end of the longest directory, and it has returned
\* no more than its index says.
BoundedDir(d) ==
    /\ kind \in SharedKinds => idx[d] \in Nat /\ Fits(idx[d])
    /\ kind \in HandleKinds /\ d \in opened => Fits(Len(want[d]))
    /\ d \in opened => /\ seen[d] \in Seq(Range(seen[d]))
                       /\ Len(seen[d]) <= idx[d]

\* Nor is the list, with what is about to be added to it, ever longer.
BoundedList ==
    /\ IsFeed
    /\ opened # {} \/ mutex \in Dirs => Opens # {}
    /\ Fits(Len(cache) + Len(feed))

Bounded == BoundedList /\ \A d \in Dirs : BoundedDir(d)

\* What is shorter fits too.
LEMMA Shorter ==
    ASSUME NEW m \in Nat, NEW n \in Nat, m <= n, Fits(n)
    PROVE  Fits(m)
<1>1. \A p \in Opens : Size(p) \in Nat
  BY EntriesIsSeq DEF Size
<1> QED
  BY <1>1 DEF Fits

\* How many entries a directory has depends on the server's lines alone.
LEMMA SizeStays ==
    ASSUME UNCHANGED kind, NEW p \in Opens
    PROVE  Size(p)' = Size(p)
<1> DEFINE listed == Lines[Folder(p)]
           lines  == IF kind = "ftp" THEN UFTP_ParseDirLine2(listed)
                     ELSE Picked(listed, {i \in DOMAIN listed : listed[i].kind \in {"file", "dots"}})
<1>1. listed \in Seq(Line)
  BY DirCacheAssumption
<1>2. DOMAIN listed = 1 .. Len(listed) /\ Len(listed) \in Nat
  BY <1>1
<1>3. ASSUME NEW P \in SUBSET (1 .. Len(listed)) PROVE Picked(listed, P) \in Seq(Line)
  <2> HIDE DEF listed
  <2> QED
    BY <1>1, <1>2, TakenGrows DEF Picked
<1>4. lines \in Seq(Line)
  BY <1>2, <1>3 DEF UFTP_ParseDirLine2
<1>5. lines' = lines
  OBVIOUS
<1>6. /\ Entries(p) = [i \in DOMAIN lines |-> Entry(p, lines[i])]
      /\ Entries(p)' = [i \in DOMAIN lines |-> Entry(p, lines[i])']
  BY <1>5 DEF Entries
<1> HIDE DEF lines
<1>7. DOMAIN lines = 1 .. Len(lines) /\ Len(lines) \in Nat
  BY <1>4
<1>8. Len(Entries(p)) = Len(lines)
  BY <1>6, <1>7
<1>9. Len(Entries(p)') = Len(lines)
  BY <1>6, <1>7
<1> QED
  BY <1>8, <1>9 DEF Size

\* So what fits in a directory goes on to fit.
LEMMA FitsStays ==
    ASSUME UNCHANGED kind, NEW n
    PROVE  Fits(n)' <=> Fits(n)
  BY SizeStays DEF Fits

\* A step that leaves a DIR alone leaves its bounds.
LEMMA DirKept ==
    ASSUME UNCHANGED kind, NEW e \in Dirs, BoundedDir(e),
           idx'[e] = idx[e], seen'[e] = seen[e], e \in opened' => e \in opened,
           want'[e] = want[e] \/ kind \in SharedKinds
    PROVE  BoundedDir(e)'
<1>1. \A n : Fits(n)' <=> Fits(n)
  BY FitsStays
<1>2. SharedKinds \cap HandleKinds = {}
  BY DEF SharedKinds, HandleKinds
<1> QED
  BY <1>1, <1>2 DEF BoundedDir

\* A step that leaves the list alone leaves its bound.
LEMMA ListKept ==
    ASSUME UNCHANGED <<kind, cache, feed, mutex>>, BoundedList, opened' \subseteq opened
    PROVE  BoundedList'
<1>1. Fits(Len(cache) + Len(feed))' <=> Fits(Len(cache) + Len(feed))
  BY FitsStays
<1> QED
  BY <1>1 DEF BoundedList, IsFeed

\* diropen clears the list, and is about to fill it with one directory.
LEMMA StartBounded ==
    ASSUME Types, Bounded, UNCHANGED kind, kind \in SharedKinds, NEW d \in Dirs,
           NEW p \in Opens, StartListing(d, p), idx' \in {idx, [idx EXCEPT ![d] = 0]}
    PROVE  Bounded'
<1>1. /\ cache' = <<>> /\ feed' = Entries(p) /\ opened' = opened /\ d \notin opened
      /\ \A e \in Dirs \ {d} : seen'[e] = seen[e] /\ idx'[e] = idx[e]
      /\ idx'[d] \in {idx[d], 0}
  BY DEF StartListing, Types
<1>2. Entries(p) \in Seq(Range(Entries(p))) /\ Len(Entries(p)) = Size(p)
  BY EntriesIsSeq DEF Size
<1>3. Len(cache') + Len(feed') = Size(p) /\ Size(p) \in Nat
  BY <1>1, <1>2
<1>4. \A n : Fits(n)' <=> Fits(n)
  BY FitsStays
<1>5. Fits(Size(p))
  BY <1>3 DEF Fits
<1>6. BoundedList'
  BY <1>1, <1>2, <1>3, <1>4, <1>5 DEF BoundedList, IsFeed
<1>7. BoundedDir(d)'
  <2>1. SharedKinds \cap HandleKinds = {} /\ d \notin opened' /\ Fits(0)
    BY <1>1 DEF SharedKinds, HandleKinds, Fits
  <2> QED
    BY <1>1, <1>4, <2>1 DEF Bounded, BoundedDir
<1>8. \A e \in Dirs \ {d} : BoundedDir(e)'
  BY <1>1, DirKept DEF Bounded
<1> QED
  BY <1>6, <1>7, <1>8 DEF Bounded

\* What is read of it goes from one to the other.
LEMMA ReadEntryBounded ==
    ASSUME Types, IsList, Bounded, UNCHANGED kind, NEW d \in Dirs, ReadEntry(d)
    PROVE  Bounded'
<1>1. UNCHANGED <<idx, want, seen, opened, mutex>> /\ feed # <<>>
      /\ cache' = Append(cache, Head(feed)) /\ feed' = Tail(feed)
  BY DEF ReadEntry, history
<1>2. Len(cache') = Len(cache) + 1 /\ Len(cache) \in Nat
  BY <1>1 DEF IsList
<1>3. feed \in Seq(Range(feed)) /\ feed # <<>>
  BY <1>1 DEF Bounded, BoundedList, IsFeed
<1>4. Len(feed') = Len(feed) - 1 /\ Len(feed) \in Nat /\ feed' \in Seq(Range(feed'))
  BY <1>1, <1>3, TailIsSeq, HeadTailProperties
<1>5. Len(cache') + Len(feed') = Len(cache) + Len(feed)
  BY <1>2, <1>4
<1>6. BoundedList'
  BY <1>1, <1>4, <1>5, FitsStays DEF Bounded, BoundedList, IsFeed
<1>7. \A e \in Dirs : BoundedDir(e)'
  BY <1>1, DirKept DEF Bounded
<1> QED
  BY <1>6, <1>7 DEF Bounded

\* diropen returns: the DIR is at the start.
LEMMA OpenedBounded ==
    ASSUME Types, IsList, FillerAlone, Bounded, UNCHANGED kind, NEW d \in Dirs,
           mutex = d, Opened(d)
    PROVE  Bounded'
<1>1. /\ kind \in SharedKinds /\ seen[d] = <<>> /\ (kind = "ftp" => idx[d] = 0)
  BY DEF FillerAlone
<1>2. /\ cache' = cache /\ feed' = <<>> /\ opened' = opened \cup {d} /\ seen' = seen
      /\ idx'[d] = 0
      /\ \A e \in Dirs \ {d} : idx'[e] = idx[e]
  BY <1>1 DEF Opened, Types
<1>3. \A n : Fits(n)' <=> Fits(n)
  BY FitsStays
<1>4. Len(cache) \in Nat /\ Len(feed) \in Nat
  BY DEF IsList, Bounded, BoundedList, IsFeed
<1>5. Fits(Len(cache))
  BY <1>4, Shorter DEF Bounded, BoundedList
<1>6. Len(cache') + Len(feed') = Len(cache) /\ feed' \in Seq(Range(feed'))
  BY <1>2, <1>4
<1>7. Opens # {}
  BY DEF Bounded, BoundedList
<1>8. BoundedList'
  BY <1>3, <1>5, <1>6, <1>7 DEF BoundedList, IsFeed
<1>9. BoundedDir(d)'
  <2>1. SharedKinds \cap HandleKinds = {} /\ Fits(0)
    BY DEF SharedKinds, HandleKinds, Fits
  <2>2. <<>> \in Seq(Range(<<>>)) /\ Len(<<>>) = 0
    OBVIOUS
  <2>3. seen'[d] = <<>> /\ idx'[d] = 0 /\ kind' = kind
    BY <1>1, <1>2
  <2> QED
    BY <1>1, <1>3, <2>1, <2>2, <2>3 DEF BoundedDir
<1>10. \A e \in Dirs \ {d} : BoundedDir(e)'
  BY <1>1, <1>2, DirKept DEF Bounded
<1> QED
  BY <1>8, <1>9, <1>10 DEF Bounded

\* dirnext of a shared list steps within it.
LEMMA NextEntryBounded ==
    ASSUME Types, IsList, Bounded, UNCHANGED kind, kind \in SharedKinds,
           NEW d \in opened, NextEntry(d)
    PROVE  Bounded'
<1>1. /\ UNCHANGED <<cache, feed, opened, mutex, want>> /\ d \in Dirs
      /\ idx[d] < Len(cache) /\ idx'[d] = idx[d] + 1
      /\ seen'[d] = Append(seen[d], cache[idx[d] + 1])
      /\ \A e \in Dirs \ {d} : idx'[e] = idx[e] /\ seen'[e] = seen[e]
  BY DEF NextEntry, Types
<1>2. \A n : Fits(n)' <=> Fits(n)
  BY FitsStays
<1>3. /\ Len(cache) \in Nat /\ Len(feed) \in Nat /\ idx[d] \in Nat
      /\ seen[d] \in Seq(Range(seen[d])) /\ Len(seen[d]) <= idx[d]
  BY <1>1 DEF IsList, Bounded, BoundedList, IsFeed, BoundedDir
<1>4. Fits(idx[d] + 1)
  <2>1. idx[d] + 1 <= Len(cache) + Len(feed)
    BY <1>1, <1>3
  <2> QED
    BY <1>3, <2>1, Shorter DEF Bounded, BoundedList
<1>5. /\ seen'[d] \in Seq(Range(seen'[d]))
      /\ Len(seen'[d]) = Len(seen[d]) + 1 /\ Len(seen[d]) \in Nat
  BY <1>1, <1>3, AppendIsSeq
<1>6. BoundedDir(d)'
  <2>1. SharedKinds \cap HandleKinds = {} /\ kind' = kind
    BY DEF SharedKinds, HandleKinds
  <2>2. idx'[d] \in Nat /\ Fits(idx'[d])
    BY <1>1, <1>3, <1>4
  <2>3. Len(seen'[d]) <= idx'[d]
    BY <1>1, <1>3, <1>5
  <2> QED
    BY <1>2, <1>5, <2>1, <2>2, <2>3 DEF BoundedDir
<1>7. \A e \in Dirs \ {d} : BoundedDir(e)'
  BY <1>1, DirKept DEF Bounded
<1>8. BoundedList'
  BY <1>1, ListKept DEF Bounded
<1> QED
  BY <1>6, <1>7, <1>8 DEF Bounded

\* A DIR that goes back to the start, stays where it is or is closed.
LEMMA ResetBounded ==
    ASSUME Types, Bounded, UNCHANGED <<kind, cache, feed, mutex>>, NEW d \in Dirs,
           opened' \subseteq opened,
           \A e \in Dirs \ {d} : idx'[e] = idx[e] /\ seen'[e] = seen[e],
           \/ idx'[d] = idx[d] /\ (seen'[d] = seen[d] \/ d \notin opened')
           \/ idx'[d] = 0 /\ seen'[d] = <<>>,
           \A e \in opened' : want'[e] = want[e]
    PROVE  Bounded'
<1>1. \A n : Fits(n)' <=> Fits(n)
  BY FitsStays
<1>2. BoundedList'
  BY ListKept DEF Bounded
<1>3. SharedKinds \cap HandleKinds = {} /\ Fits(0)
  BY DEF SharedKinds, HandleKinds, Fits
<1>4. <<>> \in Seq(Range(<<>>)) /\ Len(<<>>) = 0
  OBVIOUS
<1>5. ASSUME NEW e \in Dirs PROVE BoundedDir(e)'
  <2>1. BoundedDir(e)
    BY DEF Bounded
  <2>2. CASE idx'[e] = idx[e] /\ seen'[e] = seen[e]
    BY <1>1, <2>1, <2>2 DEF BoundedDir
  <2>3. CASE idx'[e] = 0 /\ seen'[e] = <<>>
    BY <1>1, <1>3, <1>4, <2>1, <2>3 DEF BoundedDir
  <2>4. CASE idx'[e] = idx[e] /\ e \notin opened'
    BY <1>1, <2>1, <2>4 DEF BoundedDir
  <2> QED
    BY <2>2, <2>3, <2>4
<1> QED
  BY <1>2, <1>5 DEF Bounded

\* diropen of a handle: its list is a directory.
LEMMA OpenHandleBounded ==
    ASSUME Types, Bounded, UNCHANGED kind, kind \in HandleKinds,
           NEW d \in Dirs, NEW p \in Opens, OpenHandle(d, p)
    PROVE  Bounded'
<1>1. /\ UNCHANGED <<cache, feed, mutex>> /\ opened' = opened \cup {d}
      /\ idx'[d] = 0 /\ seen'[d] = <<>> /\ want'[d] = Entries(p)
      /\ \A e \in Dirs \ {d} : /\ idx'[e] = idx[e] /\ seen'[e] = seen[e]
                              /\ want'[e] = want[e]
  BY DEF OpenHandle, Types
<1>2. \A n : Fits(n)' <=> Fits(n)
  BY FitsStays
<1>3. BoundedList'
  <2>1. Fits(Len(cache) + Len(feed))' <=> Fits(Len(cache) + Len(feed))
    BY <1>1, FitsStays
  <2> QED
    BY <1>1, <2>1 DEF Bounded, BoundedList, IsFeed
<1>4. BoundedDir(d)'
  <2>1. <<>> \in Seq(Range(<<>>)) /\ Len(<<>>) = 0
    OBVIOUS
  <2>2. Size(p) \in Nat /\ Len(want'[d]) = Size(p)
    BY <1>1, EntriesIsSeq DEF Size
  <2>3. Fits(Len(want'[d]))
    BY <2>2 DEF Fits
  <2>4. SharedKinds \cap HandleKinds = {} /\ kind' = kind
    BY DEF SharedKinds, HandleKinds
  <2> QED
    BY <1>1, <1>2, <2>1, <2>3, <2>4 DEF BoundedDir
<1>5. \A e \in Dirs \ {d} : BoundedDir(e)'
  BY <1>1, DirKept DEF Bounded
<1> QED
  BY <1>3, <1>4, <1>5 DEF Bounded

\* dirnext of a handle steps forward within what it lists.
LEMMA HandleBounded ==
    ASSUME Types, OwnHandle, Bounded, UNCHANGED kind, kind \in HandleKinds,
           UNCHANGED <<cache, feed, mutex, opened, want>>,
           NEW d \in opened, ReadHandle(d) \/ HandleAtEnd(d)
    PROVE  Bounded'
<1>1. /\ d \in Dirs /\ IsHandleList(d) /\ idx[d] \in 0 .. Len(want[d])
      /\ seen[d] = Taken(want[d], Visible(want[d]))[idx[d]]
      /\ seen[d] \in Seq(Range(seen[d])) /\ Len(seen[d]) <= idx[d]
      /\ Len(want[d]) \in Nat /\ idx[d] \in Nat
  <2>1. d \in Dirs
    BY DEF Types
  <2>2. /\ IsHandleList(d) /\ idx[d] \in 0 .. Len(want[d])
        /\ seen[d] = Taken(want[d], Visible(want[d]))[idx[d]]
    BY DEF OwnHandle
  <2>3. seen[d] \in Seq(Range(seen[d])) /\ Len(seen[d]) <= idx[d]
    BY <2>1 DEF Bounded, BoundedDir
  <2>4. Len(want[d]) \in Nat
    BY <2>2 DEF IsHandleList
  <2> QED
    BY <2>1, <2>2, <2>3, <2>4
<1>2. \A n : Fits(n)' <=> Fits(n)
  BY FitsStays
<1>3. /\ seen'[d] \in Seq(Range(seen'[d])) /\ Len(seen'[d]) <= idx'[d]
      /\ \A e \in Dirs \ {d} : idx'[e] = idx[e] /\ seen'[e] = seen[e]
  <2>1. CASE ReadHandle(d)
    <3>1. /\ Len(seen'[d]) = Len(seen[d]) + 1
          /\ \A e \in Dirs \ {d} : idx'[e] = idx[e] /\ seen'[e] = seen[e]
      BY <1>1, <2>1, ReadHandleTakes
    <3>2. idx'[d] = Min(Ahead(d)) /\ seen'[d] = Append(seen[d], want[d][Min(Ahead(d))])
      BY <1>1, <2>1 DEF ReadHandle, Types
    <3>3. Min(Ahead(d)) \in Ahead(d)
      BY <1>1, <2>1, AheadFirst DEF ReadHandle
    <3>4. Min(Ahead(d)) \in Nat /\ Min(Ahead(d)) > idx[d]
      <4>1. Visible(want[d]) \in SUBSET Nat
        BY <1>1 DEF Visible, IsHandleList
      <4> QED
        BY <3>3, <4>1 DEF Ahead
    <3>5. seen'[d] \in Seq(Range(seen'[d]))
      BY <1>1, <3>2, AppendIsSeq
    <3>6. Len(seen[d]) \in Nat /\ idx[d] \in Nat
      BY <1>1
    <3>7. Len(seen'[d]) <= idx'[d]
      BY <1>1, <3>1, <3>2, <3>4, <3>6
    <3> QED
      BY <3>1, <3>5, <3>7
  <2>2. CASE HandleAtEnd(d)
    BY <1>1, <2>2 DEF HandleAtEnd, Types
  <2> QED
    BY <2>1, <2>2
<1>4. BoundedDir(d)'
  <2>1. SharedKinds \cap HandleKinds = {} /\ kind' = kind
    BY DEF SharedKinds, HandleKinds
  <2> QED
    BY <1>1, <1>2, <1>3, <2>1 DEF Bounded, BoundedDir
<1>5. \A e \in Dirs \ {d} : BoundedDir(e)'
  BY <1>3, DirKept DEF Bounded
<1>6. BoundedList'
  BY ListKept DEF Bounded
<1> QED
  BY <1>4, <1>5, <1>6 DEF Bounded

\* Steps that touch neither a list nor a DIR.
LEMMA IdleBounded ==
    ASSUME Bounded, UNCHANGED <<kind, cache, feed, opened, idx, want, seen>>,
           mutex' \in Dirs => mutex \in Dirs
    PROVE  Bounded'
<1>1. BoundedList'
  BY FitsStays DEF Bounded, BoundedList, IsFeed
<1>2. \A e \in Dirs : BoundedDir(e)'
  BY DirKept DEF Bounded
<1> QED
  BY <1>1, <1>2 DEF Bounded

\* Every step keeps the bounds.
LEMMA NextBounded ==
    ASSUME IInv, Bounded, Next
    PROVE  Bounded'
<1> USE DEF IInv
<1>0. UNCHANGED kind
  BY DEF Next
<1>1. ASSUME NEW d \in Dirs, NEW p \in Opens, DirOpen(d, p) PROVE Bounded'
  <2>1. CASE StartListing(d, p) /\ kind \in SharedKinds
             /\ idx' \in {idx, [idx EXCEPT ![d] = 0]}
    BY <1>0, <2>1, StartBounded
  <2>2. CASE OpenHandle(d, p) /\ kind \in HandleKinds
    BY <1>0, <2>2, OpenHandleBounded
  <2> QED
    BY <1>1, <2>1, <2>2
    DEF DirOpen, ftpfs_diropen, smb2fs_diropen, iso9660fs_diropen, nfsfs_diropen,
        sshfs_diropen, SharedKinds, HandleKinds
<1>2. ASSUME NEW d \in Dirs, Listing(d) PROVE Bounded'
  <2>1. CASE ReadEntry(d)
    BY <1>0, <2>1, ReadEntryBounded
  <2>2. CASE mutex = d /\ Opened(d)
    BY <1>0, <2>2, OpenedBounded
  <2>3. CASE DirOpenFails(d)
    <3>1. /\ UNCHANGED <<cache, opened, idx, seen>> /\ feed' = <<>>
          /\ mutex = d /\ mutex' = Nobody /\ kind \in SharedKinds
      BY <2>3 DEF DirOpenFails, FillerAlone
    <3>2. Len(cache) \in Nat /\ Len(feed) \in Nat
      BY DEF IsList, Bounded, BoundedList, IsFeed
    <3>3. Fits(Len(cache))
      BY <3>2, Shorter DEF Bounded, BoundedList
    <3>4. Len(cache') + Len(feed') = Len(cache) /\ feed' \in Seq(Range(feed'))
      BY <3>1, <3>2
    <3>5. Opens # {}
      BY <3>1 DEF Bounded, BoundedList
    <3>6. BoundedList'
      BY <1>0, <3>3, <3>4, <3>5, FitsStays DEF BoundedList, IsFeed
    <3>7. \A e \in Dirs : BoundedDir(e)'
      BY <1>0, <3>1, DirKept DEF Bounded
    <3> QED
      BY <3>6, <3>7 DEF Bounded
  <2> QED
    BY <1>2, <2>1, <2>2, <2>3
    DEF Listing, DirOpened, UFTP_DirReadline_times_out, GetPathDir_fails
<1>3. ASSUME NEW d \in Dirs, DirNext(d) PROVE Bounded'
  <2>0. d \in opened
    BY <1>3 DEF DirNext, ftpfs_dirnext, smb2fs_dirnext, iso9660fs_dirnext, nfsfs_dirnext,
       sshfs_dirnext
  <2>1. CASE kind \in SharedKinds /\ NextEntry(d)
    BY <1>0, <2>0, <2>1, NextEntryBounded
  <2>2. CASE AtEnd(d) /\ UNCHANGED <<idx, seen>>
    BY <1>0, <2>2, IdleBounded DEF AtEnd
  <2>3. CASE AtEnd(d) /\ idx' = [idx EXCEPT ![d] = 0] /\ seen' = [seen EXCEPT ![d] = <<>>]
    <3>1. /\ UNCHANGED <<cache, feed, mutex, opened, want>>
          /\ idx'[d] = 0 /\ seen'[d] = <<>>
          /\ \A e \in Dirs \ {d} : idx'[e] = idx[e] /\ seen'[e] = seen[e]
      BY <2>3 DEF AtEnd, Types
    <3> QED
      BY <1>0, <3>1, ResetBounded
  <2>4. CASE /\ kind \in HandleKinds
             /\ ReadHandle(d) \/ HandleAtEnd(d)
             /\ UNCHANGED <<cache, feed, mutex, opened, want>>
    BY <1>0, <2>0, <2>4, HandleBounded
  <2>5. CASE UNCHANGED <<cache, feed, mutex, opened, idx, want, seen>>
    BY <1>0, <2>5, IdleBounded
  <2> QED
    BY <1>3, <2>1, <2>2, <2>3, <2>4, <2>5
    DEF DirNext, ftpfs_dirnext, smb2fs_dirnext, iso9660fs_dirnext, nfsfs_dirnext,
        sshfs_dirnext, SharedKinds, HandleKinds
<1>4. ASSUME NEW d \in Dirs, nfsfs_dirreset(d) PROVE Bounded'
  <2>1. /\ UNCHANGED <<cache, feed, mutex, opened, want>>
        /\ idx'[d] = 0 /\ seen'[d] = <<>>
        /\ \A e \in Dirs \ {d} : idx'[e] = idx[e] /\ seen'[e] = seen[e]
    BY <1>4 DEF nfsfs_dirreset, Types
  <2> QED
    BY <1>0, <2>1, ResetBounded
<1>5. ASSUME NEW d \in Dirs, dirclose(d) PROVE Bounded'
  <2>1. /\ UNCHANGED <<cache, feed, mutex>> /\ opened' = opened \ {d}
        /\ idx'[d] \in {idx[d], 0} /\ seen'[d] = <<>>
        /\ \A e \in Dirs \ {d} : idx'[e] = idx[e] /\ seen'[e] = seen[e]
        /\ \A e \in opened' : want'[e] = want[e]
    BY <1>5 DEF dirclose, Types
  <2>2. d \notin opened' /\ opened' \subseteq opened
    BY <2>1
  <2> QED
    BY <1>0, <2>1, <2>2, ResetBounded
<1>6. ASSUME NEW f \in Files, Change(f) PROVE Bounded'
  BY <1>0, <1>6, IdleBounded DEF Change, listing, history
<1>7. ASSUME NEW c \in Callers, ftpfs_stat(c) \/ smb2fs_stat(c) \/ AskServer(c)
      PROVE  Bounded'
  <2>1. /\ UNCHANGED <<listing, history>>
        /\ mutex' \in {mutex, c, Nobody}
    BY <1>7 DEF ftpfs_stat, smb2fs_stat, AskServer, StartStat
  <2>2. c \notin Dirs /\ Nobody \notin Dirs
    BY DirCacheAssumption
  <2> QED
    BY <1>0, <2>1, <2>2, IdleBounded DEF listing, history
<1> QED
  BY <1>1, <1>2, <1>3, <1>4, <1>5, <1>6, <1>7 DEF Next, Step

\* A loop over a directory returns at most as many entries as some directory of the
\* mount has, whoever exchanges the list under it: for any directories and DIRs.
THEOREM LoopsAreBounded == Spec => []LoopBounded
<1>1. Init => Bounded
  <2> SUFFICES ASSUME Init PROVE Bounded
    OBVIOUS
  <2>1. <<>> \in Seq(Range(<<>>)) /\ Len(<<>>) + Len(<<>>) = 0
    OBVIOUS
  <2>2. Fits(0) /\ mutex \notin Dirs /\ opened = {}
    BY DirCacheAssumption DEF Fits, Init
  <2>3. BoundedList
    BY <2>1, <2>2 DEF Init, BoundedList, IsFeed
  <2>4. \A d \in Dirs : BoundedDir(d)
    BY <2>2 DEF Init, BoundedDir
  <2> QED
    BY <2>3, <2>4 DEF Bounded
<1>2. IInv /\ Bounded /\ [Next]_vars => Bounded'
  <2>1. ASSUME IInv, Bounded, UNCHANGED vars PROVE Bounded'
    BY <2>1, IdleBounded DEF vars, listing, history
  <2> QED
    BY <2>1, NextBounded
<1>3. IInv /\ Bounded => LoopBounded
  <2> SUFFICES ASSUME IInv, Bounded, NEW d \in opened
               PROVE  \E p \in Opens : Len(seen[d]) <= Len(Entries(p))
    BY DEF LoopBounded
  <2>1. /\ d \in Dirs /\ seen[d] \in Seq(Range(seen[d])) /\ Len(seen[d]) <= idx[d]
        /\ Opens # {}
    BY DEF IInv, Types, Bounded, BoundedDir, BoundedList
  <2>2. \E n \in Nat : Fits(n) /\ idx[d] <= n /\ idx[d] \in Nat
    <3>1. CASE kind \in SharedKinds
      BY <2>1, <3>1 DEF Bounded, BoundedDir
    <3>2. CASE kind \in HandleKinds
      <4>1. want[d] \in Seq(Range(want[d])) /\ idx[d] \in 0 .. Len(want[d])
        BY <3>2 DEF IInv, OwnHandle, IsHandleList
      <4>2. Fits(Len(want[d]))
        BY <2>1, <3>2 DEF Bounded, BoundedDir
      <4> QED
        BY <4>1, <4>2
    <3> QED
      BY <3>1, <3>2 DEF IInv
  <2>3. Len(seen[d]) \in Nat
    BY <2>1
  <2>4. Fits(Len(seen[d]))
    BY <2>1, <2>2, <2>3, Shorter
  <2>5. \A p \in Opens : Len(Entries(p)) \in Nat
    BY EntriesIsSeq
  <2> QED
    BY <2>1, <2>3, <2>4, <2>5 DEF Fits, Size
<1> QED
  BY <1>1, <1>2, <1>3, SpecIInv, PTL DEF Spec
=============================================================================
