----------------------------- MODULE ImageFiles -----------------------------
(***************************************************************************)
(* Reading the tracks of a CUE/BIN image (CCUEBINFS over CCDDAISO) and the *)
(* files of an ISO image (CISO9660FS over CISOReader).                     *)
(*                                                                         *)
(* All open tracks of a CUE image share one FILE, binnaryfile.  open and   *)
(* close of any track replace it without taking session_mutex, also        *)
(* between the fseek and the fread of another track's read.  A track is a  *)
(* WAV file: Header bytes made up on the fly, then the track's range of    *)
(* the .bin file.                                                          *)
(*                                                                         *)
(* An ISO file is read in whole blocks from which the bytes asked for are  *)
(* cut out.  Each open file is used by one thread.                         *)
(*                                                                         *)
(* The names ImageInit, ImageNext, ImageSpec and imageVars let             *)
(* ImageProofs extend this module and CueTracks, which has Init, Next,     *)
(* Spec and vars of its own.                                               *)
(***************************************************************************)
EXTENDS Integers, Sequences

CONSTANTS
    Kinds,       \* a subset of {"cue", "iso"}
    Files,       \* open files
    Nobody,      \* the owner of a free mutex
    Extents,     \* tracks or files of the image: where each starts and ends
    Size,        \* length of the image
    Header,      \* 44, the length of a WAV header
    Block,       \* 2048, ISO_BLOCKSIZE
    Lengths,     \* how much a read asks for
    Moves,       \* seeks: records of a whence and a distance
    Bound,       \* bound: how far from 0 the application seeks and reads
    MaxStreams   \* FILEs the process can have open

ASSUME ImageFilesAssumption ==
    /\ Kinds \subseteq {"cue", "iso"}
    /\ Nobody \notin Files
    /\ Extents \in Seq([start : Nat, end : Nat])
    /\ Size \in Nat
    /\ Header \in Nat \ {0}
    /\ Block \in Nat \ {0}
    /\ Lengths \subseteq Nat
    /\ Moves \subseteq [whence : {"SET", "CUR", "END"}, by : Int]
    /\ Bound \in Nat
    /\ MaxStreams \in Nat

VARIABLES
    kind,       \* of the image
    track,      \* trackid, or the ISO file; 0 when the file is not open
    offset,     \* priv_file->offset
    stream,     \* position of binnaryfile
    streams,    \* FILEs of the image that are open
    replaced,   \* binnaryfile is not the FILE the read in progress has moved
    mutex,      \* session_mutex
    left,       \* what the read in progress has still to fread
    delivered,  \* by a read that has just ended: where in the image the data was
                \* taken from, and how many of the bytes read for it come after it
    fate        \* "running" or "crashed"

imageVars == <<kind, track, offset, stream, streams, replaced, mutex, left,
               delivered, fate>>

-----------------------------------------------------------------------------
NoStream == -1
Ids == DOMAIN Extents
Start(f) == Extents[track[f]].start
End(f) == Extents[track[f]].end
Ceiling(x, y) == (x + (y - 1)) \div y

Smaller(x, y) == IF x < y THEN x ELSE y

NothingRead == [file |-> Nobody, from |-> 0, room |-> 0, replaced |-> FALSE]

ImageInit ==
    /\ kind \in Kinds
    /\ track = [f \in Files |-> 0]
    /\ offset = [f \in Files |-> 0]
    /\ stream = NoStream
    /\ streams = 0
    /\ replaced = FALSE
    /\ mutex = Nobody
    /\ left = 0
    /\ delivered = NothingRead
    /\ fate = "running"

Opened(f) == fate = "running" /\ track[f] # 0

-----------------------------------------------------------------------------
\* fopen, whose result replaces binnaryfile whatever it was: the FILE before
\* it is never closed.  It gives NULL when there are no more FILEs, and at any
\* time when the .bin file or its device is gone.
openBinaryFile ==
    /\ replaced' = TRUE
    /\ \/ /\ streams < MaxStreams
          /\ stream' = 0
          /\ streams' = streams + 1
       \/ stream' = NoStream /\ UNCHANGED streams

cuebinfs_open(f, id) ==
    /\ kind = "cue"
    /\ fate = "running"
    /\ track[f] = 0
    /\ openBinaryFile
    /\ IF stream' = NoStream
       THEN UNCHANGED <<track, offset>>
       ELSE /\ track' = [track EXCEPT ![f] = id]
            /\ offset' = [offset EXCEPT ![f] = 0]
    /\ UNCHANGED <<kind, mutex, left, fate>>
    /\ delivered' = NothingRead

\* Mutant: the FILE is closed although other tracks use it.
cuebinfs_close_closes(f) ==
    /\ kind = "cue"
    /\ Opened(f)
    /\ mutex # f
    /\ replaced' = TRUE
    /\ stream' = NoStream
    /\ streams' = IF stream = NoStream THEN streams ELSE streams - 1
    /\ track' = [track EXCEPT ![f] = 0]
    /\ offset' = [offset EXCEPT ![f] = 0]
    /\ UNCHANGED <<kind, mutex, left, fate>>
    /\ delivered' = NothingRead

\* close opens the .bin file once more.
cuebinfs_close(f) ==
    /\ kind = "cue"
    /\ Opened(f)
    /\ mutex # f
    /\ openBinaryFile
    /\ track' = [track EXCEPT ![f] = 0]
    /\ offset' = [offset EXCEPT ![f] = 0]
    /\ UNCHANGED <<kind, mutex, left, fate>>
    /\ delivered' = NothingRead

Crash == fate' = "crashed"

\* A name the image does not have (id 0) is translated to NULL, and that is
\* dereferenced.
iso9660fs_open(f, id) ==
    /\ kind = "iso"
    /\ fate = "running"
    /\ mutex = Nobody
    /\ track[f] = 0
    /\ IF id = 0
       THEN Crash /\ mutex' = f /\ UNCHANGED <<track, offset>>
       ELSE /\ track' = [track EXCEPT ![f] = id]
            /\ offset' = [offset EXCEPT ![f] = 0]
            /\ UNCHANGED <<mutex, fate>>
    /\ UNCHANGED <<kind, stream, streams, replaced, left>>
    /\ delivered' = NothingRead

iso9660fs_close(f) ==
    /\ kind = "iso"
    /\ Opened(f)
    /\ track' = [track EXCEPT ![f] = 0]
    /\ offset' = [offset EXCEPT ![f] = 0]
    /\ UNCHANGED <<kind, stream, streams, replaced, mutex, left, fate>>
    /\ delivered' = NothingRead

-----------------------------------------------------------------------------
\* SEEK_END is getTrackSize or st_size.
Base(f, whence) ==
    CASE whence = "SET" -> 0
      [] whence = "CUR" -> offset[f]
      [] whence = "END" -> End(f) - Start(f) + (IF kind = "cue" THEN Header ELSE 0)

\* cuebinfs_seek and iso9660fs_seek.
Seek(f) ==
    /\ Opened(f)
    /\ mutex = Nobody
    /\ \E m \in Moves :
          /\ Base(f, m.whence) + m.by \in -Bound .. Bound
          /\ offset' = [offset EXCEPT ![f] = Base(f, m.whence) + m.by]
    /\ UNCHANGED <<kind, track, stream, streams, replaced, mutex, left, fate>>
    /\ delivered' = NothingRead

-----------------------------------------------------------------------------
ReadReturns(f, n) ==
    /\ offset[f] \in -Bound .. Bound
    /\ offset' = [offset EXCEPT ![f] = @ + n]

\* fseek fails when the position is negative, and leaves the stream as it is.
Moved(p) == IF p < 0 THEN stream ELSE p

\* Mutant: a stream that nobody else has moved stays where it is.
Fseek_saves(f) ==
    stream' = IF stream > 0 THEN stream ELSE Moved(Start(f) + offset[f] - Header)

\* fseek(binnaryfile, startoffset + offset - 44), in the header as in the data.
Fseek(f) == stream' = Moved(Start(f) + offset[f] - Header)

\* Mutant: nobody looks whether there is a FILE.
Checked_never(f) == TRUE

\* A read that begins in the data looks whether there is a FILE; one that
\* begins in the header does not.
Checked(f) == offset[f] < Header \/ stream # NoStream

\* track_data_read where it does not come to an fread: past the end of the
\* track (size_t makes a negative offset the largest), without a FILE, and
\* when the header is all that is asked for.
ReadWithoutData(f, len) ==
    /\ kind = "cue"
    /\ Opened(f)
    /\ mutex = Nobody
    /\ LET o == offset[f]
       IN  \/ /\ o < 0 \/ o > End(f) + Header
              /\ ReadReturns(f, -1)
           \/ /\ o \in Header .. End(f) + Header
              /\ ~Checked(f)
              /\ ReadReturns(f, -1)
           \/ /\ o \in 0 .. Header - 1
              /\ len < Header - o
              /\ ReadReturns(f, len)
    /\ UNCHANGED <<kind, track, stream, streams, replaced, mutex, left, fate>>
    /\ delivered' = NothingRead

\* Otherwise, up to the fseek, of NULL when there is no FILE.
BeginRead(f, len) ==
    /\ kind = "cue"
    /\ Opened(f)
    /\ mutex = Nobody
    /\ offset[f] \in 0 .. Smaller(End(f) + Header, Bound)
    /\ Checked(f)
    /\ offset[f] < Header => len >= Header - offset[f]
    /\ IF stream = NoStream THEN Crash /\ UNCHANGED stream
                            ELSE Fseek(f) /\ UNCHANGED fate
    /\ mutex' = f
    /\ left' = IF offset[f] < Header THEN len - (Header - offset[f]) ELSE len
    /\ replaced' = FALSE
    /\ UNCHANGED <<kind, track, offset, streams>>
    /\ delivered' = NothingRead

\* What fread finds at the position of the stream.
Fread == IF stream < Size THEN Smaller(left, Size - stream) ELSE 0

\* fread of whatever FILE there is now, and the end of the read.
EndRead(f) ==
    /\ mutex = f
    /\ fate = "running"
    /\ IF stream = NoStream
       THEN /\ Crash
            /\ delivered' = NothingRead
            /\ UNCHANGED <<offset, stream, mutex, left, replaced>>
       ELSE LET o    == offset[f]
                made == IF o < Header THEN Header - o ELSE 0
            IN  /\ delivered' = [file |-> f, from |-> stream, room |-> 0,
                                 replaced |-> replaced]
                /\ stream' = stream + Fread
                /\ offset' = [offset EXCEPT ![f] = @ + made + Fread]
                /\ mutex' = Nobody
                /\ left' = 0
                /\ replaced' = FALSE
                /\ UNCHANGED fate
    /\ UNCHANGED <<kind, track, streams>>

cuebinfs_read(f) ==
    \/ \E len \in Lengths : ReadWithoutData(f, len) \/ BeginRead(f, len)
    \/ EndRead(f)

\* Mutant: the offset is rounded to the next block in every case.
StartBlock_up(o) == Ceiling(o, Block)

\* startblock; unsigned, but the sum with the lsn wraps back.
StartBlock(o) == IF o = 0 THEN 0 ELSE Ceiling(o, Block) - 1

\* Mutant: as many blocks as the length alone takes.
ReadBlocks_tight(len) == Ceiling(len, Block)

ReadBlocks(len) == Ceiling(len, Block) + 1

\* ISO_ReadFileData: readblocks blocks from startblock on, and of these len
\* bytes from _offset % 2048 on.  The read always returns len.
iso9660fs_read(f, len) ==
    /\ kind = "iso"
    /\ Opened(f)
    /\ mutex = Nobody
    /\ LET o    == offset[f]
           skip == o % Block
       IN  /\ delivered' = [file |-> f, replaced |-> FALSE,
                            from |-> Start(f) + StartBlock(o) * Block + skip,
                            room |-> ReadBlocks(len) * Block - (skip + len)]
    /\ ReadReturns(f, len)
    /\ UNCHANGED <<kind, track, stream, streams, replaced, mutex, left, fate>>

ImageNext ==
    \E f \in Files :
        \/ \E id \in Ids : cuebinfs_open(f, id)
        \/ \E id \in Ids \cup {0} : iso9660fs_open(f, id)
        \/ cuebinfs_close(f)
        \/ iso9660fs_close(f)
        \/ Seek(f)
        \/ cuebinfs_read(f)
        \/ \E len \in Lengths : iso9660fs_read(f, len)

ImageSpec == ImageInit /\ [][ImageNext]_imageVars

-----------------------------------------------------------------------------
\* However the reads of several tracks take turns with their one FILE, what a
\* read delivers after the header comes from the track's place in the .bin
\* file, and when an open or a close has replaced the FILE between its fseek
\* and its fread, from the start of the .bin file.  A read that begins in the
\* header goes to the place of its first byte, as far before the data as that
\* byte is, and takes the data from there.  On the first track of an image
\* there is no such place: the fseek fails, and the data is taken from
\* wherever the read before has left the stream.
TracksApart ==
    [][\A f \in Files :
           kind = "cue" /\ delivered'.file = f
               => \/ /\ delivered'.replaced
                     /\ delivered'.from = 0
                  \/ /\ ~delivered'.replaced
                     /\ delivered'.from = Start(f) + offset[f] - Header
                  \/ /\ ~delivered'.replaced
                     /\ Start(f) + offset[f] < Header]_imageVars

\* A read of a track ends the process only by a fopen that failed under it: an
\* open or a close of any track took the FILE away between the read's look at
\* binnaryfile and its fread, or the read began in the header, where nobody
\* looks.  In an ISO image no read does, only the open of a name that is not in
\* the image.
CrashExplained ==
    fate = "crashed" =>
        \/ /\ kind = "cue"
           /\ stream = NoStream
           /\ replaced \/ offset[mutex] \in 0 .. Header - 1
        \/ kind = "iso" /\ track[mutex] = 0

\* The offset of an ISO file is where its reads take their bytes from, except
\* at the multiples of a block, where a read delivers the block before; and the
\* blocks a read has fetched hold all the bytes it copies out of them.
IsoInPlace ==
    [][\A f \in Files :
           kind = "iso" /\ delivered'.file = f
               => LET early == offset[f] # 0 /\ offset[f] % Block = 0
                  IN  /\ delivered'.from =
                             Start(f) + offset[f] - (IF early THEN Block ELSE 0)
                      /\ delivered'.room >= 0]_imageVars
=============================================================================
