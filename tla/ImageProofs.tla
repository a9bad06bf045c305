----------------------------- MODULE ImageProofs -----------------------------
(***************************************************************************)
(* The proofs about images: what CUEParser and CCDDAISO make of a sheet,   *)
(* for any lines, times, modes and number of tracks (CueTracks), and where *)
(* reads take their bytes from, for images of any size, any tracks and     *)
(* files and any number of open files (ImageFiles).                        *)
(***************************************************************************)
EXTENDS CueTracks, ImageFiles, SequenceTheorems, TLAPS

-----------------------------------------------------------------------------
(***************************************************************************)
(* Words, quotients and remainders.                                        *)
(***************************************************************************)
\* Quotient and remainder, as numbers of their own.
LEMMA Division ==
    ASSUME NEW a \in Int, NEW b \in Nat \ {0}
    PROVE  \E q \in Int, r \in 0 .. b - 1 :
               a \div b = q /\ a % b = r /\ a = b * q + r
<1> DEFINE q == a \div b
           r == a % b
<1>1. q \in Int
  OBVIOUS
<1>2. r \in 0 .. b - 1
  OBVIOUS
<1>3. r = a - b * q
  BY Z3
<1>4. a \div b = q /\ a % b = r
  OBVIOUS
<1> HIDE DEF q, r
<1>5. a = b * q + r
  BY <1>1, <1>2, <1>3
<1> QED
  BY <1>1, <1>2, <1>4, <1>5

\* They are unique.
LEMMA SameQuotient ==
    ASSUME NEW b \in Nat \ {0}, NEW q \in Int, NEW p \in Int,
           NEW r \in 0 .. b - 1, NEW s \in 0 .. b - 1, b * q + r = b * p + s
    PROVE  q = p
<1>1. ASSUME q < p PROVE FALSE
  <2>1. b * (p - q) >= b
    BY <1>1
  <2>2. b * (p - q) = r - s
    OBVIOUS
  <2> QED BY <2>1, <2>2
<1>2. ASSUME p < q PROVE FALSE
  <2>1. b * (q - p) >= b
    BY <1>2
  <2>2. b * (q - p) = s - r
    OBVIOUS
  <2> QED BY <2>1, <2>2
<1> QED BY <1>1, <1>2

\* Numbers that differ by a multiple of b have the same remainder.
LEMMA SameRemainder ==
    ASSUME NEW b \in Nat \ {0}, NEW x \in Int, NEW y \in Int, NEW k \in Int, x = y +
           b * k
    PROVE  x % b = y % b
<1>1. PICK q \in Int, r \in 0 .. b - 1 : x % b = r /\ x = b * q + r
  BY Division
<1>2. PICK p \in Int, s \in 0 .. b - 1 : y % b = s /\ y = b * p + s
  BY Division
<1>3. b * q + r = b * (p + k) + s
  BY <1>1, <1>2
<1>4. q = p + k
  <2>1. p + k \in Int
    OBVIOUS
  <2> QED
    BY <1>3, <2>1, SameQuotient
<1> QED
  BY <1>1, <1>2, <1>3, <1>4

\* A remainder is the number itself when it is small, and a multiple away otherwise.
LEMMA Remainder ==
    ASSUME NEW b \in Nat \ {0}, NEW x \in Int
    PROVE  /\ x % b \in 0 .. b - 1
           /\ x \in 0 .. b - 1 => x % b = x
           /\ \E k \in Int : x % b = x + b * k
<1>1. PICK q \in Int, r \in 0 .. b - 1 : x % b = r /\ x = b * q + r
  BY Division
<1>2. x % b \in 0 .. b - 1
  BY <1>1
<1>3. x % b = x + b * (-q) /\ -q \in Int
  BY <1>1
<1>4. ASSUME x \in 0 .. b - 1 PROVE x % b = x
  <2>1. b * q + r = b * 0 + x
    BY <1>1, <1>4
  <2>2. q = 0
    <3>1. 0 \in Int
      OBVIOUS
    <3> QED BY <1>4, <2>1, <3>1, SameQuotient
  <2> QED
    BY <1>1, <2>2
<1> QED
  BY <1>2, <1>3, <1>4

\* A word and a double word are not empty.
LEMMA Words ==
    /\ Word \in Nat \ {0}
    /\ Word * Word \in Nat \ {0}
<1>1. Word \in Nat \ {0}
  BY CueTracksAssumption
<1> QED
  BY <1>1

\* uint32_t keeps a number that fits.
LEMMA Frames ==
    ASSUME NEW x \in Int
    PROVE  /\ U32(x) \in 0 .. Word - 1
           /\ x \in 0 .. Word - 1 => U32(x) = x
  BY Words, Remainder DEF U32

\* uint64_t keeps a number that fits.
LEMMA Bytes ==
    ASSUME NEW x \in Int
    PROVE  /\ U64(x) \in Nat
           /\ x \in 0 .. Word * Word - 1 => U64(x) = x
<1> DEFINE b == Word * Word
<1>1. b \in Nat \ {0}
  BY Words
<1> HIDE DEF b
<1>2. x % b \in 0 .. b - 1 /\ (x \in 0 .. b - 1 => x % b = x)
  BY <1>1, Remainder
<1>3. x % b \in Nat
  BY <1>1, <1>2
<1> QED
  BY <1>2, <1>3 DEF U64, b

\* Bytes and frames that were counted from the same place are so after the next track too.
LEMMA StaysAligned ==
    ASSUME NEW bytes \in Int, NEW from \in Int, NEW to \in Int, NEW length \in Int,
           U32(bytes) = U32(from * length)
    PROVE  U32(U64(bytes + U32(to - from) * length)) = U32(to * length)
<1> DEFINE frames == U32(to - from)
           sum == bytes + frames * length
<1>1. PICK j \in Int : frames = to - from + Word * j
  <2>1. to - from \in Int
    OBVIOUS
  <2>2. \E j \in Int : (to - from) % Word = to - from + Word * j
    BY <2>1, Words, Remainder
  <2> QED
    BY <2>2 DEF U32
<1>2. PICK k \in Int : U64(sum) = sum + (Word * Word) * k
  <2>1. frames \in Int
    BY <1>1, Words
  <2>2. sum \in Int
    <3> HIDE DEF frames
    <3> QED BY <2>1
  <2> DEFINE b == Word * Word
  <2>3. b \in Nat \ {0}
    BY Words
  <2> HIDE DEF b, sum
  <2>4. \E k \in Int : sum % b = sum + b * k
    BY <2>2, <2>3, Remainder
  <2> QED
    BY <2>4 DEF U64, b
<1>3. PICK m \in Int : bytes % Word = bytes + Word * m
  BY Words, Remainder
<1>4. PICK n \in Int : (from * length) % Word = from * length + Word * n
  <2>1. from * length \in Int
    OBVIOUS
  <2> QED
    BY <2>1, Words, Remainder
<1>5. bytes = from * length + Word * (n - m)
  <2>1. bytes + Word * m = from * length + Word * n
    BY <1>3, <1>4 DEF U32
  <2>2. Word * (n - m) = Word * n - Word * m
    BY Words
  <2>3. from * length \in Int /\ Word * n \in Int /\ Word * m \in Int
    BY Words
  <2> QED
    BY <2>1, <2>2, <2>3
<1>6. frames * length = to * length - from * length + Word * (j * length)
  <2> HIDE DEF frames
  <2>1. frames * length = (to - from + Word * j) * length
    BY <1>1
  <2>2. (to - from + Word * j) * length = to * length - from * length + (Word * j) * length
    BY Words
  <2>3. (Word * j) * length = Word * (j * length)
    BY Words
  <2> QED
    BY <2>1, <2>2, <2>3
<1>7. U64(sum) = to * length + Word * ((n - m) + j * length + Word * k)
  <2> DEFINE a == n - m
             c == j * length
             e == Word * k
             f == to * length
             g == from * length
  <2>1. a \in Int /\ c \in Int /\ e \in Int /\ f \in Int /\ g \in Int
    BY Words
  <2>2. sum = g + Word * a + (f - g + Word * c)
    BY <1>5, <1>6
  <2>3. (Word * Word) * k = Word * e
    BY Words
  <2>4. Word * (a + c + e) = Word * a + Word * c + Word * e
    <3> HIDE DEF a, c, e
    <3> QED BY <2>1, Words
  <2>5. U64(sum) = sum + Word * e
    BY <1>2, <2>3
  <2> HIDE DEF a, c, e, f, g, sum, frames
  <2>6. Word * a \in Int /\ Word * c \in Int /\ Word * e \in Int
    BY <2>1, Words
  <2>7. U64(sum) = f + Word * (a + c + e)
    BY <2>1, <2>2, <2>4, <2>5, <2>6
  <2> QED
    BY <2>7 DEF a, c, e, f
<1>8. (n - m) + j * length + Word * k \in Int /\ to * length \in Int /\ U64(sum) \in Int
  BY <1>7, Words
<1>9. U64(sum) % Word = (to * length) % Word
  <2> DEFINE u == U64(sum)
             v == to * length
             w == (n - m) + j * length + Word * k
  <2>1. u \in Int /\ v \in Int /\ w \in Int /\ u = v + Word * w
    BY <1>7, <1>8
  <2> HIDE DEF u, v, w
  <2>2. u % Word = v % Word
    BY <2>1, Words, SameRemainder
  <2> QED
    BY <2>2 DEF u, v
<1> QED
  BY <1>9 DEF U32

-----------------------------------------------------------------------------
(***************************************************************************)
(* A sheet: the types of the parser's state and of what the sheet says.    *)
(***************************************************************************)
Types ==
    /\ info \in [file_index : Nat, file_offset : Nat, file_start : Nat, track_mode : Modes,
                 sector_length : Nat, unstored_pregap_length : Nat,
                 cumulative_offset : Nat, data_start : Nat, track_start : Nat]
    /\ prev \in [track_start : Nat, sector_length : Nat]
    /\ got \in [file : BOOLEAN, track : BOOLEAN, data : BOOLEAN, pause : BOOLEAN]
    /\ pc \in {"call", "loop", "return", "done"}
    /\ pending \in Nat \cup {None}
    /\ tracks \in Seq([startoffset : Nat, endoffset : Nat])
    /\ says \in [mode : Modes, index0 : Nat \cup {None}, pregap : Nat,
                 last : Nat \cup {None}, started : BOOLEAN, start : Nat, base : Int,
                 length : Nat, data : Int, gaps : Nat, both : BOOLEAN,
                 all_audio : BOOLEAN, count : Nat, disc : Nat]

\* Both words hold natural numbers.
LEMMA FramesAreNat ==
    ASSUME NEW x \in Int
    PROVE  U32(x) \in Nat /\ U64(x) \in Nat
<1>1. U32(x) \in 0 .. Word - 1
  BY Frames
<1> QED
  BY <1>1, Bytes, Words

\* The types hold at first.
LEMMA InitTypes == Init => Types
<1> SUFFICES ASSUME Init PROVE Types
  OBVIOUS
<1>1. <<>> \in Seq([startoffset : Nat, endoffset : Nat])
  BY EmptySeq
<1> QED
  BY <1>1, CueTracksAssumption DEF Init, Types, Nothing, Silent, None, Modes

\* A call of next_track keeps the types.
LEMMA CallTypes ==
    ASSUME Types, next_track
    PROVE  Types'
<1>1. info.cumulative_offset + info.unstored_pregap_length \in Int
  BY DEF Types
<1>2. U32(info.cumulative_offset + info.unstored_pregap_length) \in Nat
  BY <1>1, FramesAreNat
<1>3. Length[info.track_mode] \in Nat
  BY CueTracksAssumption DEF Types
<1> QED
  BY <1>2, <1>3 DEF Types, next_track, Nothing

\* A FILE line keeps the types.
LEMMA FileTypes ==
    ASSUME Types, FileLine
    PROVE  Types'
<1>1. 0 - info.file_offset \in Int
  BY DEF Types
<1>2. U64(0 - info.file_offset) \in Nat
  BY <1>1, FramesAreNat
<1>3. Quotient(U64(0 - info.file_offset), info.sector_length) \in Nat
  <2>1. ASSUME NEW a \in Nat, NEW b \in Nat, b # 0 PROVE a \div b \in Nat
    <3>1. PICK q \in Int, r \in 0 .. b - 1 : a \div b = q /\ a = b * q + r
      BY <2>1, Division
    <3>2. ASSUME q < 0 PROVE FALSE
      <4>1. b * (q + 1) <= 0
        BY <2>1, <3>2
      <4>2. b * (q + 1) = b * q + b
        BY <2>1
      <4> QED
        BY <3>1, <4>1, <4>2
    <3> QED
      BY <3>1, <3>2
  <2> QED
    BY <1>2, <2>1 DEF Quotient, Types
<1>4. info.data_start + Quotient(U64(0 - info.file_offset), info.sector_length) \in Int
  BY <1>3 DEF Types
<1>5. U32(info.data_start + Quotient(U64(0 - info.file_offset), info.sector_length)) \in Nat
  BY <1>4, FramesAreNat
<1>6. Length["AUDIO"] \in Nat /\ "AUDIO" \in Modes
  BY CueTracksAssumption
<1> DEFINE start == IF info.file_index > 0
                    THEN U32(info.data_start + Quotient(U64(0 - info.file_offset), info.sector_length))
                    ELSE info.file_start
<1>7. start \in Nat
  BY <1>5 DEF Types
<1>8. info' = [info EXCEPT !.file_start = start, !.file_offset = 0,
                           !.file_index = info.file_index + 1, !.track_mode = "AUDIO"]
  BY DEF FileLine, Types
<1> HIDE DEF start
<1>9. info' \in [file_index : Nat, file_offset : Nat, file_start : Nat, track_mode : Modes,
                 sector_length : Nat, unstored_pregap_length : Nat,
                 cumulative_offset : Nat, data_start : Nat, track_start : Nat]
  <2>1. info.file_index + 1 \in Nat
    BY DEF Types
  <2> DEFINE M == Modes
  <2>2. "AUDIO" \in M
    BY <1>6
  <2>3. info \in [file_index : Nat, file_offset : Nat, file_start : Nat, track_mode : M,
                 sector_length : Nat, unstored_pregap_length : Nat,
                 cumulative_offset : Nat, data_start : Nat, track_start : Nat]
    BY DEF Types
  <2> HIDE DEF M
  <2>4. info' \in [file_index : Nat, file_offset : Nat, file_start : Nat, track_mode : M,
                 sector_length : Nat, unstored_pregap_length : Nat,
                 cumulative_offset : Nat, data_start : Nat, track_start : Nat]
    BY <2>1, <2>2, <2>3, <1>7, <1>8
  <2> QED
    BY <2>4 DEF M
<1>10. /\ prev' = [track_start |-> 0, sector_length |-> Length["AUDIO"]]
       /\ got' = [got EXCEPT !.file = TRUE]
       /\ says' = [says EXCEPT !.last = None, !.started = FALSE]
       /\ UNCHANGED <<pc, pending, tracks>>
  BY DEF FileLine
<1> QED
  BY <1>6, <1>9, <1>10 DEF Types

\* A TRACK line keeps the types.
LEMMA TrackTypes ==
    ASSUME Types, NEW m \in Modes, TrackLine(m)
    PROVE  Types'
<1>1. Length[m] \in Nat
  BY CueTracksAssumption
<1> DEFINE audio == says.all_audio /\ m = "AUDIO"
<1>2. audio \in BOOLEAN
  OBVIOUS
<1>3. /\ info' = [info EXCEPT !.track_mode = m, !.sector_length = Length[m],
                              !.unstored_pregap_length = 0,
                              !.data_start = 0, !.track_start = 0]
      /\ got' = [got EXCEPT !.track = TRUE, !.data = FALSE, !.pause = FALSE]
      /\ says' = [says EXCEPT !.mode = m, !.index0 = None, !.pregap = 0,
                              !.all_audio = audio, !.count = says.count + 1]
      /\ UNCHANGED <<prev, pc, pending, tracks>>
  BY DEF TrackLine, Types
<1> HIDE DEF audio
<1>4. says.count + 1 \in Nat
  BY DEF Types
<1>5. info' \in [file_index : Nat, file_offset : Nat, file_start : Nat, track_mode : Modes,
                 sector_length : Nat, unstored_pregap_length : Nat,
                 cumulative_offset : Nat, data_start : Nat, track_start : Nat]
  BY <1>1, <1>3 DEF Types
<1>6. says' \in [mode : Modes, index0 : Nat \cup {None}, pregap : Nat,
                 last : Nat \cup {None}, started : BOOLEAN, start : Nat, base : Int,
                 length : Nat, data : Int, gaps : Nat, both : BOOLEAN,
                 all_audio : BOOLEAN, count : Nat, disc : Nat]
  BY <1>2, <1>3, <1>4 DEF Types
<1> QED
  BY <1>3, <1>5, <1>6 DEF Types

\* A PREGAP line keeps the types.
LEMMA PregapTypes ==
    ASSUME Types, NEW time \in Times, PregapLine(time)
    PROVE  Types'
<1>1. time \in Nat
  BY CueTracksAssumption
<1> QED
  BY <1>1 DEF Types, PregapLine

\* The INDEX lines keep the types.
LEMMA IndexTypes ==
    ASSUME Types, NEW time \in Times, Index0Line(time) \/ Index1Line(time)
    PROVE  Types'
<1>1. time \in Nat
  BY CueTracksAssumption
<1>2. Lba(time) \in Nat
  <2>1. info.file_start + time + info.cumulative_offset \in Int
    BY <1>1 DEF Types
  <2> QED
    BY <2>1, FramesAreNat DEF Lba
<1>3. CASE Index0Line(time)
  BY <1>1, <1>2, <1>3 DEF Types, Index0Line
<1>4. CASE Index1Line(time)
  <2> DEFINE start == IF says.index0 = None THEN time ELSE says.index0
             base  == IF says.started
                      THEN says.base + (start - says.start) * says.length
                      ELSE 0
             gap   == says.index0 # None \/ says.pregap > 0
             data  == base + (time - start) * Length[says.mode]
             gaps  == IF gap \/ says.gaps > 0 THEN says.gaps + 1 ELSE 0
             both  == says.both \/ (says.index0 # None /\ says.pregap > 0)
  <2>1. start \in Nat
    BY <1>1 DEF Types
  <2>2. base \in Int
    <3>1. says.base \in Int /\ says.start \in Int /\ says.length \in Int
      BY DEF Types
    <3>2. (start - says.start) * says.length \in Int
      <4> HIDE DEF start
      <4> QED BY <2>1, <3>1
    <3> HIDE DEF start
    <3> QED BY <3>1, <3>2
  <2>3. Length[says.mode] \in Nat
    BY CueTracksAssumption DEF Types
  <2>4. data \in Int
    <3> HIDE DEF start, base
    <3> QED BY <1>1, <2>1, <2>2, <2>3
  <2>5. gaps \in Nat /\ both \in BOOLEAN
    BY DEF Types
  <2>6. says' = [says EXCEPT !.last = time, !.started = TRUE, !.start = start, !.base = base,
                             !.length = Length[says.mode], !.data = data,
                             !.gaps = gaps, !.both = both]
    BY <1>4 DEF Index1Line, Completed, Types
  <2> HIDE DEF start, base, gap, data, gaps, both
  <2>7. says' \in [mode : Modes, index0 : Nat \cup {None}, pregap : Nat,
                   last : Nat \cup {None}, started : BOOLEAN, start : Nat, base : Int,
                   length : Nat, data : Int, gaps : Nat, both : BOOLEAN,
                   all_audio : BOOLEAN, count : Nat, disc : Nat]
    BY <1>1, <2>1, <2>2, <2>3, <2>4, <2>5, <2>6 DEF Types
  <2> QED
    BY <1>2, <1>4, <2>7 DEF Types, Index1Line
<1> QED
  BY <1>3, <1>4

\* The positions after the loop are natural numbers.
LEMMA FileOffsetType ==
    ASSUME Types
    PROVE  /\ Spread.track \in Nat /\ Spread.data \in Nat
           /\ FileOffset(Spread) \in Nat
<1>1. U32(info.data_start + info.unstored_pregap_length) \in Nat
  <2>1. info.data_start + info.unstored_pregap_length \in Int
    BY DEF Types
  <2> QED
    BY <2>1, FramesAreNat
<1>2. Spread.track \in Nat /\ Spread.data \in Nat
  BY <1>1 DEF Spread, Types
<1> DEFINE s == Spread
           previous == IF got.file THEN 0
                       ELSE U32(s.track - (prev.track_start + info.cumulative_offset))
           stored == U32(s.data - (s.track + info.unstored_pregap_length))
           sum == info.file_offset + previous * prev.sector_length + stored * info.sector_length
<1> HIDE DEF s
<1>3. s.track - (prev.track_start + info.cumulative_offset) \in Int
  <2>1. prev.track_start \in Int /\ info.cumulative_offset \in Int
    BY DEF Types
  <2>2. s.track \in Int
    BY <1>2 DEF s
  <2> QED
    BY <2>1, <2>2
<1>4. s.data - (s.track + info.unstored_pregap_length) \in Int
  <2>1. info.unstored_pregap_length \in Int
    BY DEF Types
  <2>2. s.track \in Int /\ s.data \in Int
    BY <1>2 DEF s
  <2> QED
    BY <2>1, <2>2
<1>5. previous \in Nat /\ stored \in Nat
  BY <1>3, <1>4, FramesAreNat
<1>6. sum \in Int
  <2> HIDE DEF previous, stored
  <2>1. prev.sector_length \in Nat /\ info.sector_length \in Nat /\ info.file_offset \in Nat
    BY DEF Types
  <2> QED
    BY <1>5, <2>1
<1>7. FileOffset(s) = U64(sum)
  BY DEF FileOffset
<1>8. FileOffset(s) \in Nat
  <2> HIDE DEF sum
  <2> QED
    BY <1>6, <1>7, FramesAreNat
<1> QED
  BY <1>2, <1>8 DEF s

\* The return of next_track keeps the types.
LEMMA ReturnTypes ==
    ASSUME Types, ReturnTrack
    PROVE  Types'
<1> DEFINE t == Spread.track
           d == Spread.data
           b == FileOffset(Spread)
<1>1. t \in Nat /\ d \in Nat /\ b \in Nat
  BY FileOffsetType
<1>2. /\ info' = [info EXCEPT !.track_start = t, !.data_start = d, !.file_offset = b]
      /\ pc' = "return"
      /\ says' = [says EXCEPT !.disc = d]
      /\ UNCHANGED <<prev, got, pending, tracks>>
  BY DEF ReturnTrack
<1> HIDE DEF t, d, b
<1> QED
  BY <1>1, <1>2 DEF Types

\* The tracks of CCDDAISO after a push_back.
LEMMA PushedType ==
    ASSUME Types, NEW end \in Int
    PROVE  Pushed(end) \in Seq([startoffset : Nat, endoffset : Nat])
<1>1. U32(end) \in Nat
  BY FramesAreNat
<1>2. CASE pending = None
  BY <1>2 DEF Pushed, Types
<1>3. CASE pending # None
  <2>1. [startoffset |-> pending, endoffset |-> U32(end)] \in [startoffset : Nat, endoffset : Nat]
    BY <1>1, <1>3 DEF Types
  <2> QED
    BY <1>3, <2>1, AppendProperties DEF Pushed, Types
<1> QED
  BY <1>2, <1>3

\* The constructor of CCDDAISO keeps the types.
LEMMA PushTypes ==
    ASSUME Types, CCDDAISO \/ LastTrack
    PROVE  Types'
<1>1. CASE CCDDAISO
  <2>1. Pushed(info.file_offset) \in Seq([startoffset : Nat, endoffset : Nat])
    BY PushedType DEF Types
  <2>2. info.track_start * info.sector_length \in Int
    BY DEF Types
  <2>3. U32(info.track_start * info.sector_length) \in Nat
    BY <2>2, FramesAreNat
  <2> QED
    BY <1>1, <2>1, <2>3 DEF CCDDAISO, Types
<1>2. CASE LastTrack
  <2>1. Pushed(FileSize) \in Seq([startoffset : Nat, endoffset : Nat])
    BY PushedType, CueTracksAssumption
  <2> QED
    BY <1>2, <2>1 DEF LastTrack, Types
<1> QED
  BY <1>1, <1>2

\* Every step keeps the types.
LEMMA NextTypes ==
    ASSUME Types, Next
    PROVE  Types'
<1>1. "AUDIO" \in Modes
  BY CueTracksAssumption
<1>2. CASE Line
  <2>1. ASSUME NEW time \in Times, PregapLine(time) PROVE Types'
    BY <2>1, PregapTypes
  <2>2. ASSUME EndOfSheet PROVE Types'
    BY <2>2 DEF EndOfSheet, Types
  <2>3. ASSUME NEW m \in Modes, TrackLine(m) PROVE Types'
    BY <2>3, TrackTypes
  <2> QED
    BY <1>2, <2>1, <2>2, <2>3, FileTypes, IndexTypes DEF Line
<1> QED
  BY <1>2, CallTypes, ReturnTypes, PushTypes DEF Next

-----------------------------------------------------------------------------
(***************************************************************************)
(* What the lines of a sheet keep.                                         *)
(***************************************************************************)
AudioLength == Length["AUDIO"]

\* What the parser keeps and what the sheet says go together.
Flow ==
    /\ got.data \/ got.pause => got.track
    /\ pc = "return" => got.track /\ got.data
    /\ info.unstored_pregap_length = says.pregap
    /\ got.track => (got.pause <=> says.index0 # None)
    /\ says.all_audio => info.track_mode = "AUDIO"
    /\ pc \in {"call", "return"} \/ got.track => info.track_mode = says.mode
    /\ got.track => info.sector_length = Length[says.mode]
    /\ info.file_index <= 1 => info.file_start = 0

\* Before the first FILE nothing has happened.
NoFile ==
    info.file_index = 0 =>
        /\ info.file_offset = 0 /\ info.cumulative_offset = 0
        /\ info.track_start = 0 /\ info.track_mode = "AUDIO" 
        /\ got = Nothing
        /\ says = Silent
        /\ tracks = <<>>
        /\ pending = None
        /\ prev.track_start = 0
        /\ pc = "loop" => prev.sector_length = AudioLength

\* The first FILE of the sheet, and no gap completed yet.
Gapless == info.file_index = 1 /\ says.gaps = 0

\* Until then nothing moves the disc away from the file.
NoGap ==
    Gapless =>
        /\ info.cumulative_offset = 0
        /\ pc \in {"call", "return"} \/ (pc = "loop" /\ got.data) =>
              says.pregap = 0 /\ says.index0 = None
        /\ pc = "loop" /\ got.file /\ ~got.data =>
              says.last = None \/ (got.track /\ says.index0 # None)
        /\ pc = "loop" /\ got.file => info.file_offset = 0
        /\ pc = "loop" /\ got.file /\ got.data => info.data_start = 0
        /\ ~says.both

\* In a sheet of audio tracks the bytes are the frames, as far as a word counts.
Aligned ==
    Gapless /\ says.all_audio =>
        /\ pc \in {"call", "return"} =>
              /\ U32(info.file_offset) = U32(info.track_start * AudioLength)
              /\ info.sector_length = AudioLength
        /\ pc = "loop" =>
              /\ U32(info.file_offset) = U32(prev.track_start * AudioLength)
              /\ prev.sector_length = AudioLength

\* The ranges CCDDAISO has cut follow on each other up to the pending one.
Follow ==
    Gapless /\ says.all_audio =>
        /\ \A i \in DOMAIN tracks :
              i + 1 \in DOMAIN tracks => tracks[i].endoffset = tracks[i + 1].startoffset
        /\ pending # None /\ tracks # <<>> => pending = tracks[Len(tracks)].endoffset
        /\ pending = None /\ pc # "done" => tracks = <<>>

\* Until then the parser has the track where the sheet has it.
Placed ==
    Gapless =>
        /\ says.started =>
              /\ says.start \in 0 .. Word - 1 /\ says.last \in Nat
              /\ says.base \in 0 .. says.start * Word
              /\ says.start <= says.last
              /\ says.length <= Word
        /\ pc \in {"call", "return"} =>
              /\ says.started
              /\ info.track_start = says.start
              /\ info.file_offset = says.base
              /\ says.data = says.base
              /\ Length[info.track_mode] = says.length
        /\ pc = "loop" /\ ~got.data =>
              /\ says.started <=> ~got.file
              /\ says.started =>
                    /\ prev.track_start = says.start
                    /\ prev.sector_length = says.length
                    /\ info.file_offset = says.base
              /\ ~says.started => info.file_offset = 0
              /\ got.pause =>
                    /\ info.track_start = says.index0
                    /\ says.last = says.index0
                    /\ ~says.started => says.index0 = 0
              /\ ~got.pause /\ ~says.started => says.last = None
        /\ pc = "loop" /\ got.data =>
              /\ Spread.track = says.start
              /\ says.data = says.base
              /\ says.started
              /\ info.sector_length = says.length

\* The first gap included, file_offset is, or will be, where the data is.
Found ==
    info.file_index = 1 /\ says.gaps <= 1 /\ ~says.both =>
        /\ pc = "loop" /\ got.data => FileOffset(Spread) = says.data
        /\ pc = "return" => info.file_offset = says.data

\* With times up to h: where the disc has come to, and what the gaps add up to.
Ahead(h) ==
    info.file_index = 1 =>
        /\ says.count <= MaxTracks
        /\ ~got.track => info.cumulative_offset <= says.count * h
        /\ got.track => /\ says.pregap <= h
                        /\ says.count >= 1
                        /\ info.cumulative_offset <= (says.count - 1) * h
        /\ says.last <= h
        /\ pc = "call" => /\ got.track
                          /\ says.last \in Nat
                          /\ says.disc <= says.last + info.cumulative_offset + says.pregap
        /\ pc = "return" => /\ says.last \in Nat
                            /\ says.disc = info.data_start
                            /\ info.data_start <= says.last + info.cumulative_offset + says.pregap
        /\ pc = "loop" /\ ~got.pause /\ ~got.data =>
              IF says.last = None THEN says.disc = 0
              ELSE says.disc <= says.last + info.cumulative_offset
        /\ pc = "loop" /\ got.pause /\ ~got.data =>
              /\ info.track_start = says.last + info.cumulative_offset
              /\ says.disc <= info.track_start
              /\ says.last \in Nat
        /\ pc = "loop" /\ got.data =>
              /\ says.disc <= Spread.track
              /\ Spread.track <= Spread.data
              /\ says.last \in Nat
              /\ info.data_start = says.last + info.cumulative_offset

-----------------------------------------------------------------------------
(***************************************************************************)
(* The fields after a step, one by one, and the arithmetic of the steps.   *)
(***************************************************************************)
\* Times are uint32_t, and a frame has no more bytes than a word has values.
WordFits ==
    /\ \A t \in Times : t < Word
    /\ \A m \in Modes : Length[m] <= Word

\* Zero is zero in a word.
LEMMA Zero == U32(0) = 0
<1>1. 0 \in 0 .. Word - 1
  BY Words
<1> QED
  BY <1>1, Frames

\* The types of the fields, one by one.
LEMMA Scalars ==
    ASSUME Types
    PROVE  /\ info.file_index \in Nat /\ info.file_offset \in Nat /\ info.file_start \in Nat
           /\ info.track_mode \in Modes /\ info.sector_length \in Nat
           /\ info.unstored_pregap_length \in Nat /\ info.cumulative_offset \in Nat
           /\ info.data_start \in Nat /\ info.track_start \in Nat
           /\ prev.track_start \in Nat /\ prev.sector_length \in Nat
           /\ got.file \in BOOLEAN /\ got.track \in BOOLEAN
           /\ got.data \in BOOLEAN /\ got.pause \in BOOLEAN
           /\ says.mode \in Modes /\ says.index0 \in Nat \cup {None} /\ says.pregap \in Nat
           /\ says.last \in Nat \cup {None} /\ says.started \in BOOLEAN
           /\ says.start \in Nat
           /\ says.base \in Int /\ says.length \in Nat /\ says.data \in Int
           /\ says.gaps \in Nat /\ says.both \in BOOLEAN /\ says.all_audio \in BOOLEAN
           /\ says.count \in Nat /\ says.disc \in Nat
  BY DEF Types

\* What a call of next_track changes.
LEMMA CallFields ==
    ASSUME Types, next_track
    PROVE  /\ pc = "call" /\ pc' = "loop" /\ UNCHANGED <<pending, tracks, says>>
           /\ prev'.track_start = info.track_start
           /\ prev'.sector_length = Length[info.track_mode]
           /\ info'.cumulative_offset = U32(info.cumulative_offset + info.unstored_pregap_length)
           /\ info'.file_index = info.file_index /\ info'.file_offset = info.file_offset
           /\ info'.file_start = info.file_start /\ info'.track_mode = info.track_mode
           /\ info'.sector_length = info.sector_length
           /\ info'.unstored_pregap_length = info.unstored_pregap_length
           /\ info'.data_start = info.data_start /\ info'.track_start = info.track_start
           /\ got' = Nothing
           /\ ~got'.file /\ ~got'.track /\ ~got'.data /\ ~got'.pause
  BY DEF next_track, Types, Nothing

\* What a FILE line changes.
LEMMA FileFields ==
    ASSUME Types, FileLine
    PROVE  /\ pc = "loop" /\ ~got.track /\ UNCHANGED <<pc, pending, tracks>>
           /\ prev'.track_start = 0 /\ prev'.sector_length = Length["AUDIO"]
           /\ info'.file_index = info.file_index + 1 /\ info'.file_offset = 0
           /\ info.file_index = 0 => info'.file_start = info.file_start
           /\ info'.track_mode = "AUDIO"
           /\ info'.sector_length = info.sector_length
           /\ info'.unstored_pregap_length = info.unstored_pregap_length
           /\ info'.cumulative_offset = info.cumulative_offset
           /\ info'.data_start = info.data_start /\ info'.track_start = info.track_start
           /\ got'.file /\ ~got'.track /\ got'.data = got.data /\ got'.pause = got.pause
           /\ says'.last = None /\ ~says'.started
           /\ says'.mode = says.mode /\ says'.index0 = says.index0
           /\ says'.pregap = says.pregap /\ says'.start = says.start
           /\ says'.base = says.base /\ says'.length = says.length
           /\ says'.data = says.data /\ says'.gaps = says.gaps /\ says'.both = says.both
           /\ says'.all_audio = says.all_audio /\ says'.count = says.count
           /\ says'.disc = says.disc
<1> DEFINE start == IF info.file_index > 0
                    THEN U32(info.data_start +
                             Quotient(U64(0 - info.file_offset), info.sector_length))
                    ELSE info.file_start
<1>1. /\ pc = "loop" /\ ~got.track /\ UNCHANGED <<pc, pending, tracks>>
      /\ prev' = [track_start |-> 0, sector_length |-> Length["AUDIO"]]
      /\ info' = [info EXCEPT !.file_start = start, !.file_offset = 0,
                              !.file_index = info.file_index + 1, !.track_mode = "AUDIO"]
      /\ got' = [got EXCEPT !.file = TRUE]
      /\ says' = [says EXCEPT !.last = None, !.started = FALSE]
  BY DEF FileLine, Loop, Types
<1>2. info.file_index = 0 => start = info.file_start
  OBVIOUS
<1> HIDE DEF start
<1> QED
  BY <1>1, <1>2 DEF Types

\* What INDEX 01 changes.
LEMMA Index1Fields ==
    ASSUME Types, NEW time \in Times, Index1Line(time)
    PROVE  LET start == IF says.index0 = None THEN time ELSE says.index0
               base  == IF says.started
                        THEN says.base + (start - says.start) * says.length
                        ELSE 0
               gap   == says.index0 # None \/ says.pregap > 0
           IN  /\ pc = "loop" /\ got.track /\ ~got.data
               /\ UNCHANGED <<prev, pc, pending, tracks>>
               /\ InOrder(time)
               /\ info'.data_start = Lba(time)
               /\ info'.file_index = info.file_index
               /\ info'.file_offset = info.file_offset
               /\ info'.file_start = info.file_start
               /\ info'.track_mode = info.track_mode
               /\ info'.sector_length = info.sector_length
               /\ info'.unstored_pregap_length = info.unstored_pregap_length
               /\ info'.cumulative_offset = info.cumulative_offset
               /\ info'.track_start = info.track_start
               /\ got'.data /\ got'.file = got.file /\ got'.track = got.track
               /\ got'.pause = got.pause
               /\ says'.last = time /\ says'.started /\ says'.start = start
               /\ says'.base = base /\ says'.length = Length[says.mode]
               /\ says'.data = base + (time - start) * Length[says.mode]
               /\ says'.gaps = IF gap \/ says.gaps > 0 THEN says.gaps + 1 ELSE 0
               /\ says'.both <=> says.both \/ (says.index0 # None /\ says.pregap > 0)
               /\ says'.mode = says.mode /\ says'.index0 = says.index0
               /\ says'.pregap = says.pregap /\ says'.all_audio = says.all_audio
               /\ says'.count = says.count /\ says'.disc = says.disc
<1> DEFINE start == IF says.index0 = None THEN time ELSE says.index0
           base  == IF says.started
                    THEN says.base + (start - says.start) * says.length
                    ELSE 0
           gap   == says.index0 # None \/ says.pregap > 0
           data  == base + (time - start) * Length[says.mode]
           gaps  == IF gap \/ says.gaps > 0 THEN says.gaps + 1 ELSE 0
           both  == says.both \/ (says.index0 # None /\ says.pregap > 0)
<1>1. says' = [says EXCEPT !.last = time, !.started = TRUE, !.start = start, !.base = base,
                           !.length = Length[says.mode], !.data = data,
                           !.gaps = gaps, !.both = both]
  BY DEF Index1Line, Completed, Types
<1>2. /\ pc = "loop" /\ got.track /\ ~got.data
      /\ UNCHANGED <<prev, pc, pending, tracks>>
      /\ InOrder(time)
      /\ info' = [info EXCEPT !.data_start = Lba(time)]
      /\ got' = [got EXCEPT !.data = TRUE]
  BY DEF Index1Line, Loop
<1>3. /\ says'.last = time /\ says'.started /\ says'.start = start
      /\ says'.base = base /\ says'.length = Length[says.mode]
      /\ says'.data = data /\ says'.gaps = gaps /\ says'.both = both
      /\ says'.mode = says.mode /\ says'.index0 = says.index0
      /\ says'.pregap = says.pregap /\ says'.all_audio = says.all_audio
      /\ says'.count = says.count /\ says'.disc = says.disc
  <2> HIDE DEF start, base, gap, data, gaps, both
  <2> QED
    BY <1>1 DEF Types
<1>4. /\ info'.data_start = Lba(time)
      /\ info'.file_index = info.file_index /\ info'.file_offset = info.file_offset
      /\ info'.file_start = info.file_start /\ info'.track_mode = info.track_mode
      /\ info'.sector_length = info.sector_length
      /\ info'.unstored_pregap_length = info.unstored_pregap_length
      /\ info'.cumulative_offset = info.cumulative_offset
      /\ info'.track_start = info.track_start
      /\ got'.data /\ got'.file = got.file /\ got'.track = got.track
      /\ got'.pause = got.pause
  BY <1>2 DEF Types
<1> QED
  BY <1>2, <1>3, <1>4

\* What the return of next_track changes.
LEMMA ReturnFields ==
    ASSUME Types, ReturnTrack
    PROVE  /\ pc = "loop" /\ got.track /\ got.data /\ pc' = "return"
           /\ UNCHANGED <<prev, got, pending, tracks>>
           /\ info'.track_start = Spread.track /\ info'.data_start = Spread.data
           /\ info'.file_offset = FileOffset(Spread)
           /\ info'.file_index = info.file_index
           /\ info'.file_start = info.file_start /\ info'.track_mode = info.track_mode
           /\ info'.sector_length = info.sector_length
           /\ info'.unstored_pregap_length = info.unstored_pregap_length
           /\ info'.cumulative_offset = info.cumulative_offset
           /\ says'.disc = Spread.data
           /\ says'.mode = says.mode /\ says'.index0 = says.index0
           /\ says'.pregap = says.pregap /\ says'.last = says.last
           /\ says'.started = says.started /\ says'.start = says.start
           /\ says'.base = says.base /\ says'.length = says.length
           /\ says'.data = says.data /\ says'.gaps = says.gaps /\ says'.both = says.both
           /\ says'.all_audio = says.all_audio /\ says'.count = says.count
<1> DEFINE t == Spread.track
           d == Spread.data
           b == FileOffset(Spread)
<1>1. /\ info' = [info EXCEPT !.track_start = t, !.data_start = d, !.file_offset = b]
      /\ pc = "loop" /\ got.track /\ got.data /\ pc' = "return"
      /\ says' = [says EXCEPT !.disc = d]
      /\ UNCHANGED <<prev, got, pending, tracks>>
  BY DEF ReturnTrack
<1> HIDE DEF t, d, b
<1>2. /\ info'.track_start = t /\ info'.data_start = d /\ info'.file_offset = b
      /\ info'.file_index = info.file_index
      /\ info'.file_start = info.file_start /\ info'.track_mode = info.track_mode
      /\ info'.sector_length = info.sector_length
      /\ info'.unstored_pregap_length = info.unstored_pregap_length
      /\ info'.cumulative_offset = info.cumulative_offset
  BY <1>1 DEF Types
<1>3. /\ says'.disc = d
      /\ says'.mode = says.mode /\ says'.index0 = says.index0
      /\ says'.pregap = says.pregap /\ says'.last = says.last
      /\ says'.started = says.started /\ says'.start = says.start
      /\ says'.base = says.base /\ says'.length = says.length /\ says'.data = says.data
      /\ says'.gaps = says.gaps /\ says'.both = says.both
      /\ says'.all_audio = says.all_audio /\ says'.count = says.count
  BY <1>1 DEF Types
<1> QED
  BY <1>1, <1>2, <1>3 DEF t, d, b

\* What INDEX 00 changes.
LEMMA Index0Fields ==
    ASSUME Types, NEW time \in Times, Index0Line(time)
    PROVE  /\ pc = "loop" /\ got.track /\ ~got.data /\ ~got.pause
           /\ UNCHANGED <<prev, pc, pending, tracks>>
           /\ InOrder(time)
           /\ info'.track_start = Lba(time)
           /\ info'.file_index = info.file_index /\ info'.file_offset = info.file_offset
           /\ info'.file_start = info.file_start /\ info'.track_mode = info.track_mode
           /\ info'.sector_length = info.sector_length
           /\ info'.unstored_pregap_length = info.unstored_pregap_length
           /\ info'.cumulative_offset = info.cumulative_offset
           /\ info'.data_start = info.data_start
           /\ got'.pause /\ got'.file = got.file /\ got'.track = got.track
           /\ got'.data = got.data
           /\ says'.index0 = time /\ says'.last = time
           /\ says'.mode = says.mode /\ says'.pregap = says.pregap
           /\ says'.started = says.started /\ says'.start = says.start
           /\ says'.base = says.base /\ says'.length = says.length
           /\ says'.data = says.data /\ says'.gaps = says.gaps /\ says'.both = says.both
           /\ says'.all_audio = says.all_audio /\ says'.count = says.count
           /\ says'.disc = says.disc
  BY DEF Index0Line, Loop, Types

\* What a TRACK line changes.
LEMMA TrackFields ==
    ASSUME Types, NEW m \in Modes, TrackLine(m)
    PROVE  /\ pc = "loop" /\ ~got.track /\ info.file_index > 0 /\ says.count < MaxTracks
           /\ UNCHANGED <<prev, pc, pending, tracks>>
           /\ info'.track_mode = m /\ info'.sector_length = Length[m]
           /\ info'.unstored_pregap_length = 0 /\ info'.data_start = 0
           /\ info'.track_start = 0
           /\ info'.file_index = info.file_index /\ info'.file_offset = info.file_offset
           /\ info'.file_start = info.file_start
           /\ info'.cumulative_offset = info.cumulative_offset
           /\ got'.track /\ ~got'.data /\ ~got'.pause /\ got'.file = got.file
           /\ says'.mode = m /\ says'.index0 = None /\ says'.pregap = 0
           /\ says'.all_audio <=> says.all_audio /\ m = "AUDIO"
           /\ says'.count = says.count + 1
           /\ says'.last = says.last /\ says'.started = says.started
           /\ says'.start = says.start /\ says'.base = says.base
           /\ says'.length = says.length /\ says'.data = says.data
           /\ says'.gaps = says.gaps /\ says'.both = says.both /\ says'.disc = says.disc
  BY DEF TrackLine, Loop, Types

\* A number that is counted back from its own word is nothing.
LEMMA StoredNothing ==
    ASSUME NEW x \in Nat
    PROVE  U32(U32(x) - x) = 0
<1> DEFINE e == U32(x) - x
<1>1. \E k \in Int : U32(x) = x + Word * k
  <2>1. x \in Int
    OBVIOUS
  <2> QED
    BY <2>1, Words, Remainder DEF U32
<1>2. PICK k \in Int : e = 0 + Word * k
  BY <1>1, Words
<1>3. e \in Int
  BY Frames
<1> HIDE DEF e
<1>4. e % Word = 0 % Word
  BY <1>2, <1>3, Words, SameRemainder
<1> QED
  BY <1>4, Zero DEF U32, e

\* The bytes up to frame "to", when those up to "from" are bounded.
LEMMA BytesBounded ==
    ASSUME NEW from \in Nat, NEW to \in Nat, from <= to, NEW length \in Nat, length
           <= Word,
           NEW bytes \in 0 .. from * Word
    PROVE  bytes + (to - from) * length \in 0 .. to * Word
<1>1. to - from \in Nat /\ Word \in Nat
  BY Words
<1>2. (to - from) * length \in Nat
  BY <1>1
<1>3. (to - from) * length <= (to - from) * Word
  <2> DEFINE n == to - from
  <2>1. n \in Nat
    BY <1>1
  <2> HIDE DEF n
  <2>2. n * length <= n * Word
    BY <2>1, <1>1
  <2> QED
    BY <2>2 DEF n
<1>4. from * Word + (to - from) * Word = to * Word
  BY <1>1
<1>5. from * Word \in Nat /\ to * Word \in Nat /\ (to - from) * Word \in Nat
  BY <1>1
<1> DEFINE a == (to - from) * length
           b == (to - from) * Word
           c == from * Word
           d == to * Word
<1>6. a \in Nat /\ b \in Nat /\ c \in Nat /\ d \in Nat /\ a <= b /\ c + b = d /\ bytes \in 0 .. c
  BY <1>2, <1>3, <1>4, <1>5
<1> HIDE DEF a, b, c, d
<1>7. bytes + a \in 0 .. d
  BY <1>6
<1> QED
  BY <1>7 DEF a, d

\* The bytes of frames that fit a word fit a double word.
LEMMA FitsBytes ==
    ASSUME NEW frame \in Nat, frame < Word, NEW bytes \in 0 .. frame * Word
    PROVE  U64(bytes) = bytes
<1>1. frame * Word < Word * Word
  BY Words
<1> DEFINE a == frame * Word
           b == Word * Word
<1>2. a \in Int /\ b \in Int /\ a < b /\ bytes \in 0 .. a
  BY <1>1, Words
<1> HIDE DEF a, b
<1>3. bytes \in 0 .. b - 1
  BY <1>2
<1> QED
  BY <1>3, Bytes DEF b

\* A sheet of MaxTracks tracks is short enough for the frames of its disc.
LEMMA RoomOnDisc ==
    ASSUME NEW h \in Nat, NEW count \in Nat, count >= 1, count <= MaxTracks,
           (MaxTracks + 1) * h < Word
    PROVE  /\ (count - 1) * h \in Nat /\ count * h \in Nat
           /\ (count - 1) * h + h = count * h
           /\ count * h + h < Word
<1>1. MaxTracks \in Nat
  BY CueTracksAssumption
<1>2. (count - 1) * h + h = count * h /\ count * h + h = (count + 1) * h
  OBVIOUS
<1>3. (count + 1) * h <= (MaxTracks + 1) * h
  <2> DEFINE a == count + 1
             b == MaxTracks + 1
  <2>1. a \in Nat /\ b \in Nat /\ a <= b
    BY <1>1
  <2> HIDE DEF a, b
  <2>2. a * h <= b * h
    BY <2>1
  <2> QED
    BY <2>2 DEF a, b
<1>4. (count - 1) * h \in Nat /\ count * h \in Nat
  OBVIOUS
<1>5. (MaxTracks + 1) * h \in Int /\ (count + 1) * h \in Int /\ Word \in Int
  BY <1>1, Words
<1>6. (count + 1) * h < Word
  BY <1>3, <1>5
<1> QED
  BY <1>2, <1>4, <1>6

\* A track that is pushed follows the one before it.
LEMMA PushedFollows ==
    ASSUME Types, NEW end \in Int,
           \A i \in DOMAIN tracks :
              i + 1 \in DOMAIN tracks => tracks[i].endoffset = tracks[i + 1].startoffset,
           pending # None /\ tracks # <<>> => pending = tracks[Len(tracks)].endoffset
    PROVE  /\ \A i \in DOMAIN Pushed(end) :
                 i + 1 \in DOMAIN Pushed(end)
                    => Pushed(end)[i].endoffset = Pushed(end)[i + 1].startoffset
           /\ pending # None => Pushed(end) # <<>>
                                /\ Pushed(end)[Len(Pushed(end))].endoffset = U32(end)
<1>1. CASE pending = None
  BY <1>1 DEF Pushed
<1>2. CASE pending # None
  <2> DEFINE new == [startoffset |-> pending, endoffset |-> U32(end)]
             S == [startoffset : Nat, endoffset : Nat]
             more == Append(tracks, new)
  <2>1. new \in S /\ tracks \in Seq(S)
    BY <1>2, FramesAreNat DEF Types
  <2>2. Pushed(end) = more
    BY <1>2 DEF Pushed
  <2>3. new.startoffset = pending /\ new.endoffset = U32(end)
    OBVIOUS
  <2>4. /\ more \in Seq(S)
        /\ Len(more) = Len(tracks) + 1
        /\ \A i \in 1 .. Len(tracks) : more[i] = tracks[i]
        /\ more[Len(tracks) + 1] = new
        /\ more # <<>>
    <3> HIDE DEF S, new
    <3> QED
      BY <2>1, AppendProperties
  <2>5. DOMAIN more = 1 .. Len(tracks) + 1 /\ DOMAIN tracks = 1 .. Len(tracks)
        /\ Len(tracks) \in Nat
    <3> HIDE DEF S, new, more
    <3> QED
      BY <2>1, <2>4, LenProperties
  <2>6. ASSUME NEW i \in DOMAIN more, i + 1 \in DOMAIN more
        PROVE  more[i].endoffset = more[i + 1].startoffset
    <3> HIDE DEF S, new, more
    <3>1. CASE i + 1 <= Len(tracks)
      BY <2>4, <2>5, <2>6, <3>1
    <3>2. CASE i = Len(tracks)
      <4>1. tracks # <<>>
        BY <2>5, <2>6, <3>2, EmptySeq
      <4> QED
        BY <1>2, <2>3, <2>4, <2>5, <2>6, <3>2, <4>1
    <3> QED
      BY <2>5, <2>6, <3>1, <3>2
  <2> HIDE DEF more
  <2> QED
    BY <2>2, <2>3, <2>4, <2>6
<1> QED
  BY <1>1, <1>2

\* The frame of an INDEX line, when it fits a word.
LEMMA LbaFits ==
    ASSUME Types, NEW time \in Nat, info.file_start = 0,
           time + info.cumulative_offset < Word
    PROVE  Lba(time) = time + info.cumulative_offset
<1> DEFINE x == info.file_start + time + info.cumulative_offset
<1>1. x \in 0 .. Word - 1 /\ x \in Int /\ x = time + info.cumulative_offset
  BY Scalars, Words
<1> HIDE DEF x
<1>2. U32(x) = x
  BY <1>1, Frames
<1> QED
  BY <1>1, <1>2 DEF Lba, x

\* Where the track is in the file, from where the one before it is, when no
\* gap came before that one.
LEMMA OffsetFollows ==
    ASSUME Types, WordFits, info.cumulative_offset = 0,
           NEW s, s.track \in Nat, s.data \in Nat, NEW stored \in Nat,
           U32(s.data - (s.track + info.unstored_pregap_length)) = stored,
           NEW bytes \in Int, NEW total \in Nat, total < Word, s.track < Word,
           got.file => info.file_offset = 0 /\ bytes = 0,
           ~got.file => /\ prev.track_start <= s.track
                        /\ bytes = info.file_offset
                                   + (s.track - prev.track_start) * prev.sector_length,
           bytes + stored * info.sector_length \in 0 .. total * Word
    PROVE  FileOffset(s) = bytes + stored * info.sector_length
<1> DEFINE previous == IF got.file THEN 0
                       ELSE U32(s.track - (prev.track_start + info.cumulative_offset))
           sum == info.file_offset + previous * prev.sector_length
                                   + stored * info.sector_length
<1>1. FileOffset(s) = U64(sum)
  BY DEF FileOffset
<1>2. info.file_offset + previous * prev.sector_length = bytes
  <2>1. CASE got.file
    BY <2>1, Scalars
  <2>2. CASE ~got.file
    <3> DEFINE n == s.track - (prev.track_start + info.cumulative_offset)
    <3>1. n \in 0 .. Word - 1 /\ n \in Int /\ n = s.track - prev.track_start
      BY <2>2, Scalars, Words
    <3> HIDE DEF n
    <3>2. U32(n) = n
      BY <3>1, Frames
    <3>3. previous = n
      BY <2>2, <3>2 DEF n
    <3> QED
      BY <2>2, <3>1, <3>3
  <2> QED
    BY <2>1, <2>2
<1>3. sum = bytes + stored * info.sector_length
  BY <1>2
<1> DEFINE all == bytes + stored * info.sector_length
<1>4. all \in 0 .. total * Word
  OBVIOUS
<1> HIDE DEF sum, all
<1>5. U64(all) = all
  BY <1>4, FitsBytes
<1>6. sum = all
  BY <1>3 DEF all
<1> QED
  BY <1>1, <1>5, <1>6 DEF all

-----------------------------------------------------------------------------
(***************************************************************************)
(* Each invariant, line by line.                                           *)
(***************************************************************************)
\* What the parser keeps and what the sheet says stay together.
LEMMA NextFlow ==
    ASSUME Types, Flow, Next
    PROVE  Flow'
<1>1. ASSUME next_track PROVE Flow'
  BY <1>1, CallFields DEF Flow
<1>2. ASSUME FileLine PROVE Flow'
  BY <1>2, FileFields, Scalars DEF Flow
<1>3. ASSUME NEW m \in Modes, TrackLine(m) PROVE Flow'
  BY <1>3, CueTracksAssumption DEF TrackLine, Flow, Types, Loop, Gapless
<1>4. ASSUME NEW time \in Times, PregapLine(time) PROVE Flow'
  BY <1>4, CueTracksAssumption DEF PregapLine, Flow, Types, Loop, Gapless
<1>5. ASSUME NEW time \in Times, Index0Line(time) PROVE Flow'
  <2>1. time \in Nat
    BY CueTracksAssumption
  <2> QED
    BY <1>5, <2>1 DEF Index0Line, Loop, Flow, Types, None
<1>6. ASSUME NEW time \in Times, Index1Line(time) PROVE Flow'
  BY <1>6, Index1Fields, Scalars DEF Flow
<1>7. ASSUME EndOfSheet PROVE Flow'
  BY <1>7, CueTracksAssumption DEF EndOfSheet, Flow, Types, Loop, Gapless
<1>8. ASSUME ReturnTrack PROVE Flow'
  BY <1>8, CueTracksAssumption DEF ReturnTrack, Flow, Types, Gapless
<1>9. ASSUME CCDDAISO PROVE Flow'
  BY <1>9, CueTracksAssumption DEF CCDDAISO, Flow, Types, Gapless
<1>10. ASSUME LastTrack PROVE Flow'
  BY <1>10, CueTracksAssumption DEF LastTrack, Flow, Types, Gapless
<1> QED
  BY <1>1, <1>2, <1>3, <1>4, <1>5, <1>6, <1>7, <1>8, <1>9, <1>10 DEF Next, Line

\* Nothing happens before the first FILE but the call itself.
LEMMA NextNoFile ==
    ASSUME Types, Flow, NoFile, Next
    PROVE  NoFile'
<1>1. ASSUME next_track PROVE NoFile'
  <2>1. ASSUME info.file_index = 0 PROVE info'.cumulative_offset = 0
    BY <1>1, <2>1, CallFields, Zero DEF NoFile, Flow, Silent
  <2>2. info.file_index = 0 => prev'.sector_length = AudioLength /\ prev'.track_start = 0
    BY <1>1, CallFields DEF NoFile, AudioLength
  <2> QED
    BY <1>1, <2>1, <2>2, CallFields DEF NoFile
<1>2. ASSUME FileLine PROVE NoFile'
  <2>1. info'.file_index # 0
    BY <1>2, FileFields, Scalars
  <2> QED
    BY <2>1 DEF NoFile
<1>3. ASSUME NEW m \in Modes, TrackLine(m) PROVE NoFile'
  BY <1>3, CueTracksAssumption DEF TrackLine, NoFile, Types, Flow, Loop, Gapless
<1>4. ASSUME NEW time \in Times, PregapLine(time) PROVE NoFile'
  BY <1>4 DEF PregapLine, NoFile, Nothing, Types
<1>5. ASSUME NEW time \in Times, Index0Line(time) PROVE NoFile'
  BY <1>5 DEF Index0Line, NoFile, Nothing, Types
<1>6. ASSUME NEW time \in Times, Index1Line(time) PROVE NoFile'
  BY <1>6 DEF Index1Line, NoFile, Nothing, Types
<1>7. ASSUME EndOfSheet PROVE NoFile'
  BY <1>7, CueTracksAssumption DEF EndOfSheet, NoFile, Types, Flow, Loop, Gapless
<1>8. ASSUME ReturnTrack PROVE NoFile'
  BY <1>8, ReturnFields DEF NoFile, Nothing
<1>9. ASSUME CCDDAISO PROVE NoFile'
  BY <1>9 DEF CCDDAISO, NoFile, Flow, Nothing
<1>10. ASSUME LastTrack PROVE NoFile'
  BY <1>10, CueTracksAssumption DEF LastTrack, NoFile, Types, Flow, Gapless
<1> QED
  BY <1>1, <1>2, <1>3, <1>4, <1>5, <1>6, <1>7, <1>8, <1>9, <1>10 DEF Next, Line

\* Nothing moves the disc before a gap.
LEMMA NextNoGap ==
    ASSUME Types, Flow, NoFile, NoGap, Next
    PROVE  NoGap'
<1>1. ASSUME next_track PROVE NoGap'
  <2>1. ASSUME Gapless PROVE info'.cumulative_offset = 0
    BY <1>1, <2>1, CallFields, Zero DEF NoGap, Flow
  <2> QED
    BY <1>1, <2>1, CallFields DEF NoGap, Gapless
<1>2. ASSUME FileLine PROVE NoGap'
  <2>1. Gapless' => info.file_index = 0
    BY <1>2, FileFields, Scalars DEF Gapless
  <2>2. info.file_index = 0 => info'.cumulative_offset = 0 /\ ~got'.data /\ ~says'.both
    BY <1>2, FileFields DEF NoFile, Nothing, Silent
  <2> QED
    BY <1>2, <2>1, <2>2, FileFields DEF NoGap
<1>3. ASSUME NEW m \in Modes, TrackLine(m) PROVE NoGap'
  BY <1>3, CueTracksAssumption DEF TrackLine, NoGap, Types, Flow, NoFile, Loop, Gapless
<1>4. ASSUME NEW time \in Times, PregapLine(time) PROVE NoGap'
  BY <1>4, CueTracksAssumption DEF PregapLine, NoGap, Types, Flow, NoFile, Loop, Gapless
<1>5. ASSUME NEW time \in Times, Index0Line(time) PROVE NoGap'
  BY <1>5, CueTracksAssumption DEF Index0Line, NoGap, Types, Flow, NoFile, Loop, Gapless
<1>6. ASSUME NEW time \in Times, Index1Line(time) PROVE NoGap'
  <2>1. Gapless' => Gapless /\ says.pregap = 0 /\ says.index0 = None
    BY <1>6, Index1Fields, Scalars DEF Gapless
  <2>2. Gapless' /\ got.file => time = 0
    BY <1>6, <2>1, Index1Fields DEF NoGap, InOrder
  <2>3. Gapless' /\ got.file => Lba(time) = 0
    BY <2>1, <2>2, Zero DEF Lba, NoGap, Flow, Gapless
  <2>4. Gapless' => ~says'.both
    BY <1>6, <2>1, Index1Fields DEF NoGap
  <2> QED
    BY <1>6, <2>1, <2>3, <2>4, Index1Fields DEF NoGap
<1>7. ASSUME EndOfSheet PROVE NoGap'
  BY <1>7, CueTracksAssumption DEF EndOfSheet, NoGap, Types, Flow, NoFile, Loop, Gapless
<1>8. ASSUME ReturnTrack PROVE NoGap'
  BY <1>8, CueTracksAssumption DEF ReturnTrack, NoGap, Types, Flow, NoFile, Gapless
<1>9. ASSUME CCDDAISO PROVE NoGap'
  BY <1>9, CueTracksAssumption DEF CCDDAISO, NoGap, Types, Flow, NoFile, Gapless
<1>10. ASSUME LastTrack PROVE NoGap'
  BY <1>10, CueTracksAssumption DEF LastTrack, NoGap, Types, Flow, NoFile, Gapless
<1> QED
  BY <1>1, <1>2, <1>3, <1>4, <1>5, <1>6, <1>7, <1>8, <1>9, <1>10 DEF Next, Line

\* The bytes of audio tracks stay their frames.
LEMMA NextAligned ==
    ASSUME Types, Flow, NoFile, NoGap, Aligned, Next
    PROVE  Aligned'
<1>1. ASSUME next_track PROVE Aligned'
  <2>1. Gapless' /\ says'.all_audio => Gapless /\ says.all_audio
    BY <1>1, CallFields DEF Gapless
  <2>2. says.all_audio => prev'.sector_length = AudioLength
    BY <1>1, CallFields DEF Flow, AudioLength
  <2> QED
    BY <1>1, <2>1, <2>2, CallFields DEF Aligned
<1>2. ASSUME FileLine PROVE Aligned'
  <2>1. Gapless' => info.file_index = 0
    BY <1>2, FileFields, Scalars DEF Gapless
  <2>2. 0 * AudioLength = 0
    BY CueTracksAssumption DEF AudioLength
  <2>3. U32(info'.file_offset) = U32(prev'.track_start * AudioLength)
    BY <1>2, <2>2, FileFields
  <2> QED
    BY <1>2, <2>1, <2>3, FileFields DEF Aligned, AudioLength
<1>3. ASSUME NEW m \in Modes, TrackLine(m) PROVE Aligned'
  BY <1>3, CueTracksAssumption
  DEF TrackLine, Aligned, Types, Flow, NoFile, NoGap, Loop, Gapless
<1>4. ASSUME NEW time \in Times, PregapLine(time) PROVE Aligned'
  BY <1>4, CueTracksAssumption
  DEF PregapLine, Aligned, Types, Flow, NoFile, NoGap, Loop, Gapless
<1>5. ASSUME NEW time \in Times, Index0Line(time) PROVE Aligned'
  BY <1>5, CueTracksAssumption
  DEF Index0Line, Aligned, Types, Flow, NoFile, NoGap, Loop, Gapless
<1>6. ASSUME NEW time \in Times, Index1Line(time) PROVE Aligned'
  <2>1. Gapless' => Gapless
    BY <1>6, Index1Fields, Scalars DEF Gapless
  <2> QED
    BY <1>6, <2>1, Index1Fields DEF Aligned
<1>7. ASSUME EndOfSheet PROVE Aligned'
  BY <1>7, CueTracksAssumption
  DEF EndOfSheet, Aligned, Types, Flow, NoFile, NoGap, Loop, Gapless
<1>8. ASSUME ReturnTrack PROVE Aligned'
  <2> SUFFICES ASSUME Gapless', says'.all_audio
               PROVE  /\ U32(info'.file_offset) = U32(info'.track_start * AudioLength)
                      /\ info'.sector_length = AudioLength
    BY <1>8, ReturnFields DEF Aligned
  <2>1. Gapless /\ says.all_audio
    BY <1>8, ReturnFields DEF Gapless
  <2>2. /\ info.cumulative_offset = 0 /\ info.unstored_pregap_length = 0 /\ ~got.pause
        /\ info.sector_length = AudioLength /\ prev.sector_length = AudioLength
        /\ U32(info.file_offset) = U32(prev.track_start * AudioLength)
        /\ got.file => info.data_start = 0 /\ info.file_offset = 0
    BY <1>8, <2>1, ReturnFields DEF NoGap, Flow, Aligned, AudioLength
  <2> DEFINE d == info.data_start
  <2>3. /\ d \in Nat /\ info.file_offset \in Nat /\ prev.track_start \in Nat /\ AudioLength \in Nat
        /\ d \in Int /\ info.file_offset \in Int /\ prev.track_start \in Int /\ AudioLength \in Int
    BY Scalars, CueTracksAssumption DEF AudioLength
  <2> HIDE DEF d
  <2>4. Spread.track = d /\ Spread.data = U32(d)
    BY <2>2, <2>3 DEF Spread, d
  <2>5. U32(U32(d) - d) = 0
    BY <2>3, StoredNothing
  <2>6. FileOffset(Spread) = U64(info.file_offset + (IF got.file THEN 0 ELSE U32(d - prev.track_start)) * AudioLength
                                 + 0 * AudioLength)
    BY <2>2, <2>3, <2>4, <2>5 DEF FileOffset
  <2>7. CASE ~got.file
    <3>1. U32(d - prev.track_start) * AudioLength \in Int
      <4>1. d - prev.track_start \in Int
        BY <2>3
      <4>2. U32(d - prev.track_start) \in Nat
        BY <4>1, FramesAreNat
      <4> QED
        BY <2>3, <4>2
    <3>2. FileOffset(Spread) = U64(info.file_offset + U32(d - prev.track_start) * AudioLength)
      BY <2>3, <2>6, <2>7, <3>1
    <3>3. U32(FileOffset(Spread)) = U32(d * AudioLength)
      BY <2>2, <2>3, <3>2, StaysAligned
    <3> QED
      BY <1>8, <2>2, <2>4, <3>3, ReturnFields DEF d
  <2>8. CASE got.file
    <3>1. FileOffset(Spread) = U64(0)
      BY <2>2, <2>3, <2>6, <2>8
    <3>2. 0 \in 0 .. 0 * Word /\ 0 < Word
      BY Words
    <3>3. FileOffset(Spread) = 0
      BY <3>1, <3>2, FitsBytes
    <3>4. d * AudioLength = 0
      BY <2>2, <2>3, <2>8 DEF d
    <3> QED
      BY <1>8, <2>2, <2>4, <3>3, <3>4, ReturnFields DEF d
  <2> QED
    BY <2>7, <2>8
<1>9. ASSUME CCDDAISO PROVE Aligned'
  BY <1>9, CueTracksAssumption
  DEF CCDDAISO, Aligned, Types, Flow, NoFile, NoGap, Gapless
<1>10. ASSUME LastTrack PROVE Aligned'
  BY <1>10, CueTracksAssumption
  DEF LastTrack, Aligned, Types, Flow, NoFile, NoGap, Gapless
<1> QED
  BY <1>1, <1>2, <1>3, <1>4, <1>5, <1>6, <1>7, <1>8, <1>9, <1>10 DEF Next, Line

\* A range that is pushed follows on the one before.
LEMMA NextFollow ==
    ASSUME Types, Flow, NoFile, NoGap, Aligned, Follow, Next
    PROVE  Follow'
<1>1. ASSUME next_track PROVE Follow'
  BY <1>1, CueTracksAssumption
  DEF next_track, Follow, Types, Flow, NoFile, NoGap, Aligned, Gapless
<1>2. ASSUME FileLine PROVE Follow'
  <2>1. Gapless' => info.file_index = 0
    BY <1>2, FileFields, Scalars DEF Gapless
  <2> QED
    BY <1>2, <2>1, FileFields DEF Follow, NoFile
<1>3. ASSUME NEW m \in Modes, TrackLine(m) PROVE Follow'
  BY <1>3, CueTracksAssumption
  DEF TrackLine, Follow, Types, Flow, NoFile, NoGap, Aligned, Loop, Gapless
<1>4. ASSUME NEW time \in Times, PregapLine(time) PROVE Follow'
  BY <1>4, CueTracksAssumption
  DEF PregapLine, Follow, Types, Flow, NoFile, NoGap, Aligned, Loop, Gapless
<1>5. ASSUME NEW time \in Times, Index0Line(time) PROVE Follow'
  BY <1>5, CueTracksAssumption
  DEF Index0Line, Follow, Types, Flow, NoFile, NoGap, Aligned, Loop, Gapless
<1>6. ASSUME NEW time \in Times, Index1Line(time) PROVE Follow'
  <2>1. Gapless' => Gapless
    BY <1>6, Index1Fields, Scalars DEF Gapless
  <2> QED
    BY <1>6, <2>1, Index1Fields DEF Follow
<1>7. ASSUME EndOfSheet PROVE Follow'
  BY <1>7, CueTracksAssumption
  DEF EndOfSheet, Follow, Types, Flow, NoFile, NoGap, Aligned, Loop, Gapless
<1>8. ASSUME ReturnTrack PROVE Follow'
  BY <1>8, CueTracksAssumption
  DEF ReturnTrack, Follow, Types, Flow, NoFile, NoGap, Aligned, Gapless
<1>9. ASSUME CCDDAISO PROVE Follow'
  <2> SUFFICES ASSUME Gapless, says.all_audio
               PROVE  /\ \A i \in DOMAIN tracks' :
                            i + 1 \in DOMAIN tracks'
                               => tracks'[i].endoffset = tracks'[i + 1].startoffset
                      /\ pending' # None /\ tracks' # <<>>
                            => pending' = tracks'[Len(tracks')].endoffset
                      /\ pending' # None
    BY <1>9 DEF CCDDAISO, Follow, Gapless
  <2> DEFINE end == info.file_offset
  <2>1. /\ pc = "return" /\ tracks' = Pushed(end)
        /\ pending' = U32(info.track_start * info.sector_length)
    BY <1>9 DEF CCDDAISO
  <2>2. end \in Int /\ info.track_start * info.sector_length \in Int
    BY Scalars
  <2>3. pending' \in Nat /\ pending' = U32(end)
    BY <2>1, <2>2, FramesAreNat DEF Aligned
  <2> HIDE DEF end
  <2>4. /\ \A i \in DOMAIN Pushed(end) :
              i + 1 \in DOMAIN Pushed(end)
                 => Pushed(end)[i].endoffset = Pushed(end)[i + 1].startoffset
        /\ pending # None => Pushed(end) # <<>>
                             /\ Pushed(end)[Len(Pushed(end))].endoffset = U32(end)
    BY <2>2, PushedFollows DEF Follow
  <2>5. pending = None => Pushed(end) = <<>>
    BY <2>1 DEF Follow, Pushed
  <2> QED
    BY <2>1, <2>3, <2>4, <2>5 DEF None
<1>10. ASSUME LastTrack PROVE Follow'
  <2> SUFFICES ASSUME Gapless, says.all_audio
               PROVE  \A i \in DOMAIN tracks' :
                            i + 1 \in DOMAIN tracks'
                               => tracks'[i].endoffset = tracks'[i + 1].startoffset
    BY <1>10 DEF LastTrack, Follow, Gapless
  <2>1. tracks' = Pushed(FileSize) /\ FileSize \in Int
    BY <1>10, CueTracksAssumption DEF LastTrack
  <2> QED
    BY <2>1, PushedFollows DEF Follow
<1> QED
  BY <1>1, <1>2, <1>3, <1>4, <1>5, <1>6, <1>7, <1>8, <1>9, <1>10 DEF Next, Line

\* A track without a gap before it is where the sheet has it.
LEMMA NextPlaced ==
    ASSUME Types, WordFits,
           Flow, NoFile, NoGap, Placed, Found, Next
    PROVE  Placed'
<1>1. ASSUME next_track PROVE Placed'
  BY <1>1, CallFields DEF Placed, Gapless
<1>2. ASSUME FileLine PROVE Placed'
  BY <1>2, CueTracksAssumption
  DEF FileLine, Placed, Types, Flow, NoFile, NoGap, Found, Loop, Gapless
<1>3. ASSUME NEW m \in Modes, TrackLine(m) PROVE Placed'
  BY <1>3, CueTracksAssumption
  DEF TrackLine, Placed, Types, Flow, NoFile, NoGap, Found, Loop, Gapless
<1>4. ASSUME NEW time \in Times, PregapLine(time) PROVE Placed'
  BY <1>4, CueTracksAssumption
  DEF PregapLine, Placed, Types, Flow, NoFile, NoGap, Found, Loop, Gapless
<1>5. ASSUME NEW time \in Times, Index0Line(time) PROVE Placed'
  <2> SUFFICES ASSUME Gapless
               PROVE  /\ says'.started => says'.start <= says'.last
                      /\ ~says'.started => says'.index0 = 0
                      /\ info'.track_start = says'.index0
    BY <1>5, Index0Fields, CueTracksAssumption DEF Placed, Gapless
  <2>1. time \in Nat /\ time < Word
    BY CueTracksAssumption DEF WordFits
  <2>2. Lba(time) = time
    BY <2>1, LbaFits DEF NoGap, Gapless, Flow
  <2>3. ASSUME says.started PROVE says.start <= time
    <3>1. says.start <= says.last /\ says.last \in Nat
      BY <2>3 DEF Placed
    <3>2. time >= says.last
      BY <1>5, <3>1, Index0Fields DEF InOrder, None
    <3> QED
      BY <2>1, <3>1, <3>2, Scalars
  <2>4. ~says.started => time = 0
    BY <1>5, Index0Fields DEF Placed, InOrder
  <2> QED
    BY <1>5, <2>2, <2>3, <2>4, Index0Fields
<1>6. ASSUME NEW time \in Times, Index1Line(time) PROVE Placed'
  <2> SUFFICES ASSUME Gapless'
               PROVE  /\ says'.start \in 0 .. Word - 1 /\ says'.last \in Nat
                      /\ says'.base \in 0 .. says'.start * Word
                      /\ says'.start <= says'.last
                      /\ says'.length <= Word
                      /\ Spread'.track = says'.start
                      /\ says'.data = says'.base
                      /\ info'.sector_length = says'.length
    BY <1>6, Index1Fields DEF Placed
  <2>1. Gapless /\ says.index0 = None /\ ~got.pause
    BY <1>6, Index1Fields, Scalars DEF Gapless, Flow
  <2>2. time \in Nat /\ time < Word
    BY CueTracksAssumption DEF WordFits
  <2>3. Lba(time) = time
    BY <2>1, <2>2, LbaFits, Scalars DEF NoGap, Gapless, Flow
  <2>4. /\ Length[says.mode] \in Nat /\ Length[says.mode] <= Word
        /\ info.sector_length = Length[says.mode]
    BY <1>6, Index1Fields, Scalars, CueTracksAssumption DEF WordFits, Flow
  <2>5. says'.start = time /\ says'.last = time
    BY <1>6, <2>1, Index1Fields
  <2>6. says'.base \in 0 .. time * Word
    <3>1. CASE says.started
      <4>1. says'.base = says.base + (time - says.start) * says.length
        BY <1>6, <2>1, <3>1, Index1Fields
      <4>2. /\ says.start <= time /\ says.start \in Nat /\ says.length \in Nat
            /\ says.length <= Word /\ says.base \in 0 .. says.start * Word
        BY <1>6, <2>1, <2>2, <3>1, Index1Fields, Scalars DEF Placed, InOrder, None
      <4> QED
        BY <2>2, <4>1, <4>2, BytesBounded
    <3>2. CASE ~says.started
      BY <1>6, <2>1, <2>2, <3>2, Words, Index1Fields
    <3> QED
      BY <3>1, <3>2
  <2>7. says'.data = says'.base
    <3>1. says'.data = says'.base + (time - time) * Length[says.mode]
      BY <1>6, <2>1, Index1Fields
    <3>2. says'.base \in Int
      BY <2>2, <2>6, Words
    <3> QED
      BY <2>2, <2>4, <3>1, <3>2
  <2>8. Spread'.track = time
    BY <1>6, <2>1, <2>3, Index1Fields DEF Spread
  <2>9. says'.length = Length[says.mode] /\ info'.sector_length = info.sector_length
    BY <1>6, Index1Fields
  <2> QED
    BY <2>2, <2>4, <2>5, <2>6, <2>7, <2>8, <2>9, Words
<1>7. ASSUME EndOfSheet PROVE Placed'
  BY <1>7, CueTracksAssumption
  DEF EndOfSheet, Placed, Types, Flow, NoFile, NoGap, Found, Loop, Gapless
<1>8. ASSUME ReturnTrack PROVE Placed'
  <2> SUFFICES ASSUME Gapless
               PROVE  info'.file_offset = says.base /\ Length[info.track_mode] = says.length
    BY <1>8, ReturnFields DEF Placed, Gapless
  <2>1. FileOffset(Spread) = says.data
    BY <1>8, ReturnFields DEF Found, Gapless, NoGap
  <2> QED
    BY <1>8, <2>1, ReturnFields DEF Placed, Flow
<1>9. ASSUME CCDDAISO PROVE Placed'
  BY <1>9, CueTracksAssumption
  DEF CCDDAISO, Placed, Types, Flow, NoFile, NoGap, Found, Gapless
<1>10. ASSUME LastTrack PROVE Placed'
  BY <1>10, CueTracksAssumption
  DEF LastTrack, Placed, Types, Flow, NoFile, NoGap, Found, Gapless
<1> QED
  BY <1>1, <1>2, <1>3, <1>4, <1>5, <1>6, <1>7, <1>8, <1>9, <1>10 DEF Next, Line

\* So is the data of the track with the first gap.
LEMMA NextFound ==
    ASSUME Types, WordFits,
           Flow, NoFile, NoGap, Placed, Found, Next
    PROVE  Found'
<1>1. ASSUME next_track PROVE Found'
  BY <1>1, CallFields DEF Found
<1>2. ASSUME FileLine PROVE Found'
  BY <1>2, CueTracksAssumption
  DEF FileLine, Found, Types, Flow, NoFile, NoGap, Placed, Loop, Gapless
<1>3. ASSUME NEW m \in Modes, TrackLine(m) PROVE Found'
  BY <1>3, CueTracksAssumption
  DEF TrackLine, Found, Types, Flow, NoFile, NoGap, Placed, Loop, Gapless
<1>4. ASSUME NEW time \in Times, PregapLine(time) PROVE Found'
  BY <1>4, CueTracksAssumption
  DEF PregapLine, Found, Types, Flow, NoFile, NoGap, Placed, Loop, Gapless
<1>5. ASSUME NEW time \in Times, Index0Line(time) PROVE Found'
  BY <1>5, CueTracksAssumption
  DEF Index0Line, Found, Types, Flow, NoFile, NoGap, Placed, Loop, Gapless
<1>6. ASSUME NEW time \in Times, Index1Line(time) PROVE Found'
  <2> SUFFICES ASSUME info'.file_index = 1, says'.gaps <= 1, ~says'.both
               PROVE  FileOffset(Spread)' = says'.data
    BY <1>6, Index1Fields DEF Found
  <2>1. Gapless
    BY <1>6, Index1Fields, Scalars DEF Gapless
  <2> DEFINE start == IF says.index0 = None THEN time ELSE says.index0
             base == IF says.started THEN says.base + (start - says.start) * says.length ELSE 0
  <2>2. time \in Nat /\ time < Word /\ start \in Nat /\ start <= time
    BY <1>6, <2>1, Index1Fields, Scalars, CueTracksAssumption
    DEF WordFits, Placed, InOrder, Flow, None
  <2>3. /\ Lba(time) = time /\ info.cumulative_offset = 0
    BY <2>1, <2>2, LbaFits, Scalars DEF NoGap, Gapless, Flow
  <2>4. /\ Length[says.mode] \in Nat /\ Length[says.mode] <= Word
        /\ info.sector_length = Length[says.mode]
    BY <1>6, Index1Fields, Scalars, CueTracksAssumption DEF WordFits, Flow
  <2>5. base \in 0 .. start * Word
    <3>1. CASE says.started
      <4>1. /\ says.start <= start /\ says.start \in Nat /\ says.length \in Nat
            /\ says.length <= Word /\ says.base \in 0 .. says.start * Word
        BY <1>6, <2>1, <2>2, <3>1, Index1Fields, Scalars
        DEF Placed, InOrder, Flow, None
      <4> HIDE DEF start
      <4> QED
        BY <2>2, <3>1, <4>1, BytesBounded
    <3>2. CASE ~says.started
      <4> HIDE DEF start
      <4> QED
        BY <2>2, <3>2, Words
    <3> QED
      BY <3>1, <3>2
  <2>6. base + (time - start) * info.sector_length \in 0 .. time * Word
    <3> HIDE DEF base, start
    <3> QED
      BY <2>2, <2>4, <2>5, BytesBounded
  <2> DEFINE data == IF got.pause THEN time ELSE U32(time + info.unstored_pregap_length)
             s == [track |-> start, data |-> data]
  <2>7. /\ data \in Nat
        /\ U32(data - (start + info.unstored_pregap_length)) = time - start
    <3>1. CASE got.pause
      <4>1. info.unstored_pregap_length = 0
        <5>1. got.track /\ (says'.both <=> says.both \/ (says.index0 # None /\ says.pregap > 0))
          BY <1>6, Index1Fields
        <5>2. says.index0 # None /\ info.unstored_pregap_length = says.pregap
          BY <3>1, <5>1 DEF Flow
        <5>3. ~(says.pregap > 0) /\ says.pregap \in Nat
          BY <5>1, <5>2, Scalars
        <5> QED
          BY <5>2, <5>3
      <4>2. time - start \in 0 .. Word - 1 /\ time - start \in Int
        BY <2>2, Words
      <4>3. U32(time - start) = time - start
        BY <4>2, Frames
      <4>4. data - (start + info.unstored_pregap_length) = time - start
        BY <2>2, <3>1, <4>1
      <4> QED
        BY <2>2, <3>1, <4>3, <4>4
    <3>2. CASE ~got.pause
      <4> DEFINE x == time + info.unstored_pregap_length
      <4>1. start = time
        BY <1>6, <3>2, Index1Fields DEF Flow
      <4>2. x \in Nat /\ x \in Int
        BY <2>2, Scalars
      <4>3. U32(x) \in Nat /\ U32(U32(x) - x) = 0
        BY <4>2, FramesAreNat, StoredNothing
      <4>4. data = U32(x) /\ start + info.unstored_pregap_length = x
        BY <3>2, <4>1
      <4> HIDE DEF x, data, start
      <4>5. U32(data - (start + info.unstored_pregap_length)) = 0
        BY <4>3, <4>4
      <4>6. time - start = 0
        BY <2>2, <4>1
      <4> QED
        BY <4>3, <4>4, <4>5, <4>6
    <3> QED
      BY <3>1, <3>2
  <2>8. Spread'.track = start /\ Spread'.data = data
    <3>1. got.pause => info.track_start = says.index0
      BY <1>6, <2>1, Index1Fields DEF Placed
    <3> QED
      BY <1>6, <2>3, <3>1, Index1Fields DEF Spread, Flow
  <2>9. FileOffset(Spread)' = FileOffset(s)
    <3>1. /\ info'.file_offset = info.file_offset /\ info'.sector_length = info.sector_length
          /\ info'.cumulative_offset = info.cumulative_offset /\ prev' = prev
          /\ info'.unstored_pregap_length = info.unstored_pregap_length
          /\ got'.file = got.file
      BY <1>6, Index1Fields
    <3>2. s.track = start /\ s.data = data
      OBVIOUS
    <3> HIDE DEF s, start, data
    <3> QED
      BY <2>8, <3>1, <3>2 DEF FileOffset
  <2>10. FileOffset(s) = base + (time - start) * info.sector_length
    <3>1. got.file => info.file_offset = 0 /\ base = 0
      BY <1>6, <2>1, Index1Fields DEF Placed
    <3>2. ~got.file => /\ prev.track_start <= start
                       /\ base = info.file_offset + (start - prev.track_start) * prev.sector_length
      <4>1. ~got.file => says.started
        BY <1>6, <2>1, Index1Fields DEF Placed
      <4>2. says.started => /\ prev.track_start = says.start
                            /\ prev.sector_length = says.length
                            /\ info.file_offset = says.base
        BY <1>6, <2>1, Index1Fields DEF Placed
      <4>3. says.started => says.start <= start
        BY <1>6, <2>1, <2>2, Index1Fields, Scalars DEF Placed, InOrder, Flow, None
      <4> HIDE DEF start
      <4> QED
        BY <4>1, <4>2, <4>3
    <3>3. s.track = start /\ s.data = data
      OBVIOUS
    <3>4. base \in Int /\ time - start \in Nat /\ start < Word
      <4> HIDE DEF base, start
      <4> QED
        BY <2>2, <2>5, Words
    <3> HIDE DEF s, start, data, base
    <3> QED
      BY <2>2, <2>3, <2>6, <2>7, <3>1, <3>2, <3>3, <3>4, OffsetFollows
  <2>11. says'.data = base + (time - start) * info.sector_length
    BY <1>6, <2>4, Index1Fields
  <2> QED
    BY <2>9, <2>10, <2>11
<1>7. ASSUME EndOfSheet PROVE Found'
  BY <1>7, CueTracksAssumption
  DEF EndOfSheet, Found, Types, Flow, NoFile, NoGap, Placed, Loop, Gapless
<1>8. ASSUME ReturnTrack PROVE Found'
  BY <1>8, CueTracksAssumption
  DEF ReturnTrack, Found, Types, Flow, NoFile, NoGap, Placed, Gapless
<1>9. ASSUME CCDDAISO PROVE Found'
  BY <1>9, CueTracksAssumption
  DEF CCDDAISO, Found, Types, Flow, NoFile, NoGap, Placed, Gapless
<1>10. ASSUME LastTrack PROVE Found'
  BY <1>10, CueTracksAssumption
  DEF LastTrack, Found, Types, Flow, NoFile, NoGap, Placed, Gapless
<1> QED
  BY <1>1, <1>2, <1>3, <1>4, <1>5, <1>6, <1>7, <1>8, <1>9, <1>10 DEF Next, Line

\* The disc goes on, and its gaps add up to no more than a time for each track.
LEMMA NextAhead ==
    ASSUME Types, NEW h \in Nat, \A t \in Times : t <= h, (MaxTracks + 1) * h < Word,
           Flow, NoFile, Ahead(h), Next
    PROVE  Ahead(h)'
<1>1. ASSUME next_track PROVE Ahead(h)'
  <2> SUFFICES ASSUME info.file_index = 1
               PROVE  /\ info'.cumulative_offset <= says.count * h
                      /\ says.last \in Nat
                      /\ says.disc <= says.last + info'.cumulative_offset
    BY <1>1, CallFields DEF Ahead, None
  <2>1. /\ says.count >= 1 /\ says.count <= MaxTracks /\ says.count \in Nat
        /\ info.cumulative_offset <= (says.count - 1) * h /\ says.pregap <= h
        /\ says.last \in Nat
        /\ says.disc <= says.last + info.cumulative_offset + says.pregap
    BY <1>1, CallFields, Scalars DEF Ahead
  <2> DEFINE x == info.cumulative_offset + info.unstored_pregap_length
             a == (says.count - 1) * h
             b == says.count * h
  <2>2. a \in Nat /\ b \in Nat /\ a + h = b /\ b + h < Word
    BY <2>1, RoomOnDisc
  <2>3. info.unstored_pregap_length = says.pregap
    BY DEF Flow
  <2> HIDE DEF a, b
  <2>4. x <= b /\ x \in 0 .. Word - 1 /\ x \in Int
    BY <2>1, <2>2, <2>3, Scalars, Words DEF a
  <2>5. info'.cumulative_offset = x
    BY <1>1, <2>4, CallFields, Frames
  <2> QED
    BY <2>1, <2>3, <2>4, <2>5, Scalars DEF b
<1>2. ASSUME FileLine PROVE Ahead(h)'
  <2> SUFFICES ASSUME info.file_index = 0 PROVE Ahead(h)'
    BY <1>2, FileFields, Scalars DEF Ahead
  <2>1. says = Silent /\ got = Nothing /\ info.cumulative_offset = 0
    BY DEF NoFile
  <2>2. /\ says'.count = 0 /\ says'.last = None /\ says'.disc = 0
        /\ ~got'.track /\ ~got'.pause /\ ~got'.data /\ info'.cumulative_offset = 0
        /\ pc' = "loop"
    BY <1>2, <2>1, FileFields DEF Silent, Nothing
  <2>3. 0 <= MaxTracks /\ 0 <= 0 * h
    BY CueTracksAssumption
  <2> QED
    BY <2>2, <2>3 DEF Ahead, None
<1>3. ASSUME NEW m \in Modes, TrackLine(m) PROVE Ahead(h)'
  <2> SUFFICES ASSUME info.file_index = 1 PROVE Ahead(h)'
    BY <1>3, TrackFields DEF Ahead
  <2>1. /\ info.cumulative_offset <= says.count * h /\ says.last <= h
        /\ ~got.pause /\ ~got.data
        /\ IF says.last = None THEN says.disc = 0
           ELSE says.disc <= says.last + info.cumulative_offset
    BY <1>3, TrackFields DEF Ahead, Flow
  <2>2. /\ says'.count \in Nat /\ says'.count >= 1 /\ says'.count <= MaxTracks
        /\ says'.count - 1 = says.count
    BY <1>3, TrackFields, Scalars, CueTracksAssumption
  <2> QED
    BY <1>3, <2>1, <2>2, TrackFields DEF Ahead
<1>4. ASSUME NEW time \in Times, PregapLine(time) PROVE Ahead(h)'
  BY <1>4, CueTracksAssumption DEF PregapLine, Ahead, Types, Flow, NoFile, Loop, Gapless
<1>5. ASSUME NEW time \in Times, Index0Line(time) PROVE Ahead(h)'
  <2> SUFFICES ASSUME info.file_index = 1
               PROVE  /\ time <= h /\ time \in Nat
                      /\ Lba(time) = time + info.cumulative_offset
                      /\ says.disc <= Lba(time)
    BY <1>5, Index0Fields DEF Ahead
  <2>1. /\ says.count >= 1 /\ says.count <= MaxTracks /\ says.count \in Nat
        /\ info.cumulative_offset <= (says.count - 1) * h
        /\ IF says.last = None THEN says.disc = 0
           ELSE says.disc <= says.last + info.cumulative_offset
    BY <1>5, Index0Fields, Scalars DEF Ahead
  <2>2. time \in Nat /\ time <= h
    BY CueTracksAssumption
  <2> DEFINE a == (says.count - 1) * h
             b == says.count * h
  <2>3. a \in Nat /\ b \in Nat /\ a + h = b /\ b + h < Word
    BY <2>1, RoomOnDisc
  <2> HIDE DEF a, b
  <2>4. time + info.cumulative_offset < Word
    BY <2>1, <2>2, <2>3, Scalars, Words DEF a
  <2>5. Lba(time) = time + info.cumulative_offset
    BY <2>2, <2>4, LbaFits DEF Flow
  <2>6. says.last # None => says.last <= time
    BY <1>5, Index0Fields DEF InOrder
  <2>7. says.disc <= Lba(time)
    BY <2>1, <2>2, <2>5, <2>6, Scalars
  <2> QED
    BY <2>2, <2>5, <2>7
<1>6. ASSUME NEW time \in Times, Index1Line(time) PROVE Ahead(h)'
  <2> SUFFICES ASSUME info.file_index = 1
               PROVE  /\ time <= h /\ time \in Nat
                      /\ Lba(time) = time + info.cumulative_offset
                      /\ says.disc <= Spread'.track
                      /\ Spread'.track <= Spread'.data
    BY <1>6, Index1Fields DEF Ahead
  <2>1. /\ says.count >= 1 /\ says.count <= MaxTracks /\ says.count \in Nat
        /\ info.cumulative_offset <= (says.count - 1) * h /\ says.pregap <= h
    BY <1>6, Index1Fields, Scalars DEF Ahead
  <2>2. time \in Nat /\ time <= h
    BY CueTracksAssumption
  <2> DEFINE a == (says.count - 1) * h
             b == says.count * h
             x == time + info.cumulative_offset
  <2>3. a \in Nat /\ b \in Nat /\ a + h = b /\ b + h < Word
    BY <2>1, RoomOnDisc
  <2> HIDE DEF a, b
  <2>4. x < Word /\ x \in Nat /\ x + says.pregap \in 0 .. Word - 1 /\ x + says.pregap \in Int
    BY <2>1, <2>2, <2>3, Scalars, Words DEF a
  <2>5. Lba(time) = x
    BY <2>2, <2>4, LbaFits DEF Flow
  <2>6. says.last # None => says.last <= time
    BY <1>6, Index1Fields DEF InOrder
  <2>7. CASE got.pause
    <3>1. Spread'.track = info.track_start /\ Spread'.data = x
      BY <1>6, <2>5, <2>7, Index1Fields DEF Spread
    <3>2. /\ info.track_start = says.last + info.cumulative_offset
          /\ says.disc <= info.track_start /\ says.last \in Nat
      BY <1>6, <2>7, Index1Fields DEF Ahead
    <3>3. info.track_start <= x
      BY <2>2, <2>6, <3>2, Scalars DEF None
    <3> QED
      BY <2>2, <2>5, <3>1, <3>2, <3>3
  <2>8. CASE ~got.pause
    <3>1. Spread'.track = x /\ Spread'.data = U32(x + says.pregap)
      BY <1>6, <2>5, <2>8, Index1Fields DEF Spread, Flow
    <3>2. U32(x + says.pregap) = x + says.pregap
      BY <2>4, Frames
    <3>3. IF says.last = None THEN says.disc = 0
          ELSE says.disc <= says.last + info.cumulative_offset
      BY <1>6, <2>8, Index1Fields DEF Ahead
    <3>4. says.disc <= x
      BY <2>2, <2>6, <3>3, Scalars
    <3>5. x <= x + says.pregap
      BY <2>4, Scalars
    <3> QED
      BY <2>2, <2>5, <3>1, <3>2, <3>4, <3>5
  <2> QED
    BY <2>7, <2>8
<1>7. ASSUME EndOfSheet PROVE Ahead(h)'
  BY <1>7, CueTracksAssumption DEF EndOfSheet, Ahead, Types, Flow, NoFile, Loop, Gapless
<1>8. ASSUME ReturnTrack PROVE Ahead(h)'
  <2> SUFFICES ASSUME info.file_index = 1
               PROVE  /\ says.last \in Nat
                      /\ Spread.data <= says.last + info.cumulative_offset + says.pregap
    BY <1>8, ReturnFields DEF Ahead
  <2>1. /\ says.count >= 1 /\ says.count <= MaxTracks /\ says.count \in Nat
        /\ info.cumulative_offset <= (says.count - 1) * h /\ says.pregap <= h
        /\ says.last \in Nat /\ says.last <= h
        /\ info.data_start = says.last + info.cumulative_offset
    BY <1>8, ReturnFields, Scalars DEF Ahead
  <2> DEFINE a == (says.count - 1) * h
             b == says.count * h
             x == info.data_start + says.pregap
  <2>2. a \in Nat /\ b \in Nat /\ a + h = b /\ b + h < Word
    BY <2>1, RoomOnDisc
  <2> HIDE DEF a, b
  <2>3. x \in 0 .. Word - 1 /\ x \in Int
    BY <2>1, <2>2, Scalars, Words DEF a
  <2>4. U32(x) = x
    BY <2>3, Frames
  <2>5. Spread.data = info.data_start \/ Spread.data = x
    BY <2>4 DEF Spread, Flow
  <2> QED
    BY <2>1, <2>5, Scalars
<1>9. ASSUME CCDDAISO PROVE Ahead(h)'
  BY <1>9, CueTracksAssumption DEF CCDDAISO, Ahead, Types, Flow, NoFile, Gapless
<1>10. ASSUME LastTrack PROVE Ahead(h)'
  BY <1>10, CueTracksAssumption DEF LastTrack, Ahead, Types, Flow, NoFile, Gapless
<1> QED
  BY <1>1, <1>2, <1>3, <1>4, <1>5, <1>6, <1>7, <1>8, <1>9, <1>10 DEF Next, Line

-----------------------------------------------------------------------------
(***************************************************************************)
(* What follows for every sheet.                                           *)
(***************************************************************************)
\* All of it holds at first.
LEMMA InitSheet == Init => Types /\ Flow /\ NoFile /\ info.file_index = 0
<1> SUFFICES ASSUME Init PROVE Types /\ Flow /\ NoFile /\ info.file_index = 0
  OBVIOUS
<1>1. Types /\ info.file_index = 0
  BY InitTypes DEF Init
<1>2. Flow
  BY DEF Init, Flow, Nothing, Silent
<1>3. NoFile
  BY DEF Init, NoFile
<1> QED
  BY <1>1, <1>2, <1>3

\* What holds of every sheet.
SheetInv == Types /\ Flow /\ NoFile

\* And in every step.
LEMMA NextSheet == SheetInv /\ [Next]_vars => SheetInv'
<1> SUFFICES ASSUME SheetInv, [Next]_vars PROVE SheetInv'
  OBVIOUS
<1>1. CASE UNCHANGED vars
  BY <1>1 DEF vars, SheetInv, Types, Flow, NoFile
<1>2. CASE Next
  BY <1>2, NextTypes, NextFlow, NextNoFile DEF SheetInv
<1> QED
  BY <1>1, <1>2

\* The inductive invariant of AudioTracksContiguous.
ContiguousInv == SheetInv /\ NoGap /\ Aligned /\ Follow

\* Whatever sheet of audio tracks without gaps is read, with any times and any
\* number of tracks and any length of an audio frame, the ranges that CCDDAISO
\* cuts the .bin file into follow on each other.
THEOREM AudioRangesContiguous == Spec => []AudioTracksContiguous
<1>1. Init => ContiguousInv
  BY InitSheet DEF ContiguousInv, SheetInv, NoGap, Aligned, Follow, Gapless
<1>2. ContiguousInv /\ [Next]_vars => ContiguousInv'
  <2> SUFFICES ASSUME ContiguousInv, [Next]_vars PROVE ContiguousInv'
    OBVIOUS
  <2>1. SheetInv'
    BY NextSheet DEF ContiguousInv
  <2>2. CASE UNCHANGED vars
    BY <2>1, <2>2 DEF vars, ContiguousInv, NoGap, Aligned, Follow, Gapless
  <2>3. CASE Next
    BY <2>1, <2>3, NextNoGap, NextAligned, NextFollow DEF ContiguousInv, SheetInv
  <2> QED
    BY <2>2, <2>3
<1>3. ContiguousInv => AudioTracksContiguous
  BY DEF ContiguousInv, Follow, Gapless, AudioTracksContiguous, OneFile
<1> QED
  BY <1>1, <1>2, <1>3, PTL DEF Spec

\* The inductive invariant of FirstGapRight.
GapInv == SheetInv /\ NoGap /\ Placed /\ Found

\* For any sheet, with any track modes and any number of tracks: up to the first
\* track with a gap, file_offset is where the sheet says the track's data is,
\* wherever the gap comes and however late.
THEOREM FirstGapsRight ==
    ASSUME WordFits
    PROVE  Spec => []FirstGapRight
<1>1. Init => GapInv
  BY InitSheet DEF GapInv, SheetInv, NoGap, Placed, Found, Gapless
<1>2. GapInv /\ [Next]_vars => GapInv'
  <2> SUFFICES ASSUME GapInv, [Next]_vars PROVE GapInv'
    OBVIOUS
  <2>1. SheetInv'
    BY NextSheet DEF GapInv
  <2>2. CASE UNCHANGED vars
    <3>1. NoGap' /\ Placed'
      BY <2>2 DEF vars, GapInv, NoGap, Placed, Gapless, Spread
    <3>2. Found'
      BY <2>2 DEF vars, GapInv, Found, Spread, FileOffset
    <3> QED
      BY <2>1, <3>1, <3>2 DEF GapInv
  <2>3. CASE Next
    BY <2>1, <2>3, NextNoGap, NextPlaced, NextFound DEF GapInv, SheetInv
  <2> QED
    BY <2>2, <2>3
<1>3. GapInv => FirstGapRight
  BY DEF GapInv, Found, FirstGapRight, OneFile
<1> QED
  BY <1>1, <1>2, <1>3, PTL DEF Spec

\* The inductive invariant of DiscMonotone.
DiscInv(h) == SheetInv /\ Ahead(h)

\* With times of at most h frames, of which one for each track and one more fit
\* a word (those of 99 tracks and 100 minutes are about a hundredth of it), tracks
\* never go back on the disc, whatever the gaps.
THEOREM DiscNeverBack ==
    ASSUME NEW h \in Nat, \A t \in Times : t <= h, (MaxTracks + 1) * h < Word
    PROVE  Spec => DiscMonotone
<1>1. Init => DiscInv(h)
  BY InitSheet DEF DiscInv, SheetInv, Ahead
<1>2. DiscInv(h) /\ [Next]_vars => DiscInv(h)'
  <2> SUFFICES ASSUME DiscInv(h), [Next]_vars PROVE DiscInv(h)'
    OBVIOUS
  <2>1. SheetInv'
    BY NextSheet DEF DiscInv
  <2>2. CASE UNCHANGED vars
    BY <2>1, <2>2 DEF vars, DiscInv, Ahead, Spread
  <2>3. CASE Next
    BY <2>1, <2>3, NextAhead DEF DiscInv, SheetInv
  <2> QED
    BY <2>2, <2>3
<1>3. DiscInv(h) /\ [Next]_vars =>
      [pc' = "return" /\ info'.file_index = 1
          => /\ info'.track_start <= info'.data_start
             /\ says.disc <= info'.track_start]_vars
  <2> SUFFICES ASSUME DiscInv(h), Next, pc' = "return", info'.file_index = 1
               PROVE  /\ info'.track_start <= info'.data_start
                      /\ says.disc <= info'.track_start
    OBVIOUS
  <2>1. ReturnTrack
    BY DEF Next, Line, next_track, FileLine, TrackLine, PregapLine, Index0Line,
           Index1Line, EndOfSheet, CCDDAISO, LastTrack, Loop
  <2>2. /\ info'.track_start = Spread.track /\ info'.data_start = Spread.data
        /\ info.file_index = 1 /\ pc = "loop" /\ got.data
    BY <2>1, ReturnFields DEF DiscInv, SheetInv
  <2> QED
    BY <2>2 DEF DiscInv, Ahead
<1> QED
  BY <1>1, <1>2, <1>3, PTL DEF Spec, DiscMonotone

-----------------------------------------------------------------------------
\* The numbers among the constants.
LEMMA ImageConstants ==
    /\ Nobody \notin Files
    /\ Size \in Nat /\ Header \in Nat \ {0} /\ Block \in Nat \ {0}
    /\ Lengths \subseteq Nat /\ Bound \in Nat /\ MaxStreams \in Nat
    /\ Moves \subseteq [whence : {"SET", "CUR", "END"}, by : Int]
  BY ImageFilesAssumption

-----------------------------------------------------------------------------
(***************************************************************************)
(* The arithmetic of blocks.                                               *)
(***************************************************************************)

\* CEILING rounds up what is not a multiple.
LEMMA CeilingIs ==
    ASSUME NEW b \in Nat \ {0}, NEW q \in Int, NEW r \in 0 .. b - 1
    PROVE  Ceiling(b * q + r, b) = IF r = 0 THEN q ELSE q + 1
<1> DEFINE a == b * q + r
<1>1. a \in Int /\ a + (b - 1) \in Int
  OBVIOUS
<1>2. PICK p \in Int, s \in 0 .. b - 1 :
          (a + (b - 1)) \div b = p /\ a + (b - 1) = b * p + s
  <2> HIDE DEF a
  <2> QED BY <1>1, Division
<1>3. CASE r = 0
  <2>1. b * q + (b - 1) = b * p + s
    BY <1>2, <1>3
  <2>2. q = p
    <3>1. b - 1 \in 0 .. b - 1
      OBVIOUS
    <3> QED BY <2>1, <3>1, SameQuotient
  <2> QED BY <1>2, <1>3, <2>2 DEF Ceiling
<1>4. CASE r # 0
  <2>1. b * (q + 1) + (r - 1) = b * p + s
    BY <1>2
  <2>2. q + 1 = p
    <3>1. r - 1 \in 0 .. b - 1
      BY <1>4
    <3> QED BY <2>1, <3>1, SameQuotient
  <2> QED BY <1>2, <1>4, <2>2 DEF Ceiling
<1> QED BY <1>3, <1>4
-----------------------------------------------------------------------------
(***************************************************************************)
(* What the steps keep.                                                    *)
(***************************************************************************)
ImageTypes ==
    /\ kind \in Kinds
    /\ track \in [Files -> Ids \cup {0}]
    /\ offset \in [Files -> Int]
    /\ stream \in Nat \cup {NoStream}
    /\ streams \in Nat
    /\ replaced \in BOOLEAN
    /\ mutex \in Files \cup {Nobody}
    /\ left \in Nat
    /\ fate \in {"running", "crashed"}

\* Between the fseek and the fread of a read its track is open, and the stream
\* is where fseek has put it, or another open or close has put a FILE at its
\* start, or none, in its place.
ReaderInPlace ==
    fate = "running" /\ mutex # Nobody =>
        /\ kind = "cue"
        /\ track[mutex] # 0
        /\ replaced => stream \in {0, NoStream}
        /\ ~replaced => /\ stream # NoStream
                       /\ \/ stream = Start(mutex) + offset[mutex] - Header
                          \/ Start(mutex) + offset[mutex] < Header

ImageInv == ImageTypes /\ ReaderInPlace /\ CrashExplained

-----------------------------------------------------------------------------
\* A track of the image has a start and an end.
LEMMA ExtentTypes ==
    ASSUME NEW i \in Ids
    PROVE  i \in Nat \ {0} /\ Extents[i].start \in Nat /\ Extents[i].end \in Nat
<1>1. i \in 1 .. Len(Extents)
  BY ImageFilesAssumption DEF Ids
<1>2. Extents[i] \in [start : Nat, end : Nat]
  BY <1>1, ImageFilesAssumption, ElementOfSeq
<1> QED
  BY <1>1, <1>2

\* The invariant holds at first.
LEMMA InitImage == ImageInit => ImageInv
<1> SUFFICES ASSUME ImageInit PROVE ImageInv
  OBVIOUS
<1>1. ImageTypes
  <2>1. track \in [Files -> Ids \cup {0}]
    BY DEF ImageInit
  <2>2. offset \in [Files -> Int]
    BY DEF ImageInit
  <2>3. stream \in Nat \cup {NoStream} /\ streams \in Nat /\ left \in Nat
    BY DEF ImageInit
  <2>4. kind \in Kinds /\ replaced \in BOOLEAN /\ mutex \in Files \cup {Nobody}
    BY DEF ImageInit
  <2>5. fate \in {"running", "crashed"}
    BY DEF ImageInit
  <2> QED
    BY <2>1, <2>2, <2>3, <2>4, <2>5 DEF ImageTypes
<1>2. ReaderInPlace
  BY ImageConstants DEF ImageInit, ReaderInPlace
<1>3. CrashExplained
  BY ImageConstants DEF ImageInit, CrashExplained
<1> QED
  BY <1>1, <1>2, <1>3 DEF ImageInv

\* The open of a track keeps it.
LEMMA OpenTrack ==
    ASSUME ImageInv, NEW f \in Files, NEW id \in Ids, cuebinfs_open(f, id)
    PROVE  ImageInv'
<1>1. ImageTypes'
  BY ExtentTypes, ImageConstants
  DEF ImageInv, ImageTypes, NoStream, Opened, Start, cuebinfs_open, openBinaryFile
<1>2. ReaderInPlace'
  <2> SUFFICES ASSUME mutex # Nobody
               PROVE  ReaderInPlace'
    BY ImageConstants DEF cuebinfs_open, ReaderInPlace
  <2>1. mutex \in Files /\ mutex # f /\ kind = "cue" /\ track[mutex] # 0
    BY ImageConstants DEF cuebinfs_open, ImageInv, ImageTypes, ReaderInPlace
  <2>2. track'[mutex] = track[mutex]
    BY <2>1, ImageConstants DEF cuebinfs_open, ImageInv, ImageTypes
  <2> QED
    BY <2>1, <2>2 DEF cuebinfs_open, openBinaryFile, ReaderInPlace, NoStream
<1>3. CrashExplained'
  BY ExtentTypes, ImageConstants
  DEF ImageInv, ImageTypes, ReaderInPlace, CrashExplained,
      NoStream, Opened, Start, cuebinfs_open, openBinaryFile
<1> QED
  BY <1>1, <1>2, <1>3 DEF ImageInv

\* The open of an ISO file keeps it.
LEMMA OpenIso ==
    ASSUME ImageInv, NEW f \in Files, NEW id \in Ids \cup {0}, iso9660fs_open(f, id)
    PROVE  ImageInv'
<1>1. ImageTypes'
  BY ExtentTypes, ImageConstants
  DEF ImageInv, ImageTypes, NoStream, Opened, Start, iso9660fs_open, Crash
<1>2. ReaderInPlace'
  BY ExtentTypes, ImageConstants
  DEF ImageInv, ImageTypes, ReaderInPlace, NoStream, Opened, Start, iso9660fs_open, Crash
<1>3. CrashExplained'
  BY ExtentTypes, ImageConstants
  DEF ImageInv, ImageTypes, ReaderInPlace, CrashExplained,
      NoStream, Opened, Start, iso9660fs_open, Crash
<1> QED
  BY <1>1, <1>2, <1>3 DEF ImageInv

\* The close of a track keeps it.
LEMMA CloseTrack ==
    ASSUME ImageInv, NEW f \in Files, cuebinfs_close(f)
    PROVE  ImageInv'
<1>1. ImageTypes'
  BY ExtentTypes, ImageConstants
  DEF ImageInv, ImageTypes, NoStream, Opened, Start, cuebinfs_close, openBinaryFile
<1>2. ReaderInPlace'
  BY ExtentTypes, ImageConstants
  DEF ImageInv, ImageTypes, ReaderInPlace, NoStream, Opened, Start, cuebinfs_close,
      openBinaryFile
<1>3. CrashExplained'
  BY ExtentTypes, ImageConstants
  DEF ImageInv, ImageTypes, ReaderInPlace, CrashExplained,
      NoStream, Opened, Start, cuebinfs_close, openBinaryFile
<1> QED
  BY <1>1, <1>2, <1>3 DEF ImageInv

\* The close of an ISO file keeps it.
LEMMA CloseIso ==
    ASSUME ImageInv, NEW f \in Files, iso9660fs_close(f)
    PROVE  ImageInv'
<1>1. ImageTypes'
  BY ExtentTypes, ImageConstants
  DEF ImageInv, ImageTypes, NoStream, Opened, Start, iso9660fs_close
<1>2. ReaderInPlace'
  BY ExtentTypes, ImageConstants
  DEF ImageInv, ImageTypes, ReaderInPlace, NoStream, Opened, Start, iso9660fs_close
<1>3. CrashExplained'
  BY ExtentTypes, ImageConstants
  DEF ImageInv, ImageTypes, ReaderInPlace, CrashExplained,
      NoStream, Opened, Start, iso9660fs_close
<1> QED
  BY <1>1, <1>2, <1>3 DEF ImageInv

\* A seek keeps it.
LEMMA SeekKeeps ==
    ASSUME ImageInv, NEW f \in Files, Seek(f)
    PROVE  ImageInv'
<1>1. ImageTypes'
  BY ExtentTypes, ImageConstants
  DEF ImageInv, ImageTypes, NoStream, Opened, Start, Seek, Base
<1>2. ReaderInPlace'
  BY ExtentTypes, ImageConstants
  DEF ImageInv, ImageTypes, ReaderInPlace, NoStream, Opened, Start, Seek, Base
<1>3. CrashExplained'
  BY ExtentTypes, ImageConstants
  DEF ImageInv, ImageTypes, ReaderInPlace, CrashExplained,
      NoStream, Opened, Start, Seek, Base
<1> QED
  BY <1>1, <1>2, <1>3 DEF ImageInv

\* A read that comes to no fread keeps it.
LEMMA HeaderOnly ==
    ASSUME ImageInv, NEW f \in Files, NEW len \in Lengths, ReadWithoutData(f, len)
    PROVE  ImageInv'
<1>1. ImageTypes'
  BY ExtentTypes, ImageConstants
  DEF ImageInv, ImageTypes, NoStream, Opened, Start, ReadWithoutData, ReadReturns,
      Checked
<1>2. ReaderInPlace'
  BY ExtentTypes, ImageConstants
  DEF ImageInv, ImageTypes, ReaderInPlace, NoStream, Opened, Start, ReadWithoutData,
      ReadReturns
<1>3. CrashExplained'
  BY ExtentTypes, ImageConstants
  DEF ImageInv, ImageTypes, ReaderInPlace, CrashExplained,
      NoStream, Opened, Start, ReadWithoutData, ReadReturns,
      Checked
<1> QED
  BY <1>1, <1>2, <1>3 DEF ImageInv

\* The fseek of a read keeps it.
LEMMA Begins ==
    ASSUME ImageInv, NEW f \in Files, NEW len \in Lengths, BeginRead(f, len)
    PROVE  ImageInv'
<1>1. ImageTypes'
  <2>1. Start(f) \in Int /\ offset[f] \in Int /\ len \in Nat
    BY ExtentTypes, ImageConstants DEF ImageInv, ImageTypes, Opened, Start, BeginRead
  <2>2. Moved(Start(f) + offset[f] - Header) \in Nat \cup {NoStream}
    BY <2>1, ImageConstants DEF Moved, ImageInv, ImageTypes
  <2>3. stream' \in Nat \cup {NoStream}
    BY <2>2 DEF BeginRead, Fseek, ImageInv, ImageTypes
  <2>4. left' \in Nat
    BY <2>1, ImageConstants DEF BeginRead, ImageInv, ImageTypes
  <2> QED
    BY <2>3, <2>4 DEF BeginRead, Crash, ImageInv, ImageTypes
<1>2. ReaderInPlace'
  BY ExtentTypes, ImageConstants
  DEF ImageInv, ImageTypes, ReaderInPlace, NoStream, Opened, Start, BeginRead,
      Fseek, Moved, Crash, Smaller, End, Checked
<1>3. CrashExplained'
  BY ExtentTypes, ImageConstants
  DEF ImageInv, ImageTypes, ReaderInPlace, CrashExplained,
      NoStream, Opened, Start, BeginRead, Fseek, Moved, Crash, Smaller, End, Checked
<1> QED
  BY <1>1, <1>2, <1>3 DEF ImageInv

\* The fread of a read keeps it.
LEMMA Ends ==
    ASSUME ImageInv, NEW f \in Files, EndRead(f)
    PROVE  ImageInv'
<1>1. ImageTypes'
  <2>1. stream # NoStream => Fread \in Nat
    BY ImageConstants DEF Fread, Smaller, NoStream, ImageInv, ImageTypes
  <2>2. stream' \in Nat \cup {NoStream}
    BY <2>1, ImageConstants DEF EndRead, ImageInv, ImageTypes
  <2>3. offset' \in [Files -> Int]
    BY <2>1, ImageConstants DEF EndRead, ImageInv, ImageTypes
  <2>4. left' \in Nat
    BY DEF EndRead, ImageInv, ImageTypes
  <2>5. replaced' \in BOOLEAN
    <3>1. replaced' = replaced \/ replaced' = FALSE
      BY DEF EndRead
    <3> QED
      BY <3>1 DEF ImageInv, ImageTypes
  <2>6. mutex' \in Files \cup {Nobody} /\ fate' \in {"running", "crashed"}
    BY DEF EndRead, Crash, ImageInv, ImageTypes
  <2>7. UNCHANGED <<kind, track, streams>>
    BY DEF EndRead
  <2> QED
    BY <2>2, <2>3, <2>4, <2>5, <2>6, <2>7 DEF ImageInv, ImageTypes
<1>2. ReaderInPlace'
  BY ExtentTypes, ImageConstants
  DEF ImageInv, ImageTypes, ReaderInPlace, NoStream, Opened, Start, EndRead, Fread,
      Crash, Smaller
<1>3. CrashExplained'
  BY ExtentTypes, ImageConstants
  DEF ImageInv, ImageTypes, ReaderInPlace, CrashExplained,
      NoStream, Opened, Start, EndRead, Fread, Crash, Smaller
<1> QED
  BY <1>1, <1>2, <1>3 DEF ImageInv

\* A read of an ISO file keeps it.
LEMMA ReadIso ==
    ASSUME ImageInv, NEW f \in Files, NEW len \in Lengths, iso9660fs_read(f, len)
    PROVE  ImageInv'
<1>1. ImageTypes'
  BY ExtentTypes, ImageConstants
  DEF ImageInv, ImageTypes, NoStream, Opened, Start, iso9660fs_read, ReadReturns
<1>2. ReaderInPlace'
  BY ExtentTypes, ImageConstants
  DEF ImageInv, ImageTypes, ReaderInPlace, NoStream, Opened, Start, iso9660fs_read,
      ReadReturns
<1>3. CrashExplained'
  BY ExtentTypes, ImageConstants
  DEF ImageInv, ImageTypes, ReaderInPlace, CrashExplained,
      NoStream, Opened, Start, iso9660fs_read, ReadReturns
<1> QED
  BY <1>1, <1>2, <1>3 DEF ImageInv

\* Every step keeps it.
LEMMA NextImage == ImageInv /\ [ImageNext]_imageVars => ImageInv'
<1> SUFFICES ASSUME ImageInv, [ImageNext]_imageVars PROVE ImageInv'
  OBVIOUS
<1>1. CASE UNCHANGED imageVars
  BY <1>1
  DEF imageVars, ImageInv, ImageTypes, ReaderInPlace, CrashExplained,
      Start
<1>2. CASE ImageNext
  BY <1>2, OpenTrack, OpenIso, CloseTrack, CloseIso, SeekKeeps, HeaderOnly, Begins,
     Ends, ReadIso DEF ImageNext, cuebinfs_read
<1> QED
  BY <1>1, <1>2

\* A read of a track ends the process only without a FILE, which an open or a close
\* took away between the read's look at binnaryfile and its fread, or nobody looked
\* for; in an ISO image only an open does.
THEOREM CrashesExplained == ImageSpec => []CrashExplained
<1>1. ImageInv => CrashExplained
  BY DEF ImageInv
<1> QED
  BY InitImage, NextImage, <1>1, PTL DEF ImageSpec

-----------------------------------------------------------------------------
(***************************************************************************)
(* Where reads take their bytes from.                                      *)
(***************************************************************************)

\* Nothing but the end of a read delivers anything.
LEMMA OnlyReadsDeliver ==
    ASSUME ImageInv, ImageNext, NEW f \in Files, delivered'.file = f
    PROVE  EndRead(f) \/ \E len \in Lengths : iso9660fs_read(f, len)
<1>1. delivered' # NothingRead
  BY ImageConstants DEF NothingRead
<1>2. PICK g \in Files : EndRead(g) \/ \E len \in Lengths : iso9660fs_read(g, len)
  BY <1>1 DEF ImageNext, cuebinfs_open, iso9660fs_open, cuebinfs_close, iso9660fs_close,
     Seek, cuebinfs_read, ReadWithoutData, BeginRead
<1>3. g = f
  BY <1>1, <1>2 DEF EndRead, iso9660fs_read
<1> QED
  BY <1>2, <1>3

\* What a read of a track delivers.
LEMMA TrackDelivered ==
    ASSUME ImageInv, ImageNext, NEW f \in Files, kind = "cue", delivered'.file = f
    PROVE  \/ delivered'.replaced /\ delivered'.from = 0
           \/ /\ ~delivered'.replaced
              /\ delivered'.from = Start(f) + offset[f] - Header
           \/ ~delivered'.replaced /\ Start(f) + offset[f] < Header
<1>1. EndRead(f)
  BY OnlyReadsDeliver DEF iso9660fs_read
<1>2. stream # NoStream
  BY <1>1, ImageConstants DEF EndRead, NothingRead
<1>3. delivered'.from = stream /\ delivered'.replaced = replaced
  BY <1>1, <1>2 DEF EndRead
<1>4. mutex = f /\ mutex # Nobody /\ fate = "running"
  BY <1>1, ImageConstants DEF EndRead
<1>5. replaced \in BOOLEAN
  BY DEF ImageInv, ImageTypes
<1>6. CASE replaced
  BY <1>2, <1>3, <1>4, <1>6 DEF ImageInv, ReaderInPlace
<1>7. CASE ~replaced
  BY <1>3, <1>4, <1>7 DEF ImageInv, ReaderInPlace
<1> QED
  BY <1>5, <1>6, <1>7

\* A read of a track takes its data from the track's place in the .bin file,
\* from the start of a FILE that has replaced the one it moved, or, when there is
\* no place before the data, from wherever the stream is.
THEOREM ReadsOfTracksApart == ImageSpec => TracksApart
<1>1. ImageInv /\ [ImageNext]_imageVars =>
      [\A f \in Files :
           kind = "cue" /\ delivered'.file = f
               => \/ /\ delivered'.replaced
                     /\ delivered'.from = 0
                  \/ /\ ~delivered'.replaced
                     /\ delivered'.from = Start(f) + offset[f] - Header
                  \/ /\ ~delivered'.replaced
                     /\ Start(f) + offset[f] < Header]_imageVars
  BY TrackDelivered
<1> QED
  BY InitImage, NextImage, <1>1, PTL DEF ImageSpec, TracksApart

\* The blocks from startblock on hold the offset, or begin a block before it.
LEMMA BlockOfQuotient ==
    ASSUME NEW o \in Int, NEW q \in Int, NEW r \in 0 .. Block - 1, o = Block * q + r
    PROVE  StartBlock(o) * Block + r = IF o # 0 /\ r = 0 THEN o - Block ELSE o
<1>1. Ceiling(Block * q + r, Block) = IF r = 0 THEN q ELSE q + 1
  BY CeilingIs, ImageConstants
<1>2. Ceiling(o, Block) = IF r = 0 THEN q ELSE q + 1
  BY <1>1
<1>3. CASE o = 0
  <2>1. Block * 0 + 0 = Block * q + r
    BY <1>3, ImageConstants
  <2>2. 0 = q
    BY <2>1, SameQuotient, ImageConstants
  <2>3. r = 0
    BY <1>3, <2>2, ImageConstants
  <2>4. StartBlock(o) * Block = 0
    BY <1>3, ImageConstants DEF StartBlock
  <2> QED
    BY <1>3, <2>3, <2>4
<1>4. CASE o # 0 /\ r = 0
  <2>1. StartBlock(o) = q - 1
    BY <1>2, <1>4 DEF StartBlock
  <2>2. StartBlock(o) * Block = Block * q - Block
    BY <2>1, ImageConstants
  <2> QED
    BY <1>4, <2>2, ImageConstants
<1>5. CASE o # 0 /\ r # 0
  <2>1. StartBlock(o) = q
    BY <1>2, <1>5 DEF StartBlock
  <2>2. StartBlock(o) * Block = Block * q
    BY <2>1, ImageConstants
  <2> QED
    BY <1>5, <2>2, ImageConstants
<1> QED
  BY <1>3, <1>4, <1>5

\* The blocks that are read hold what is skipped and what is copied.
LEMMA RoomOfQuotient ==
    ASSUME NEW len \in Nat, NEW r \in 0 .. Block - 1
    PROVE  ReadBlocks(len) * Block - (r + len) >= 0
<1>1. PICK s \in Int, t \in 0 .. Block - 1 : len = Block * s + t
  <2>1. len \in Int /\ Block \in Nat \ {0}
    BY ImageConstants
  <2> QED
    BY <2>1, Division, Zenon
<1>2. Ceiling(Block * s + t, Block) = IF t = 0 THEN s ELSE s + 1
  BY CeilingIs, ImageConstants
<1>3. ReadBlocks(len) = IF t = 0 THEN s + 1 ELSE s + 2
  <2>1. Ceiling(len, Block) = IF t = 0 THEN s ELSE s + 1
    BY <1>1, <1>2
  <2> QED
    BY <2>1 DEF ReadBlocks
<1>4. CASE t = 0
  <2>1. ReadBlocks(len) * Block = Block * s + Block
    BY <1>3, <1>4, ImageConstants
  <2> QED
    BY <1>1, <1>4, <2>1, ImageConstants
<1>5. CASE t # 0
  <2>1. ReadBlocks(len) * Block = Block * s + Block + Block
    BY <1>3, <1>5, ImageConstants
  <2> QED
    BY <1>1, <1>5, <2>1, ImageConstants
<1> QED
  BY <1>4, <1>5

\* What a read of an ISO file delivers.
LEMMA IsoDelivered ==
    ASSUME ImageInv, ImageNext, NEW f \in Files, kind = "iso", delivered'.file = f
    PROVE  LET early == offset[f] # 0 /\ offset[f] % Block = 0
           IN  /\ delivered'.from =
                      Start(f) + offset[f] - (IF early THEN Block ELSE 0)
               /\ delivered'.room >= 0
<1> DEFINE o == offset[f]
<1>1. PICK len \in Lengths : iso9660fs_read(f, len)
  <2>1. ~EndRead(f)
    BY ImageConstants DEF EndRead, ImageInv, ReaderInPlace
  <2> QED
    BY <2>1, OnlyReadsDeliver
<1>2. /\ delivered'.from = Start(f) + StartBlock(o) * Block + (o % Block)
      /\ delivered'.room = ReadBlocks(len) * Block - ((o % Block) + len)
  BY <1>1 DEF iso9660fs_read
<1>3. /\ o \in Int
      /\ len \in Nat
      /\ Start(f) \in Int
  <2>1. track[f] \in Ids
    BY <1>1 DEF iso9660fs_read, Opened, ImageInv, ImageTypes
  <2> QED
    BY <2>1, ExtentTypes, ImageConstants DEF ImageInv, ImageTypes, Start
<1> HIDE DEF o
<1>4. PICK q \in Int, r \in 0 .. Block - 1 : o % Block = r /\ o = Block * q + r
  <2>1. Block \in Nat \ {0}
    BY ImageConstants
  <2> QED
    BY <1>3, <2>1, Division, Zenon
<1>5. StartBlock(o) * Block + r = IF o # 0 /\ r = 0 THEN o - Block ELSE o
  BY <1>3, <1>4, BlockOfQuotient
<1>6. ReadBlocks(len) * Block - (r + len) >= 0
  BY <1>3, RoomOfQuotient
<1>7. delivered'.room >= 0
  BY <1>2, <1>4, <1>6, Zenon
<1>8. StartBlock(o) * Block \in Int
  BY <1>5, <1>3, ImageConstants DEF StartBlock, Ceiling
<1>9. Start(f) + StartBlock(o) * Block + r =
         Start(f) + o - (IF o # 0 /\ r = 0 THEN Block ELSE 0)
  BY <1>3, <1>5, <1>8, ImageConstants
<1>10. delivered'.from =
          Start(f) + o - (IF o # 0 /\ o % Block = 0 THEN Block ELSE 0)
  BY <1>2, <1>4, <1>9, Zenon
<1> QED
  BY <1>7, <1>10 DEF o

\* The bytes an ISO read delivers are those at its offset, or from a block before
\* it when the offset is a multiple of the block, and none is copied from behind
\* the blocks it has read, whatever the block and the length are.
THEOREM IsoReadsInPlace == ImageSpec => IsoInPlace
<1>1. ImageInv /\ [ImageNext]_imageVars =>
      [\A f \in Files :
           kind = "iso" /\ delivered'.file = f
               => LET early == offset[f] # 0 /\ offset[f] % Block = 0
                  IN  /\ delivered'.from =
                             Start(f) + offset[f] - (IF early THEN Block ELSE 0)
                      /\ delivered'.room >= 0]_imageVars
  BY IsoDelivered
<1> QED
  BY InitImage, NextImage, <1>1, PTL DEF ImageSpec, IsoInPlace
=============================================================================
