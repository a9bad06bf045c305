----------------------------- MODULE CueTracks ------------------------------
(***************************************************************************)
(* Reading a CUE sheet: CUEParser::next_track, which turns the lines of a  *)
(* sheet into positions on the disc (frames) and in the .bin file (bytes), *)
(* and the constructor of CCDDAISO, which makes from them the byte range   *)
(* that each track of the mounted image is read from.                      *)
(*                                                                         *)
(* The sheet is not fixed beforehand: each iteration of the parser's loop  *)
(* meets any line that a sheet may go on with: FILE before its tracks, and *)
(* in each track PREGAP, INDEX 00 and INDEX 01 in this order, the last one *)
(* always.  What the sheet says about the .bin file is kept next to it     *)
(* ("says"), as the reference for what the parser makes of it.             *)
(***************************************************************************)
EXTENDS Integers, Sequences

CONSTANTS
    Length,     \* bytes of a frame in the .bin file, for each track mode
    Times,      \* frames that INDEX and PREGAP lines may give
    Word,       \* 2^32: frames are uint32_t, bytes uint64_t
    FileSize,   \* binfilesize
    MaxTracks,  \* bound: TRACK lines of a sheet
    MaxFiles    \* bound: FILE lines of a sheet

Modes == DOMAIN Length

ASSUME CueTracksAssumption ==
    /\ "AUDIO" \in Modes
    /\ Length \in [Modes -> Nat]
    /\ Times \subseteq Nat
    /\ Word \in Nat \ {0}
    /\ FileSize \in Nat
    /\ MaxTracks \in Nat
    /\ MaxFiles \in Nat

VARIABLES
    info,    \* m_track_info
    prev,    \* prev_track_start and prev_sector_length
    got,     \* got_file, got_track, got_data and got_pause
    pc,      \* "call", "loop", "return", or "done" when there are no more tracks
    pending, \* CCDDAISO: startoffset of the track whose end is not known yet
    tracks,  \* CCDDAISO: cdaudio_tracks
    says     \* what the sheet has said so far

vars == <<info, prev, got, pc, pending, tracks, says>>

U32(x) == x % Word
U64(x) == x % (Word * Word)

\* Unsigned division as the target's instruction does it: by zero it gives 0.
Quotient(x, y) == IF y = 0 THEN 0 ELSE x \div y

None == -1

Nothing == [file |-> FALSE, track |-> FALSE, data |-> FALSE, pause |-> FALSE]

(***************************************************************************)
(* says: the lines of the current track, where the track before it begins  *)
(* in the file (frame "start" and byte "base"), where the data of the last *)
(* complete track begins (byte "data"; frame "disc" of the disc, as the     *)
(* parser has it), and which gaps there have been.                         *)
(***************************************************************************)
Silent ==
    [mode |-> "AUDIO", index0 |-> None, pregap |-> 0, last |-> None,
     started |-> FALSE, start |-> 0, base |-> 0, length |-> 0, data |-> 0,
     gaps |-> 0, both |-> FALSE, all_audio |-> TRUE, count |-> 0,
     disc |-> 0]

Init ==
    /\ info = [file_index |-> 0, file_offset |-> 0, file_start |-> 0,
               track_mode |-> "AUDIO", sector_length |-> 0,
               unstored_pregap_length |-> 0, cumulative_offset |-> 0,
               data_start |-> 0, track_start |-> 0]
    /\ prev = [track_start |-> 0, sector_length |-> 0]
    /\ got = Nothing
    /\ pc = "call"
    /\ pending = None
    /\ tracks = <<>>
    /\ says = Silent

-----------------------------------------------------------------------------
\* Mutant: silence that is not in the file is forgotten after its track.
next_track_forgets_pregap ==
    /\ pc = "call"
    /\ prev' = [track_start |-> info.track_start,
                sector_length |-> Length[info.track_mode]]
    /\ got' = Nothing
    /\ pc' = "loop"
    /\ UNCHANGED <<info, pending, tracks, says>>

\* Mutant: the length of a frame is taken from the first track.
next_track_one_sector_length ==
    /\ pc = "call"
    /\ prev' = [track_start |-> info.track_start,
                sector_length |-> Length["AUDIO"]]
    /\ info' = [info EXCEPT !.cumulative_offset =
                    U32(@ + info.unstored_pregap_length)]
    /\ got' = Nothing
    /\ pc' = "loop"
    /\ UNCHANGED <<pending, tracks, says>>

\* The start of a call of next_track.
next_track ==
    /\ pc = "call"
    /\ prev' = [track_start |-> info.track_start,
                sector_length |-> Length[info.track_mode]]
    /\ info' = [info EXCEPT !.cumulative_offset =
                    U32(@ + info.unstored_pregap_length)]
    /\ got' = Nothing
    /\ pc' = "loop"
    /\ UNCHANGED <<pending, tracks, says>>

Loop == pc = "loop" /\ ~(got.track /\ got.data)

\* FILE: CCDDAISO calls next_track with no size of the file before.
FileLine ==
    /\ Loop
    /\ ~got.track
    /\ info.file_index < MaxFiles
    /\ info' = [info EXCEPT
                   !.file_start =
                       IF info.file_index > 0
                       THEN U32(info.data_start +
                                Quotient(U64(0 - info.file_offset),
                                         info.sector_length))
                       ELSE @,
                   !.file_offset = 0,
                   !.file_index = @ + 1,
                   !.track_mode = "AUDIO"]
    /\ prev' = [track_start |-> 0, sector_length |-> Length["AUDIO"]]
    /\ got' = [got EXCEPT !.file = TRUE]
    /\ says' = [says EXCEPT !.last = None, !.started = FALSE]
    /\ UNCHANGED <<pc, pending, tracks>>

TrackLine(m) ==
    /\ Loop
    /\ ~got.track
    /\ info.file_index > 0
    /\ says.count < MaxTracks
    /\ info' = [info EXCEPT !.track_mode = m,
                            !.sector_length = Length[m],
                            !.unstored_pregap_length = 0,
                            !.data_start = 0,
                            !.track_start = 0]
    /\ got' = [got EXCEPT !.track = TRUE, !.data = FALSE, !.pause = FALSE]
    /\ says' = [says EXCEPT !.mode = m, !.index0 = None, !.pregap = 0,
                            !.all_audio = @ /\ m = "AUDIO", !.count = @ + 1]
    /\ UNCHANGED <<prev, pc, pending, tracks>>

\* PREGAP, in a track and before its INDEX lines.
PregapLine(time) ==
    /\ Loop
    /\ got.track /\ ~got.pause /\ says.pregap = 0
    /\ info' = [info EXCEPT !.unstored_pregap_length = time]
    /\ says' = [says EXCEPT !.pregap = time]
    /\ UNCHANGED <<prev, got, pc, pending, tracks>>

Lba(time) == U32(info.file_start + time + info.cumulative_offset)

\* The first INDEX of a file is 00:00:00, and the times do not go back.
InOrder(time) == IF says.last = None THEN time = 0 ELSE time >= says.last

\* INDEX 00.
Index0Line(time) ==
    /\ Loop
    /\ got.track /\ ~got.pause
    /\ InOrder(time)
    /\ info' = [info EXCEPT !.track_start = Lba(time)]
    /\ got' = [got EXCEPT !.pause = TRUE]
    /\ says' = [says EXCEPT !.index0 = time, !.last = time]
    /\ UNCHANGED <<prev, pc, pending, tracks>>

\* What INDEX 01 at "time" completes: the track begins at INDEX 00, if there
\* is one; the tracks before it fill the file up to there, each in frames of
\* its own length.
Completed(time) ==
    LET start == IF says.index0 = None THEN time ELSE says.index0
        base  == IF says.started
                 THEN says.base + (start - says.start) * says.length
                 ELSE 0
        gap   == says.index0 # None \/ says.pregap > 0
    IN  [says EXCEPT !.last = time,
                     !.started = TRUE,
                     !.start = start,
                     !.base = base,
                     !.length = Length[says.mode],
                     !.data = base + (time - start) * Length[says.mode],
                     !.gaps = IF gap \/ @ > 0 THEN @ + 1 ELSE 0,
                     !.both = @ \/ (says.index0 # None /\ says.pregap > 0)]

Index1Line(time) ==
    /\ Loop
    /\ got.track
    /\ InOrder(time)
    /\ info' = [info EXCEPT !.data_start = Lba(time)]
    /\ got' = [got EXCEPT !.data = TRUE]
    /\ says' = Completed(time)
    /\ UNCHANGED <<prev, pc, pending, tracks>>

\* The sheet ends before the loop has found a track: next_track is nullptr.
EndOfSheet ==
    /\ Loop
    /\ ~got.track
    /\ pc' = "done"
    /\ UNCHANGED <<info, prev, got, pending, tracks, says>>

(***************************************************************************)
(* After the loop: an unstored pregap comes between track_start and        *)
(* data_start, and the position in the file moves on.                      *)
(***************************************************************************)
Spread ==
    IF got.pause THEN [track |-> info.track_start, data |-> info.data_start]
    ELSE [track |-> info.data_start,
          data |-> U32(info.data_start + info.unstored_pregap_length)]

FileOffset(s) ==
    LET previous == IF got.file THEN 0
                    ELSE U32(s.track - (prev.track_start + info.cumulative_offset))
        stored   == U32(s.data - (s.track + info.unstored_pregap_length))
    IN  U64(info.file_offset + previous * prev.sector_length
                             + stored * info.sector_length)

ReturnTrack ==
    /\ pc = "loop"
    /\ got.track /\ got.data
    /\ info' = [info EXCEPT !.track_start = Spread.track,
                            !.data_start = Spread.data,
                            !.file_offset = FileOffset(Spread)]
    /\ pc' = "return"
    /\ says' = [says EXCEPT !.disc = Spread.data]
    /\ UNCHANGED <<prev, got, pending, tracks>>

-----------------------------------------------------------------------------
\* cdaudio_tracks.push_back(tmp), once the end of the track is known.
Pushed(end) ==
    IF pending = None THEN tracks
    ELSE Append(tracks, [startoffset |-> pending, endoffset |-> U32(end)])

\* Mutant: a track ends where the next one starts on the disc.
CCDDAISO_ends_at_start ==
    /\ pc = "return"
    /\ tracks' = Pushed(info.track_start)
    /\ pending' = U32(info.track_start * info.sector_length)
    /\ pc' = "call"
    /\ UNCHANGED <<info, prev, got, says>>

\* The loop of the constructor: a track starts at its place on the disc and
\* ends where the data of the next one is in the file.
CCDDAISO ==
    /\ pc = "return"
    /\ tracks' = Pushed(info.file_offset)
    /\ pending' = U32(info.track_start * info.sector_length)
    /\ pc' = "call"
    /\ UNCHANGED <<info, prev, got, says>>

\* The last track ends with the file.
LastTrack ==
    /\ pc = "done"
    /\ pending # None
    /\ tracks' = Pushed(FileSize)
    /\ pending' = None
    /\ UNCHANGED <<info, prev, got, pc, says>>

Line ==
    \/ FileLine
    \/ \E m \in Modes : TrackLine(m)
    \/ \E time \in Times : PregapLine(time) \/ Index0Line(time) \/ Index1Line(time)
    \/ EndOfSheet

Next ==
    \/ next_track
    \/ Line
    \/ ReturnTrack
    \/ CCDDAISO
    \/ LastTrack

Spec == Init /\ [][Next]_vars

-----------------------------------------------------------------------------
OneFile == info.file_index = 1

\* Up to and including the first track with a gap before it, file_offset is
\* where the sheet says the data of the track is in the .bin file: whatever
\* the modes of the tracks, and whether the gap is stored (INDEX 00) or not
\* (PREGAP).
FirstGapRight ==
    pc = "return" /\ OneFile /\ says.gaps <= 1 /\ ~says.both
        => info.file_offset = says.data

\* On the disc tracks never go back: a track begins no earlier than the data
\* of the one before it, and its own data no earlier than itself, with any
\* pattern of gaps.
DiscMonotone ==
    [][pc' = "return" /\ info'.file_index = 1
          => /\ info'.track_start <= info'.data_start
             /\ says.disc <= info'.track_start]_vars

\* A sheet of audio tracks without gaps cuts the .bin file into ranges that
\* follow on each other up to its end.
AudioTracksContiguous ==
    OneFile /\ says.all_audio /\ says.gaps = 0 =>
        \A i \in DOMAIN tracks :
            i + 1 \in DOMAIN tracks =>
                tracks[i].endoffset = tracks[i + 1].startoffset

\* file_offset is the offset to the start of the track's data in the file,
\* as the comments of CUETrackInfo say, for every track of a sheet whose
\* tracks have a stored or an unstored gap before them, or none.
FileOffsetIsData ==
    pc = "return" /\ OneFile /\ ~says.both => info.file_offset = says.data
=============================================================================
