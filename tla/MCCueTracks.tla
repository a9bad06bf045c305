---------------------------- MODULE MCCueTracks -----------------------------
(***************************************************************************)
(* Small instances of CueTracks: sheets of three tracks of two modes with  *)
(* frames of different lengths, and a word that is small but larger than   *)
(* any position such a sheet has.                                          *)
(***************************************************************************)
EXTENDS CueTracks, TLC

MCLength == ("AUDIO" :> 3) @@ ("MODE1_2048" :> 2)
=============================================================================
