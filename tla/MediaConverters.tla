-------------------------- MODULE MediaConverters ---------------------------
(***************************************************************************)
(* The filters that decode, convert and code media: those of the pictures  *)
(* and those of the samples work next to each other and share nothing.     *)
(***************************************************************************)
EXTENDS VideoConverter, AudioTranscoder

convertersVars == <<videoVars, audioVars>>

ConvertersInit == VideoInit /\ AudioInit

ConvertersNext ==
  \/ VideoNext /\ UNCHANGED audioVars
  \/ AudioNext /\ UNCHANGED videoVars

ConvertersSpec == ConvertersInit /\ [][ConvertersNext]_convertersVars
-----------------------------------------------------------------------------
(* VideoDecoderLibav, VideoResampler, AudioDecoderLibav, AudioEncoderLibav: *)
(* pictures and samples are decoded, converted and coded as what they are. *)
AsLabelled == ConvertedAsIs /\ SamplesAsLabelled
=============================================================================
