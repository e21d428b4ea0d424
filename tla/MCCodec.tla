------------------------------ MODULE MCCodec -------------------------------
(***************************************************************************)
(* Codec for TLC.                                                          *)
(***************************************************************************)
EXTENDS Codec

=============================================================================
