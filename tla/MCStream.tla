------------------------------ MODULE MCStream ------------------------------
(***************************************************************************)
(* Stream for TLC.                                                         *)
(***************************************************************************)
EXTENDS Stream
=============================================================================
