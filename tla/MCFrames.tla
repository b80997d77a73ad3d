------------------------------ MODULE MCFrames ------------------------------
(* A small instance of Frames for TLC.                                     *)
EXTENDS Frames, TLC
=============================================================================
