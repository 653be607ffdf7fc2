------------------------------ MODULE MCGpTimer ------------------------------
(***************************************************************************)
(* GpTimer for TLC: a thread asks for the time shortly before and after the *)
(* counter turns.                                                           *)
(***************************************************************************)
EXTENDS GpTimer

mcReads == 4064..4100
=============================================================================
