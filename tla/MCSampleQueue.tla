---------------------------- MODULE MCSampleQueue ----------------------------
(***************************************************************************)
(* Instances of SampleQueue for TLC: FFT sizes two and three, so that      *)
(* deliveries of one to three samples fit, fall short and overflow, and a  *)
(* queue of two that the producer fills while a frame is being drawn.      *)
(***************************************************************************)
EXTENDS SampleQueue

MCFftSizes == {2, 3}
=============================================================================
