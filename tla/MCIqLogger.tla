----------------------------- MODULE MCIqLogger -----------------------------
(***************************************************************************)
(* Instances of IqLogger for TLC: a ring of three samples that batches of  *)
(* one and two fill, wrap and overflow; a write buffer of three bytes that *)
(* samples of two bytes straddle, so a short write can cut a sample; and   *)
(* two captures, so that what one leaves behind meets the next.            *)
(***************************************************************************)
EXTENDS IqLogger

MCBatchSizes == {1, 2}
MCSourceLosses == {0, 1}
\* file_size() of a file the process has just written is taken to succeed.
MCFaults == AllFaults \ {"stat"}
=============================================================================
