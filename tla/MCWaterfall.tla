----------------------------- MODULE MCWaterfall -----------------------------
(***************************************************************************)
(* Instances of Waterfall for TLC: a history of three lines, so that it    *)
(* fills, wraps and is reset at every position of the ring, lines of two   *)
(* columns and two levels, and two colour maps.                            *)
(***************************************************************************)
EXTENDS Waterfall

MCColorMaps == {"jet", "hot"}
=============================================================================
