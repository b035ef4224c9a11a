----------------------------- MODULE MCSettings -----------------------------
(* Two receivers whose limits overlap, and a file edited by hand: an FFT    *)
(* size that is not supported, a tuning beyond the limits, a NaN.           *)
EXTENDS Settings, TLC

MCReceivers == {"rtl-hf", "uhd"}
MCMinTuning == [r \in MCReceivers |-> IF r = "uhd" THEN 2 ELSE 1]
MCMaxTuning == [r \in MCReceivers |-> IF r = "uhd" THEN 3 ELSE 1]
MCInitialKeys ==
  {[key \in {"fft"} \cup MCReceivers |->
      CASE key = "fft" -> 7 [] key = "uhd" -> NaN [] OTHER -> 3]}
MCSymmetry == Permutations(Instances)
=============================================================================
