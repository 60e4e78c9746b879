----------------------------- MODULE MCMdpBroker -----------------------------
(* Two workers, of one service or of two, on a short day.                  *)
EXTENDS MdpBroker, TLC

CONSTANTS w1, w2, echo, other

MCSymmetry == Permutations({w1, w2}) \cup Permutations({echo, other})
=============================================================================
