-------------------------- MODULE MC_FramerSplit --------------------------
(***************************************************************************)
(* Every byte stream of up to five bytes over a small alphabet that holds *)
(* the magic byte, lengths within and beyond the limit, and garbage.      *)
(***************************************************************************)
EXTENDS Framer

MCStreams == UNION {[1 .. n -> {0, 1, 2}] : n \in 0 .. 5}
=============================================================================
