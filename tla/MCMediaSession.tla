--------------------------- MODULE MCMediaSession ---------------------------
(***************************************************************************)
(* Instances of MediaSession for TLC.  Peers and addresses are sets of     *)
(* model values; they are interchangeable, so safety runs use symmetry.    *)
(***************************************************************************)
EXTENDS MediaSession, TLC

Symmetry == Permutations(Push) \cup Permutations(Play) \cup Permutations(Addrs)

=============================================================================
