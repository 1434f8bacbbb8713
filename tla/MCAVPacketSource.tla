-------------------------- MODULE MCAVPacketSource --------------------------
(* Instances of AVPacketSource for TLC: the values are in the .cfg files.   *)
EXTENDS AVPacketSource, TLC

\* Subscribers and clients run the same code.  Used for safety only.
Symmetry == Permutations(Subscribers) \cup Permutations(Clients)
=============================================================================
