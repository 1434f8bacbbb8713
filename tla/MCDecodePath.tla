---------------------------- MODULE MCDecodePath ----------------------------
(* Instances of DecodePath for TLC: the values are in the .cfg file.        *)
EXTENDS DecodePath

\* A short key frame, a long corrupt packet of which libav does not say that
\* it is a key frame, and one with a duration that is no int.
Kinds ==
  {[idr |-> FALSE, key |-> TRUE,  corrupt |-> FALSE, size |-> 2, duration |-> 1],
   [idr |-> TRUE,  key |-> FALSE, corrupt |-> TRUE,  size |-> 5, duration |-> 1],
   [idr |-> FALSE, key |-> FALSE, corrupt |-> FALSE, size |-> 3, duration |-> 3]}
=============================================================================
