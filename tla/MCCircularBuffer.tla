-------------------------- MODULE MCCircularBuffer --------------------------
(* Instances of CircularBuffer for TLC: the values are in the .cfg files.   *)
EXTENDS CircularBuffer, TLC

\* Producers and consumers run the same code and elements are only moved.
\* Used by the runs that check no liveness property.
Symmetry == Permutations(Producers) \cup Permutations(Consumers)
              \cup Permutations(Items)
=============================================================================
