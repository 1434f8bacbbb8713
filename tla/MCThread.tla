------------------------------ MODULE MCThread ------------------------------
(* Instances of Thread for TLC: the values are in the .cfg files.           *)
EXTENDS Thread
=============================================================================
