--------------------------- MODULE MCAutoReplan ---------------------------
(* Instances of AutoReplan for TLC: the constants are in the .cfg files.    *)
EXTENDS AutoReplan

===========================================================================
