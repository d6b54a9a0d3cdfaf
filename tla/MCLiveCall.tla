------------------------------ MODULE MCLiveCall ------------------------------
(* LiveCall on small instances; the .cfg files give the constants.         *)
EXTENDS LiveCall
=============================================================================
