---------------------------- MODULE MCChildProcess ----------------------------
(* ChildProcess on small instances.                                        *)
EXTENDS ChildProcess

AllPrograms == {"filter", "collector", "deaf"}
Filter == {"filter"}
=============================================================================
