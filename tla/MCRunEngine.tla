----------------------------- MODULE MCRunEngine -----------------------------
(* RunEngine and its refinement on small instances; the .cfg files give    *)
(* the constants.                                                          *)
EXTENDS RunRefinement
=============================================================================
