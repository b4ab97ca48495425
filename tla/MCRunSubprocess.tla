-------------------------- MODULE MCRunSubprocess --------------------------
(* RunSubprocess has no data: its .cfg only says what may go wrong.        *)
EXTENDS RunSubprocess
=============================================================================
