--------------------------- MODULE MCFastForward ----------------------------
(***************************************************************************)
(* The instance of FastForward for TLC.  With a jump bound of 1 a fresh    *)
(* 2-cycle sleep trips the bound, a partly elapsed one does not.           *)
(***************************************************************************)
EXTENDS FastForward

MCSpans == {0, 2}
=============================================================================
