----------------------------- MODULE MCStatusFiles -----------------------------
(* StatusFiles with a bounded number of masks.                              *)
EXTENDS StatusFiles
=============================================================================
