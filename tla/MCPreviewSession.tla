---------------------------- MODULE MCPreviewSession ----------------------------
(* PreviewSession with two masks and a few frames.                          *)
EXTENDS PreviewSession
=============================================================================
