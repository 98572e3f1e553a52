-------------------------- MODULE MCSidecarLifecycle --------------------------
(* SidecarLifecycle with the GUI and a capture script.                       *)
EXTENDS SidecarLifecycle
=============================================================================
