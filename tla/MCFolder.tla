------------------------------ MODULE MCFolder ------------------------------
(* The instances of InstallDir that TLC checks. *)
EXTENDS InstallDirProps

CONSTANTS exe, dll
=============================================================================
