---------------------------- MODULE InstallDirProps ----------------------------
(* What the install folder owes its user across restarts.  Nothing here     *)
(* models code.                                                             *)
EXTENDS InstallDir

(* No restart takes a file from a complete install: a file scheduled for    *)
(* deletion was renamed aside first, "so a reinstall before the next reboot *)
(* copies a fresh file to the original path instead of reusing the one this *)
(* pending delete will remove" (payload.cpp:80-82), however often the       *)
(* program is removed and installed again in between, also from its own     *)
(* folder.  A file that another program keeps may be scheduled under its    *)
(* own name (payload.cpp:88); of those nothing is said.                     *)
InstallOutlivesRestart ==
    stands = "installed" => {Path(f) : f \in Files \ Shared} \subseteq present \ doomed

(* After an uninstall a restart leaves nothing: "anything in use goes at    *)
(* next reboot" (payload.cpp:94), also what other programs keep and what    *)
(* earlier runs renamed, also runs that died before they were through.      *)
(* Excepted is a run that died between renaming a file another program uses *)
(* and scheduling it (payload.cpp:84-85; DiesAside), which no later run     *)
(* schedules (71-74).                                                       *)
RestartEndsRemoval == stands = "removed" => present \subseteq doomed
=============================================================================
