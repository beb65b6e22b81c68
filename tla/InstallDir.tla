----------------------------- MODULE InstallDir -----------------------------
(***************************************************************************)
(* The install folder file by file: CopyPayload and RemoveInstallDir       *)
(* (setup/payload.cpp), as RunInstall, RunUpdate and RunUninstall call     *)
(* them, and the restart that deletes what was in use.  The setup lock     *)
(* lets one run in at a time; which run follows is InstallFlow's matter.   *)
(***************************************************************************)
CONSTANTS
    Files,      \* the payload files
    Exe,        \* the setup program among them
    None,
    Shared,     \* files that other programs, a setup that waits for the lock too, may use
    DiesAside   \* may a run die between renaming one of those and scheduling it?

ASSUME InstallDirAssumption ==
    Exe \in Files /\ None \notin Files /\ Shared \subseteq Files /\ DiesAside \in BOOLEAN

Path(f) == <<f, "path">>
Old(f) == <<f, ".old">>
Originals == {Path(f) : f \in Files}
Aside == {Old(f) : f \in Files}

VARIABLES
    present,  \* the files in the folder
    doomed,   \* paths scheduled for deletion at the next restart
    held,     \* files other programs hold open or run
    image,    \* <<the file the running setup program was started from>>, or <<>>
    run,      \* what the run is doing, or "idle"
    todo,     \* the files collected to be removed, or still to be copied
    aside,    \* renamed and not yet scheduled
    stands    \* "removed": no record; "installed": a complete install; "partial"

vars == <<present, doomed, held, image, run, todo, aside, stands>>

Removals == {"uninstall", "reinstall", "rollback"}
Copies == {"fresh", "update"}

TypeOK ==
    /\ present \subseteq Originals \cup Aside /\ doomed \subseteq Originals \cup Aside
    /\ held \subseteq Originals \cup Aside
    /\ image \in {<<>>, <<Path(Exe)>>, <<Old(Exe)>>}
    /\ run \in Removals \cup Copies \cup {"idle"}
    /\ todo \subseteq Originals \cup Aside /\ (run \in Copies => todo \subseteq Originals)
    /\ aside \in Files \cup {None} /\ stands \in {"removed", "installed", "partial"}

Init ==
    /\ present = {} /\ doomed = {} /\ held = {} /\ image = <<>>
    /\ run = "idle" /\ todo = {} /\ aside = None /\ stands = "removed"

InUse(p) == p \in held \/ image = <<p>>

-----------------------------------------------------------------------------
(* Runs.  A setup program is started from a release folder or from this one. *)

\* An uninstall that finds no record leaves the folder alone; an update needs
\* a complete install; a fresh install writes the record first.
MayRun == [uninstall |-> {"installed", "partial"}, reinstall |-> {"installed", "partial"},
           fresh |-> {"removed"}, update |-> {"installed"}]

StartRun(r) ==
    /\ run = "idle" /\ stands \in MayRun[r]
    /\ run' = r /\ todo' = IF r \in Removals THEN present ELSE Originals
    /\ image' \in {<<>>} \cup {<<p>> : p \in present \cap {Path(Exe)}}
    /\ stands' = IF r = "update" THEN stands ELSE "partial"
    /\ UNCHANGED <<present, doomed, held, aside>>

EndRun(s) ==
    /\ run' = "idle" /\ todo' = {} /\ image' = <<>> /\ stands' = s
    /\ UNCHANGED <<present, doomed, held, aside>>

-----------------------------------------------------------------------------
(* RemoveInstallDir, on the files collected. *)

\* Files an earlier run renamed aside go first, unless they are in use.
ClearOld(f) ==
    /\ run \in Removals /\ aside = None /\ Old(f) \in todo
    /\ present' = IF InUse(Old(f)) THEN present ELSE present \ {Old(f)}
    /\ todo' = todo \ {Old(f)}
    /\ UNCHANGED <<doomed, held, image, run, aside, stands>>

\* Broken variant: a file in use is left where it is, and scheduled.
BadRenamable(f) == FALSE

\* A running program may be renamed, over a file that is not in use; a file
\* held open may be too, if its holder shares deletion.
Renamable(f) == ~InUse(Old(f))

RemoveFile(f) ==
    /\ run \in Removals /\ aside = None /\ todo \cap Aside = {} /\ Path(f) \in todo
    /\ todo' = todo \ {Path(f)}
    /\ \/ /\ ~InUse(Path(f))
          /\ present' = present \ {Path(f)} /\ UNCHANGED <<doomed, held, image, aside>>
       \/ /\ InUse(Path(f)) /\ Renamable(f)
          /\ present' = (present \ {Path(f)}) \cup {Old(f)}
          /\ image' = IF image = <<Path(f)>> THEN <<Old(f)>> ELSE image
          /\ held' = IF Path(f) \in held THEN (held \ {Path(f)}) \cup {Old(f)} ELSE held
          /\ aside' = f /\ UNCHANGED doomed
       \/ /\ Path(f) \in held \/ (InUse(Path(f)) /\ ~Renamable(f))
          /\ doomed' = doomed \cup {Path(f)} /\ UNCHANGED <<present, held, image, aside>>
    /\ UNCHANGED <<run, stands>>

\* Broken variants: the wrong name is scheduled, or none.
BadScheduled == {aside}
BadUnscheduled == {}

Scheduled == {Old(aside)}

ScheduleAside ==
    /\ aside # None
    /\ doomed' = doomed \cup Scheduled /\ aside' = None
    /\ UNCHANGED <<present, held, image, run, todo, stands>>

EndRemoval ==
    /\ run \in Removals /\ todo = {} /\ aside = None
    /\ \/ run # "reinstall" /\ EndRun("removed")
       \/ /\ run = "reinstall" /\ run' = "fresh" /\ todo' = Originals
          /\ UNCHANGED <<present, doomed, held, image, aside, stands>>

-----------------------------------------------------------------------------
(* CopyPayload, and what follows it. *)

CopyFile(f) ==
    /\ run \in Copies /\ Path(f) \in todo /\ ~InUse(Path(f))
    /\ present' = present \cup {Path(f)} /\ todo' = todo \ {Path(f)}
    /\ UNCHANGED <<doomed, held, image, run, aside, stands>>

\* A fresh install is rolled back, unless it failed to write the record that
\* tells an uninstall of the folder; an update leaves what it copied.
InstallFails ==
    \/ run = "fresh" /\ todo = Originals /\ EndRun("removed")
    \/ run = "update" /\ EndRun(stands)
    \/ /\ run = "fresh" /\ run' = "rollback" /\ todo' = present
       /\ UNCHANGED <<present, doomed, held, image, aside, stands>>

InstallEnds == run \in Copies /\ todo = {} /\ EndRun("installed")

-----------------------------------------------------------------------------
(* Deaths, restarts and other programs. *)

MayDie == DiesAside \/ aside \notin Shared

Stop == run' = "idle" /\ todo' = {} /\ aside' = None /\ image' = <<>> /\ UNCHANGED stands

Crash ==
    /\ run # "idle" /\ MayDie
    /\ Stop /\ UNCHANGED <<present, doomed, held>>

Restart ==
    /\ MayDie
    /\ present' = present \ doomed /\ doomed' = {} /\ held' = {}
    /\ Stop

Hold(f) ==
    /\ \E p \in {Path(f), Old(f)} \cap present : held' \in {held \cup {p}, held \ {p}}
    /\ UNCHANGED <<present, doomed, image, run, todo, aside, stands>>

Next ==
    \/ \E r \in DOMAIN MayRun : StartRun(r)
    \/ \E f \in Files : ClearOld(f) \/ RemoveFile(f) \/ CopyFile(f)
    \/ ScheduleAside \/ EndRemoval \/ InstallFails \/ InstallEnds
    \/ Crash \/ Restart
    \/ \E f \in Shared : Hold(f)

Spec == Init /\ [][Next]_vars
=============================================================================
