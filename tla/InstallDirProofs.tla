--------------------------- MODULE InstallDirProofs ---------------------------
(***************************************************************************)
(* What module InstallDirProps says of the install folder, proved for any  *)
(* number of files, runs, deaths and restarts.                             *)
(***************************************************************************)
EXTENDS InstallDirProps, TLAPS

USE InstallDirAssumption

\* The name a file is renamed to is no payload file's.
LEMMA PathsDiffer ==
    /\ \A f, g \in Files : Path(f) # Old(g) /\ (Old(f) = Old(g) => f = g)
    /\ \A f, g \in Files : Path(f) = Path(g) => f = g
    /\ Originals \cap Aside = {} /\ \A f \in Files : Path(f) \in Originals /\ Old(f) \in Aside
  BY DEF Path, Old, Originals, Aside

(* What is copied is a payload file, and what is scheduled, held, collected  *)
(* or running is a file of the folder by its old or its new name             *)
(* (payload.cpp:48-92).                                                      *)
THEOREM FolderTyped == Spec => []TypeOK
<1>1. Init => TypeOK
  BY DEF Init, TypeOK
<1>2. TypeOK /\ [Next]_vars => TypeOK'
  BY PathsDiffer DEF TypeOK, Next, vars, StartRun, MayRun, ClearOld, RemoveFile, CopyFile,
     ScheduleAside, Scheduled, EndRemoval, InstallFails, InstallEnds, EndRun, Crash, Restart,
     Stop, Hold, Removals, Copies
<1>3. QED
  BY <1>1, <1>2, PTL DEF Spec

\* What each run is about to say of the folder, and where a rename can stand.
RunInv ==
    /\ run \in Removals \cup {"fresh"} => stands = "partial"
    /\ run = "update" => stands = "installed"
    /\ run = "fresh" => Originals \subseteq present \cup todo
    /\ aside # None => run \in Removals /\ todo \cap Aside = {}

\* Every file is scheduled, still to be removed, or just renamed, and an
\* install that has copied nothing has begun without a file.
RemovalInv ==
    /\ run = "fresh" /\ todo = Originals => present \subseteq doomed
    /\ run \in Removals =>
          \A p \in present : p \in doomed \cup todo \/ (aside # None /\ p = Old(aside))
    /\ RestartEndsRemoval

\* A file no other program uses is in use only as the running program, which
\* can be renamed: if it is scheduled it was renamed.
AloneInv ==
    /\ \A f \in Files \ Shared :
          Path(f) \notin held /\ Old(f) \notin held /\ Path(f) \notin doomed
    /\ image = <<Old(Exe)>> => Old(Exe) \in doomed \/ aside = Exe
    /\ InstallOutlivesRestart

\* A file others may use is scheduled once it was renamed, unless the run died
\* in between.
AsideInv == \A f \in Shared : Old(f) \in present => Old(f) \in doomed \/ aside = f

FolderInv == TypeOK /\ RunInv /\ AloneInv /\ (~DiesAside => RemovalInv /\ AsideInv)

LEMMA FolderInit == Init => FolderInv
  BY DEF Init, FolderInv, TypeOK, RunInv, RemovalInv, AloneInv, AsideInv, Removals, Copies,
         InstallOutlivesRestart, RestartEndsRemoval

LEMMA FolderNext ==
  ASSUME FolderInv, [Next]_vars
  PROVE  FolderInv'
<1> USE PathsDiffer DEF FolderInv, TypeOK, RunInv, RemovalInv, AloneInv, AsideInv, Removals,
        Copies, InstallOutlivesRestart, RestartEndsRemoval, InUse
<1>1. CASE \E r \in DOMAIN MayRun : StartRun(r)
  BY <1>1 DEF StartRun, MayRun
<1>2. CASE \E f \in Files : ClearOld(f)
  BY <1>2 DEF ClearOld
<1>3. CASE \E f \in Files : RemoveFile(f)
  BY <1>3 DEF RemoveFile, Renamable
<1>4. CASE \E f \in Files : CopyFile(f)
  BY <1>4 DEF CopyFile
<1>5. CASE ScheduleAside
  BY <1>5 DEF ScheduleAside, Scheduled
<1>6. CASE EndRemoval
  BY <1>6 DEF EndRemoval, EndRun
<1>7. CASE InstallFails
  BY <1>7 DEF InstallFails, EndRun
<1>8. CASE InstallEnds
  BY <1>8 DEF InstallEnds, EndRun
<1>9. CASE Crash
  BY <1>9 DEF Crash, Stop, MayDie
<1>10. CASE Restart
  BY <1>10 DEF Restart, Stop, MayDie
<1>11. CASE \E f \in Shared : Hold(f)
  BY <1>11 DEF Hold
<1>12. CASE UNCHANGED vars
  BY <1>12 DEF vars
<1>13. QED
  BY <1>1, <1>2, <1>3, <1>4, <1>5, <1>6, <1>7, <1>8, <1>9, <1>10, <1>11, <1>12 DEF Next

LEMMA FolderSafe == Spec => []FolderInv
<1>1. FolderInv /\ [Next]_vars => FolderInv'
  BY FolderNext
<1>2. QED
  BY FolderInit, <1>1, PTL DEF Spec

(* A complete install is one that no restart takes a file from that others   *)
(* do not use, wherever runs died and however often the program was renamed  *)
(* while it ran (payload.cpp:76-92).                                         *)
THEOREM InstallOutlives == Spec => []InstallOutlivesRestart
<1>1. FolderInv => InstallOutlivesRestart
  BY DEF FolderInv, AloneInv
<1>2. QED
  BY <1>1, FolderSafe, PTL

(* After an uninstall the next restart leaves nothing, whatever others use,  *)
(* unless a run died between renaming such a file and scheduling it          *)
(* (payload.cpp:71-74, 84-85).                                               *)
THEOREM RestartEnds == ~DiesAside => (Spec => []RestartEndsRemoval)
<1> SUFFICES ASSUME ~DiesAside PROVE Spec => []RestartEndsRemoval
  OBVIOUS
<1>1. FolderInv => RestartEndsRemoval
  BY DEF FolderInv, RemovalInv
<1>2. QED
  BY <1>1, FolderSafe, PTL
=============================================================================
