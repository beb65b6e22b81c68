---------------------------- MODULE InstallEndProofs ----------------------------
(***************************************************************************)
(* What a run leaves behind.  Whatever is refused to be removed: the       *)
(* record suffices to undo it all, and an uninstall leaves nothing it was  *)
(* not refused.  Where what Windows is asked to take away goes (Gentle):   *)
(* an install that reports success has left one release everywhere, and an *)
(* update that says it kept the existing install has put everything back.  *)
(* Each rests on an invariant of its own; those under Gentle also on what  *)
(* InstallUndoProofs says of packages and signers.                         *)
(***************************************************************************)
EXTENDS InstallUndoProofs

Folder == reg["InstallDir"]
Files == machine.files

-----------------------------------------------------------------------------
(* What a call changes of the run and of the machine, and where it leads. *)

Writing == {"recordDir", "recordVersion", "recordCert", "recordInf", "recordPreviousCert",
            "recordPreviousInf", "promoteCert", "promoteInf"}
Forgetting == {"forgetPendingCert", "forgetPendingInf", "forgetPreviousCert",
               "forgetPreviousInf"}
Untrusting == {"untrustNew", "retireCert", "untrustCert", "untrustPending",
               "untrustPrevious"}
Unstaging == {"retireInf", "dropPackage", "unstageDriver", "unstagePending",
              "unstagePrevious"}

\* The next call, with what the run knew and what this call told it.
NextCall ==
    \E r : /\ AdvanceWith(r) /\ r.version = run.version
           /\ Call # "stage" => r.published = Handed
           /\ Call # "bind" => r.reboot = run.reboot
           /\ Call # "key" => r.cert = run.cert

Goes ==
    \/ Fail /\ script \in {"fresh", "update", "same", "promote"}
    \/ Call \in Untrusting \cup {"trust"} /\ Enter(script, at, run)
    \/ Call = "retireInf" /\ Enter(script, at + 2, run)
    \/ NextCall

\* What the removals do, granted or refused.
LEMMA Forgets ==
  ASSUME Inv, DeleteValue \/ DeleteState
  PROVE  /\ UNCHANGED <<machine.trust, machine.staged, machine.node, machine.loaded,
                        machine.files, before>>
         /\ Advance
         /\ DeleteValue =>
                \/ UNCHANGED machine.reg
                \/ machine'.reg = [machine.reg EXCEPT ![Forgotten[Call]] = None]
         /\ DeleteState =>
                \/ UNCHANGED machine.reg /\ refused' = refused \cup {TheRecord}
                \/ machine'.reg = [n \in Values |-> None] /\ Gone(TheRecord)
<1>1. machine \in Machines
  BY DEF Inv, Typed
<1>2. CASE DeleteValue
  <2>1. Call \in DOMAIN Forgotten /\ Call # "deleteState"
    BY <1>2 DEF DeleteValue, Forgotten
  <2>2. ~DeleteState
    BY <2>1 DEF DeleteState
  <2>3. QED
    BY <1>1, <1>2, <2>2 DEF DeleteValue, Set, Refused, Machines
<1>3. CASE DeleteState
  <2>1. Call \notin DOMAIN Forgotten
    BY <1>3 DEF DeleteState, Forgotten
  <2>2. ~DeleteValue
    BY <2>1 DEF DeleteValue
  <2>3. QED
    BY <1>1, <1>3, <2>2 DEF DeleteState, Set, Refused, Machines, CleanMachine
<1>4. QED
  BY <1>2, <1>3

LEMMA Distrusts ==
  ASSUME Inv, RemoveTrustedCertificate
  PROVE  /\ UNCHANGED <<machine.reg, machine.staged, machine.node, machine.loaded,
                        machine.files, before>>
         /\ Advance \/ Enter(script, at, run)
<1>1. machine \in Machines
  BY DEF Inv, Typed
<1>2. PICK c : \/ Set(machine) /\ Advance
               \/ /\ Set([machine EXCEPT !.trust[c] = @ \ {"Root"}])
                  /\ Enter(script, at, run)
               \/ Set([machine EXCEPT !.trust[c] = {}]) /\ Advance
               \/ /\ Advance /\ UNCHANGED before
                  /\ \E left : machine' = [machine EXCEPT !.trust[c] = left]
  BY Zenon DEF RemoveTrustedCertificate
<1>3. QED
  BY <1>1, <1>2 DEF Set, Machines

LEMMA Discards ==
  ASSUME Inv, UnstagePackage
  PROVE  /\ UNCHANGED <<machine.reg, machine.trust, machine.node, machine.loaded,
                        machine.files, before>>
         /\ \/ UNCHANGED machine.staged
            \/ /\ machine'.staged = [machine.staged EXCEPT ![Unstaged[Call]] = None]
               /\ Unstaged[Call] \notin Loaded
         /\ \/ Advance
            \/ Call = "retireInf" /\ Enter(script, at + 2, run)
<1>1. machine \in Machines
  BY DEF Inv, Typed
<1>2. \/ Set(machine) /\ Advance
      \/ /\ Set([machine EXCEPT !.staged[Unstaged[Call]] = None]) /\ Advance
         /\ Removable(Unstaged[Call])
      \/ /\ Set(machine) \/ Refused(Package(Unstaged[Call]))
         /\ IF Call = "retireInf" THEN Enter(script, at + 2, run) ELSE Advance
  BY Zenon DEF UnstagePackage
<1>3. QED
  BY <1>1, <1>2 DEF Set, Refused, Removable, Loaded, Machines

LEMMA Detaches ==
  ASSUME Inv, RemoveDevices
  PROVE  /\ UNCHANGED <<machine.reg, machine.trust, machine.staged, machine.files, before>>
         /\ machine'.loaded \in {{}, machine.loaded}
         /\ \/ machine'.node = None /\ Gone(TheNode)
            \/ machine'.node = machine.node /\ refused' = refused \cup {TheNode}
         /\ Advance
<1>1. machine \in Machines
  BY DEF Inv, Typed
<1>2. QED
  BY <1>1 DEF RemoveDevices, Refused, Machines

LEMMA Effects ==
  ASSUME Inv, Next, script # "idle", ~Crash, Call # "choose"
  PROVE  /\ Goes /\ UNCHANGED before
         /\ Call \notin {"copy", "removeFiles"} => Files' = Files
         /\ Call \notin {"removeNode", "bind"} => Loaded' = Loaded
         /\ Call \notin {"removeNode", "register", "bind"} => Node' = Node
         /\ Call \notin {"stage"} \cup Unstaging => Staged' = Staged
         /\ Call \notin Writing \cup Forgetting \cup {"deleteState"} => UNCHANGED machine.reg
<1>1. Place /\ run \in Runs
  BY DEF Inv, Typed, RunOK
<1>2. Advance => NextCall
  BY DEF Advance, NextCall, Handed
<1>3. Call \in Writing \cup {"copy", "key", "destroyKey", "trust", "stage", "register", "bind"}
        => script \in {"fresh", "update", "same", "promote"}
  BY <1>1, CallSites DEF Writing
<1>4. CASE WriteValue /\ Call \in Writing
  BY <1>2, <1>3, <1>4, Writes DEF Goes, Files, Loaded, Node, Staged, Writing, Unstaging
<1>5. CASE (DeleteValue /\ Call \in Forgetting) \/ (DeleteState /\ Call = "deleteState")
  <2>1. /\ UNCHANGED <<machine.trust, machine.staged, machine.node, machine.loaded,
                       machine.files, before>>
        /\ Advance
    BY <1>5, Forgets
  <2>2. QED
    BY <1>2, <1>5, <2>1 DEF Goes, Files, Loaded, Node, Staged, Forgetting
<1>6. CASE CreateSigningCert /\ Call = "key"
  <2>1. \A c : LET r == [run EXCEPT !.cert = c] IN
                   r.version = run.version /\ r.published = Handed /\ r.reboot = run.reboot
    BY <1>1 DEF Runs, Handed
  <2>2. (\E c : AdvanceWith([run EXCEPT !.cert = c])) => NextCall
    BY <1>6, <2>1 DEF NextCall
  <2>3. /\ UNCHANGED <<machine.reg, machine.staged, machine.node, machine.loaded,
                       machine.files, before>>
        /\ Fail \/ NextCall
    BY <1>6, <2>2, Creates
  <2>4. QED
    BY <1>3, <1>6, <2>3 DEF Goes, Files, Loaded, Node, Staged
<1>7. CASE SignFiles /\ Call = "sign"
  <2>1. \A b : LET r == [run EXCEPT !.signed = b] IN
                   /\ r.version = run.version /\ r.published = Handed
                   /\ r.reboot = run.reboot /\ r.cert = run.cert
    BY <1>1 DEF Runs, Handed
  <2>2. (\E b : AdvanceWith([run EXCEPT !.signed = b])) => NextCall
    BY <2>1 DEF NextCall
  <2>3. QED
    BY <1>7, <2>2, Signs DEF Goes, Files, Loaded, Node, Staged
<1>8. CASE DestroySigningKey /\ Call = "destroyKey"
  BY <1>2, <1>3, <1>8, Destroys DEF Goes, Files, Loaded, Node, Staged
<1>9. CASE TrustCertificate /\ Call = "trust"
  BY <1>2, <1>3, <1>9, Trusts DEF Goes, Files, Loaded, Node, Staged
<1>10. CASE RemoveTrustedCertificate /\ Call \in Untrusting
  <2>1. /\ UNCHANGED <<machine.reg, machine.staged, machine.node, machine.loaded,
                       machine.files, before>>
        /\ Advance \/ Enter(script, at, run)
    BY <1>10, Distrusts
  <2>2. QED
    BY <1>2, <1>10, <2>1 DEF Goes, Files, Loaded, Node, Staged
<1>11. CASE StagePackage /\ Call = "stage"
  <2>1. LET r == [run EXCEPT !.published = run.version] IN
            r.version = run.version /\ r.reboot = run.reboot /\ r.cert = run.cert
    BY <1>1 DEF Runs
  <2>2. AdvanceWith([run EXCEPT !.published = run.version]) => NextCall
    BY <1>11, <2>1 DEF NextCall
  <2>3. /\ UNCHANGED <<machine.reg, machine.node, machine.loaded, machine.files, before>>
        /\ Fail \/ NextCall
    BY <1>11, <2>2, Stages
  <2>4. QED
    BY <1>3, <1>11, <2>3 DEF Goes, Files, Loaded, Node
<1>12. CASE UnstagePackage /\ Call \in Unstaging
  <2>1. /\ UNCHANGED <<machine.reg, machine.node, machine.loaded, machine.files, before>>
        /\ Advance \/ (Call = "retireInf" /\ Enter(script, at + 2, run))
    BY <1>12, Discards
  <2>2. QED
    BY <1>2, <1>12, <2>1 DEF Goes, Files, Loaded, Node
<1>13. CASE RemoveDevices /\ Call = "removeNode"
  BY <1>2, <1>13, Detaches DEF Goes, Files, Staged
<1>14. CASE RegisterDevice /\ Call = "register"
  BY <1>2, <1>3, <1>14, Registers DEF Goes, Files, Loaded, Staged
<1>15. CASE UpdateDevice /\ Call = "bind"
  <2>1. \A b : LET r == [run EXCEPT !.reboot = b] IN
                   r.version = run.version /\ r.published = Handed /\ r.cert = run.cert
    BY <1>1 DEF Runs, Handed
  <2>2. \A b : AdvanceWith([run EXCEPT !.reboot = b]) => NextCall
    BY <1>15, <2>1 DEF NextCall
  <2>3. /\ UNCHANGED <<machine.reg, machine.staged, machine.files, before>>
        /\ Fail \/ NextCall
    BY <1>15, <2>2, Binds
  <2>4. QED
    BY <1>3, <1>15, <2>3 DEF Goes, Files, Staged
<1>16. CASE CopyPayload /\ Call = "copy"
  BY <1>2, <1>3, <1>16, Copies DEF Goes, Loaded, Node, Staged
<1>17. CASE RemoveInstallDir /\ Call = "removeFiles"
  BY <1>2, <1>17, RemovesDir DEF Goes, Loaded, Node, Staged
<1>18. /\ DOMAIN Written = Writing /\ DOMAIN Forgotten = Forgetting
       /\ DOMAIN Unstaged = Unstaging /\ DOMAIN Untrusted = Untrusting
  BY DEF Written, Forgotten, Unstaged, Untrusted, Writing, Forgetting, Unstaging, Untrusting
<1>19. QED
  BY <1>4, <1>5, <1>6, <1>7, <1>8, <1>9, <1>10, <1>11, <1>12, <1>13, <1>14, <1>15, <1>16,
     <1>17, <1>18, Dispatch

\* A list is entered at its first call, and then worked through one call at a
\* time; only the package of an older install that stays skips one.
LEMMA InOrder ==
  ASSUME Place, Goes, script # "idle", Call # "choose"
  PROVE  /\ script' = script /\ at' > 1 =>
                at' \in {at, at + 1} \/ (script \in {"retire", "promote"} /\ at' = at + 2)
         /\ script' # script /\ script' \notin {"idle", "unwind"} => at' = 1
         /\ script' \in {"update", "same", "promote"} => script \in {"update", "same", "promote"}
<1>1. CASE Fail /\ script \in {"fresh", "update", "same", "promote"}
  BY <1>1, FailMoves DEF Moves
<1>2. CASE Enter(script, at, run) \/ (Call = "retireInf" /\ Enter(script, at + 2, run))
  BY <1>2, CallSites DEF Enter
<1>3. CASE NextCall
  <2>1. PICK r : AdvanceWith(r)
    BY <1>3 DEF NextCall
  <2>2. script \in Names /\ at \in 1 .. Len(Scripts[script])
    BY ScriptNamed, Lengths DEF Place
  <2>3. CASE at < Len(Scripts[script])
    BY <2>1, <2>2, <2>3 DEF AdvanceWith, Enter
  <2>4. CASE at = Len(Scripts[script])
    <3>1. script \notin {"retire", "choose"} /\ Finish(r)
      BY <2>1, <2>4, CallSites, ScriptNames, ScriptLengths DEF AdvanceWith
    <3>2. QED
      BY <2>2, <3>1 DEF Finish, EndRun, Enter, Names
  <2>5. QED
    BY <2>2, <2>3, <2>4
<1>4. QED
  BY <1>1, <1>2, <1>3 DEF Goes

\* How each list ends.
LEMMA Ends ==
  ASSUME Place, Goes, script # "idle", Call # "choose", script' = "idle"
  PROVE  \/ script \in {"same", "promote"} /\ outcome' = "broken"
         \/ /\ \/ script = "fresh" /\ at = 13
               \/ script = "same" /\ at = 4
               \/ script = "promote" /\ at = 11
            /\ NextCall /\ outcome' = IF run.reboot THEN "reboot" ELSE "installed"
         \/ script = "failUpdate" /\ at = 4 /\ outcome' = "kept"
         \/ script = "rollback" /\ at = 9 /\ outcome' = "rolledback"
         \/ script = "uninstall" /\ at = 9 /\ outcome' = "uninstalled"
<1>1. CASE Fail /\ script \in {"fresh", "update", "same", "promote"}
  BY <1>1, FailLeads DEF Enter, EndRun
<1>2. CASE Enter(script, at, run) \/ (Call = "retireInf" /\ Enter(script, at + 2, run))
  BY <1>2 DEF Enter
<1>3. CASE NextCall
  <2>1. PICK r : AdvanceWith(r) /\ (Call # "bind" => r.reboot = run.reboot)
    BY <1>3 DEF NextCall
  <2>2. script \in Names
    BY ScriptNamed
  <2>3. CASE script \in {"fresh", "same", "promote"}
    <3>1. /\ script = "fresh" => at \in 1 .. 13
          /\ script = "same" => at \in 1 .. 4
          /\ script = "promote" => at \in 1 .. 11
      BY FreshPlaces, SamePlaces, PromotePlaces
    <3>2. /\ \/ script = "fresh" /\ at = 13
             \/ script = "same" /\ at = 4
             \/ script = "promote" /\ at = 11
          /\ outcome' = IF r.reboot THEN "reboot" ELSE "installed"
      BY <2>1, <2>3, <3>1, Leads DEF On, Enter, EndRun
    <3>3. Call # "bind"
      BY <3>2, CallSites
    <3>4. QED
      BY <1>3, <2>1, <3>2, <3>3
  <2>4. CASE script \in {"rollback", "reinstall", "uninstall"}
    <3>1. at \in 1 .. 9
      BY <2>4, UninstallPlaces DEF Undoing
    <3>2. QED
      BY <2>1, <2>4, <3>1, Leads DEF On, Enter, EndRun
  <2>5. CASE script \in {"update", "failUpdate", "unwind", "retire", "choose"}
    <3>1. /\ script = "update" => at \in 1 .. 9
          /\ script = "failUpdate" => at \in 1 .. 4
          /\ script = "unwind" => at \in 1 .. 2
          /\ script = "retire" => at \in 1 .. 4
          /\ script # "choose"
      BY UpdatePlaces, FailUpdatePlaces, UnwindPlaces, RetirePlaces, CallSites
    <3>2. QED
      BY <2>1, <2>5, <3>1, Leads DEF On, Enter, EndRun
  <2>6. QED
    BY <2>2, <2>3, <2>4, <2>5 DEF Names
<1>4. QED
  BY <1>1, <1>2, <1>3 DEF Goes

\* Between two runs the machine changes only by what is loaded.
LEMMA IdleSteps ==
  ASSUME Inv, Next, script = "idle"
  PROVE  /\ \/ /\ script' \in {"retire", "choose", "uninstall"} /\ at' = 1
               /\ Handed' = None /\ UNCHANGED machine
            \/ /\ script' = "idle" /\ UNCHANGED <<outcome, before, run>>
               /\ Loaded' = Staged \cap {Node}
         /\ UNCHANGED <<machine.reg, machine.trust, machine.staged, Node, Files, refused>>
<1>1. Call = "none" /\ machine \in Machines
  BY DEF Call, Inv, Typed
<1>2. \/ \E v \in Versions : RunInstall(v)
      \/ RunUninstall \/ Restart
  BY <1>1 DEF Next, ChooseInstallMode, WriteValue, Written, DeleteValue, Forgotten,
     DeleteState, CreateSigningCert, SignFiles, DestroySigningKey, TrustCertificate,
     RemoveTrustedCertificate, Untrusted, StagePackage, UnstagePackage, Unstaged,
     RemoveDevices, RegisterDevice, UpdateDevice, CopyPayload, RemoveInstallDir, Crash
<1>3. CASE (\E v \in Versions : RunInstall(v)) \/ RunUninstall
  BY <1>3 DEF RunInstall, RunUninstall, Enter, Node, Files, Handed, NewRun, NoRun
<1>4. CASE Restart
  <2>1. Staged \cap {Node} = {v \in Versions : v = machine.node /\ machine.staged[v] # None}
    BY DEF Staged, Node
  <2>2. QED
    BY <1>1, <1>4, <2>1 DEF Restart, Set, Node, Files, Loaded, Machines
<1>5. QED
  BY <1>2, <1>3, <1>4

LEMMA ChooseSteps ==
  ASSUME Inv, Next, script # "idle", ~Crash, Call = "choose"
  PROVE  /\ script' = InstallMode /\ at' = 1 /\ UNCHANGED <<run, machine, refused>>
         /\ before' = machine /\ script' \in {"fresh", "update", "reinstall"}
<1>1. ChooseInstallMode
  BY OneAction
<1>2. QED
  BY <1>1 DEF ChooseInstallMode, InstallMode, Enter

LEMMA CrashSteps ==
  ASSUME Crash
  PROVE  /\ script' = "idle" /\ outcome' = "crashed" /\ Handed' = None
         /\ UNCHANGED <<machine, before, refused>>
  BY DEF Crash, EndRun, NoRun, NewRun, Handed

-----------------------------------------------------------------------------
(* The record of the install folder: it is written before anything else, and *)
(* goes with the record, once the folder is empty.                           *)

DirRecorded ==
    /\ \A n \in Values : reg[n] # None => Folder # None
    /\ Files # None => Folder # None

DirInv ==
    /\ DirRecorded
    /\ script = "fresh" /\ at > 1 => Folder # None
    /\ script \in {"update", "same", "promote"} => Folder # None
    /\ script \in Undoing /\ at > 8 => Files = None

\* What a release is installed under is recorded.
LEMMA FolderKnown ==
  ASSUME Inv, DirInv, script \in {"fresh", "update", "same", "promote"},
         Call # "recordDir"
  PROVE  Folder # None
<1>1. CASE script = "fresh"
  <2>1. at \in 1 .. 13 /\ at # 1
    BY <1>1, FreshPlaces DEF Inv, Typed
  <2>2. QED
    BY <1>1, <2>1 DEF DirInv
<1>2. CASE script # "fresh"
  BY <1>2 DEF DirInv
<1>3. QED
  BY <1>1, <1>2

LEMMA DirSteps ==
  ASSUME Inv, Inv', DirInv, Next, script # "idle", ~Crash, Call # "choose"
  PROVE  DirInv'
<1>1. /\ Place /\ at \in Nat /\ at' \in Nat /\ DOMAIN machine.reg = Values
      /\ "InstallDir" \in Values /\ None # "dir"
  BY FlowAssumption DEF Inv, Typed, Place, Machines, Values
<1>2. /\ Goes
      /\ Call \notin {"copy", "removeFiles"} => Files' = Files
      /\ Call \notin Writing \cup Forgetting \cup {"deleteState"} => UNCHANGED machine.reg
  BY Effects
<1>3. CASE Call \in Writing
  <2>1. WriteValue /\ script \in {"fresh", "update", "same", "promote"} /\ Files' = Files
    BY <1>1, <1>2, <1>3, OneAction, CallSites DEF Writing
  <2>2. /\ Written[Call] \in Values
        /\ Written[Call] = "InstallDir" <=> Call = "recordDir"
        /\ Call = "recordDir" => ValueFor[Call] = "dir"
    BY <1>3 DEF Writing, Written, ValueFor, Values, CertValues, InfValues
  <2>3. CASE UNCHANGED machine.reg /\ Fail
    <3>1. /\ script' \in {"unwind", "rollback", "failUpdate", "idle"}
          /\ script' = "rollback" => at' = 1
      BY <1>1, <2>1, <2>3, FailLeads DEF Enter, EndRun
    <3>2. QED
      BY <2>1, <2>3, <3>1 DEF DirInv, DirRecorded, Folder, reg, Undoing
  <2>4. CASE machine'.reg = [machine.reg EXCEPT ![Written[Call]] = ValueFor[Call]] /\ Advance
    <3>1. Folder' # None
      BY <1>1, <2>1, <2>2, <2>4, FolderKnown DEF Folder, reg
    <3>2. script' \in Undoing => at' = 1
      BY <1>1, <1>2, <1>3, <2>1, InOrder DEF Undoing, Writing
    <3>3. QED
      BY <3>1, <3>2 DEF DirInv, DirRecorded
  <2>5. QED
    BY <2>1, <2>3, <2>4, Writes
<1>4. ASSUME Call \notin Writing \cup {"deleteState"}, Folder' = Folder,
             \A n \in Values : machine'.reg[n] # None => machine.reg[n] # None,
             Files' # None => Folder # None,
             Call = "removeFiles" => Files' = None,
             Call \notin {"removeFiles", "copy"} => Files' = Files
      PROVE  DirInv'
  <2>1. DirRecorded'
    BY <1>4 DEF DirInv, DirRecorded, Folder, reg
  <2>2. ASSUME script' = "fresh", at' > 1
        PROVE  Folder # None
    <3>1. script = "fresh"
      BY <1>1, <1>2, <2>2, InOrder
    <3>2. QED
      BY <1>4, <3>1, FolderKnown DEF Writing
  <2>3. ASSUME script' \in Undoing, at' > 8
        PROVE  Files' = None
    <3>1. script \in Undoing /\ at' \in {at, at + 1}
      BY <1>1, <1>2, <2>3, InOrder DEF Undoing
    <3>2. at \in 1 .. 9 /\ at >= 8
      BY <1>1, <2>3, <3>1, UninstallPlaces
    <3>3. Call = "removeFiles"
      BY <1>1, <1>4, <3>1, <3>2, UninstallPlaces
    <3>4. QED
      BY <1>4, <3>3
  <2>4. script' \in {"update", "same", "promote"} => Folder # None
    BY <1>1, <1>2, InOrder DEF DirInv
  <2>5. QED
    BY <1>4, <2>1, <2>2, <2>3, <2>4 DEF DirInv
<1>5. CASE Call \in Forgetting
  <2>1. DeleteValue /\ Files' = Files
    BY <1>2, <1>5, OneAction DEF Forgetting
  <2>2. Forgotten[Call] # "InstallDir"
    BY <1>5 DEF Forgetting, Forgotten
  <2>3. \/ UNCHANGED machine.reg
        \/ machine'.reg = [machine.reg EXCEPT ![Forgotten[Call]] = None]
    BY <2>1, Forgets
  <2>4. /\ Folder' = Folder
        /\ \A n \in Values : machine'.reg[n] # None => machine.reg[n] # None
    BY <1>1, <2>2, <2>3 DEF Folder, reg
  <2>5. Call \notin Writing \cup {"deleteState", "removeFiles", "copy"}
    BY <1>5 DEF Forgetting, Writing
  <2>6. QED
    BY <1>4, <2>1, <2>4, <2>5 DEF DirInv, DirRecorded
<1>6. CASE Call = "deleteState"
  <2>1. DeleteState /\ Files' = Files
    BY <1>2, <1>6, OneAction
  <2>2. /\ UNCHANGED machine.reg \/ machine'.reg = [n \in Values |-> None]
        /\ Advance
    BY <2>1, Forgets
  <2>3. script \in Undoing /\ at = 9
    BY <1>1, <1>6, RecordCalls
  <2>4. Files' = None
    BY <2>1, <2>3 DEF DirInv
  <2>5. script' = "idle" \/ (script' = "fresh" /\ at' = 1)
    BY <1>1, <2>2, <2>3, Leads DEF Advance, Enter, EndRun, Undoing
  <2>6. QED
    BY <1>1, <2>2, <2>4, <2>5 DEF DirInv, DirRecorded, Folder, reg, Undoing
<1>7. CASE Call = "copy"
  <2>1. Folder # None /\ UNCHANGED machine.reg
    BY <1>1, <1>2, <1>7, CallSites, FolderKnown DEF Writing, Forgetting
  <2>2. QED
    BY <1>4, <1>7, <2>1 DEF Folder, reg, Writing
<1>8. CASE Call = "removeFiles"
  <2>1. RemoveInstallDir /\ UNCHANGED machine.reg
    BY <1>2, <1>8, OneAction DEF Writing, Forgetting
  <2>2. Files' = None
    BY <2>1, RemovesDir DEF DirInv, DirRecorded, Folder, Files
  <2>3. QED
    BY <1>4, <1>8, <2>1, <2>2 DEF Folder, reg, Writing
<1>9. CASE Call \notin Writing \cup Forgetting \cup {"deleteState", "copy", "removeFiles"}
  <2>1. UNCHANGED machine.reg /\ Files' = Files
    BY <1>2, <1>9
  <2>2. QED
    BY <1>4, <1>9, <2>1 DEF DirInv, DirRecorded, Folder, reg
<1>10. QED
  BY <1>3, <1>5, <1>6, <1>7, <1>8, <1>9

LEMMA DirInvBegins == Init => DirInv
  BY DEF Init, CleanMachine, DirInv, DirRecorded, Folder, Files, reg, Values, Undoing

LEMMA DirInvSteps ==
  ASSUME Inv, Inv', DirInv, [Next]_vars
  PROVE  DirInv'
<1>1. ASSUME UNCHANGED <<machine.reg, Files>>,
             script' \in {"idle", "retire", "choose", "uninstall", "fresh", "update",
                          "reinstall"},
             script' # "idle" => at' = 1, script' = "update" => Folder # None
      PROVE  DirInv'
  BY <1>1 DEF DirInv, DirRecorded, Folder, reg, Undoing
<1>2. CASE UNCHANGED vars
  BY <1>2 DEF vars, DirInv, DirRecorded, Folder, Files, reg
<1>3. CASE Next /\ script = "idle"
  BY <1>1, <1>3, IdleSteps
<1>4. CASE Crash
  BY <1>1, <1>4, CrashSteps DEF Files
<1>5. CASE Next /\ script # "idle" /\ ~Crash /\ Call = "choose"
  <2>1. InstallMode = "update" => reg["Version"] # None
    BY DEF InstallMode
  <2>2. script' = "update" => Folder # None
    BY <1>5, <2>1, ChooseSteps DEF DirInv, DirRecorded, Values
  <2>3. QED
    BY <1>1, <1>5, <2>2, ChooseSteps DEF Files
<1>6. CASE Next /\ script # "idle" /\ ~Crash /\ Call # "choose"
  BY <1>6, DirSteps
<1>7. QED
  BY <1>2, <1>3, <1>4, <1>5, <1>6

LEMMA FolderRecorded == Spec => []DirInv
<1>1. Inv /\ Inv' /\ DirInv /\ [Next]_vars => DirInv'
  BY DirInvSteps
<1>2. QED
  BY <1>1, DirInvBegins, FlowInvariant, PTL DEF Spec

-----------------------------------------------------------------------------
(* The record of the packages: how its three names stand to the packages the *)
(* driver store holds, at each place of each list, whatever is refused.      *)

\* The packages the store holds and no run was refused to remove.
Shelf == {v \in Staged : Package(v) \notin refused}

Upgrading == {"fresh", "update", "same", "promote", "failUpdate", "unwind", "rollback"}

ShelfFits ==
    /\ script \notin Upgrading => Handed = None
    /\ script = "fresh" => /\ at <= 9 => Handed = None
                           /\ IF at <= 12 THEN Driver \notin Shelf \ {Handed}
                                          ELSE Driver = Handed
    /\ script = "update" => /\ PreviousDriver = None
                            /\ PendingDriver = IF at <= 8 THEN None ELSE Handed
                            /\ at <= 7 => Handed = None
    /\ script = "same" => Driver = Handed /\ PendingDriver \in {None, Handed}
    /\ script = "promote" => /\ at <= 2 => PreviousDriver = None
                             /\ at \in {3, 4} => PreviousDriver = Driver
                             /\ at <= 6 => PendingDriver = Handed
                             /\ at > 4 => Driver = Handed
                             /\ at = 10 => PreviousDriver \notin Shelf
    /\ script = "failUpdate" => /\ PendingDriver \in {None, Handed}
                                /\ at > 1 => Handed = Driver \/ Handed \notin Shelf
    /\ script = "retire" => (at = 4 => PreviousDriver \notin Shelf)
    /\ script \in Undoing => /\ Handed \notin Shelf \ {Driver}
                             /\ at > 2 => Driver \notin Shelf
                             /\ at > 3 => PendingDriver \notin Shelf
                             /\ at > 4 => PreviousDriver \notin Shelf

ShelfInv == PackagesRecorded /\ ShelfFits

LEMMA ShelfNow ==
  /\ PackagesRecorded <=> Shelf \subseteq {Handed, Driver, PendingDriver, PreviousDriver}
  /\ Shelf \subseteq Versions /\ None \notin Shelf
  BY FlowAssumption DEF PackagesRecorded, Shelf, Staged, InfValues, Handed, Driver,
     PendingDriver, PreviousDriver

LEMMA ShelfNext ==
  /\ PackagesRecorded' <=> Shelf' \subseteq {Handed', Driver', PendingDriver', PreviousDriver'}
  /\ Shelf' \subseteq Versions /\ None \notin Shelf'
  BY FlowAssumption DEF PackagesRecorded, Shelf, Staged, InfValues, Handed, Driver,
     PendingDriver, PreviousDriver, reg

\* What the other removals are refused has no bearing on a package.
LEMMA OtherPacks ==
  ASSUME \/ UNCHANGED refused \/ Gone(TheNode) \/ Gone(TheRecord)
         \/ \E c : Gone(Cert(c))
         \/ \E x : refused' = refused \cup {x},
         Staged' \subseteq Staged
  PROVE  Shelf' \subseteq Shelf
<1> SUFFICES ASSUME NEW v, Package(v) \in refused PROVE Package(v) \in refused'
  BY DEF Shelf
<1>1. Package(v) # TheNode /\ Package(v) # TheRecord /\ \A c : Package(v) # Cert(c)
  BY DEF Cert, TheNode, TheRecord, Package
<1>2. QED
  BY <1>1 DEF Gone

\* Only staging puts a package on the shelf, and every attempt to remove one
\* takes it off: it is gone, or refused.
LEMMA ShelfShrinks ==
  ASSUME Inv, Next, script # "idle", ~Crash, Call \notin {"choose", "stage"}
  PROVE  /\ Shelf' \subseteq Shelf
         /\ Call \in Unstaging => Unstaged[Call] \notin Shelf'
<1>1. Call \notin Unstaging => Staged' \subseteq Staged
  BY Effects
<1>2. /\ DOMAIN Unstaged = Unstaging
      /\ Unstaging \cap {"deleteState", "key", "sign", "destroyKey", "trust", "removeNode",
                         "register", "bind", "copy", "removeFiles"} = {}
      /\ Unstaging \cap (DOMAIN Written \cup DOMAIN Forgotten \cup DOMAIN Untrusted) = {}
  BY DEF Unstaged, Unstaging, Written, Forgotten, Untrusted
<1>3. CASE Call \in DOMAIN Unstaged /\ UnstagePackage
  <2>1. PICK v : v = Unstaged[Call]
    OBVIOUS
  <2>2. machine \in Machines /\ None \notin Versions
    BY FlowAssumption DEF Inv, Typed
  <2>3. CASE v = None /\ Set(machine) /\ UNCHANGED refused
    BY <1>2, <1>3, <2>1, <2>2, <2>3 DEF Set, Shelf, Staged
  <2>4. CASE Set([machine EXCEPT !.staged[v] = None]) /\ Gone(Package(v))
    <3>1. machine'.staged = [machine.staged EXCEPT ![v] = None]
      BY <2>2, <2>4 DEF Set, Machines
    <3>2. \A u \in Versions : machine'.staged[u] = IF u = v THEN None ELSE machine.staged[u]
      BY <2>2, <3>1 DEF Machines
    <3>3. \A u : u # v => Package(u) # Package(v)
      BY DEF Package
    <3>4. QED
      BY <1>2, <1>3, <2>1, <2>4, <3>2, <3>3 DEF Shelf, Staged, Gone
  <2>5. CASE machine.staged[v] = None /\ Set(machine) /\ UNCHANGED refused
    BY <1>2, <1>3, <2>1, <2>5 DEF Set, Shelf, Staged
  <2>6. CASE Refused(Package(v))
    BY <1>2, <1>3, <2>1, <2>6 DEF Refused, Shelf, Staged
  <2>7. QED
    BY <1>3, <2>1, <2>3, <2>4, <2>5, <2>6, Zenon DEF UnstagePackage
<1>4. CASE Call \notin Unstaging /\ (DeleteValue \/ DeleteState \/ RemoveDevices)
  <2>1. UNCHANGED refused \/ Gone(TheNode) \/ Gone(TheRecord)
          \/ \E x : refused' = refused \cup {x}
    BY <1>4 DEF DeleteValue, DeleteState, RemoveDevices, Refused
  <2>2. QED
    BY <1>1, <1>4, <2>1, OtherPacks
<1>5. CASE Call \notin Unstaging /\ RemoveTrustedCertificate
  <2>1. \/ UNCHANGED refused
        \/ \E c : Gone(Cert(c))
        \/ \E x : refused' = refused \cup {x}
    BY <1>5, Zenon DEF RemoveTrustedCertificate
  <2>2. QED
    BY <1>1, <1>5, <2>1, OtherPacks
<1>6. CASE /\ Call \notin Unstaging
           /\ \/ WriteValue \/ CreateSigningCert \/ SignFiles \/ DestroySigningKey
              \/ TrustCertificate \/ RegisterDevice \/ UpdateDevice
              \/ CopyPayload \/ RemoveInstallDir
  <2>1. UNCHANGED refused
    BY <1>6 DEF WriteValue, CreateSigningCert, SignFiles, DestroySigningKey,
       TrustCertificate, RegisterDevice, UpdateDevice, CopyPayload, RemoveInstallDir
  <2>2. QED
    BY <1>1, <1>6, <2>1, OtherPacks
<1>7. QED
  BY <1>2, <1>3, <1>4, <1>5, <1>6, Dispatch

\* A run that has ended hands over no package.
LEMMA EndsCovered ==
  ASSUME script' = "idle", Handed' = None,
         Shelf' \subseteq {Driver', PendingDriver', PreviousDriver'}
  PROVE  ShelfInv'
  BY ShelfNext DEF ShelfInv, ShelfFits, Upgrading, Undoing

SameDrivers == UNCHANGED <<Driver, PendingDriver, PreviousDriver>>

\* A call that fails leaves its package to what undoes it, or to the record.
LEMMA FailCovers ==
  ASSUME Inv, ShelfInv, SameDrivers, Shelf' \subseteq Shelf, Fail,
         script \in {"fresh", "update", "same", "promote"}
  PROVE  ShelfInv'
<1>1. Place
  BY DEF Inv, Typed
<1>2. Handed' = Handed => PackagesRecorded'
  BY ShelfNow, ShelfNext DEF SameDrivers, ShelfInv
<1>3. \A s, i : Enter(s, i, run) => script' = s /\ at' = i /\ Handed' = Handed
  BY DEF Enter, Handed
<1>4. CASE script = "fresh"
  <2>1. at \in 1 .. 13
    BY <1>1, <1>4, FreshPlaces
  <2>2. CASE at \in 10 .. 12
    <3>1. script' = "unwind" /\ Handed' = Handed
      BY <1>1, <1>3, <1>4, <2>2, FailLeads
    <3>2. QED
      BY <1>2, <3>1 DEF ShelfInv, ShelfFits, Upgrading, Undoing
  <2>3. CASE at \notin 10 .. 12
    <3>1. script' = "rollback" /\ at' = 1 /\ Handed' = Handed
      BY <1>1, <1>3, <1>4, <2>1, <2>3, FailLeads
    <3>2. Handed \in {None, Driver}
      BY <1>4, <2>1, <2>3 DEF ShelfInv, ShelfFits
    <3>3. QED
      BY <1>2, <3>1, <3>2, ShelfNext DEF SameDrivers, ShelfInv, ShelfFits, Upgrading, Undoing
  <2>4. QED
    BY <2>2, <2>3
<1>5. CASE script = "update"
  <2>1. script' = "failUpdate" /\ at' = 1 /\ Handed' = Handed
    BY <1>1, <1>3, <1>5, FailLeads
  <2>2. QED
    BY <1>2, <1>5, <2>1 DEF SameDrivers, ShelfInv, ShelfFits, Upgrading, Undoing
<1>6. CASE script \in {"same", "promote"}
  <2>1. script' = "idle" /\ Handed' = None
    BY <1>1, <1>6, FailLeads, NothingHanded
  <2>2. Handed \in {Driver, PendingDriver}
    BY <1>1, <1>6, PromotePlaces DEF ShelfInv, ShelfFits
  <2>3. Shelf' \subseteq {Driver', PendingDriver', PreviousDriver'}
    BY <2>2, ShelfNow DEF SameDrivers, ShelfInv
  <2>4. QED
    BY <2>1, <2>3, EndsCovered
<1>7. QED
  BY <1>4, <1>5, <1>6

\* The calls that change the name of a package in the record or in the run, or
\* look for one in the store.
ShelfCalls == {"stage", "recordInf", "recordPreviousInf", "promoteInf", "forgetPendingInf",
               "forgetPreviousInf", "deleteState"} \cup Unstaging

LEMMA QuietNames ==
  ASSUME Inv, Next, script # "idle", ~Crash, Call \notin ShelfCalls \cup {"choose"}
  PROVE  SameDrivers
<1>1. DOMAIN machine.reg = Values /\ InfValues \subseteq Values
  BY DEF Inv, Typed, Machines, Values
<1>2. CASE Call \in Writing
  <2>1. WriteValue
    BY <1>2, OneAction DEF Writing
  <2>2. Written[Call] \notin InfValues
    BY <1>2 DEF Writing, Written, InfValues, ShelfCalls
  <2>3. \A n \in InfValues : machine'.reg[n] = machine.reg[n]
    BY <1>1, <2>1, <2>2, Writes
  <2>4. QED
    BY <2>3 DEF SameDrivers, Driver, PendingDriver, PreviousDriver, reg, InfValues
<1>3. CASE Call \in Forgetting
  <2>1. DeleteValue
    BY <1>3, OneAction DEF Forgetting
  <2>2. Forgotten[Call] \notin InfValues
    BY <1>3 DEF Forgetting, Forgotten, InfValues, ShelfCalls
  <2>3. \A n \in InfValues : machine'.reg[n] = machine.reg[n]
    BY <1>1, <2>1, <2>2, Forgets
  <2>4. QED
    BY <2>3 DEF SameDrivers, Driver, PendingDriver, PreviousDriver, reg, InfValues
<1>4. CASE Call \notin Writing \cup Forgetting
  BY <1>4, Effects DEF SameDrivers, Driver, PendingDriver, PreviousDriver, reg, ShelfCalls
<1>5. QED
  BY <1>2, <1>3, <1>4

LEMMA QuietCovers ==
  ASSUME Inv, ShelfInv, Next, script # "idle", ~Crash, Call \notin ShelfCalls \cup {"choose"}
  PROVE  ShelfInv'
<1>1. /\ Place /\ Goes /\ SameDrivers /\ Shelf' \subseteq Shelf
      /\ Call # "stage" /\ Call \notin Unstaging
  BY Effects, QuietNames, ShelfShrinks DEF Inv, Typed, ShelfCalls
<1>2. Handed' = Handed => PackagesRecorded'
  BY <1>1, ShelfNow, ShelfNext DEF SameDrivers, ShelfInv
<1>3. CASE Fail /\ script \in {"fresh", "update", "same", "promote"}
  BY <1>1, <1>3, FailCovers
<1>4. CASE Enter(script, at, run)
  <2>1. script' = script /\ at' = at /\ Handed' = Handed
    BY <1>4 DEF Enter, Handed
  <2>2. QED
    BY <1>1, <1>2, <2>1 DEF SameDrivers, ShelfInv, ShelfFits
<1>5. CASE NextCall
  <2>1. PICK r : AdvanceWith(r) /\ r.published = Handed
    BY <1>1, <1>5 DEF NextCall
  <2>2. \A s, i : Enter(s, i, r) => script' = s /\ at' = i /\ Handed' = Handed
    BY <2>1 DEF Enter, Handed
  <2>3. CASE script = "fresh"
    <3>1. at \in 1 .. 13 /\ at \notin {9, 12}
      BY <1>1, <2>3, FreshPlaces DEF ShelfCalls
    <3>2. CASE at < 13
      <4>1. script' = "fresh" /\ at' = at + 1 /\ Handed' = Handed
        BY <1>1, <2>1, <2>2, <2>3, <3>2, Leads DEF On
      <4>2. QED
        BY <1>1, <1>2, <2>3, <3>1, <3>2, <4>1 DEF SameDrivers, ShelfInv, ShelfFits, Upgrading,
           Undoing
    <3>3. CASE at = 13
      <4>1. script' = "idle" /\ Handed' = None
        BY <1>1, <2>1, <2>3, <3>3, Leads, NothingHanded
      <4>2. Shelf' \subseteq {Driver', PendingDriver', PreviousDriver'}
        BY <1>1, <2>3, <3>3, ShelfNow DEF SameDrivers, ShelfInv, ShelfFits
      <4>3. QED
        BY <4>1, <4>2, EndsCovered
    <3>4. QED
      BY <3>1, <3>2, <3>3
  <2>4. CASE script = "update"
    <3>1. at \in 1 .. 9 /\ at \notin {7, 8}
      BY <1>1, <2>4, UpdatePlaces DEF ShelfCalls
    <3>2. CASE at < 9
      <4>1. script' = "update" /\ at' = at + 1 /\ Handed' = Handed
        BY <1>1, <2>1, <2>2, <2>4, <3>2, Leads DEF On
      <4>2. QED
        BY <1>1, <1>2, <2>4, <3>1, <3>2, <4>1 DEF SameDrivers, ShelfInv, ShelfFits, Upgrading,
           Undoing
    <3>3. CASE at = 9
      <4>1. /\ script' = IF Handed = Driver THEN "same" ELSE "promote"
            /\ at' = 1 /\ Handed' = Handed
        BY <1>1, <2>1, <2>2, <2>4, <3>3, Leads
      <4>2. QED
        BY <1>1, <1>2, <2>4, <3>3, <4>1 DEF SameDrivers, ShelfInv, ShelfFits, Upgrading, Undoing
    <3>4. QED
      BY <3>1, <3>2, <3>3
  <2>5. CASE script = "same"
    <3>1. at \in 1 .. 4
      BY <1>1, <2>5, SamePlaces
    <3>2. CASE at < 4
      <4>1. script' = "same" /\ Handed' = Handed
        BY <1>1, <2>1, <2>2, <2>5, <3>2, Leads DEF On
      <4>2. QED
        BY <1>1, <1>2, <2>5, <4>1 DEF SameDrivers, ShelfInv, ShelfFits, Upgrading, Undoing
    <3>3. CASE at = 4
      <4>1. script' = "idle" /\ Handed' = None
        BY <1>1, <2>1, <2>5, <3>3, Leads, NothingHanded
      <4>2. Shelf' \subseteq {Driver', PendingDriver', PreviousDriver'}
        BY <1>1, <2>5, ShelfNow DEF SameDrivers, ShelfInv, ShelfFits
      <4>3. QED
        BY <4>1, <4>2, EndsCovered
    <3>4. QED
      BY <3>1, <3>2, <3>3
  <2>6. CASE script = "promote"
    <3>1. at \in 1 .. 11 /\ at \notin {2, 4, 6, 9, 10}
      BY <1>1, <2>6, PromotePlaces DEF ShelfCalls, Unstaging
    <3>2. CASE at < 11
      <4>1. script' = "promote" /\ at' = at + 1 /\ Handed' = Handed
        BY <1>1, <2>1, <2>2, <2>6, <3>2, Leads DEF On
      <4>2. QED
        BY <1>1, <1>2, <2>6, <3>1, <3>2, <4>1 DEF SameDrivers, ShelfInv, ShelfFits, Upgrading,
           Undoing
    <3>3. CASE at = 11
      <4>1. script' = "idle" /\ Handed' = None
        BY <1>1, <2>1, <2>6, <3>3, Leads, NothingHanded
      <4>2. Shelf' \subseteq {Driver', PendingDriver', PreviousDriver'}
        BY <1>1, <2>6, <3>3, ShelfNow DEF SameDrivers, ShelfInv, ShelfFits
      <4>3. QED
        BY <4>1, <4>2, EndsCovered
    <3>4. QED
      BY <3>1, <3>2, <3>3
  <2>7. CASE script = "failUpdate"
    <3>1. at \in {2, 4}
      BY <1>1, <2>7, FailUpdatePlaces DEF ShelfCalls, Unstaging
    <3>2. CASE at = 2
      <4>1. script' = "failUpdate" /\ at' = 3 /\ Handed' = Handed
        BY <1>1, <2>1, <2>2, <2>7, <3>2, Leads DEF On
      <4>2. QED
        BY <1>1, <1>2, <2>7, <3>2, <4>1 DEF SameDrivers, ShelfInv, ShelfFits, Upgrading, Undoing
    <3>3. CASE at = 4
      <4>1. script' = "idle" /\ Handed' = None
        BY <1>1, <2>1, <2>7, <3>3, Leads, NothingHanded
      <4>2. Shelf' \subseteq {Driver', PendingDriver', PreviousDriver'}
        BY <1>1, <2>7, <3>3, ShelfNow DEF SameDrivers, ShelfInv, ShelfFits
      <4>3. QED
        BY <4>1, <4>2, EndsCovered
    <3>4. QED
      BY <3>1, <3>2, <3>3
  <2>8. CASE script = "unwind"
    <3>1. at = 1
      BY <1>1, <2>8, UnwindPlaces DEF ShelfCalls, Unstaging
    <3>2. script' = "unwind" /\ Handed' = Handed
      BY <1>1, <2>1, <2>2, <2>8, <3>1, Leads DEF On
    <3>3. QED
      BY <1>2, <3>2 DEF ShelfInv, ShelfFits, Upgrading, Undoing
  <2>9. CASE script = "retire"
    <3>1. at \in {1, 2}
      BY <1>1, <2>9, RetirePlaces DEF ShelfCalls, Unstaging
    <3>2. script' = "retire" /\ at' = at + 1 /\ Handed' = Handed
      BY <1>1, <2>1, <2>2, <2>9, <3>1, Leads DEF On
    <3>3. QED
      BY <1>2, <2>9, <3>1, <3>2 DEF ShelfInv, ShelfFits, Upgrading, Undoing
  <2>10. CASE script \in Undoing
    <3>1. at \in 1 .. 9 /\ at \notin {2, 3, 4, 9}
      BY <1>1, <2>10, UninstallPlaces DEF ShelfCalls, Unstaging
    <3>2. script' = script /\ at' = at + 1 /\ Handed' = Handed
      BY <1>1, <2>1, <2>2, <2>10, <3>1, Leads DEF On, Undoing
    <3>3. QED
      BY <1>1, <1>2, <2>10, <3>1, <3>2 DEF SameDrivers, ShelfInv, ShelfFits, Upgrading, Undoing
  <2>11. QED
    BY <1>1, <2>3, <2>4, <2>5, <2>6, <2>7, <2>8, <2>9, <2>10, ScriptNamed, CallSites
       DEF Names, Undoing, ShelfCalls, Unstaging
<1>6. QED
  BY <1>1, <1>3, <1>4, <1>5 DEF Goes, Unstaging

\* Where these calls are made.
LEMMA ShelfSites ==
  ASSUME Place
  PROVE  /\ Call = "stage" => (script = "fresh" /\ at = 9) \/ (script = "update" /\ at = 7)
         /\ Call = "recordInf" => (script = "fresh" /\ at = 12) \/ (script = "update" /\ at = 8)
         /\ Call = "recordPreviousInf" => script = "promote" /\ at = 2
         /\ Call = "promoteInf" => script = "promote" /\ at = 4
         /\ Call = "forgetPendingInf" => \/ script = "same" /\ at = 3
                                         \/ script = "promote" /\ at = 6
                                         \/ script = "failUpdate" /\ at = 3
         /\ Call = "forgetPreviousInf" => \/ script = "promote" /\ at = 10
                                          \/ script = "retire" /\ at = 4
         /\ Call = "dropPackage" => \/ script = "failUpdate" /\ at = 1
                                    \/ script = "unwind" /\ at = 2
         /\ Call = "retireInf" => \/ script = "promote" /\ at = 9
                                  \/ script = "retire" /\ at = 3
         /\ Call = "unstageDriver" => script \in Undoing /\ at = 2
         /\ Call = "unstagePending" => script \in Undoing /\ at = 3
         /\ Call = "unstagePrevious" => script \in Undoing /\ at = 4
<1>1. CASE script = "fresh"
  BY <1>1, FreshPlaces
<1>2. CASE script = "update"
  BY <1>2, UpdatePlaces
<1>3. CASE script = "same"
  BY <1>3, SamePlaces
<1>4. CASE script = "promote"
  BY <1>4, PromotePlaces
<1>5. CASE script = "failUpdate"
  BY <1>5, FailUpdatePlaces
<1>6. CASE script = "retire"
  BY <1>6, RetirePlaces
<1>7. CASE script \in {"unwind", "choose", "idle"}
  BY <1>7, UnwindPlaces, CallSites
<1>8. CASE script \in Undoing
  BY <1>8, UninstallPlaces
<1>9. QED
  BY <1>1, <1>2, <1>3, <1>4, <1>5, <1>6, <1>7, <1>8, ScriptNamed DEF Names, Undoing

\* Staging hands over a package; the run writes it down two calls on at most.
LEMMA StageCovers ==
  ASSUME Inv, ShelfInv, Next, script # "idle", ~Crash, Call = "stage"
  PROVE  ShelfInv'
<1>1. /\ Place /\ run \in Runs /\ machine \in Machines
      /\ StagePackage /\ UNCHANGED refused
      /\ (script = "fresh" /\ at = 9) \/ (script = "update" /\ at = 7)
  BY OneAction, ShelfSites DEF Inv, Typed, RunOK, StagePackage
<1>2. Handed = None
  BY <1>1 DEF ShelfInv, ShelfFits
<1>3. SameDrivers
  BY <1>1, Stages DEF SameDrivers, Driver, PendingDriver, PreviousDriver, reg
<1>4. CASE Fail /\ UNCHANGED machine.staged
  <2>1. Shelf' \subseteq Shelf
    BY <1>1, <1>4 DEF Shelf, Staged
  <2>2. QED
    BY <1>1, <1>3, <1>4, <2>1, FailCovers
<1>5. CASE /\ machine'.staged = [machine.staged EXCEPT
                                   ![run.version] = IF @ = None THEN run.cert ELSE @]
           /\ AdvanceWith([run EXCEPT !.published = run.version])
  <2>1. script' = script /\ at' = at + 1 /\ Handed' = run.version
    BY <1>1, <1>5, Leads DEF On, Enter, Handed, Runs
  <2>2. \A v \in Versions \ {run.version} : machine'.staged[v] = machine.staged[v]
    BY <1>1, <1>5 DEF Machines
  <2>3. Shelf' \subseteq Shelf \cup {Handed'}
    BY <1>1, <2>1, <2>2 DEF Shelf, Staged
  <2>4. PackagesRecorded'
    BY <1>2, <1>3, <2>3, ShelfNow, ShelfNext DEF SameDrivers, ShelfInv
  <2>5. script = "fresh" => Driver' \notin Shelf' \ {Handed'}
    BY <1>1, <1>2, <1>3, <2>3, ShelfNow DEF SameDrivers, ShelfInv, ShelfFits
  <2>6. QED
    BY <1>1, <1>3, <2>1, <2>4, <2>5 DEF SameDrivers, ShelfInv, ShelfFits, Upgrading, Undoing
<1>6. QED
  BY <1>1, <1>4, <1>5, Stages

\* The calls that write the name of a package.
LEMMA NameCovers ==
  ASSUME Inv, ShelfInv, Next, script # "idle", ~Crash,
         Call \in {"recordInf", "recordPreviousInf", "promoteInf"}
  PROVE  ShelfInv'
<1>1. /\ Place /\ DOMAIN machine.reg = Values /\ WriteValue
      /\ \/ Call = "recordInf" /\ script = "fresh" /\ at = 12
         \/ Call = "recordInf" /\ script = "update" /\ at = 8
         \/ Call = "recordPreviousInf" /\ script = "promote" /\ at = 2
         \/ Call = "promoteInf" /\ script = "promote" /\ at = 4
  BY OneAction, ShelfSites DEF Inv, Typed, Machines
<1>2. Shelf' \subseteq Shelf
  BY ShelfShrinks
<1>3. CASE UNCHANGED machine.reg /\ Fail
  <2>1. SameDrivers
    BY <1>3 DEF SameDrivers, Driver, PendingDriver, PreviousDriver, reg
  <2>2. QED
    BY <1>1, <1>2, <1>3, <2>1, FailCovers
<1>4. CASE machine'.reg = [machine.reg EXCEPT ![Written[Call]] = ValueFor[Call]] /\ Advance
  <2>1. script' = script /\ at' = at + 1 /\ Handed' = Handed
    BY <1>1, <1>4, Leads DEF Advance, On, Enter, Handed
  <2>2. PICK n, x : n = Written[Call] /\ x = ValueFor[Call]
    OBVIOUS
  <2>3. /\ script = "fresh" => n = "DriverInf" /\ x = Handed
        /\ script = "update" => n = "PendingDriverInf" /\ x = Handed
        /\ at = 2 => n = "PreviousDriverInf" /\ x = Driver
        /\ at = 4 => n = "DriverInf" /\ x = Handed
    BY <1>1, <2>2 DEF Written, ValueFor, Handed, Driver
  <2>4. machine'.reg = [machine.reg EXCEPT ![n] = x]
    BY <1>4, <2>2
  <2>5. n \in Values
    BY <1>1, <2>3 DEF Values, InfValues
  <2>6. /\ Driver' = IF n = "DriverInf" THEN x ELSE Driver
        /\ PendingDriver' = IF n = "PendingDriverInf" THEN x ELSE PendingDriver
        /\ PreviousDriver' = IF n = "PreviousDriverInf" THEN x ELSE PreviousDriver
    BY <1>1, <2>4, <2>5 DEF Driver, PendingDriver, PreviousDriver, reg, Values, InfValues
  <2>7. CASE script = "fresh"
    <3>1. /\ Driver' = Handed /\ Driver \notin Shelf \ {Handed}
          /\ PendingDriver' = PendingDriver /\ PreviousDriver' = PreviousDriver
      BY <1>1, <2>3, <2>6, <2>7 DEF ShelfInv, ShelfFits
    <3>2. PackagesRecorded'
      BY <1>2, <2>1, <3>1, ShelfNow, ShelfNext DEF ShelfInv
    <3>3. QED
      BY <1>1, <2>1, <2>7, <3>1, <3>2 DEF ShelfInv, ShelfFits, Upgrading, Undoing
  <2>8. CASE script = "update"
    <3>1. /\ PendingDriver' = Handed /\ PendingDriver = None
          /\ Driver' = Driver /\ PreviousDriver' = PreviousDriver /\ PreviousDriver = None
      BY <1>1, <2>3, <2>6, <2>8 DEF ShelfInv, ShelfFits
    <3>2. PackagesRecorded'
      BY <1>2, <2>1, <3>1, ShelfNow, ShelfNext DEF ShelfInv
    <3>3. QED
      BY <1>1, <2>1, <2>8, <3>1, <3>2 DEF ShelfInv, ShelfFits, Upgrading, Undoing
  <2>9. CASE script = "promote" /\ at = 2
    <3>1. /\ PreviousDriver' = Driver /\ PreviousDriver = None
          /\ Driver' = Driver /\ PendingDriver' = PendingDriver /\ PendingDriver = Handed
      BY <2>3, <2>6, <2>9 DEF ShelfInv, ShelfFits
    <3>2. PackagesRecorded'
      BY <1>2, <2>1, <3>1, ShelfNow, ShelfNext DEF ShelfInv
    <3>3. QED
      BY <2>1, <2>9, <3>1, <3>2 DEF ShelfInv, ShelfFits, Upgrading, Undoing
  <2>10. CASE script = "promote" /\ at = 4
    <3>1. /\ Driver' = Handed /\ Driver = PreviousDriver
          /\ PreviousDriver' = PreviousDriver
          /\ PendingDriver' = PendingDriver /\ PendingDriver = Handed
      BY <2>3, <2>6, <2>10 DEF ShelfInv, ShelfFits
    <3>2. PackagesRecorded'
      BY <1>2, <2>1, <3>1, ShelfNow, ShelfNext DEF ShelfInv
    <3>3. QED
      BY <2>1, <2>10, <3>1, <3>2 DEF ShelfInv, ShelfFits, Upgrading, Undoing
  <2>11. QED
    BY <1>1, <2>7, <2>8, <2>9, <2>10
<1>5. QED
  BY <1>1, <1>3, <1>4, Writes

\* The calls that drop the name of a package: by then it names the driver in
\* use, or nothing on the shelf.
LEMMA ForgetCovers ==
  ASSUME Inv, ShelfInv, Next, script # "idle", ~Crash,
         Call \in {"forgetPendingInf", "forgetPreviousInf"}
  PROVE  ShelfInv'
<1>1. /\ Place /\ DOMAIN machine.reg = Values /\ DeleteValue
      /\ \/ Call = "forgetPendingInf" /\ script = "same" /\ at = 3
         \/ Call = "forgetPendingInf" /\ script = "promote" /\ at = 6
         \/ Call = "forgetPendingInf" /\ script = "failUpdate" /\ at = 3
         \/ Call = "forgetPreviousInf" /\ script = "promote" /\ at = 10
         \/ Call = "forgetPreviousInf" /\ script = "retire" /\ at = 4
  BY OneAction, ShelfSites DEF Inv, Typed, Machines
<1>2. Shelf' \subseteq Shelf
  BY ShelfShrinks
<1>3. script' = script /\ at' = at + 1 /\ Handed' = Handed
  BY <1>1, Forgets, Leads DEF Advance, On, Enter, Handed
<1>4. PICK n : n = Forgotten[Call]
  OBVIOUS
<1>5. n = IF Call = "forgetPendingInf" THEN "PendingDriverInf" ELSE "PreviousDriverInf"
  BY <1>1, <1>4 DEF Forgotten
<1>6. machine'.reg = machine.reg \/ machine'.reg = [machine.reg EXCEPT ![n] = None]
  BY <1>1, <1>4, Forgets
<1>7. /\ Driver' = Driver
      /\ PendingDriver' = PendingDriver \/ (Call = "forgetPendingInf" /\ PendingDriver' = None)
      /\ PreviousDriver' = PreviousDriver
           \/ (Call = "forgetPreviousInf" /\ PreviousDriver' = None)
  BY <1>1, <1>5, <1>6 DEF Driver, PendingDriver, PreviousDriver, reg, Values, InfValues
<1>8. CASE script = "same"
  <2>1. PreviousDriver' = PreviousDriver /\ Handed = Driver /\ PendingDriver \in {None, Handed}
    BY <1>1, <1>7, <1>8 DEF ShelfInv, ShelfFits
  <2>2. PackagesRecorded'
    BY <1>2, <1>3, <1>7, <2>1, ShelfNow, ShelfNext DEF ShelfInv
  <2>3. QED
    BY <1>3, <1>7, <1>8, <2>1, <2>2 DEF ShelfInv, ShelfFits, Upgrading, Undoing
<1>9. CASE script = "promote" /\ at = 6
  <2>1. PreviousDriver' = PreviousDriver /\ Handed = Driver /\ PendingDriver = Handed
    BY <1>1, <1>7, <1>9 DEF ShelfInv, ShelfFits
  <2>2. PackagesRecorded'
    BY <1>2, <1>3, <1>7, <2>1, ShelfNow, ShelfNext DEF ShelfInv
  <2>3. QED
    BY <1>3, <1>7, <1>9, <2>1, <2>2 DEF ShelfInv, ShelfFits, Upgrading, Undoing
<1>10. CASE script = "failUpdate"
  <2>1. /\ PreviousDriver' = PreviousDriver /\ PendingDriver \in {None, Handed}
        /\ Handed = Driver \/ Handed \notin Shelf
    BY <1>1, <1>7, <1>10 DEF ShelfInv, ShelfFits
  <2>2. PackagesRecorded'
    BY <1>2, <1>3, <1>7, <2>1, ShelfNow, ShelfNext DEF ShelfInv
  <2>3. QED
    BY <1>2, <1>3, <1>7, <1>10, <2>1, <2>2 DEF ShelfInv, ShelfFits, Upgrading, Undoing
<1>11. CASE Call = "forgetPreviousInf"
  <2>1. PendingDriver' = PendingDriver /\ PreviousDriver \notin Shelf
    BY <1>1, <1>7, <1>11 DEF ShelfInv, ShelfFits
  <2>2. PackagesRecorded'
    BY <1>2, <1>3, <1>7, <2>1, ShelfNow, ShelfNext DEF ShelfInv
  <2>3. QED
    BY <1>1, <1>3, <1>7, <1>11, <2>1, <2>2 DEF ShelfInv, ShelfFits, Upgrading, Undoing
<1>12. QED
  BY <1>1, <1>8, <1>9, <1>10, <1>11

\* The calls that remove a package.
LEMMA RemovalCovers ==
  ASSUME Inv, ShelfInv, Next, script # "idle", ~Crash, Call \in Unstaging
  PROVE  ShelfInv'
<1>1. /\ Place /\ UnstagePackage /\ Call \notin {"stage", "choose"}
      /\ \/ Call = "dropPackage" /\ script = "failUpdate" /\ at = 1
         \/ Call = "dropPackage" /\ script = "unwind" /\ at = 2
         \/ Call = "retireInf" /\ script = "promote" /\ at = 9
         \/ Call = "retireInf" /\ script = "retire" /\ at = 3
         \/ Call = "unstageDriver" /\ script \in Undoing /\ at = 2
         \/ Call = "unstagePending" /\ script \in Undoing /\ at = 3
         \/ Call = "unstagePrevious" /\ script \in Undoing /\ at = 4
  BY OneAction, ShelfSites DEF Inv, Typed, Unstaging
<1>2. /\ Shelf' \subseteq Shelf /\ Unstaged[Call] \notin Shelf'
      /\ UNCHANGED machine.reg
      /\ Advance \/ (Call = "retireInf" /\ Enter(script, at + 2, run))
  BY <1>1, ShelfShrinks, Discards
<1>3. SameDrivers
  BY <1>2 DEF SameDrivers, Driver, PendingDriver, PreviousDriver, reg
<1>4. Handed' = Handed => PackagesRecorded'
  BY <1>2, <1>3, ShelfNow, ShelfNext DEF SameDrivers, ShelfInv
<1>5. \A s, i : Enter(s, i, run) => script' = s /\ at' = i /\ Handed' = Handed
  BY DEF Enter, Handed
<1>6. CASE script = "failUpdate"
  <2>1. script' = script /\ at' = 2 /\ Handed' = Handed
    BY <1>1, <1>2, <1>5, <1>6, Leads DEF Advance, On, Undoing
  <2>2. Handed = Driver \/ Handed \notin Shelf'
    <3>1. Call = "dropPackage"
      BY <1>1, <1>6 DEF Undoing
    <3>2. Handed # Driver => Unstaged["dropPackage"] = Handed
      BY <1>6 DEF Unstaged, SameName, Handed, Driver
    <3>3. QED
      BY <1>2, <3>1, <3>2
  <2>3. QED
    BY <1>3, <1>4, <1>6, <2>1, <2>2 DEF SameDrivers, ShelfInv, ShelfFits, Upgrading, Undoing
<1>7. CASE script = "unwind"
  <2>1. script' = "rollback" /\ at' = 1 /\ Handed' = Handed
    BY <1>1, <1>2, <1>5, <1>7, Leads DEF Advance
  <2>2. Handed \notin Shelf'
    <3>1. Call = "dropPackage"
      BY <1>1, <1>7 DEF Undoing
    <3>2. Unstaged["dropPackage"] = Handed
      BY <1>7 DEF Unstaged, Handed
    <3>3. QED
      BY <1>2, <3>1, <3>2
  <2>3. QED
    BY <1>4, <2>1, <2>2 DEF ShelfInv, ShelfFits, Upgrading, Undoing
<1>8. CASE Call = "retireInf"
  <2>1. /\ script' = script /\ Handed' = Handed
        /\ at' = at + 1 \/ at' = at + 2
    BY <1>1, <1>2, <1>5, <1>8, Leads DEF Advance, On
  <2>2. PreviousDriver \notin Shelf'
    BY <1>2, <1>8 DEF Unstaged, PreviousDriver
  <2>3. QED
    BY <1>1, <1>3, <1>4, <1>8, <2>1, <2>2 DEF SameDrivers, ShelfInv, ShelfFits, Upgrading, Undoing
<1>9. CASE script \in Undoing
  <2>1. script' = script /\ at' = at + 1 /\ Handed' = Handed
    BY <1>1, <1>2, <1>5, <1>9, Leads DEF Advance, On, Undoing
  <2>2. /\ at = 2 => Driver \notin Shelf'
        /\ at = 3 => PendingDriver = Driver \/ PendingDriver \notin Shelf'
        /\ at = 4 => PreviousDriver = Driver \/ PreviousDriver \notin Shelf'
    BY <1>1, <1>2, <1>9 DEF Unstaged, SameName, Driver, PendingDriver, PreviousDriver, Undoing
  <2>3. QED
    BY <1>1, <1>2, <1>3, <1>4, <1>9, <2>1, <2>2 DEF SameDrivers, ShelfInv, ShelfFits, Upgrading,
       Undoing
<1>10. QED
  BY <1>1, <1>6, <1>7, <1>8, <1>9

\* The record goes once the shelf is empty.
LEMMA EmptyShelf ==
  ASSUME Inv, ShelfInv, script \in Undoing, at = 9
  PROVE  Shelf = {}
  BY ShelfNow DEF ShelfInv, ShelfFits, Upgrading, Undoing

LEMMA ClearCovers ==
  ASSUME Inv, ShelfInv, Next, script # "idle", ~Crash, Call = "deleteState"
  PROVE  ShelfInv'
<1>1. Place /\ DeleteState /\ script \in Undoing /\ at = 9 /\ Shelf' \subseteq Shelf
  BY OneAction, RecordCalls, ShelfShrinks DEF Inv, Typed, Unstaging
<1>2. Shelf' = {}
  BY <1>1, EmptyShelf
<1>3. \/ script' = "idle" /\ Handed' = None
      \/ script' = "fresh" /\ at' = 1 /\ script = "reinstall" /\ Handed' = Handed
  BY <1>1, Forgets, Leads, NothingHanded DEF Advance, Enter, Undoing, Handed
<1>4. CASE script' = "idle" /\ Handed' = None
  BY <1>2, <1>4, EndsCovered
<1>5. CASE script' = "fresh" /\ at' = 1 /\ script = "reinstall" /\ Handed' = Handed
  BY <1>2, <1>5, ShelfNext DEF ShelfInv, ShelfFits, Upgrading, Undoing
<1>6. QED
  BY <1>3, <1>4, <1>5

LEMMA ShelfInvSteps ==
  ASSUME ~DiesUnrecorded, Inv, ShelfInv, [Next]_vars
  PROVE  ShelfInv'
<1>1. CASE UNCHANGED vars
  <2>1. UNCHANGED <<machine, run, refused, script, at>>
    BY <1>1 DEF vars
  <2>2. SameDrivers /\ Shelf' = Shelf /\ Handed' = Handed
    BY <2>1 DEF SameDrivers, Driver, PendingDriver, PreviousDriver, reg, Shelf, Staged, Handed
  <2>3. PackagesRecorded'
    BY <2>2, ShelfNow, ShelfNext DEF SameDrivers, ShelfInv
  <2>4. QED
    BY <2>1, <2>2, <2>3 DEF SameDrivers, ShelfInv, ShelfFits
<1>2. ASSUME UNCHANGED <<machine.reg, machine.staged, refused>>
      PROVE  SameDrivers /\ Shelf' = Shelf
  BY <1>2 DEF SameDrivers, Driver, PendingDriver, PreviousDriver, reg, Shelf, Staged
<1>3. CASE Next /\ script = "idle"
  <2>1. /\ script' \in {"idle", "retire", "choose", "uninstall"}
        /\ script' # "idle" => at' = 1
        /\ Handed' = None /\ Handed = None
        /\ SameDrivers /\ Shelf' = Shelf
    BY <1>2, <1>3, IdleSteps DEF ShelfInv, ShelfFits, Upgrading, Handed
  <2>2. PackagesRecorded'
    BY <2>1, ShelfNow, ShelfNext DEF SameDrivers, ShelfInv
  <2>3. QED
    BY <2>1, <2>2, ShelfNext DEF ShelfInv, ShelfFits, Upgrading, Undoing
<1>4. CASE Crash
  <2>1. script' = "idle" /\ Handed' = None /\ SameDrivers /\ Shelf' = Shelf
    BY <1>2, <1>4, CrashSteps
  <2>2. ~Unrecorded(Handed)
    BY <1>4 DEF Crash, Handed
  <2>3. Handed \in Shelf => Handed \in {Driver, PendingDriver, PreviousDriver}
    BY <2>2, FlowAssumption DEF Unrecorded, Shelf, Staged, InfValues, Driver, PendingDriver,
       PreviousDriver
  <2>4. Shelf' \subseteq {Driver', PendingDriver', PreviousDriver'}
    BY <2>1, <2>3, ShelfNow DEF SameDrivers, ShelfInv
  <2>5. QED
    BY <2>1, <2>4, EndsCovered
<1>5. CASE Next /\ script # "idle" /\ ~Crash /\ Call = "choose"
  <2>1. /\ script' = InstallMode /\ script' \in {"fresh", "update", "reinstall"} /\ at' = 1
        /\ Handed' = Handed /\ SameDrivers /\ Shelf' = Shelf
    BY <1>2, <1>5, ChooseSteps DEF Handed
  <2>2. script \in {"retire", "choose"}
    BY <1>5, CallSites DEF Inv, Typed
  <2>3. Handed = None
    BY <2>2 DEF ShelfInv, ShelfFits, Upgrading
  <2>4. /\ script' = "fresh" => Driver = None /\ PendingDriver = None /\ PreviousDriver = None
        /\ script' = "update" => PendingDriver = None /\ PreviousDriver = None
    BY <2>1 DEF InstallMode, Recorded, Driver, PendingDriver, PreviousDriver, Values, InfValues
  <2>5. PackagesRecorded'
    BY <2>1, ShelfNow, ShelfNext DEF SameDrivers, ShelfInv
  <2>6. QED
    BY <2>1, <2>3, <2>4, <2>5, ShelfNext DEF SameDrivers, ShelfInv, ShelfFits, Upgrading, Undoing
<1>6. CASE Next /\ script # "idle" /\ ~Crash /\ Call # "choose"
  BY <1>6, QuietCovers, StageCovers, NameCovers, ForgetCovers, RemovalCovers, ClearCovers
     DEF ShelfCalls
<1>7. QED
  BY <1>1, <1>3, <1>4, <1>5, <1>6

LEMMA ShelfBegins == Init => ShelfInv
<1> SUFFICES ASSUME Init PROVE ShelfInv
  OBVIOUS
<1>1. script = "idle" /\ Handed = None /\ Shelf = {}
  BY DEF Init, NoRun, NewRun, Handed, Shelf, Staged, CleanMachine
<1>2. QED
  BY <1>1, ShelfNow DEF ShelfInv, ShelfFits, Upgrading, Undoing

LEMMA ShelfKnown == ~DiesUnrecorded => (Spec => []ShelfInv)
<1> SUFFICES ASSUME ~DiesUnrecorded PROVE Spec => []ShelfInv
  OBVIOUS
<1>1. Inv /\ ShelfInv /\ [Next]_vars => ShelfInv'
  BY ShelfInvSteps
<1>2. QED
  BY <1>1, ShelfBegins, FlowInvariant, PTL DEF Spec

(* Whatever fails or is refused, and wherever a run stops once it has        *)
(* recorded the package it staged, the record names every certificate the    *)
(* machine trusts and every package its driver store holds, but for those a  *)
(* run asked Windows to remove: what is left is always named where the next  *)
(* run looks for it, or was already asked for (registry_state.h:14-16).      *)
THEOREM RecordSuffices == ~DiesUnrecorded => (Spec => []Undoable)
<1> SUFFICES ASSUME ~DiesUnrecorded PROVE Spec => []Undoable
  OBVIOUS
<1>1. ShelfInv => PackagesRecorded
  BY DEF ShelfInv
<1>2. TrustRecorded /\ PackagesRecorded => Undoable
  BY DEF Undoable
<1>3. QED
  BY <1>1, <1>2, ShelfKnown, TrustIsRecorded, PTL

-----------------------------------------------------------------------------
(* What is in use: a driver runs from the store, and the node is the first   *)
(* thing an uninstall asks for.                                              *)

Installing == {"fresh", "update", "same", "promote"}

\* The part of a run that a call hands on to the next one.
Carried ==
    /\ run'.version = run.version
    /\ Call # "stage" => Handed' = Handed
    /\ Call # "bind" => run'.reboot = run.reboot
    /\ Call # "key" => run'.cert = run.cert

LEMMA Carries ==
  ASSUME Place, Goes, script \in Installing
  PROVE  \/ script' \notin Installing
         \/ /\ Carried
            /\ \/ script' = script /\ at' = at + 1
               \/ script' = script /\ at' = at /\ Call \in Untrusting \cup {"trust"}
               \/ script' = script /\ at' = at + 2 /\ Call = "retireInf"
               \/ /\ script = "update" /\ at = 9 /\ at' = 1
                  /\ script' = IF Handed' = Driver THEN "same" ELSE "promote"
<1>1. CASE Fail
  BY <1>1, FailLeads DEF Enter, EndRun, Installing
<1>2. CASE \/ Call \in Untrusting \cup {"trust"} /\ Enter(script, at, run)
           \/ Call = "retireInf" /\ Enter(script, at + 2, run)
  BY <1>2 DEF Enter, Carried, Handed
<1>3. CASE NextCall
  <2>1. PICK r : /\ AdvanceWith(r) /\ r.version = run.version
                 /\ Call # "stage" => r.published = Handed
                 /\ Call # "bind" => r.reboot = run.reboot
                 /\ Call # "key" => r.cert = run.cert
    BY <1>3 DEF NextCall
  <2>2. run' = r => Carried
    BY <2>1 DEF Carried, Handed
  <2>3. /\ script = "fresh" => at \in 1 .. 13
        /\ script = "update" => at \in 1 .. 9
        /\ script = "same" => at \in 1 .. 4
        /\ script = "promote" => at \in 1 .. 11
    BY FreshPlaces, UpdatePlaces, SamePlaces, PromotePlaces
  <2>4. CASE script = "update"
    BY <2>1, <2>2, <2>3, <2>4, Leads DEF On, Enter, Handed
  <2>5. CASE script # "update"
    BY <2>1, <2>2, <2>3, <2>5, Leads DEF On, Enter, EndRun, Installing
  <2>6. QED
    BY <2>4, <2>5
<1>4. QED
  BY <1>1, <1>2, <1>3 DEF Goes

UseInv ==
    /\ Loaded \subseteq Staged
    /\ script = "fresh" /\ at \in 10 .. 11 => Handed \in Staged
    /\ script = "update" /\ at > 7 => Handed \in Staged
    /\ script \in Undoing /\ at > 1 => Node = None \/ TheNode \in refused

\* Only the call that removes the node says whether it stayed.
LEMMA NodeStays ==
  ASSUME Next, script # "idle", ~Crash, Call # "removeNode", TheNode \in refused
  PROVE  TheNode \in refused'
<1>1. \A v, c : TheNode # Package(v) /\ TheNode # Cert(c) /\ TheNode # TheRecord
  BY DEF TheNode, TheRecord, Package, Cert
<1>2. CASE UNCHANGED refused \/ \E x : refused' = refused \cup {x}
  BY <1>2
<1>3. CASE Gone(TheRecord) \/ (\E v : Gone(Package(v))) \/ (\E c : Gone(Cert(c)))
  BY <1>1, <1>3 DEF Gone
<1>4. CASE DeleteValue \/ DeleteState
  BY <1>2, <1>3, <1>4 DEF DeleteValue, DeleteState, Refused
<1>5. CASE RemoveTrustedCertificate
  BY <1>2, <1>3, <1>5, Zenon DEF RemoveTrustedCertificate
<1>6. CASE UnstagePackage
  BY <1>2, <1>3, <1>6, Zenon DEF UnstagePackage, Refused
<1>7. CASE \/ WriteValue \/ CreateSigningCert \/ SignFiles \/ DestroySigningKey
           \/ TrustCertificate \/ StagePackage \/ RegisterDevice \/ UpdateDevice
           \/ CopyPayload \/ RemoveInstallDir \/ ChooseInstallMode
  BY <1>2, <1>7 DEF WriteValue, CreateSigningCert, SignFiles, DestroySigningKey,
     TrustCertificate, StagePackage, RegisterDevice, UpdateDevice, CopyPayload,
     RemoveInstallDir, ChooseInstallMode
<1>8. QED
  BY <1>4, <1>5, <1>6, <1>7, Dispatch

\* What the store holds after a call.
LEMMA StoreSteps ==
  ASSUME Inv, UseInv, Next, script # "idle", ~Crash, Call # "choose"
  PROVE  /\ Call \notin Unstaging => Staged \subseteq Staged'
         /\ Loaded' \subseteq Staged'
         /\ Call = "stage" /\ ~Fail => Handed' \in Staged'
<1>1. Place /\ machine \in Machines /\ run \in Runs /\ None \notin Certs
  BY FlowAssumption DEF Inv, Typed, RunOK
<1>2. /\ Call \notin {"removeNode", "bind"} => Loaded' = Loaded
      /\ Call \notin {"stage"} \cup Unstaging => Staged' = Staged
  BY Effects
<1>3. CASE Call = "stage"
  <2>1. StagePackage /\ Loaded' = Loaded /\ run.cert \in Certs /\ run.version \in Versions
    BY <1>1, <1>2, <1>3, OneAction, ShelfSites DEF Inv, Typed, RunOK, Going
  <2>2. CASE UNCHANGED machine.staged /\ Fail
    BY <1>3, <2>1, <2>2 DEF UseInv, Staged, Unstaging
  <2>3. CASE /\ machine'.staged = [machine.staged EXCEPT
                                     ![run.version] = IF @ = None THEN run.cert ELSE @]
             /\ AdvanceWith([run EXCEPT !.published = run.version])
    <3>1. \A v \in Versions : machine'.staged[v] = IF v = run.version /\ machine.staged[v] = None
                                                   THEN run.cert ELSE machine.staged[v]
      BY <1>1, <2>3 DEF Machines
    <3>2. Staged' = Staged \cup {run.version}
      BY <1>1, <2>1, <3>1 DEF Staged
    <3>3. Handed' = run.version
      BY <1>1, <1>3, <2>3, ShelfSites, Leads DEF On, Enter, Handed, Runs
    <3>4. QED
      BY <1>3, <2>1, <3>2, <3>3 DEF UseInv, Unstaging
  <2>4. QED
    BY <2>1, <2>2, <2>3, Stages
<1>4. CASE Call \in Unstaging
  <2>1. UnstagePackage /\ Loaded' = Loaded
    BY <1>2, <1>4, OneAction DEF Unstaging
  <2>2. PICK v : v = Unstaged[Call]
    OBVIOUS
  <2>3. \/ UNCHANGED machine.staged
        \/ machine'.staged = [machine.staged EXCEPT ![v] = None] /\ v \notin Loaded
    BY <1>1, <2>1, <2>2, Discards
  <2>4. \A u \in Loaded : machine'.staged[u] = machine.staged[u]
    BY <1>1, <2>3 DEF Machines, Loaded
  <2>5. QED
    BY <1>4, <2>1, <2>4 DEF UseInv, Staged, Unstaging
<1>5. CASE Call = "bind"
  <2>1. Handed \in Staged /\ UpdateDevice /\ Staged' = Staged
    BY <1>1, <1>2, <1>5, OneAction, CallSites DEF UseInv, Unstaging
  <2>2. Loaded' \in {Loaded, {Handed}}
    BY <2>1, Binds DEF Loaded, Handed
  <2>3. QED
    BY <1>5, <2>1, <2>2 DEF UseInv
<1>6. CASE Call = "removeNode"
  <2>1. RemoveDevices /\ Staged' = Staged
    BY <1>2, <1>6, OneAction DEF Unstaging
  <2>2. Loaded' \subseteq Loaded
    BY <2>1, Detaches DEF Loaded
  <2>3. QED
    BY <1>6, <2>1, <2>2 DEF UseInv
<1>7. CASE Call \notin {"stage", "bind", "removeNode"} \cup Unstaging
  BY <1>2, <1>7 DEF UseInv
<1>8. QED
  BY <1>3, <1>4, <1>5, <1>6, <1>7

LEMMA UseSteps ==
  ASSUME Inv, UseInv, Next, script # "idle", ~Crash, Call # "choose"
  PROVE  UseInv'
<1>1. Place /\ Goes /\ at \in Nat
  BY Effects DEF Inv, Typed, Place
<1>2. Loaded' \subseteq Staged'
  BY StoreSteps
<1>3. ASSUME script' = "fresh", at' \in 10 .. 11
      PROVE  Handed' \in Staged'
  <2>1. script = "fresh" /\ at \in 1 .. 13
    BY <1>1, <1>3, InOrder, FreshPlaces
  <2>2. Carried /\ at \in {9, 10} /\ at' = at + 1 /\ Call \in {"stage", "register"}
    BY <1>1, <1>3, <2>1, Carries, FreshPlaces DEF Installing, Untrusting
  <2>3. ~Fail
    BY <1>1, <1>3, <2>1, FailLeads DEF Enter
  <2>4. QED
    BY <1>1, <2>1, <2>2, <2>3, StoreSteps, FreshPlaces DEF UseInv, Carried, Unstaging
<1>4. ASSUME script' = "update", at' > 7
      PROVE  Handed' \in Staged'
  <2>1. script = "update" /\ at \in 1 .. 9
    BY <1>1, <1>4, InOrder, UpdatePlaces
  <2>2. Carried /\ at \in 7 .. 9 /\ Call \in {"stage", "recordInf", "bind"}
    BY <1>1, <1>4, <2>1, Carries, UpdatePlaces DEF Installing, Untrusting
  <2>3. ~Fail
    BY <1>1, <1>4, <2>1, FailLeads DEF Enter
  <2>4. QED
    BY <1>1, <2>1, <2>2, <2>3, StoreSteps, UpdatePlaces DEF UseInv, Carried, Unstaging
<1>5. ASSUME script' \in Undoing, at' > 1
      PROVE  Node' = None \/ TheNode \in refused'
  <2>1. script \in Undoing /\ at \in 1 .. 9
    BY <1>1, <1>5, InOrder, UninstallPlaces DEF Undoing
  <2>2. CASE at = 1
    <3>1. RemoveDevices
      BY <1>1, <2>1, <2>2, UninstallPlaces, OneAction
    <3>2. QED
      BY <3>1, Detaches DEF UseInv, Node
  <2>3. CASE at # 1
    <3>1. Call \notin {"removeNode", "register", "bind"}
      BY <1>1, <2>1, <2>3, UninstallPlaces
    <3>2. Node' = Node
      BY <3>1, Effects
    <3>3. QED
      BY <2>1, <2>3, <3>1, <3>2, NodeStays DEF UseInv
  <2>4. QED
    BY <2>2, <2>3
<1>6. QED
  BY <1>2, <1>3, <1>4, <1>5 DEF UseInv

LEMMA UseInvSteps ==
  ASSUME Inv, UseInv, [Next]_vars
  PROVE  UseInv'
<1>1. ASSUME Staged' = Staged, Loaded' \in {Loaded, Staged \cap {Node}},
             script' \in {"idle", "retire", "choose", "uninstall", "fresh", "update",
                          "reinstall"},
             script' # "idle" => at' = 1
      PROVE  UseInv'
  BY <1>1 DEF UseInv, Undoing
<1>2. CASE UNCHANGED vars
  BY <1>2 DEF vars, UseInv, Loaded, Staged, Handed, Node
<1>3. CASE Next /\ script = "idle"
  BY <1>1, <1>3, IdleSteps DEF Staged, Loaded
<1>4. CASE Crash
  BY <1>1, <1>4, CrashSteps DEF Staged, Loaded
<1>5. CASE Next /\ script # "idle" /\ ~Crash /\ Call = "choose"
  BY <1>1, <1>5, ChooseSteps DEF Staged, Loaded
<1>6. CASE Next /\ script # "idle" /\ ~Crash /\ Call # "choose"
  BY <1>6, UseSteps
<1>7. QED
  BY <1>2, <1>3, <1>4, <1>5, <1>6

LEMMA UseKnown == Spec => []UseInv
<1>1. Init => UseInv
  BY DEF Init, CleanMachine, UseInv, Loaded, Staged, Undoing
<1>2. Inv /\ UseInv /\ [Next]_vars => UseInv'
  BY UseInvSteps
<1>3. QED
  BY <1>1, <1>2, FlowInvariant, PTL DEF Spec

-----------------------------------------------------------------------------
(* An uninstall that has ended. *)

\* The last call of an uninstall, and of the rollback of an install.
LEMMA NothingStays ==
  ASSUME Inv, Recording, ShelfInv, UseInv, DirInv, Next, script \in Undoing, at = 9, ~Crash
  PROVE  UninstallLeavesNothing'
<1>1. Place /\ script # "idle"
  BY DEF Inv, Typed, Undoing
<1>2. Call = "deleteState" /\ DeleteState
  BY <1>1, UninstallPlaces, OneAction
<1>3. /\ UNCHANGED <<machine.trust, machine.staged, machine.node, machine.loaded,
                     machine.files>>
      /\ \/ UNCHANGED machine.reg /\ refused' = refused \cup {TheRecord}
         \/ machine'.reg = [n \in Values |-> None] /\ Gone(TheRecord)
  BY <1>2, Forgets
<1>4. machine'.reg = CleanMachine.reg \/ TheRecord \in refused'
  BY <1>3 DEF CleanMachine
<1>5. machine'.node = None \/ TheNode \in refused'
  BY <1>1, <1>2, <1>3, NodeStays DEF UseInv, Node
<1>6. \A c \in Trusted' : Cert(c) \in refused'
  <2>1. Held = {}
    BY NamedNow DEF Recording, RecordFits
  <2>2. CertsKept
    BY <1>3, OtherRefusals
  <2>3. Trusted' = Trusted
    BY <1>3 DEF Trusted
  <2>4. QED
    BY <2>1, <2>2, <2>3 DEF Held, CertsKept
<1>7. \A v \in Staged' : Package(v) \in refused'
  <2>1. Shelf' = {}
    BY <1>1, <1>2, EmptyShelf, ShelfShrinks DEF Unstaging
  <2>2. QED
    BY <2>1 DEF Shelf
<1>8. machine'.loaded \subseteq Staged' /\ machine'.files = None
  BY <1>3 DEF UseInv, Loaded, Staged, DirInv, Files
<1>9. QED
  BY <1>4, <1>5, <1>6, <1>7, <1>8 DEF UninstallLeavesNothing

LEMMA EmptyStays ==
  ASSUME Inv, Recording, ShelfInv, UseInv, DirInv, UninstallLeavesNothing, [Next]_vars
  PROVE  UninstallLeavesNothing'
<1>1. CASE UNCHANGED vars
  BY <1>1 DEF vars, UninstallLeavesNothing, Trusted, Staged
<1>2. CASE Next /\ script = "idle"
  <2>1. CASE script' # "idle"
    BY <2>1 DEF UninstallLeavesNothing
  <2>2. ASSUME script' = "idle", outcome' \in {"uninstalled", "rolledback"}
        PROVE  UninstallLeavesNothing'
    <3>1. /\ outcome' = outcome /\ Loaded' = Staged \cap {Node}
          /\ UNCHANGED <<machine.reg, machine.trust, machine.staged, Node, Files, refused>>
      BY <1>2, <2>2, IdleSteps
    <3>2. Staged' = Staged /\ Trusted' = Trusted
      BY <3>1 DEF Staged, Trusted
    <3>3. QED
      BY <1>2, <2>2, <3>1, <3>2 DEF UninstallLeavesNothing, Node, Files, Loaded
  <2>3. QED
    BY <2>1, <2>2 DEF UninstallLeavesNothing
<1>3. CASE Crash
  BY <1>3, CrashSteps DEF UninstallLeavesNothing
<1>4. CASE Next /\ script # "idle" /\ ~Crash /\ Call = "choose"
  BY <1>4, ChooseSteps DEF UninstallLeavesNothing
<1>5. CASE Next /\ script # "idle" /\ ~Crash /\ Call # "choose"
  <2>1. ASSUME script' = "idle", outcome' \in {"uninstalled", "rolledback"}
        PROVE  UninstallLeavesNothing'
    <3>1. script \in Undoing /\ at = 9
      BY <1>5, <2>1, Effects, Ends DEF Inv, Typed, Undoing
    <3>2. QED
      BY <1>5, <3>1, NothingStays
  <2>2. QED
    BY <2>1 DEF UninstallLeavesNothing
<1>6. QED
  BY <1>1, <1>2, <1>3, <1>4, <1>5

(* An uninstall, and the rollback of a failed fresh install, leave no record, *)
(* certificate, package, node or file but those they asked Windows to remove *)
(* and were refused, whichever calls fail or are refused, in this run or in  *)
(* the runs before it, and wherever those stopped: a node that stays does    *)
(* not keep the packages and the certificates from being asked for, and the  *)
(* record the last run left names all there is (RunUninstall,                *)
(* install_flow.cpp:186-203; RemoveDevices, driver_install.cpp:92-110).      *)
THEOREM UninstallIsComplete == ~DiesUnrecorded => (Spec => []UninstallLeavesNothing)
<1> SUFFICES ASSUME ~DiesUnrecorded PROVE Spec => []UninstallLeavesNothing
  OBVIOUS
<1>1. Init => UninstallLeavesNothing
  BY DEF Init, UninstallLeavesNothing
<1>2. Inv /\ Recording /\ ShelfInv /\ UseInv /\ DirInv
      /\ UninstallLeavesNothing /\ [Next]_vars => UninstallLeavesNothing'
  BY EmptyStays
<1>3. QED
  BY <1>1, <1>2, FlowInvariant, RecordKept, ShelfKnown, UseKnown, FolderRecorded, PTL DEF Spec

-----------------------------------------------------------------------------
(* The release a run installs: on disk, in the store and loaded in turn,     *)
(* while what was pending and what came before leave the record.             *)

Installs ==
    /\ script = "fresh" => /\ at > 2 => Files = run.version
                           /\ at > 9 => Handed = run.version
                           /\ at > 11 => run.reboot \/ Loaded = {Handed}
    /\ script = "update" => /\ at > 1 => Files = run.version
                            /\ at > 7 => Handed = run.version
    /\ script \in {"same", "promote"} =>
           Files = run.version /\ Handed = run.version /\ (run.reboot \/ Loaded = {Handed})

Clears ==
    /\ script = "same" => (at > 2 => PendingCert = None) /\ (at > 3 => PendingDriver = None)
    /\ script = "promote" =>
           /\ at > 5 => PendingCert = None
           /\ at > 8 => PreviousCert = None
           /\ at <= 4 => Driver \in Staged
           /\ at \in 3 .. 9 => PreviousDriver \in Staged
           /\ at = 11 => PreviousDriver \in Staged \cup {None}

ReleaseInv == Installs /\ Clears

LEMMA OutsideRelease ==
  ASSUME \/ script' \notin Installing
         \/ script' \in {"fresh", "update"} /\ at' = 1
  PROVE  ReleaseInv'
  BY DEF ReleaseInv, Installs, Clears, Installing

LEMMA FreshInstalls ==
  ASSUME Inv, PackInv, ReleaseInv, Gentle, Next, ~Crash, script = "fresh"
  PROVE  ReleaseInv'
<1>1. Place /\ at \in 1 .. 13 /\ run \in Runs
  BY FreshPlaces DEF Inv, Typed, RunOK
<1>2. /\ Goes /\ Call # "choose"
      /\ Call \notin {"copy", "removeFiles"} => Files' = Files
      /\ Call \notin {"removeNode", "bind"} => Loaded' = Loaded
  BY <1>1, FreshPlaces, Effects
<1>3. SUFFICES ASSUME script' \in Installing
               PROVE  ReleaseInv'
  BY OutsideRelease
<1>4. script' = "fresh" /\ Carried /\ (at' = at + 1 \/ (at' = at /\ at = 7))
  BY <1>1, <1>2, <1>3, Carries, FreshPlaces DEF Untrusting, Installing
<1>5. at' > 2 => Files' = run'.version
  <2>1. CASE at = 2
    <3>1. CopyPayload /\ ~Fail
      BY <1>1, <1>4, <2>1, FreshPlaces, OneAction, FailLeads DEF Enter
    <3>2. QED
      BY <1>4, <3>1, Copies DEF Carried, Files
  <2>2. CASE at # 2
    BY <1>1, <1>2, <1>4, <2>2, FreshPlaces DEF ReleaseInv, Installs, Carried
  <2>3. QED
    BY <2>1, <2>2
<1>6. at' > 9 => Handed' = run'.version
  <2>1. CASE at = 9
    <3>1. StagePackage /\ ~Fail
      BY <1>1, <1>4, <2>1, FreshPlaces, OneAction, FailLeads DEF Enter
    <3>2. AdvanceWith([run EXCEPT !.published = run.version])
      BY <3>1, Stages
    <3>3. run' = [run EXCEPT !.published = run.version]
      BY <1>1, <2>1, <3>2, Leads DEF On, Enter
    <3>4. QED
      BY <1>1, <3>3 DEF Handed, Runs
  <2>2. CASE at # 9
    BY <1>1, <1>4, <2>2, FreshPlaces DEF ReleaseInv, Installs, Carried
  <2>3. QED
    BY <2>1, <2>2
<1>7. at' > 11 => run'.reboot \/ Loaded' = {Handed'}
  <2>1. CASE at = 11
    <3>1. UpdateDevice /\ ~Fail
      BY <1>1, <1>4, <2>1, FreshPlaces, OneAction, FailLeads DEF Enter
    <3>2. \/ Loaded' = {Handed}
          \/ AdvanceWith([run EXCEPT !.reboot = TRUE])
      BY <3>1, Binds DEF Loaded, Handed
    <3>3. AdvanceWith([run EXCEPT !.reboot = TRUE]) => run' = [run EXCEPT !.reboot = TRUE]
      BY <1>1, <2>1, Leads DEF On, Enter
    <3>4. QED
      BY <1>1, <1>4, <2>1, <3>2, <3>3, FreshPlaces DEF Carried, Runs
  <2>2. CASE at # 11
    BY <1>1, <1>2, <1>4, <2>2, FreshPlaces DEF ReleaseInv, Installs, Carried
  <2>3. QED
    BY <2>1, <2>2
<1>8. QED
  BY <1>4, <1>5, <1>6, <1>7 DEF ReleaseInv, Installs, Clears

\* The record after a call that did not fail.
LEMMA OneName ==
  ASSUME Inv, Gentle, Next, ~Crash, ~Fail, script \in Installing
  PROVE  machine'.reg = IF Call \in Writing
                        THEN [machine.reg EXCEPT ![Written[Call]] = ValueFor[Call]]
                        ELSE IF Call \in Forgetting
                        THEN [machine.reg EXCEPT ![Forgotten[Call]] = None]
                        ELSE machine.reg
<1>1. Place /\ script # "idle"
  BY DEF Inv, Typed, Installing
<1>2. Call \notin {"choose", "deleteState"}
  BY <1>1, CallSites, RecordCalls DEF Installing, Undoing
<1>3. CASE Call \in Writing
  BY <1>1, <1>3, OneAction, Writes DEF Writing
<1>4. CASE Call \in Forgetting
  BY <1>1, <1>4, OneAction, Deletes DEF Forgetting, Writing
<1>5. CASE Call \notin Writing \cup Forgetting
  BY <1>1, <1>2, <1>5, Effects
<1>6. QED
  BY <1>3, <1>4, <1>5

\* A call that writes or deletes one value of the record changes no other.
LEMMA AllNames ==
  ASSUME Inv, NEW n \in Values, NEW x, machine'.reg = [machine.reg EXCEPT ![n] = x]
  PROVE  /\ Current' = IF n = "CertThumbprint" THEN x ELSE Current
         /\ PendingCert' = IF n = "PendingCertThumbprint" THEN x ELSE PendingCert
         /\ PreviousCert' = IF n = "PreviousCertThumbprint" THEN x ELSE PreviousCert
         /\ Driver' = IF n = "DriverInf" THEN x ELSE Driver
         /\ PendingDriver' = IF n = "PendingDriverInf" THEN x ELSE PendingDriver
         /\ PreviousDriver' = IF n = "PreviousDriverInf" THEN x ELSE PreviousDriver
<1>1. DOMAIN machine.reg = Values
  BY DEF Inv, Typed, Machines
<1>2. QED
  BY <1>1 DEF Current, PendingCert, PreviousCert, Driver, PendingDriver, PreviousDriver, reg,
     Values, CertValues, InfValues

LEMMA UpdateInstalls ==
  ASSUME Inv, PackInv, SignInv, ReleaseInv, Gentle, Next, ~Crash, script = "update"
  PROVE  ReleaseInv'
<1>1. Place /\ at \in 1 .. 9 /\ run \in Runs /\ machine.staged \in [Versions -> Certs \cup {None}]
  BY UpdatePlaces DEF Inv, Typed, RunOK, Machines
<1>2. /\ Goes /\ Call # "choose"
      /\ Call \notin {"copy", "removeFiles"} => Files' = Files
      /\ Call \notin {"stage"} \cup Unstaging => Staged' = Staged
      /\ Call \notin Writing \cup Forgetting \cup {"deleteState"} => UNCHANGED machine.reg
  BY <1>1, UpdatePlaces, Effects
<1>3. SUFFICES ASSUME script' \in Installing
               PROVE  ReleaseInv'
  BY OutsideRelease
<1>4. /\ Carried
      /\ \/ script' = "update" /\ (at' = at + 1 \/ (at' = at /\ at = 6))
         \/ script' = (IF Handed' = Driver THEN "same" ELSE "promote") /\ at = 9 /\ at' = 1
  BY <1>1, <1>2, <1>3, Carries, UpdatePlaces DEF Untrusting, Installing
<1>5. ~Fail
  BY <1>1, <1>3, FailLeads DEF Enter, Installing
<1>6. script' # "update" \/ at' > 1 => Files' = run'.version
  <2>1. CASE at = 1
    <3>1. CopyPayload
      BY <1>1, <2>1, UpdatePlaces, OneAction
    <3>2. QED
      BY <1>4, <1>5, <3>1, Copies DEF Carried, Files
  <2>2. CASE at # 1
    BY <1>1, <1>2, <1>4, <2>2, UpdatePlaces DEF ReleaseInv, Installs, Carried
  <2>3. QED
    BY <2>1, <2>2
<1>7. script' # "update" \/ at' > 7 => Handed' = run'.version
  <2>1. CASE at = 7
    <3>1. StagePackage
      BY <1>1, <2>1, UpdatePlaces, OneAction
    <3>2. AdvanceWith([run EXCEPT !.published = run.version])
      BY <1>5, <3>1, Stages
    <3>3. run' = [run EXCEPT !.published = run.version]
      BY <1>1, <2>1, <3>2, Leads DEF On, Enter
    <3>4. QED
      BY <1>1, <3>3 DEF Handed, Runs
  <2>2. CASE at # 7
    BY <1>1, <1>4, <2>2, UpdatePlaces DEF ReleaseInv, Installs, Carried
  <2>3. QED
    BY <2>1, <2>2
<1>8. CASE script' = "update"
  BY <1>6, <1>7, <1>8 DEF ReleaseInv, Installs, Clears
<1>9. CASE script' # "update"
  <2>1. at = 9 /\ at' = 1 /\ script' \in {"same", "promote"} /\ Handed' = Handed
    BY <1>1, <1>4, <1>9, UpdatePlaces DEF Carried
  <2>2. UpdateDevice
    BY <1>1, <2>1, UpdatePlaces, OneAction
  <2>3. \/ Loaded' = {Handed}
        \/ AdvanceWith([run EXCEPT !.reboot = TRUE])
    BY <1>5, <2>2, Binds DEF Loaded, Handed
  <2>4. AdvanceWith([run EXCEPT !.reboot = TRUE]) => run' = [run EXCEPT !.reboot = TRUE]
    BY <1>1, <2>1, Leads DEF Enter
  <2>5. run'.reboot \/ Loaded' = {Handed'}
    BY <1>1, <2>1, <2>3, <2>4 DEF Runs
  <2>6. Driver' = Driver /\ Staged' = Staged
    BY <1>1, <1>2, <2>1, UpdatePlaces DEF Driver, reg, Unstaging, Writing, Forgetting
  <2>7. Driver \in Staged
    BY <1>1, NamesTyped DEF SignInv, UpdateSigns, PackInv, UpdatePacks, Staged
  <2>8. QED
    BY <1>6, <1>7, <1>9, <2>1, <2>5, <2>6, <2>7 DEF ReleaseInv, Installs, Clears
<1>10. QED
  BY <1>8, <1>9

LEMMA SameInstalls ==
  ASSUME Inv, ReleaseInv, Gentle, Next, ~Crash, script = "same"
  PROVE  ReleaseInv'
<1>1. Place /\ at \in 1 .. 4
  BY SamePlaces DEF Inv, Typed
<1>2. /\ Goes /\ Call # "choose"
      /\ Call \notin {"copy", "removeFiles"} => Files' = Files
      /\ Call \notin {"removeNode", "bind"} => Loaded' = Loaded
  BY <1>1, SamePlaces, Effects
<1>3. SUFFICES ASSUME script' \in Installing
               PROVE  ReleaseInv'
  BY OutsideRelease
<1>4. script' = "same" /\ Carried /\ (at' = at + 1 \/ (at' = at /\ at = 1))
  BY <1>1, <1>2, <1>3, Carries, SamePlaces DEF Untrusting, Installing
<1>5. ~Fail
  BY <1>1, <1>3, FailLeads DEF EndRun, Installing
<1>6. /\ at = 2 => PendingCert' = None
      /\ at = 3 => PendingDriver' = None /\ PendingCert' = PendingCert
  <2>1. /\ at = 2 => Call = "forgetPendingCert" /\ Forgotten[Call] = "PendingCertThumbprint"
        /\ at = 3 => Call = "forgetPendingInf" /\ Forgotten[Call] = "PendingDriverInf"
    BY <1>1, SamePlaces DEF Forgotten
  <2>2. at \in {2, 3} => machine'.reg = [machine.reg EXCEPT ![Forgotten[Call]] = None]
    BY <1>5, <2>1, OneName DEF Installing, Writing, Forgetting
  <2>3. QED
    BY <2>1, <2>2, AllNames DEF Values, CertValues, InfValues
<1>7. Files' = run'.version /\ Handed' = run'.version /\ (run'.reboot \/ Loaded' = {Handed'})
  BY <1>1, <1>2, <1>4, SamePlaces DEF ReleaseInv, Installs, Carried
<1>8. /\ at' > 2 => PendingCert' = None
      /\ at' > 3 => PendingDriver' = None
  <2>1. at <= 3
    <3>1. at = 4 => at' = 5
      BY <1>4
    <3>2. at = 4 => script' = "idle"
      BY <1>1, <1>2, <1>5, SamePlaces, Leads DEF Goes, NextCall, EndRun, Untrusting
    <3>3. QED
      BY <1>1, <1>4, <3>2
  <2>2. QED
    BY <1>1, <1>4, <1>6, <2>1 DEF ReleaseInv, Clears
<1>9. QED
  BY <1>4, <1>7, <1>8 DEF ReleaseInv, Installs, Clears

\* What promotion does to the record, call by call.
LEMMA PromotedNames ==
  ASSUME Inv, Gentle, Next, ~Crash, ~Fail, script = "promote"
  PROVE  /\ PendingCert' = IF at = 5 THEN None ELSE PendingCert
         /\ PreviousCert' = IF at = 1 THEN Current ELSE IF at = 8 THEN None ELSE PreviousCert
         /\ at # 4 => Driver' = Driver
         /\ PreviousDriver' = IF at = 2 THEN Driver ELSE IF at = 10 THEN None
                              ELSE PreviousDriver
<1>1. Place /\ at \in 1 .. 11
  BY PromotePlaces DEF Inv, Typed
<1>2. PICK n, x :
         /\ n \in Values
         /\ Call \in Writing => n = Written[Call] /\ x = ValueFor[Call]
         /\ Call \in Forgetting => n = Forgotten[Call] /\ x = None
         /\ Call \notin Writing \cup Forgetting => n = "InstallDir" /\ x = Folder
  <2>1. Writing \cap Forgetting = {} /\ "InstallDir" \in Values
    BY DEF Writing, Forgetting, Values
  <2>2. Call \in Writing => Written[Call] \in Values
    BY DEF Writing, Written, Values, CertValues, InfValues
  <2>3. Call \in Forgetting => Forgotten[Call] \in Values
    BY DEF Forgetting, Forgotten, Values, CertValues, InfValues
  <2>4. QED
    BY <2>1, <2>2, <2>3
<1>3. machine'.reg = [machine.reg EXCEPT ![n] = x]
  <2>1. machine.reg = [machine.reg EXCEPT !["InstallDir"] = Folder]
    BY DEF Inv, Typed, Machines, Folder, reg
  <2>2. Writing \cap Forgetting = {}
    BY DEF Writing, Forgetting
  <2>3. QED
    BY <1>2, <2>1, <2>2, OneName DEF Installing
<1>4. /\ at = 1 => n = "PreviousCertThumbprint" /\ x = Current
      /\ at = 2 => n = "PreviousDriverInf" /\ x = Driver
      /\ at = 3 => n = "CertThumbprint"
      /\ at = 4 => n = "DriverInf"
      /\ at = 5 => n = "PendingCertThumbprint" /\ x = None
      /\ at = 6 => n = "PendingDriverInf"
      /\ at \in {7, 9} => n = "InstallDir"
      /\ at = 8 => n = "PreviousCertThumbprint" /\ x = None
      /\ at = 10 => n = "PreviousDriverInf" /\ x = None
      /\ at = 11 => n = "Version"
  <2>1. CASE at \in {1, 2, 3, 4, 11}
    <3>1. n = Written[Call] /\ x = ValueFor[Call]
      BY <1>1, <1>2, <2>1, PromotePlaces DEF Writing
    <3>2. /\ Written["recordPreviousCert"] = "PreviousCertThumbprint"
          /\ Written["recordPreviousInf"] = "PreviousDriverInf"
          /\ Written["promoteCert"] = "CertThumbprint" /\ Written["promoteInf"] = "DriverInf"
          /\ Written["recordVersion"] = "Version"
          /\ ValueFor["recordPreviousCert"] = Current
          /\ ValueFor["recordPreviousInf"] = Driver
      BY DEF Written, ValueFor, Current, Driver
    <3>3. QED
      BY <1>1, <2>1, <3>1, <3>2, PromotePlaces
  <2>2. CASE at \in {5, 6, 8, 10}
    BY <1>1, <1>2, <2>2, PromotePlaces DEF Writing, Forgetting, Forgotten
  <2>3. CASE at \in {7, 9}
    BY <1>1, <1>2, <2>3, PromotePlaces DEF Writing, Forgetting
  <2>4. QED
    BY <1>1, <2>1, <2>2, <2>3
<1>5. /\ PendingCert' = IF n = "PendingCertThumbprint" THEN x ELSE PendingCert
      /\ PreviousCert' = IF n = "PreviousCertThumbprint" THEN x ELSE PreviousCert
      /\ Driver' = IF n = "DriverInf" THEN x ELSE Driver
      /\ PreviousDriver' = IF n = "PreviousDriverInf" THEN x ELSE PreviousDriver
  BY <1>2, <1>3, AllNames
<1>6. QED
  BY <1>1, <1>4, <1>5

LEMMA PromoteInstalls ==
  ASSUME Inv, ReleaseInv, Gentle, Next, ~Crash, script = "promote"
  PROVE  ReleaseInv'
<1>1. Place /\ at \in 1 .. 11
  BY PromotePlaces DEF Inv, Typed
<1>2. /\ Goes /\ Call # "choose"
      /\ Call \notin {"copy", "removeFiles"} => Files' = Files
      /\ Call \notin {"removeNode", "bind"} => Loaded' = Loaded
      /\ Call \notin {"stage"} \cup Unstaging => Staged' = Staged
  BY <1>1, PromotePlaces, Effects
<1>3. SUFFICES ASSUME script' \in Installing
               PROVE  ReleaseInv'
  BY OutsideRelease
<1>4. /\ script' = "promote" /\ Carried
      /\ \/ at' = at + 1
         \/ at' = at /\ at = 7
         \/ at' = at + 2 /\ at = 9
  BY <1>1, <1>2, <1>3, Carries, PromotePlaces DEF Untrusting, Installing
<1>5. ~Fail
  BY <1>1, <1>3, FailLeads DEF EndRun, Installing
<1>6. at <= 10
  <2>1. at = 11 => script' = "idle"
    BY <1>1, <1>2, <1>5, PromotePlaces, Leads DEF Goes, NextCall, EndRun, Untrusting
  <2>2. QED
    BY <1>1, <1>4, <2>1
<1>7. Files' = run'.version /\ Handed' = run'.version /\ (run'.reboot \/ Loaded' = {Handed'})
  BY <1>1, <1>2, <1>4, PromotePlaces DEF ReleaseInv, Installs, Carried
<1>8. /\ PendingCert' = IF at = 5 THEN None ELSE PendingCert
      /\ PreviousCert' = IF at = 1 THEN Current ELSE IF at = 8 THEN None ELSE PreviousCert
      /\ at # 4 => Driver' = Driver
      /\ PreviousDriver' = IF at = 2 THEN Driver ELSE IF at = 10 THEN None ELSE PreviousDriver
      /\ at # 9 => Staged' = Staged
  BY <1>1, <1>2, <1>5, PromotedNames, PromotePlaces DEF Unstaging
<1>9. at = 9 /\ at' = 11 => Staged' = Staged
  <2>1. ASSUME at = 9, at' = 11
        PROVE  UNCHANGED machine.staged
    <3>1. UnstagePackage
      BY <1>1, <2>1, PromotePlaces, OneAction
    <3>2. ~Advance
      BY <1>1, <2>1, Leads DEF Advance, On, Enter
    <3>3. PICK v : v = Unstaged[Call]
      OBVIOUS
    <3>4. QED
      BY <3>1, <3>2, <3>3, Unstages
  <2>2. QED
    BY <2>1 DEF Staged
<1>10. /\ at' > 5 => PendingCert' = None
       /\ at' > 8 => PreviousCert' = None
       /\ at' <= 4 => Driver' \in Staged'
       /\ at' \in 3 .. 9 => PreviousDriver' \in Staged'
       /\ at' = 11 => PreviousDriver' \in Staged' \cup {None}
  BY <1>1, <1>4, <1>6, <1>8, <1>9 DEF ReleaseInv, Clears
<1>11. QED
  BY <1>4, <1>7, <1>10 DEF ReleaseInv, Installs, Clears

LEMMA ReleaseInvSteps ==
  ASSUME Gentle, Inv, PackInv, SignInv, ReleaseInv, [Next]_vars
  PROVE  ReleaseInv'
<1>1. CASE UNCHANGED vars
  BY <1>1 DEF vars, ReleaseInv, Installs, Clears, Files, Handed, Loaded, PendingCert,
     PendingDriver, PreviousCert, PreviousDriver, Driver, Staged, reg
<1>2. CASE Next /\ script = "idle"
  BY <1>2, IdleSteps, OutsideRelease DEF Installing
<1>3. CASE Crash
  BY <1>3, CrashSteps, OutsideRelease DEF Installing
<1>4. CASE Next /\ script # "idle" /\ ~Crash /\ Call = "choose"
  BY <1>4, ChooseSteps, OutsideRelease DEF Installing
<1>5. CASE Next /\ script \in Installing /\ ~Crash
  BY <1>5, FreshInstalls, UpdateInstalls, SameInstalls, PromoteInstalls DEF Installing
<1>6. CASE /\ Next /\ script \notin Installing \cup {"idle"} /\ ~Crash
           /\ Call # "choose"
  <2>1. Goes /\ Place
    BY <1>6, Effects DEF Inv, Typed
  <2>2. script' \notin {"update", "same", "promote"} /\ (script' = "fresh" => at' = 1)
    <3>1. CASE Enter(script, at, run) \/ Enter(script, at + 2, run)
      BY <1>6, <3>1 DEF Enter, Installing
    <3>2. CASE NextCall
      BY <1>6, <2>1, <3>2, AdvanceMoves DEF NextCall, Moves, Installing
    <3>3. QED
      BY <1>6, <2>1, <3>1, <3>2 DEF Goes, Installing
  <2>3. QED
    BY <2>2, OutsideRelease DEF Installing
<1>7. QED
  BY <1>1, <1>2, <1>3, <1>4, <1>5, <1>6 DEF Installing

LEMMA ReleaseKnown == Gentle => (Spec => []ReleaseInv)
<1> SUFFICES ASSUME Gentle PROVE Spec => []ReleaseInv
  OBVIOUS
<1>1. Init => ReleaseInv
  BY DEF Init, ReleaseInv, Installs, Clears
<1>2. Inv /\ PackInv /\ SignInv /\ ReleaseInv /\ [Next]_vars => ReleaseInv'
  BY ReleaseInvSteps
<1>3. QED
  BY <1>1, <1>2, FlowInvariant, PackagesKnown, SignersKnown, PTL DEF Spec

\* Success, by the names above.
Complete ==
    /\ Driver \in Versions /\ reg["Version"] = Driver /\ Node = Driver /\ Files = Driver
    /\ machine.staged[Driver] = Current /\ Trusted = {Current}
    /\ PendingCert = None /\ PendingDriver = None /\ PreviousCert = None
    /\ Staged = {Driver, PreviousDriver} \ {None}

SuccessComplete ==
    outcome \in {"installed", "reboot"} /\ script = "idle" =>
        Complete /\ (outcome = "installed" => Loaded = {Driver})

\* Where every removal succeeds, no certificate is ever refused.
NoCertRefused == \A c : Cert(c) \notin refused

LEMMA CertsGo == Gentle => (Spec => []NoCertRefused)
<1> SUFFICES ASSUME Gentle PROVE Spec => []NoCertRefused
  OBVIOUS
<1>1. Init => NoCertRefused
  BY DEF Init, NoCertRefused
<1>2. ASSUME NoCertRefused, [Next]_vars
      PROVE  NoCertRefused'
  <2>1. \A c, v : Cert(c) # TheNode /\ Cert(c) # TheRecord /\ Cert(c) # Package(v)
    BY DEF Cert, TheNode, TheRecord, Package
  <2>2. CASE \/ UNCHANGED refused
             \/ \E x : Gone(x)
             \/ refused' = refused \cup {TheRecord}
             \/ refused' = refused \cup {TheNode}
             \/ \E v : refused' = refused \cup {Package(v)}
    BY <1>2, <2>1, <2>2 DEF NoCertRefused, Gone
  <2>3. CASE DeleteValue \/ DeleteState \/ RemoveDevices
    BY <2>2, <2>3 DEF DeleteValue, DeleteState, RemoveDevices, Refused
  <2>4. CASE RemoveTrustedCertificate
    <3>1. ~Fault("untrust")
      BY DEF Gentle, Fault
    <3>2. UNCHANGED refused \/ \E x : Gone(x)
      BY <2>4, <3>1, Zenon DEF RemoveTrustedCertificate
    <3>3. QED
      BY <2>2, <3>2
  <2>5. CASE UnstagePackage
    <3>1. UNCHANGED refused \/ (\E x : Gone(x)) \/ \E v : Refused(Package(v))
      BY <2>5, Zenon DEF UnstagePackage
    <3>2. QED
      BY <2>2, <3>1 DEF Refused
  <2>6. CASE \/ WriteValue \/ CreateSigningCert \/ SignFiles \/ DestroySigningKey
             \/ TrustCertificate \/ StagePackage \/ RegisterDevice \/ UpdateDevice
             \/ CopyPayload \/ RemoveInstallDir
    BY <2>2, <2>6 DEF WriteValue, CreateSigningCert, SignFiles, DestroySigningKey,
       TrustCertificate, StagePackage, RegisterDevice, UpdateDevice, CopyPayload,
       RemoveInstallDir
  <2>7. CASE \/ \E v \in Versions : RunInstall(v)
             \/ RunUninstall \/ ChooseInstallMode \/ Crash \/ Restart \/ UNCHANGED vars
    BY <2>2, <2>7 DEF RunInstall, RunUninstall, ChooseInstallMode, Crash, Restart, vars
  <2>8. QED
    BY <1>2, <2>3, <2>4, <2>5, <2>6, <2>7 DEF Next
<1>3. QED
  BY <1>1, <1>2, PTL DEF Spec

\* The last call of an install that succeeds.
LEMMA SuccessComes ==
  ASSUME Inv, Inv', Recording, Recording', PackInv, PackInv', SignInv, SignInv', ReleaseInv,
         NoCertRefused', Gentle, Next, ~Crash, script # "idle", Call # "choose",
         script' = "idle", outcome' \in {"installed", "reboot"}
  PROVE  SuccessComplete'
<1>1. Place
  BY DEF Inv, Typed
<1>2. /\ Goes
      /\ Call \notin {"copy", "removeFiles"} => Files' = Files
      /\ Call \notin {"removeNode", "bind"} => Loaded' = Loaded
      /\ Call \notin {"removeNode", "register", "bind"} => Node' = Node
      /\ Call \notin {"stage"} \cup Unstaging => Staged' = Staged
  BY Effects
<1>3. /\ \/ script = "fresh" /\ at = 13
         \/ script = "same" /\ at = 4
         \/ script = "promote" /\ at = 11
      /\ outcome' = IF run.reboot THEN "reboot" ELSE "installed"
  BY <1>1, <1>2, Ends
<1>4. Call = "recordVersion" /\ script \in Installing
  BY <1>1, <1>3, FreshPlaces, SamePlaces, PromotePlaces DEF Installing
<1>5. ~Fail
  BY <1>1, <1>3, FailLeads DEF Enter, EndRun
<1>6. machine'.reg = [machine.reg EXCEPT !["Version"] = run.version]
  BY <1>4, <1>5, OneName DEF Writing, Written, ValueFor
<1>7. /\ UNCHANGED <<Current, PendingCert, PreviousCert, Driver, PendingDriver, PreviousDriver>>
      /\ machine'.reg["Version"] = run.version
  <2>1. "Version" \in Values /\ DOMAIN machine.reg = Values
    BY DEF Values, Inv, Typed, Machines
  <2>2. machine'.reg["Version"] = run.version
    BY <1>6, <2>1
  <2>3. QED
    BY <1>6, <2>1, <2>2, AllNames
<1>8. Files' = Files /\ Loaded' = Loaded /\ Node' = Node /\ Staged' = Staged
  BY <1>2, <1>4 DEF Unstaging
<1>9. /\ Handed \in Versions /\ Driver = Handed /\ Node = Handed
      /\ Files = run.version /\ Handed = run.version
      /\ run.reboot \/ Loaded = {Handed}
      /\ PendingCert = None /\ PendingDriver = None /\ PreviousCert = None
      /\ PreviousDriver \in Staged \cup {None}
  <2>1. CASE script = "fresh" /\ at = 13
    <3>1. Handed \in Versions
      BY <2>1, PacksNow DEF PackInv, FreshPacks
    <3>2. QED
      BY <2>1, <3>1 DEF PackInv, FreshPacks, ReleaseInv, Installs, Recording, RecordFits,
         Gentle
  <2>2. CASE script = "same" /\ at = 4
    BY <2>2 DEF PackInv, SamePacks, ReleaseInv, Installs, Clears, SignInv, KeptSigns
  <2>3. CASE script = "promote" /\ at = 11
    BY <2>3 DEF PackInv, PromotePacks, ReleaseInv, Installs, Clears
  <2>4. QED
    BY <1>3, <2>1, <2>2, <2>3
<1>10. /\ machine'.staged[Driver'] = Current' /\ Current' # None
  BY <1>7, <1>8, <1>9 DEF SignInv, SettledSigns, Settled
<1>11. Trusted' = {Current'}
  <2>1. \A c \in Trusted' : c = Current'
    <3>1. Trusted' \subseteq Certs /\ None \notin Certs
      BY FlowAssumption DEF Trusted
    <3>2. \A c \in Trusted' : c \in {Current', PendingCert', PreviousCert'}
      BY NamedNext DEF Recording, Held, NoCertRefused
    <3>3. QED
      BY <1>7, <1>9, <3>1, <3>2
  <2>2. machine'.trust[Current'] = TrustStores /\ Current' \in Certs
    BY <1>7, <1>8, <1>9, <1>10, TrustedNext, StoresTyped DEF SignInv
  <2>3. Current' \in Trusted'
    BY <2>2 DEF Trusted, TrustStores
  <2>4. QED
    BY <2>1, <2>3
<1>12. Staged' = {Driver', PreviousDriver'} \ {None}
  <2>1. Staged \subseteq {Driver, PreviousDriver} /\ None \notin Staged
    BY <1>9, PacksNow DEF PackInv
  <2>2. Driver' \in Staged'
    BY <1>7, <1>9, <1>10 DEF Staged
  <2>3. QED
    BY <1>7, <1>8, <1>9, <2>1, <2>2
<1>13. Complete'
  BY <1>7, <1>8, <1>9, <1>10, <1>11, <1>12 DEF Complete, reg
<1>14. QED
  BY <1>3, <1>7, <1>8, <1>9, <1>13 DEF SuccessComplete

LEMMA SuccessStays ==
  ASSUME Gentle, Inv, Inv', Recording, Recording', PackInv, PackInv', SignInv, SignInv',
         ReleaseInv, NoCertRefused', SuccessComplete, [Next]_vars
  PROVE  SuccessComplete'
<1>1. CASE UNCHANGED vars
  BY <1>1 DEF vars, SuccessComplete, Complete, Driver, Node, Files, Current, PendingCert,
     PendingDriver, PreviousCert, PreviousDriver, Loaded, Trusted, Staged, reg
<1>2. CASE Next /\ script = "idle"
  <2>1. CASE script' # "idle"
    BY <2>1 DEF SuccessComplete
  <2>2. ASSUME script' = "idle", outcome' \in {"installed", "reboot"}
        PROVE  Complete' /\ (outcome' = "installed" => Loaded' = {Driver'})
    <3>1. /\ outcome' = outcome /\ Loaded' = Staged \cap {Node}
          /\ UNCHANGED <<machine.reg, machine.trust, machine.staged, Node, Files>>
      BY <1>2, <2>2, IdleSteps
    <3>2. Complete
      BY <1>2, <2>2, <3>1 DEF SuccessComplete
    <3>3. Loaded' = {Driver}
      BY <3>1, <3>2, FlowAssumption DEF Complete, Staged
    <3>4. /\ UNCHANGED <<Current, PendingCert, PreviousCert, Driver, PendingDriver,
                         PreviousDriver, Trusted, Staged, reg["Version"]>>
      BY <3>1 DEF Current, PendingCert, PreviousCert, Driver, PendingDriver, PreviousDriver,
         Trusted, Staged, reg
    <3>5. QED
      BY <3>1, <3>2, <3>3, <3>4 DEF Complete
  <2>3. QED
    BY <2>1, <2>2 DEF SuccessComplete
<1>3. CASE Crash
  BY <1>3, CrashSteps DEF SuccessComplete
<1>4. CASE Next /\ script # "idle" /\ ~Crash /\ Call = "choose"
  BY <1>4, ChooseSteps DEF SuccessComplete
<1>5. CASE Next /\ script # "idle" /\ ~Crash /\ Call # "choose"
  BY <1>5, SuccessComes DEF SuccessComplete
<1>6. QED
  BY <1>1, <1>2, <1>3, <1>4, <1>5

(* An install that reports success, on whatever the runs before it left, has *)
(* one release everywhere: recorded, bound to the node, on disk and in the   *)
(* driver store under the one trusted certificate, with nothing pending and, *)
(* of an older install, at most a package whose driver waits for a restart;  *)
(* when no restart is asked for, that release is the one running             *)
(* (RunUpdate and RunInstall, install_flow.cpp:95-130 and 135-184).  It is   *)
(* proved where what Windows is asked to take away goes (Gentle).            *)
THEOREM SuccessMeansComplete == Gentle => (Spec => []SuccessIsComplete)
<1> SUFFICES ASSUME Gentle PROVE Spec => []SuccessIsComplete
  OBVIOUS
<1>1. Init => SuccessComplete
  BY DEF Init, SuccessComplete
<1>2. Inv /\ Inv' /\ Recording /\ Recording' /\ PackInv /\ PackInv' /\ SignInv /\ SignInv'
      /\ ReleaseInv /\ NoCertRefused' /\ SuccessComplete /\ [Next]_vars => SuccessComplete'
  BY SuccessStays
<1>3. Inv /\ SuccessComplete => SuccessIsComplete
  <2> SUFFICES ASSUME Inv, SuccessComplete, outcome \in {"installed", "reboot"}, script = "idle"
               PROVE  /\ Complete /\ (outcome = "installed" => Loaded = {Driver})
                      /\ Current \in Certs
    BY DEF SuccessIsComplete, Complete, Driver, Node, Files, Current, PendingCert,
       PendingDriver, PreviousCert, PreviousDriver, Loaded, Pending
  <2>1. QED
    BY DEF SuccessComplete, Complete, Trusted
<1>4. QED
  BY <1>1, <1>2, <1>3, FlowInvariant, RecordKept, PackagesKnown, SignersKnown, ReleaseKnown,
     CertsGo, PTL DEF Spec

-----------------------------------------------------------------------------
(* What an update may have changed of the machine it found, as long as the   *)
(* device has not taken the new package: the pending values, the trust of    *)
(* its own certificate and the package it staged.                            *)

KeptInv ==
    script \in {"update", "failUpdate"} =>
        /\ \A n \in Values \ Pending : machine.reg[n] = before.reg[n]
        /\ \A n \in Pending : before.reg[n] = None
        /\ Node = before.node
        /\ \A c \in Certs \ {run.cert} : machine.trust[c] = before.trust[c]
        /\ run.cert # None => before.trust[run.cert] = {}
        /\ \A v \in Versions \ {Handed} : machine.staged[v] = before.staged[v]
        /\ Handed = Driver => machine.staged[Handed] = before.staged[Handed]
        /\ Handed \notin {None, Driver} => before.staged[Handed] = None
        /\ script = "failUpdate" /\ at > 3 => PendingDriver = None

\* The steps that leave all of these alone.
LEMMA KeptStays ==
  ASSUME KeptInv, script \in {"update", "failUpdate"}, UNCHANGED before,
         run'.cert = run.cert, Handed' = Handed, Driver' = Driver, Node' = Node,
         \A n \in Values \ Pending : machine'.reg[n] = machine.reg[n],
         \A c \in Certs \ {run.cert} : machine'.trust[c] = machine.trust[c],
         \A v \in Versions \ {Handed} : machine'.staged[v] = machine.staged[v],
         Handed = Driver => machine'.staged[Handed] = machine.staged[Handed],
         script' = "failUpdate" /\ at' > 3 => PendingDriver' = None
  PROVE  KeptInv'
  BY DEF KeptInv

LEMMA UpdateKept ==
  ASSUME Inv, PackInv, SignInv, KeptInv, Gentle, Next, ~Crash, script = "update"
  PROVE  KeptInv'
<1>1. /\ Place /\ at \in 1 .. 9 /\ run \in Runs /\ run.version \in Versions
      /\ DOMAIN machine.reg = Values
  BY UpdatePlaces DEF Inv, Typed, RunOK, Machines, Going
<1>2. /\ Goes /\ Call # "choose" /\ UNCHANGED before
      /\ Call \notin {"removeNode", "register", "bind"} => Node' = Node
  BY <1>1, UpdatePlaces, Effects
<1>3. SUFFICES ASSUME script' \in {"update", "failUpdate"}
               PROVE  KeptInv'
  BY DEF KeptInv
<1>4. \/ Fail /\ script' = "failUpdate" /\ at' = 1 /\ run' = run
      \/ /\ ~Fail /\ Carried /\ script' = "update"
         /\ at' = at + 1 \/ (at' = at /\ at = 6)
  <2>1. CASE Fail
    BY <1>1, <2>1, FailLeads DEF Enter
  <2>2. CASE ~Fail
    <3>1. script' = "failUpdate" => Fail
      BY <1>1, <1>2, Leads DEF Goes, NextCall, On, Enter
    <3>2. QED
      BY <1>1, <1>2, <1>3, <2>2, <3>1, Carries, UpdatePlaces DEF Untrusting, Installing
  <2>3. QED
    BY <2>1, <2>2
<1>5. /\ Driver \in Versions
      /\ at <= 7 => Handed = None
      /\ machine.staged[Driver] # None
      /\ at <= 2 => run.cert = None
  BY NamesTyped DEF PackInv, UpdatePacks, SignInv, UpdateSigns
<1>6. /\ \A n \in Values \ Pending : machine'.reg[n] = machine.reg[n]
      /\ Driver' = Driver
  <2>1. CASE at \in {5, 8}
    <3>1. WriteValue /\ Call \in {"recordCert", "recordInf"}
      BY <1>1, <2>1, UpdatePlaces, OneAction
    <3>2. Written[Call] \in Pending
      BY <3>1 DEF Written, Pending
    <3>3. \A n \in Values \ Pending : machine'.reg[n] = machine.reg[n]
      BY <1>1, <3>1, <3>2, Writes
    <3>4. "DriverInf" \in Values \ Pending
      BY DEF Values, InfValues, Pending
    <3>5. QED
      BY <3>3, <3>4 DEF Driver, reg
  <2>2. CASE at \notin {5, 8}
    <3>1. UNCHANGED machine.reg
      BY <1>1, <2>2, UpdatePlaces, Effects DEF Writing, Forgetting
    <3>2. QED
      BY <3>1 DEF Driver, reg
  <2>3. QED
    BY <2>1, <2>2
<1>7. Node' = Node
  <2>1. CASE at = 9
    <3>1. UpdateDevice
      BY <1>1, <2>1, UpdatePlaces, OneAction
    <3>2. \A r : ~AdvanceWith(r)
      BY <1>1, <1>3, <2>1, Leads DEF Enter
    <3>3. QED
      BY <3>1, <3>2, Binds DEF Node
  <2>2. CASE at # 9
    BY <1>1, <1>2, <2>2, UpdatePlaces
  <2>3. QED
    BY <2>1, <2>2
<1>8. CASE at = 2
  <2>1. CreateSigningCert
    BY <1>1, <1>8, UpdatePlaces, OneAction
  <2>2. UNCHANGED <<machine.trust, machine.staged>>
    BY <2>1, Creates
  <2>3. Handed' = Handed
    BY <1>1, <1>4, <1>8, UpdatePlaces DEF Carried, Handed
  <2>4. CASE Fail
    BY <1>2, <1>4, <1>6, <1>7, <2>2, <2>3, <2>4, KeptStays
  <2>5. CASE ~Fail
    <3>1. PICK c \in Certs : Unused(c) /\ AdvanceWith([run EXCEPT !.cert = c])
      BY <2>1, <2>5, Creates
    <3>2. run' = [run EXCEPT !.cert = c]
      BY <1>1, <1>8, <3>1, Leads DEF On, Enter
    <3>3. run'.cert = c /\ machine.trust[c] = {}
      BY <1>1, <3>1, <3>2 DEF Runs, Unused
    <3>4. before.trust[c] = {} /\ \A d \in Certs : machine.trust[d] = before.trust[d]
      BY <1>5, <1>8, <3>3, StoresTyped DEF KeptInv
    <3>5. QED
      BY <1>2, <1>3, <1>4, <1>6, <1>7, <2>2, <2>3, <2>5, <3>3, <3>4 DEF KeptInv
  <2>6. QED
    BY <2>4, <2>5
<1>9. CASE at = 7
  <2>1. StagePackage
    BY <1>1, <1>9, UpdatePlaces, OneAction
  <2>2. UNCHANGED machine.trust /\ run'.cert = run.cert
    BY <1>1, <1>4, <1>9, <2>1, Stages, UpdatePlaces DEF Carried
  <2>3. CASE Fail
    <3>1. \/ UNCHANGED machine.staged
          \/ AdvanceWith([run EXCEPT !.published = run.version])
      BY <2>1, Stages
    <3>2. ~AdvanceWith([run EXCEPT !.published = run.version])
      BY <1>1, <1>4, <1>9, <2>3, Leads DEF On, Enter
    <3>3. QED
      BY <1>2, <1>4, <1>6, <1>7, <2>2, <2>3, <3>1, <3>2, KeptStays DEF Handed
  <2>4. CASE ~Fail
    <3>1. /\ machine'.staged = [machine.staged EXCEPT
                                  ![run.version] = IF @ = None THEN run.cert ELSE @]
          /\ AdvanceWith([run EXCEPT !.published = run.version])
      BY <2>1, <2>4, Stages
    <3>2. run' = [run EXCEPT !.published = run.version]
      BY <1>1, <1>9, <3>1, Leads DEF On, Enter
    <3>3. Handed' = run.version
      BY <1>1, <3>2 DEF Runs, Handed
    <3>4. \A v \in Versions : machine.staged[v] = before.staged[v]
      <4>1. Handed = None /\ None \notin Versions
        BY <1>5, <1>9, NamesTyped
      <4>2. \A v \in Versions \ {Handed} : machine.staged[v] = before.staged[v]
        BY DEF KeptInv
      <4>3. QED
        BY <4>1, <4>2
    <3>5. \A v \in Versions \ {run.version} : machine'.staged[v] = machine.staged[v]
      BY <1>1, <3>1, StoresTyped
    <3>6. run.version = Driver => machine'.staged[run.version] = machine.staged[run.version]
      BY <1>1, <1>5, <3>1, StoresTyped
    <3>7. run.version # Driver => machine.staged[run.version] = None
      <4>1. run.version # Driver => run.version \notin Staged
        BY <1>1, <1>5, <1>9, PacksNow, NamesTyped DEF PackInv, UpdatePacks
      <4>2. QED
        BY <1>1, <4>1 DEF Staged
    <3>8. QED
      BY <1>1, <1>2, <1>4, <1>6, <1>7, <2>2, <2>4, <3>3, <3>4, <3>5, <3>6, <3>7 DEF KeptInv
  <2>5. QED
    BY <2>3, <2>4
<1>10. CASE at \notin {2, 7}
  <2>1. run'.cert = run.cert /\ Handed' = Handed
    BY <1>1, <1>4, <1>10, UpdatePlaces DEF Carried, Handed
  <2>2. UNCHANGED machine.staged
    BY <1>1, <1>10, UpdatePlaces, OneAction, Writes, Signs, Destroys, Trusts, Copies, Binds
  <2>3. \A c \in Certs \ {run.cert} : machine'.trust[c] = machine.trust[c]
    <3>1. CASE at = 6
      <4>1. TrustCertificate
        BY <1>1, <3>1, UpdatePlaces, OneAction
      <4>2. QED
        BY <4>1, Trusts, StoresTyped
    <3>2. CASE at # 6
      BY <1>1, <1>10, <3>2, UpdatePlaces, OneAction, Writes, Signs, Destroys, Copies, Binds
    <3>3. QED
      BY <3>1, <3>2
  <2>4. QED
    BY <1>2, <1>3, <1>4, <1>6, <1>7, <2>1, <2>2, <2>3, KeptStays
<1>11. QED
  BY <1>8, <1>9, <1>10

LEMMA FailUpdateKept ==
  ASSUME Inv, PackInv, KeptInv, Gentle, Next, ~Crash, script = "failUpdate"
  PROVE  /\ KeptInv'
         /\ \A n \in Values \ Pending : machine'.reg[n] = machine.reg[n]
         /\ at = 4 => /\ UNCHANGED <<machine.trust, machine.staged, machine.node, before>>
                      /\ PendingCert' = None /\ PendingDriver' = PendingDriver
<1>1. /\ Place /\ at \in 1 .. 4 /\ DOMAIN machine.reg = Values
      /\ {"PendingCertThumbprint", "PendingDriverInf", "DriverInf"} \subseteq Values
  BY FailUpdatePlaces DEF Inv, Typed, Machines, Values, CertValues, InfValues
<1>2. /\ Goes /\ Call # "choose" /\ UNCHANGED before
      /\ Call \notin {"removeNode", "register", "bind"} => Node' = Node
      /\ Call \notin Writing \cup Forgetting \cup {"deleteState"} => UNCHANGED machine.reg
  BY <1>1, FailUpdatePlaces, Effects
<1>3. Node' = Node
  BY <1>1, <1>2, FailUpdatePlaces
<1>4. \/ script' = "idle"
      \/ /\ script' = "failUpdate" /\ run'.cert = run.cert /\ Handed' = Handed
         /\ at' = at + 1 \/ (at' = at /\ at = 2)
  <2>1. CASE NextCall
    <3>1. PICK r : AdvanceWith(r) /\ r.published = Handed /\ r.cert = run.cert
      BY <1>1, <2>1, FailUpdatePlaces DEF NextCall
    <3>2. QED
      BY <1>1, <3>1, Leads DEF On, Enter, EndRun, Handed
  <2>2. CASE Enter(script, at, run) /\ Call \in Untrusting \cup {"trust"}
    BY <1>1, <2>2, FailUpdatePlaces DEF Enter, Handed, Untrusting
  <2>3. QED
    BY <1>1, <1>2, <2>1, <2>2, FailUpdatePlaces DEF Goes
<1>5. script' = "idle" => KeptInv'
  BY DEF KeptInv
<1>6. CASE at = 1
  <2>1. UnstagePackage /\ Call = "dropPackage"
    BY <1>1, <1>6, FailUpdatePlaces, OneAction
  <2>2. PICK v : v = Unstaged[Call]
    OBVIOUS
  <2>3. v \in {None, Handed} /\ (Handed = Driver => v = None)
    BY <2>1, <2>2 DEF Unstaged, SameName, Handed, Driver
  <2>4. /\ UNCHANGED <<machine.reg, machine.trust>>
        /\ \/ UNCHANGED machine.staged
           \/ v # None /\ machine'.staged = [machine.staged EXCEPT ![v] = None]
    BY <2>1, <2>2, Unstages
  <2>5. /\ \A u \in Versions \ {Handed} : machine'.staged[u] = machine.staged[u]
        /\ Handed = Driver => machine'.staged[Handed] = machine.staged[Handed]
    BY <2>3, <2>4, StoresTyped
  <2>6. Driver' = Driver
    BY <2>4 DEF Driver, reg
  <2>7. QED
    BY <1>1, <1>2, <1>3, <1>4, <1>5, <1>6, <2>4, <2>5, <2>6, KeptStays
<1>7. CASE at = 2
  <2>1. RemoveTrustedCertificate /\ Untrusted[Call] = run.cert
    BY <1>1, <1>7, FailUpdatePlaces, OneAction DEF Untrusted
  <2>2. UNCHANGED <<machine.reg, machine.staged>>
    BY <2>1, Untrusts
  <2>3. \A c \in Certs \ {run.cert} : machine'.trust[c] = machine.trust[c]
    BY <2>1, OtherTrust
  <2>4. Driver' = Driver
    BY <2>2 DEF Driver, reg
  <2>5. QED
    BY <1>1, <1>2, <1>3, <1>4, <1>5, <1>7, <2>2, <2>3, <2>4, KeptStays
<1>8. CASE at \in {3, 4}
  <2>1. DeleteValue /\ Call = IF at = 3 THEN "forgetPendingInf" ELSE "forgetPendingCert"
    BY <1>1, <1>8, FailUpdatePlaces, OneAction
  <2>2. /\ UNCHANGED <<machine.trust, machine.staged, machine.node>>
        /\ machine'.reg = [machine.reg EXCEPT ![Forgotten[Call]] = None]
    BY <2>1, Deletes
  <2>3. /\ at = 3 => Forgotten[Call] = "PendingDriverInf"
        /\ at = 4 => Forgotten[Call] = "PendingCertThumbprint"
    BY <2>1 DEF Forgotten
  <2>4. /\ \A n \in Values \ Pending : machine'.reg[n] = machine.reg[n]
        /\ at = 3 => PendingDriver' = None
        /\ at = 4 => PendingCert' = None /\ PendingDriver' = PendingDriver
        /\ Driver' = Driver
    BY <1>1, <1>8, <2>2, <2>3, AllNames DEF Pending
  <2>5. script' = "failUpdate" /\ at' > 3 => PendingDriver' = None
    BY <1>1, <1>4, <1>8, <2>4 DEF KeptInv
  <2>6. KeptInv'
    BY <1>2, <1>3, <1>4, <1>5, <2>2, <2>4, <2>5, KeptStays
  <2>7. QED
    BY <1>2, <1>8, <2>2, <2>4, <2>6
<1>9. QED
  BY <1>1, <1>6, <1>7, <1>8

LEMMA KeptInvSteps ==
  ASSUME Gentle, Inv, PackInv, SignInv, KeptInv, [Next]_vars
  PROVE  KeptInv'
<1>1. CASE UNCHANGED vars
  BY <1>1 DEF vars, KeptInv, Node, Handed, Driver, PendingDriver, reg
<1>2. CASE Next /\ script = "idle"
  BY <1>2, IdleSteps DEF KeptInv
<1>3. CASE Crash
  BY <1>3, CrashSteps DEF KeptInv
<1>4. CASE Next /\ script # "idle" /\ ~Crash /\ Call = "choose"
  <2>1. /\ script' = InstallMode /\ at' = 1 /\ UNCHANGED <<run, machine>> /\ before' = machine
        /\ script' \in {"fresh", "update", "reinstall"}
    BY <1>4, ChooseSteps
  <2>2. script \in {"retire", "choose"}
    BY <1>4, CallSites DEF Inv, Typed
  <2>3. run.cert = None /\ Handed = None
    BY <2>2 DEF SignInv, SettledSigns, PackInv, SettledPacks
  <2>4. script' = "update" => \A n \in Pending : machine.reg[n] = None
    BY <2>1 DEF InstallMode, Pending, reg
  <2>5. Handed' = None /\ run'.cert = None /\ Node' = before'.node
    BY <2>1, <2>3 DEF Handed, Node
  <2>6. QED
    BY <2>1, <2>4, <2>5 DEF KeptInv
<1>5. CASE Next /\ script \in {"update", "failUpdate"} /\ ~Crash
  BY <1>5, UpdateKept, FailUpdateKept
<1>6. CASE /\ Next /\ script \notin {"idle", "update", "failUpdate"} /\ ~Crash
           /\ Call # "choose"
  <2>1. Goes /\ Place
    BY <1>6, Effects DEF Inv, Typed
  <2>2. script' \notin {"update", "failUpdate"}
    <3>1. CASE Enter(script, at, run) \/ Enter(script, at + 2, run)
      BY <1>6, <3>1 DEF Enter
    <3>2. CASE NextCall
      BY <1>6, <2>1, <3>2, AdvanceMoves DEF NextCall, Moves
    <3>3. CASE Fail /\ script \in {"fresh", "update", "same", "promote"}
      BY <1>6, <3>3, FailMoves DEF Moves
    <3>4. QED
      BY <2>1, <3>1, <3>2, <3>3 DEF Goes
  <2>3. QED
    BY <2>2 DEF KeptInv
<1>7. QED
  BY <1>1, <1>2, <1>3, <1>4, <1>5, <1>6

LEMMA BeforeKnown == Gentle => (Spec => []KeptInv)
<1> SUFFICES ASSUME Gentle PROVE Spec => []KeptInv
  OBVIOUS
<1>1. Init => KeptInv
  BY DEF Init, KeptInv
<1>2. Inv /\ PackInv /\ SignInv /\ KeptInv /\ [Next]_vars => KeptInv'
  BY KeptInvSteps
<1>3. QED
  BY <1>1, <1>2, FlowInvariant, PackagesKnown, SignersKnown, PTL DEF Spec

\* The last call of a failed update.
LEMMA KeptComes ==
  ASSUME Inv, Inv', Recording, PackInv, KeptInv, NoCertRefused, Gentle, Next, ~Crash,
         script = "failUpdate", at = 4
  PROVE  /\ machine'.reg = before'.reg /\ machine'.trust = before'.trust
         /\ machine'.staged = before'.staged /\ machine'.node = before'.node
<1>1. /\ \A n \in Values \ Pending : machine'.reg[n] = machine.reg[n]
      /\ UNCHANGED <<machine.trust, machine.staged, machine.node, before>>
      /\ PendingCert' = None /\ PendingDriver' = PendingDriver
  BY FailUpdateKept
<1>2. /\ \A n \in Values \ Pending : machine.reg[n] = before.reg[n]
      /\ \A n \in Pending : before.reg[n] = None
      /\ Node = before.node
      /\ \A c \in Certs \ {run.cert} : machine.trust[c] = before.trust[c]
      /\ run.cert # None => before.trust[run.cert] = {}
      /\ \A v \in Versions \ {Handed} : machine.staged[v] = before.staged[v]
      /\ Handed = Driver => machine.staged[Handed] = before.staged[Handed]
      /\ Handed \notin {None, Driver} => before.staged[Handed] = None
      /\ PendingDriver = None
  BY DEF KeptInv
<1>3. /\ \A n \in Pending : machine'.reg[n] = None
  BY <1>1, <1>2 DEF Pending, PendingCert, PendingDriver, reg
<1>4. /\ machine.trust \in [Certs -> SUBSET TrustStores]
      /\ before.trust \in [Certs -> SUBSET TrustStores]
      /\ machine.staged \in [Versions -> Certs \cup {None}]
      /\ before.staged \in [Versions -> Certs \cup {None}]
      /\ DOMAIN machine'.reg = Values /\ DOMAIN before.reg = Values
      /\ \E T : machine'.reg \in [Values -> T] /\ before.reg \in [Values -> T]
  <2>1. machine' \in Machines /\ before \in Machines /\ machine \in Machines
    BY DEF Inv, Typed
  <2>2. /\ machine'.reg \in [Values -> Versions \cup Certs \cup {None, "dir"}]
        /\ before.reg \in [Values -> Versions \cup Certs \cup {None, "dir"}]
    BY <2>1 DEF Machines
  <2>3. QED
    BY <2>1, <2>2 DEF Machines
<1>5. machine'.reg = before.reg
  BY <1>1, <1>2, <1>3, <1>4
<1>6. \A c \in Certs : machine.trust[c] = before.trust[c]
  <2>1. run.cert \in Certs => machine.trust[run.cert] = {}
    BY DEF Recording, RecordFits, Held, Trusted, NoCertRefused
  <2>2. QED
    BY <1>2, <2>1, StoresTyped
<1>7. \A v \in Versions : machine.staged[v] = before.staged[v]
  <2>1. Handed = Driver \/ Handed \notin Staged
    BY DEF PackInv, FailPacks
  <2>2. Handed \in Versions /\ Handed # Driver => machine.staged[Handed] = None
    BY <2>1 DEF Staged
  <2>3. QED
    BY <1>2, <2>2, NamesTyped
<1>8. machine.trust = before.trust /\ machine.staged = before.staged
  BY <1>4, <1>6, <1>7
<1>9. QED
  BY <1>1, <1>2, <1>5, <1>8 DEF Node

LEMMA KeptRemains ==
  ASSUME Gentle, Inv, Inv', Recording, PackInv, KeptInv, NoCertRefused, KeptIsAsBefore,
         [Next]_vars
  PROVE  KeptIsAsBefore'
<1>1. CASE UNCHANGED vars
  BY <1>1 DEF vars, KeptIsAsBefore, reg
<1>2. CASE Next /\ script = "idle"
  <2>1. CASE script' # "idle"
    BY <2>1 DEF KeptIsAsBefore
  <2>2. CASE script' = "idle"
    BY <1>2, <2>2, IdleSteps DEF KeptIsAsBefore, Node
  <2>3. QED
    BY <2>1, <2>2
<1>3. CASE Crash
  BY <1>3, CrashSteps DEF KeptIsAsBefore
<1>4. CASE Next /\ script # "idle" /\ ~Crash /\ Call = "choose"
  BY <1>4, ChooseSteps DEF KeptIsAsBefore
<1>5. CASE Next /\ script # "idle" /\ ~Crash /\ Call # "choose"
  <2>1. ASSUME script' = "idle", outcome' = "kept"
        PROVE  KeptIsAsBefore'
    <3>1. script = "failUpdate" /\ at = 4
      BY <1>5, <2>1, Effects, Ends DEF Inv, Typed
    <3>2. QED
      BY <1>5, <3>1, KeptComes DEF KeptIsAsBefore
  <2>2. QED
    BY <2>1 DEF KeptIsAsBefore
<1>6. QED
  BY <1>1, <1>2, <1>3, <1>4, <1>5

(* An update that fails before the device takes the new package, and says it *)
(* keeps the existing install, has put the record, the trust stores, the     *)
(* driver store and the node back exactly as it found them, whichever call   *)
(* failed and whatever earlier runs had left (FailUpdate,                    *)
(* install_flow.cpp:39-50, and RunUpdate up to line 93).  It is proved where *)
(* what Windows is asked to take away goes (Gentle).                         *)
THEOREM FailedUpdateKeepsAll == Gentle => (Spec => []KeptIsAsBefore)
<1> SUFFICES ASSUME Gentle PROVE Spec => []KeptIsAsBefore
  OBVIOUS
<1>1. Init => KeptIsAsBefore
  BY DEF Init, KeptIsAsBefore
<1>2. Inv /\ Inv' /\ Recording /\ PackInv /\ KeptInv /\ NoCertRefused /\ KeptIsAsBefore
      /\ [Next]_vars => KeptIsAsBefore'
  BY KeptRemains
<1>3. QED
  BY <1>1, <1>2, FlowInvariant, RecordKept, PackagesKnown, BeforeKnown, CertsGo, PTL
     DEF Spec
=============================================================================
