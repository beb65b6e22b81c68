--------------------------- MODULE InstallUndoProofs ---------------------------
(***************************************************************************)
(* What every run leaves behind where Windows takes away what it is asked  *)
(* to: record, packages and signers that agree, and so a driver in use     *)
(* whose signer is trusted.  First a table of what each call of each list  *)
(* does to the machine, then the invariants, each proved call by call from *)
(* that table.                                                             *)
(***************************************************************************)
EXTENDS InstallFlowProofs

\* The failures a run answers for: what Windows is asked to take away goes, a
\* driver with its node, and no run dies between the staging of a package and
\* its recording.
Gentle ==
    /\ Fallible \cap {"unload", "remove", "unstage", "untrust", "forget"} = {}
    /\ ~DiesUnrecorded

Driver == reg["DriverInf"]
PendingDriver == reg["PendingDriverInf"]
PreviousDriver == reg["PreviousDriverInf"]
Node == machine.node
Loaded == machine.loaded

-----------------------------------------------------------------------------
(* Where each call is made. *)

\* The calls of each list, by position.
LEMMA FreshPlaces ==
  ASSUME Place, script = "fresh"
  PROVE  /\ at \in 1 .. 13
         /\ at = 1 => Call = "recordDir"
         /\ at = 2 => Call = "copy"
         /\ at = 3 => Call = "key"
         /\ at = 4 => Call = "sign"
         /\ at = 5 => Call = "destroyKey"
         /\ at = 6 => Call = "recordCert"
         /\ at = 7 => Call = "trust"
         /\ at = 8 => Call = "removeNode"
         /\ at = 9 => Call = "stage"
         /\ at = 10 => Call = "register"
         /\ at = 11 => Call = "bind"
         /\ at = 12 => Call = "recordInf"
         /\ at = 13 => Call = "recordVersion"
<1>1. at \in 1 .. 13 /\ Call = FreshScript[at]
  BY ScriptNames, ScriptLengths DEF Place, Call
<1>2. QED
  BY <1>1 DEF FreshScript

LEMMA UpdatePlaces ==
  ASSUME Place, script = "update"
  PROVE  /\ at \in 1 .. 9
         /\ at = 1 => Call = "copy"
         /\ at = 2 => Call = "key"
         /\ at = 3 => Call = "sign"
         /\ at = 4 => Call = "destroyKey"
         /\ at = 5 => Call = "recordCert"
         /\ at = 6 => Call = "trust"
         /\ at = 7 => Call = "stage"
         /\ at = 8 => Call = "recordInf"
         /\ at = 9 => Call = "bind"
<1>1. at \in 1 .. 9 /\ Call = UpdateScript[at]
  BY ScriptNames, ScriptLengths DEF Place, Call
<1>2. QED
  BY <1>1 DEF UpdateScript

LEMMA SamePlaces ==
  ASSUME Place, script = "same"
  PROVE  /\ at \in 1 .. 4
         /\ at = 1 => Call = "untrustNew"
         /\ at = 2 => Call = "forgetPendingCert"
         /\ at = 3 => Call = "forgetPendingInf"
         /\ at = 4 => Call = "recordVersion"
<1>1. at \in 1 .. 4 /\ Call = SameScript[at]
  BY ScriptNames, ScriptLengths DEF Place, Call
<1>2. QED
  BY <1>1 DEF SameScript

LEMMA PromotePlaces ==
  ASSUME Place, script = "promote"
  PROVE  /\ at \in 1 .. 11
         /\ at = 1 => Call = "recordPreviousCert"
         /\ at = 2 => Call = "recordPreviousInf"
         /\ at = 3 => Call = "promoteCert"
         /\ at = 4 => Call = "promoteInf"
         /\ at = 5 => Call = "forgetPendingCert"
         /\ at = 6 => Call = "forgetPendingInf"
         /\ at = 7 => Call = "retireCert"
         /\ at = 8 => Call = "forgetPreviousCert"
         /\ at = 9 => Call = "retireInf"
         /\ at = 10 => Call = "forgetPreviousInf"
         /\ at = 11 => Call = "recordVersion"
<1>1. at \in 1 .. 11 /\ Call = PromoteScript[at]
  BY ScriptNames, ScriptLengths DEF Place, Call
<1>2. QED
  BY <1>1 DEF PromoteScript

LEMMA RetirePlaces ==
  ASSUME Place, script = "retire"
  PROVE  /\ at \in 1 .. 5
         /\ at = 1 => Call = "retireCert"
         /\ at = 2 => Call = "forgetPreviousCert"
         /\ at = 3 => Call = "retireInf"
         /\ at = 4 => Call = "forgetPreviousInf"
         /\ at = 5 => Call = "choose"
<1>1. at \in 1 .. 5 /\ Call = RetireScript[at]
  BY ScriptNames, ScriptLengths DEF Place, Call
<1>2. QED
  BY <1>1 DEF RetireScript

LEMMA FailUpdatePlaces ==
  ASSUME Place, script = "failUpdate"
  PROVE  /\ at \in 1 .. 4
         /\ at = 1 => Call = "dropPackage"
         /\ at = 2 => Call = "untrustNew"
         /\ at = 3 => Call = "forgetPendingInf"
         /\ at = 4 => Call = "forgetPendingCert"
<1>1. at \in 1 .. 4 /\ Call = FailUpdateScript[at]
  BY ScriptNames, ScriptLengths DEF Place, Call
<1>2. QED
  BY <1>1 DEF FailUpdateScript

LEMMA UnwindPlaces ==
  ASSUME Place, script = "unwind"
  PROVE  at \in 1 .. 2 /\ (at = 1 => Call = "removeNode") /\ (at = 2 => Call = "dropPackage")
<1>1. at \in 1 .. 2 /\ Call = UnwindScript[at]
  BY ScriptNames, ScriptLengths DEF Place, Call
<1>2. QED
  BY <1>1 DEF UnwindScript

LEMMA UninstallPlaces ==
  ASSUME Place, script \in Undoing
  PROVE  /\ at \in 1 .. 9
         /\ at = 1 => Call = "removeNode"
         /\ at = 2 => Call = "unstageDriver"
         /\ at = 3 => Call = "unstagePending"
         /\ at = 4 => Call = "unstagePrevious"
         /\ at = 5 => Call = "untrustCert"
         /\ at = 6 => Call = "untrustPending"
         /\ at = 7 => Call = "untrustPrevious"
         /\ at = 8 => Call = "removeFiles"
         /\ at = 9 => Call = "deleteState"
<1>1. at \in 1 .. 9 /\ Call = UninstallScript[at]
  BY ScriptNames, ScriptLengths DEF Place, Call, Undoing
<1>2. QED
  BY <1>1 DEF UninstallScript

-----------------------------------------------------------------------------
(* What each call does to the machine, field by field. *)

LEMMA Writes ==
  ASSUME Inv, WriteValue
  PROVE  /\ UNCHANGED <<machine.trust, machine.staged, machine.node, machine.loaded,
                        machine.files, before>>
         /\ \/ UNCHANGED machine.reg /\ Fail
            \/ /\ machine'.reg = [machine.reg EXCEPT ![Written[Call]] = ValueFor[Call]]
               /\ Advance
<1>1. machine \in Machines
  BY DEF Inv, Typed
<1>2. QED
  BY <1>1 DEF WriteValue, Set, Fails, Machines

LEMMA Deletes ==
  ASSUME Inv, Gentle, DeleteValue
  PROVE  /\ UNCHANGED <<machine.trust, machine.staged, machine.node, machine.loaded,
                        machine.files, before>>
         /\ machine'.reg = [machine.reg EXCEPT ![Forgotten[Call]] = None]
         /\ Advance
<1>1. machine \in Machines
  BY DEF Inv, Typed
<1>2. QED
  BY <1>1 DEF DeleteValue, Gentle, Fault, Set, Machines

LEMMA DeletesState ==
  ASSUME Inv, Gentle, DeleteState
  PROVE  /\ UNCHANGED <<machine.trust, machine.staged, machine.node, machine.loaded,
                        machine.files, before>>
         /\ machine'.reg = [n \in Values |-> None]
         /\ Advance
<1>1. machine \in Machines
  BY DEF Inv, Typed
<1>2. QED
  BY <1>1 DEF DeleteState, Gentle, Fault, Set, Machines, CleanMachine

LEMMA Creates ==
  ASSUME Inv, CreateSigningCert
  PROVE  /\ UNCHANGED <<machine.reg, machine.trust, machine.staged, machine.node,
                        machine.loaded, machine.files, before>>
         /\ \/ Fail
            \/ \E c \in Certs : Unused(c) /\ AdvanceWith([run EXCEPT !.cert = c])
<1>1. machine \in Machines
  BY DEF Inv, Typed
<1>2. QED
  BY <1>1 DEF CreateSigningCert, Set, Fails, Machines

LEMMA Signs ==
  ASSUME Inv, SignFiles
  PROVE  /\ UNCHANGED <<machine, before>>
         /\ \E b \in BOOLEAN : AdvanceWith([run EXCEPT !.signed = b])
  BY DEF SignFiles

LEMMA Destroys ==
  ASSUME Inv, DestroySigningKey
  PROVE  /\ UNCHANGED <<machine.reg, machine.trust, machine.staged, machine.node,
                        machine.loaded, machine.files, before>>
         /\ Advance \/ Fail
<1>1. machine \in Machines
  BY DEF Inv, Typed
<1>2. QED
  BY <1>1 DEF DestroySigningKey, Set, Machines

LEMMA Trusts ==
  ASSUME Inv, TrustCertificate
  PROVE  /\ UNCHANGED <<machine.reg, machine.staged, machine.node, machine.loaded,
                        machine.files, before>>
         /\ \/ UNCHANGED machine.trust /\ Fail
            \/ /\ machine'.trust = [machine.trust EXCEPT ![run.cert] = {"Root"}]
               /\ Enter(script, at, run)
            \/ /\ machine'.trust = [machine.trust EXCEPT ![run.cert] = TrustStores]
               /\ Advance
<1>1. machine \in Machines
  BY DEF Inv, Typed
<1>2. QED
  BY <1>1 DEF TrustCertificate, Set, Fails, Machines

LEMMA Untrusts ==
  ASSUME Inv, Gentle, RemoveTrustedCertificate, NEW c, c = Untrusted[Call]
  PROVE  /\ UNCHANGED <<machine.reg, machine.staged, machine.node, machine.loaded,
                        machine.files, before>>
         /\ \/ c = None /\ UNCHANGED machine.trust /\ Advance
            \/ /\ c # None
               /\ machine'.trust = [machine.trust EXCEPT ![c] = @ \ {"Root"}]
               /\ Enter(script, at, run)
            \/ c # None /\ machine'.trust = [machine.trust EXCEPT ![c] = {}] /\ Advance
<1>1. machine \in Machines
  BY DEF Inv, Typed
<1>2. QED
  BY <1>1 DEF RemoveTrustedCertificate, Gentle, Fault, Set, Machines

LEMMA Stages ==
  ASSUME Inv, StagePackage
  PROVE  /\ UNCHANGED <<machine.reg, machine.trust, machine.node, machine.loaded,
                        machine.files, before>>
         /\ \/ UNCHANGED machine.staged /\ Fail
            \/ /\ machine'.staged = [machine.staged EXCEPT
                                       ![run.version] = IF @ = None THEN run.cert ELSE @]
               /\ AdvanceWith([run EXCEPT !.published = run.version])
<1>1. machine \in Machines
  BY DEF Inv, Typed
<1>2. QED
  BY <1>1 DEF StagePackage, Set, Fails, Machines

LEMMA Unstages ==
  ASSUME Inv, Gentle, UnstagePackage, NEW v, v = Unstaged[Call]
  PROVE  /\ UNCHANGED <<machine.reg, machine.trust, machine.node, machine.loaded,
                        machine.files, before>>
         /\ \/ v = None /\ UNCHANGED machine.staged /\ Advance
            \/ /\ v # None /\ Removable(v)
               /\ machine'.staged = [machine.staged EXCEPT ![v] = None]
               /\ Advance
            \/ /\ v # None /\ ~Removable(v) /\ UNCHANGED machine.staged
               /\ IF Call = "retireInf" THEN Enter(script, at + 2, run) ELSE Advance
<1>1. machine \in Machines
  BY DEF Inv, Typed
<1>2. QED
  BY <1>1 DEF UnstagePackage, Gentle, Fault, Refused, Set, Machines

LEMMA RemovesDevices ==
  ASSUME Inv, Gentle, RemoveDevices
  PROVE  /\ UNCHANGED <<machine.reg, machine.trust, machine.staged, machine.files, before>>
         /\ machine'.node = None /\ machine'.loaded = {}
         /\ Advance
<1>1. machine \in Machines
  BY DEF Inv, Typed
<1>2. PICK left \in {{}, machine.loaded} :
         /\ machine' = [machine EXCEPT !.node = None, !.loaded = left]
         /\ IF left = {} THEN UNCHANGED faults ELSE Fault("unload")
  BY DEF RemoveDevices, Gentle, Fault
<1>3. left = {}
  BY <1>2 DEF Gentle, Fault
<1>4. QED
  BY <1>1, <1>2, <1>3 DEF RemoveDevices, Refused, Machines

LEMMA Registers ==
  ASSUME Inv, RegisterDevice
  PROVE  /\ UNCHANGED <<machine.reg, machine.trust, machine.staged, machine.loaded,
                        machine.files, before>>
         /\ \/ UNCHANGED machine.node /\ Fail
            \/ machine'.node = "bare" /\ Advance
<1>1. machine \in Machines
  BY DEF Inv, Typed
<1>2. QED
  BY <1>1 DEF RegisterDevice, Set, Fails, Machines

LEMMA Binds ==
  ASSUME Inv, UpdateDevice
  PROVE  /\ UNCHANGED <<machine.reg, machine.trust, machine.staged, machine.files, before>>
         /\ \/ UNCHANGED <<machine.node, machine.loaded>> /\ Fail
            \/ /\ machine'.node = run.published /\ machine'.loaded = {run.published}
               /\ AdvanceWith([run EXCEPT !.reboot = FALSE])
            \/ /\ machine'.node = run.published /\ UNCHANGED machine.loaded
               /\ AdvanceWith([run EXCEPT !.reboot = TRUE])
<1>1. machine \in Machines
  BY DEF Inv, Typed
<1>2. QED
  BY <1>1 DEF UpdateDevice, Set, Fails, Machines

LEMMA Copies ==
  ASSUME Inv, CopyPayload
  PROVE  /\ UNCHANGED <<machine.reg, machine.trust, machine.staged, machine.node,
                        machine.loaded, before>>
         /\ \/ machine'.files \in {machine.files, "mixed"} /\ Fail
            \/ machine'.files = run.version /\ Advance
<1>1. machine \in Machines
  BY DEF Inv, Typed
<1>2. QED
  BY <1>1 DEF CopyPayload, Set, Fails, Machines

LEMMA RemovesDir ==
  ASSUME Inv, RemoveInstallDir
  PROVE  /\ UNCHANGED <<machine.reg, machine.trust, machine.staged, machine.node,
                        machine.loaded, before>>
         /\ machine'.files = IF reg["InstallDir"] = None THEN machine.files ELSE None
         /\ Advance
<1>1. machine \in Machines
  BY DEF Inv, Typed
<1>2. QED
  BY <1>1 DEF RemoveInstallDir, Set, Machines

-----------------------------------------------------------------------------
(* Where each list leads. *)

On(r) == Enter(script, at + 1, r)

LEMMA Leads ==
  ASSUME Place, script # "idle", NEW r, AdvanceWith(r)
  PROVE  /\ script = "fresh" => IF at < 13 THEN On(r)
                                ELSE EndRun(IF r.reboot THEN "reboot" ELSE "installed")
         /\ script = "update" => IF at < 9 THEN On(r)
                ELSE Enter(IF r.published = Driver THEN "same" ELSE "promote", 1, r)
         /\ script = "same" => IF at < 4 THEN On(r)
                               ELSE EndRun(IF r.reboot THEN "reboot" ELSE "installed")
         /\ script = "promote" => IF at < 11 THEN On(r)
                                  ELSE EndRun(IF r.reboot THEN "reboot" ELSE "installed")
         /\ script = "retire" => (at < 5 => On(r))
         /\ script = "failUpdate" => IF at < 4 THEN On(r) ELSE EndRun("kept")
         /\ script = "unwind" => IF at < 2 THEN On(r) ELSE Enter("rollback", 1, r)
         /\ script = "reinstall" => IF at < 9 THEN On(r) ELSE Enter("fresh", 1, r)
         /\ script = "rollback" => IF at < 9 THEN On(r) ELSE EndRun("rolledback")
         /\ script = "uninstall" => IF at < 9 THEN On(r) ELSE EndRun("uninstalled")
  BY ScriptNames, ScriptLengths DEF AdvanceWith, Finish, On, SameName, Driver

\* Which call of a fresh install fails decides what is undone.
LEMMA FailLeads ==
  ASSUME Place, Fail, script \in {"fresh", "update", "same", "promote"}
  PROVE  /\ script = "fresh" => IF at \in {11, 12} THEN Enter("unwind", 1, run)
                                ELSE IF at = 10 THEN Enter("unwind", 2, run)
                                ELSE Enter("rollback", 1, run)
         /\ script = "update" => Enter("failUpdate", 1, run)
         /\ script \in {"same", "promote"} => EndRun("broken")
<1>1. CASE script = "fresh"
  <2>1. /\ Call = "register" <=> at = 10
        /\ Call \in {"bind", "recordInf"} <=> at \in {11, 12}
    BY <1>1, FreshPlaces
  <2>2. QED
    BY <1>1, <2>1 DEF Fail
<1>2. CASE script # "fresh"
  BY <1>2 DEF Fail
<1>3. QED
  BY <1>1, <1>2

-----------------------------------------------------------------------------
(* The invariant of packages: at each place of each list, how the names the *)
(* record and the run hold stand to the driver store, the node and what is  *)
(* loaded.                                                                  *)

Handed == run.published

\* Each package the store holds is named by the record or by the run.
PackagesNamed == \A v \in Staged : Handed = v \/ \E n \in InfValues : reg[n] = v

\* No pending update stands in the way of what the record says.
Settled == script \in {"idle", "retire", "choose"} \cup Undoing /\ PendingDriver = None

SettledPacks ==
    /\ script \in {"idle", "retire", "choose"} => Handed = None
    /\ Settled => /\ Loaded \subseteq {Driver, PreviousDriver}
                  /\ Node \in Versions => Node = Driver
                  /\ Driver # None => Driver # PreviousDriver
    /\ Node = "bare" => Driver = None

FreshPacks ==
    script = "fresh" =>
        /\ PendingDriver = None /\ PreviousDriver = None
        /\ Driver = IF at <= 12 THEN None ELSE Handed
        /\ IF at <= 9 THEN Handed = None ELSE Handed \in Staged
        /\ IF at <= 11 THEN Loaded = {} /\ Node \notin Versions
                       ELSE Loaded \subseteq {Handed} /\ Node = Handed

UpdatePacks ==
    script = "update" =>
        /\ Driver # None /\ Loaded \subseteq {Driver} /\ Node = Driver
        /\ PreviousDriver = None
        /\ PendingDriver = IF at <= 8 THEN None ELSE Handed
        /\ at <= 7 => Handed = None

SamePacks ==
    script = "same" =>
        /\ Handed \in Versions /\ Driver = Handed
        /\ PendingDriver \in {None, Handed} /\ PreviousDriver = None
        /\ Loaded \subseteq {Handed} /\ Node = Handed

PromotePacks ==
    script = "promote" =>
        /\ Handed \in Versions /\ Node = Handed
        /\ Driver # None /\ PreviousDriver # Handed
        /\ Loaded \subseteq {Driver, PreviousDriver, Handed}
        /\ IF at <= 4 THEN Driver # Handed ELSE Driver = Handed
        /\ at <= 2 => PreviousDriver = None
        /\ at \in {3, 4} => PreviousDriver = Driver
        /\ PendingDriver = IF at <= 6 THEN Handed ELSE None
        /\ at = 10 => PreviousDriver \notin Staged \cup Loaded

FailPacks ==
    script = "failUpdate" =>
        /\ Driver # None /\ Loaded \subseteq {Driver} /\ Node = Driver
        /\ PreviousDriver = None /\ PendingDriver \in {None, Handed}
        /\ at > 1 => Handed = Driver \/ Handed \notin Staged

RetirePacks ==
    script = "retire" =>
        /\ PendingDriver = None
        /\ at = 4 => PreviousDriver \notin Staged \cup Loaded

UnwindPacks ==
    script = "unwind" =>
        /\ Driver = None /\ PendingDriver = None /\ PreviousDriver = None
        /\ Handed \in Staged
        /\ at = 2 => Loaded = {} /\ Node \notin Versions

UndoPacks ==
    script \in Undoing =>
        /\ Handed \notin Staged \ {Driver}
        /\ script # "rollback" => Handed = None
        /\ at > 1 => Loaded = {} /\ Node = None
        /\ at > 2 => Driver \notin Staged
        /\ at > 3 => PendingDriver \notin Staged
        /\ at > 4 => PreviousDriver \notin Staged

PackInv ==
    /\ PackagesNamed /\ SettledPacks
    /\ FreshPacks /\ UpdatePacks /\ SamePacks /\ PromotePacks /\ FailPacks
    /\ RetirePacks /\ UnwindPacks /\ UndoPacks

\* What these properties read of the machine.
SamePackView == UNCHANGED <<Driver, PendingDriver, PreviousDriver, machine.staged, Node, Loaded>>

LEMMA PacksNow ==
  /\ PackagesNamed <=> Staged \subseteq {Handed, Driver, PendingDriver, PreviousDriver}
  /\ Staged \subseteq Versions /\ None \notin Staged
  BY FlowAssumption DEF PackagesNamed, Staged, InfValues, Handed, Driver, PendingDriver,
     PreviousDriver

LEMMA PacksNext ==
  /\ PackagesNamed' <=> Staged' \subseteq {Handed', Driver', PendingDriver', PreviousDriver'}
  /\ Staged' \subseteq Versions /\ None \notin Staged'
  BY FlowAssumption DEF PackagesNamed, Staged, InfValues, Handed, Driver, PendingDriver,
     PreviousDriver, reg

\* The calls that leave the packages, the node and their records alone.
QuietCalls == {"recordDir", "copy", "key", "sign", "destroyKey", "recordCert", "trust",
               "recordVersion", "recordPreviousCert", "promoteCert", "forgetPendingCert",
               "forgetPreviousCert", "untrustNew", "retireCert", "untrustCert",
               "untrustPending", "untrustPrevious", "removeFiles"}

Quiet ==
    /\ SamePackView
    /\ \/ Fail /\ script \in {"fresh", "update", "same", "promote"}
       \/ Enter(script, at, run)
       \/ \E r : AdvanceWith(r) /\ r.published = Handed

LEMMA Dispatch ==
  ASSUME Next, script # "idle"
  PROVE  \/ Crash
         \/ Call = "choose" /\ ChooseInstallMode
         \/ Call \in DOMAIN Written /\ WriteValue
         \/ Call \in DOMAIN Forgotten /\ DeleteValue
         \/ Call = "deleteState" /\ DeleteState
         \/ Call = "key" /\ CreateSigningCert
         \/ Call = "sign" /\ SignFiles
         \/ Call = "destroyKey" /\ DestroySigningKey
         \/ Call = "trust" /\ TrustCertificate
         \/ Call \in DOMAIN Untrusted /\ RemoveTrustedCertificate
         \/ Call = "stage" /\ StagePackage
         \/ Call \in DOMAIN Unstaged /\ UnstagePackage
         \/ Call = "removeNode" /\ RemoveDevices
         \/ Call = "register" /\ RegisterDevice
         \/ Call = "bind" /\ UpdateDevice
         \/ Call = "copy" /\ CopyPayload
         \/ Call = "removeFiles" /\ RemoveInstallDir
<1>1. ~RunUninstall /\ ~Restart /\ \A v \in Versions : ~RunInstall(v)
  BY DEF RunInstall, RunUninstall, Restart
<1>2. /\ WriteValue => Call \in DOMAIN Written
      /\ DeleteValue => Call \in DOMAIN Forgotten
      /\ DeleteState => Call = "deleteState"
      /\ ChooseInstallMode => Call = "choose"
  BY DEF WriteValue, DeleteValue, DeleteState, ChooseInstallMode
<1>3. /\ CreateSigningCert => Call = "key"
      /\ SignFiles => Call = "sign"
      /\ DestroySigningKey => Call = "destroyKey"
      /\ TrustCertificate => Call = "trust"
      /\ RemoveTrustedCertificate => Call \in DOMAIN Untrusted
  BY DEF CreateSigningCert, SignFiles, DestroySigningKey, TrustCertificate,
     RemoveTrustedCertificate
<1>4. /\ StagePackage => Call = "stage"
      /\ UnstagePackage => Call \in DOMAIN Unstaged
      /\ RemoveDevices => Call = "removeNode"
      /\ RegisterDevice => Call = "register"
      /\ UpdateDevice => Call = "bind"
      /\ CopyPayload => Call = "copy"
      /\ RemoveInstallDir => Call = "removeFiles"
  BY DEF StagePackage, UnstagePackage, RemoveDevices, RegisterDevice, UpdateDevice,
     CopyPayload, RemoveInstallDir
<1>5. QED
  BY <1>1, <1>2, <1>3, <1>4 DEF Next

\* Each call is made by one action.
LEMMA OneAction ==
  ASSUME Next, script # "idle", ~Crash
  PROVE  /\ Call = "choose" => ChooseInstallMode
         /\ Call \in {"recordDir", "recordVersion", "recordCert", "recordInf",
                      "recordPreviousCert", "recordPreviousInf", "promoteCert",
                      "promoteInf"} => WriteValue
         /\ Call \in {"forgetPendingCert", "forgetPendingInf", "forgetPreviousCert",
                      "forgetPreviousInf"} => DeleteValue
         /\ Call = "deleteState" => DeleteState
         /\ Call = "key" => CreateSigningCert
         /\ Call = "sign" => SignFiles
         /\ Call = "destroyKey" => DestroySigningKey
         /\ Call = "trust" => TrustCertificate
         /\ Call \in {"untrustNew", "retireCert", "untrustCert", "untrustPending",
                      "untrustPrevious"} => RemoveTrustedCertificate
         /\ Call = "stage" => StagePackage
         /\ Call \in {"retireInf", "dropPackage", "unstageDriver", "unstagePending",
                      "unstagePrevious"} => UnstagePackage
         /\ Call = "removeNode" => RemoveDevices
         /\ Call = "register" => RegisterDevice
         /\ Call = "bind" => UpdateDevice
         /\ Call = "copy" => CopyPayload
         /\ Call = "removeFiles" => RemoveInstallDir
<1>1. /\ DOMAIN Written = {"recordDir", "recordVersion", "recordCert", "recordInf",
                           "recordPreviousCert", "recordPreviousInf", "promoteCert",
                           "promoteInf"}
      /\ DOMAIN Forgotten = {"forgetPendingCert", "forgetPendingInf",
                             "forgetPreviousCert", "forgetPreviousInf"}
      /\ DOMAIN Untrusted = {"untrustNew", "retireCert", "untrustCert", "untrustPending",
                             "untrustPrevious"}
      /\ DOMAIN Unstaged = {"retireInf", "dropPackage", "unstageDriver", "unstagePending",
                            "unstagePrevious"}
  BY DEF Written, Forgotten, Untrusted, Unstaged
<1>2. QED
  BY <1>1, Dispatch

LEMMA QuietSteps ==
  ASSUME Inv, Gentle, Next, script # "idle", ~Crash, Call \in QuietCalls
  PROVE  Quiet
<1>1. machine \in Machines /\ DOMAIN machine.reg = Values /\ run \in Runs
  BY DEF Inv, Typed, RunOK, Machines
<1>made. Call \in {"recordDir", "recordCert", "recordVersion", "recordPreviousCert",
                "promoteCert", "copy", "key", "destroyKey", "trust"}
        => script \in {"fresh", "update", "same", "promote"}
  BY CallSites DEF Inv, Typed
<1>2. CASE Call \in {"recordDir", "recordCert", "recordVersion", "recordPreviousCert",
                     "promoteCert"}
  <2>1. WriteValue
    BY <1>2, OneAction
  <2>2. Written[Call] \in CertValues \cup {"Version", "InstallDir"}
    BY <1>2 DEF Written, CertValues
  <2>3. /\ UNCHANGED <<machine.staged, machine.node, machine.loaded>>
        /\ Fail \/ Advance
        /\ \/ machine'.reg = machine.reg
           \/ machine'.reg = [machine.reg EXCEPT ![Written[Call]] = ValueFor[Call]]
    BY <2>1, Writes
  <2>4. \A n \in InfValues : machine'.reg[n] = machine.reg[n]
    BY <1>1, <2>2, <2>3 DEF CertValues, InfValues, Values
  <2>5. SamePackView
    BY <2>3, <2>4 DEF SamePackView, Driver, PendingDriver, PreviousDriver, reg, Node, Loaded,
       InfValues
  <2>6. QED
    BY <1>made, <1>2, <2>3, <2>5 DEF Quiet, Advance, Handed
<1>3. CASE Call \in {"forgetPendingCert", "forgetPreviousCert"}
  <2>1. DeleteValue
    BY <1>3, OneAction
  <2>2. Forgotten[Call] \in CertValues
    BY <1>3 DEF Forgotten, CertValues
  <2>3. /\ UNCHANGED <<machine.staged, machine.node, machine.loaded>>
        /\ Advance
        /\ machine'.reg = [machine.reg EXCEPT ![Forgotten[Call]] = None]
    BY <2>1, Deletes
  <2>4. \A n \in InfValues : machine'.reg[n] = machine.reg[n]
    BY <1>1, <2>2, <2>3 DEF CertValues, InfValues, Values
  <2>5. SamePackView
    BY <2>3, <2>4 DEF SamePackView, Driver, PendingDriver, PreviousDriver, reg, Node, Loaded,
       InfValues
  <2>6. QED
    BY <2>3, <2>5 DEF Quiet, Advance, Handed
<1>4. ASSUME UNCHANGED <<machine.reg, machine.staged, machine.node, machine.loaded>>
      PROVE  SamePackView
  BY <1>4 DEF SamePackView, Driver, PendingDriver, PreviousDriver, reg, Node, Loaded
<1>5. CASE Call = "copy"
  <2>1. CopyPayload
    BY <1>5, OneAction
  <2>2. QED
    BY <1>made, <1>5, <2>1, <1>4, Copies DEF Quiet, Advance, Handed
<1>6. CASE Call = "key"
  <2>1. CreateSigningCert
    BY <1>6, OneAction
  <2>2. \A c : [run EXCEPT !.cert = c].published = Handed
    BY <1>1 DEF Runs, Handed
  <2>3. QED
    BY <1>made, <1>6, <2>1, <2>2, <1>4, Creates DEF Quiet
<1>7. CASE Call = "sign"
  <2>1. SignFiles
    BY <1>7, OneAction
  <2>2. \A b : [run EXCEPT !.signed = b].published = Handed
    BY <1>1 DEF Runs, Handed
  <2>3. UNCHANGED machine /\ \E b : AdvanceWith([run EXCEPT !.signed = b])
    BY <2>1, Signs
  <2>4. QED
    BY <2>2, <2>3, <1>4 DEF Quiet
<1>8. CASE Call = "destroyKey"
  <2>1. DestroySigningKey
    BY <1>8, OneAction
  <2>2. QED
    BY <1>made, <1>8, <2>1, <1>4, Destroys DEF Quiet, Advance, Handed
<1>9. CASE Call = "trust"
  <2>1. TrustCertificate
    BY <1>9, OneAction
  <2>2. QED
    BY <1>made, <1>9, <2>1, <1>4, Trusts DEF Quiet, Advance, Handed
<1>10. CASE Call \in {"untrustNew", "retireCert", "untrustCert", "untrustPending",
                      "untrustPrevious"}
  <2>1. RemoveTrustedCertificate
    BY <1>10, OneAction
  <2>2. PICK c : c = Untrusted[Call]
    OBVIOUS
  <2>3. /\ UNCHANGED <<machine.reg, machine.staged, machine.node, machine.loaded>>
        /\ Advance \/ Enter(script, at, run)
    BY <2>1, <2>2, Untrusts
  <2>4. QED
    BY <2>3, <1>4 DEF Quiet, Advance, Handed
<1>11. CASE Call = "removeFiles"
  <2>1. RemoveInstallDir
    BY <1>11, OneAction
  <2>2. QED
    BY <2>1, <1>4, RemovesDir DEF Quiet, Advance, Handed
<1>12. QED
  BY <1>2, <1>3, <1>5, <1>6, <1>7, <1>8, <1>9, <1>10, <1>11 DEF QuietCalls

\* What a run that has ended leaves to the next one.
LEMMA IdlePacks ==
  ASSUME script' = "idle", Handed' = None, PackagesNamed',
         PendingDriver' = None => /\ Loaded' \subseteq {Driver', PreviousDriver'}
                                  /\ Node' \in Versions => Node' = Driver'
                                  /\ Driver' # None => Driver' # PreviousDriver',
         Node' = "bare" => Driver' = None
  PROVE  PackInv'
  BY DEF PackInv, SettledPacks, Settled, Undoing, FreshPacks, UpdatePacks, SamePacks,
     PromotePacks, FailPacks, RetirePacks, UnwindPacks, UndoPacks

LEMMA NothingHanded ==
  ASSUME NEW o, EndRun(o) PROVE script' = "idle" /\ Handed' = None
  BY DEF EndRun, Handed, NoRun, NewRun

LEMMA ViewOfStaged == ASSUME SamePackView PROVE Staged' = Staged
  BY DEF SamePackView, Staged

\* A call that fails leaves what undoes it in the record or in the run.
LEMMA FailKeepsPacks ==
  ASSUME Inv, PackInv, SamePackView, Fail, script \in {"fresh", "update", "same", "promote"}
  PROVE  PackInv'
<1>1. Place /\ RunOK(run)
  BY DEF Inv, Typed
<1>2. Staged' = Staged /\ Staged \subseteq Versions /\ None \notin Staged
  BY ViewOfStaged, PacksNow
<1>3. \A s, i : Enter(s, i, run) => script' = s /\ at' = i /\ Handed' = Handed
  BY DEF Enter, Handed
<1>4. Handed' = Handed => PackagesNamed'
  BY <1>2, PacksNow, PacksNext DEF SamePackView, PackInv
<1>5. CASE script = "fresh"
  <2>1. at \in 1 .. 13
    BY <1>1, <1>5, FreshPlaces
  <2>2. CASE at \in {11, 12}
    <3>1. script' = "unwind" /\ at' = 1 /\ Handed' = Handed
      BY <1>1, <1>3, <1>5, <2>2, FailLeads
    <3>2. QED
      BY <1>2, <1>4, <1>5, <2>2, <3>1 DEF SamePackView, PackInv, SettledPacks, Settled,
         Undoing, FreshPacks, UpdatePacks, SamePacks, PromotePacks, FailPacks, RetirePacks,
         UnwindPacks, UndoPacks
  <2>3. CASE at = 10
    <3>1. script' = "unwind" /\ at' = 2 /\ Handed' = Handed
      BY <1>1, <1>3, <1>5, <2>3, FailLeads
    <3>2. QED
      BY <1>2, <1>4, <1>5, <2>3, <3>1 DEF SamePackView, PackInv, SettledPacks, Settled,
         Undoing, FreshPacks, UpdatePacks, SamePacks, PromotePacks, FailPacks, RetirePacks,
         UnwindPacks, UndoPacks
  <2>4. CASE at \in 1 .. 9 \/ at = 13
    <3>1. script' = "rollback" /\ at' = 1 /\ Handed' = Handed
      BY <1>1, <1>3, <1>5, <2>4, FailLeads
    <3>2. QED
      BY <1>2, <1>4, <1>5, <2>4, <3>1 DEF SamePackView, PackInv, SettledPacks, Settled,
         Undoing, FreshPacks, UpdatePacks, SamePacks, PromotePacks, FailPacks, RetirePacks,
         UnwindPacks, UndoPacks
  <2>5. QED
    BY <2>1, <2>2, <2>3, <2>4
<1>6. CASE script = "update"
  <2>1. script' = "failUpdate" /\ at' = 1 /\ Handed' = Handed
    BY <1>1, <1>3, <1>6, FailLeads
  <2>2. QED
    BY <1>2, <1>4, <1>6, <2>1 DEF SamePackView, PackInv, SettledPacks, Settled, Undoing,
       FreshPacks, UpdatePacks, SamePacks, PromotePacks, FailPacks, RetirePacks, UnwindPacks,
       UndoPacks
<1>7. CASE script \in {"same", "promote"}
  <2>1. script' = "idle" /\ Handed' = None
    BY <1>1, <1>7, FailLeads, NothingHanded
  <2>2. Handed \in {Driver, PendingDriver} /\ Handed \in Versions
    BY <1>1, <1>7 DEF PackInv, SamePacks, PromotePacks, Place
  <2>3. PackagesNamed'
    BY <1>2, <2>2, PacksNow, PacksNext DEF SamePackView, PackInv
  <2>4. PendingDriver = None => /\ Loaded \subseteq {Driver, PreviousDriver}
                                /\ Node = Driver /\ Driver # PreviousDriver
    BY <1>1, <1>7, <2>2, FlowAssumption DEF PackInv, SamePacks, PromotePacks, Place
  <2>5. Node = "bare" => Driver = None
    BY DEF PackInv, SettledPacks
  <2>6. QED
    BY <2>1, <2>3, <2>4, <2>5, IdlePacks DEF SamePackView
<1>8. QED
  BY <1>5, <1>6, <1>7

\* A run dies only with its package recorded, so the next one finds it.
LEMMA CrashKeepsPacks ==
  ASSUME Inv, PackInv, Gentle, Crash
  PROVE  PackInv'
<1>1. /\ script' = "idle" /\ Handed' = None /\ machine' = machine /\ script # "idle"
      /\ ~Unrecorded(Handed)
  BY NothingHanded DEF Crash, Gentle, Handed
<1>2. SamePackView
  BY <1>1 DEF SamePackView, Driver, PendingDriver, PreviousDriver, reg, Node, Loaded
<1>3. Staged' = Staged /\ Staged \subseteq Versions /\ None \notin Staged
  BY <1>2, ViewOfStaged, PacksNow
<1>4. Handed \in Staged => Handed \in {Driver, PendingDriver, PreviousDriver}
  BY <1>1, <1>3 DEF Unrecorded, Staged, InfValues, Driver, PendingDriver, PreviousDriver
<1>5. PackagesNamed'
  BY <1>2, <1>3, <1>4, PacksNow, PacksNext DEF SamePackView, PackInv
<1>6. /\ Place /\ Handed \in Versions \cup {None}
      /\ (script = "fresh" => at \in 1 .. 13) /\ (script = "unwind" => at \in 1 .. 2)
      /\ (script \in Undoing => at \in 1 .. 9)
  BY FreshPlaces, UnwindPlaces, UninstallPlaces DEF Inv, Typed, RunOK, Runs, Handed
<1>7. Node = "bare" => Driver = None
  BY DEF PackInv, SettledPacks
<1>8. ASSUME PendingDriver = None
      PROVE  /\ Loaded \subseteq {Driver, PreviousDriver}
             /\ Node \in Versions => Node = Driver
             /\ Driver # None => Driver # PreviousDriver
  <2>1. CASE script \in {"retire", "choose"} \cup Undoing
    BY <1>8, <2>1 DEF PackInv, SettledPacks, Settled
  <2>2. CASE script = "fresh"
    BY <1>3, <1>4, <1>6, <2>2, FlowAssumption DEF PackInv, FreshPacks
  <2>3. CASE script \in {"update", "failUpdate"}
    BY <2>3 DEF PackInv, UpdatePacks, FailPacks
  <2>4. CASE script \in {"same", "promote"}
    BY <1>6, <1>8, <2>4, FlowAssumption DEF PackInv, SamePacks, PromotePacks, Place
  <2>5. script # "unwind"
    BY <1>3, <1>4 DEF PackInv, UnwindPacks
  <2>6. QED
    BY <1>1, <1>6, <2>1, <2>2, <2>3, <2>4, <2>5, ScriptNamed DEF Names, Undoing
<1>9. QED
  BY <1>1, <1>2, <1>5, <1>7, <1>8, IdlePacks DEF SamePackView

\* A quiet call that does not fail leaves its list's part of the invariant
\* as it is; the calls that change a package are taken one by one.
LEMMA FreshKeepsPacks ==
  ASSUME Inv, PackInv, Gentle, Next, ~Crash, script = "fresh"
  PROVE  PackInv'
<1>1. Place /\ at \in 1 .. 13 /\ (at > 9 => Handed \in Versions) /\ run.version \in Versions
  BY FreshPlaces DEF Inv, Typed, RunOK, Handed, Going
<1>2. Staged \subseteq Versions /\ None \notin Staged /\ None \notin Versions
  BY PacksNow, FlowAssumption
<1>3. /\ PendingDriver = None /\ PreviousDriver = None
      /\ Driver = IF at <= 12 THEN None ELSE Handed
      /\ IF at <= 9 THEN Handed = None ELSE Handed \in Staged
      /\ IF at <= 11 THEN Loaded = {} /\ Node \notin Versions
                     ELSE Loaded \subseteq {Handed} /\ Node = Handed
      /\ Staged \subseteq {Handed, Driver, None}
  BY <1>1, PacksNow DEF PackInv, FreshPacks
<1>4. CASE SamePackView /\ Fail
  BY <1>4, FailKeepsPacks
<1>5. \A r : AdvanceWith(r) /\ at < 13 => script' = "fresh" /\ at' = at + 1 /\ run' = r
  BY <1>1, Leads DEF On, Enter
<1>6. Advance /\ at < 13 => script' = "fresh" /\ at' = at + 1 /\ Handed' = Handed
  BY <1>5 DEF Advance, Handed
<1>7. CASE at \in 1 .. 7 \/ at = 13
  <2>1. Quiet
    BY <1>1, <1>7, FreshPlaces, QuietSteps DEF QuietCalls
  <2>2. Staged' = Staged /\ SamePackView
    BY <2>1, ViewOfStaged DEF Quiet
  <2>3. CASE \E r : AdvanceWith(r) /\ r.published = Handed
    <3>1. PICK r : AdvanceWith(r) /\ r.published = Handed
      BY <2>3
    <3>2. CASE at < 13
      <4>1. script' = "fresh" /\ at' = at + 1 /\ Handed' = Handed
        BY <1>5, <3>1, <3>2 DEF Handed
      <4>2. QED
        BY <1>1, <1>3, <1>7, <2>2, <3>2, <4>1, PacksNext DEF SamePackView, PackInv,
           SettledPacks, Settled, Undoing, FreshPacks, UpdatePacks, SamePacks, PromotePacks,
           FailPacks, RetirePacks, UnwindPacks, UndoPacks
    <3>3. CASE at = 13
      <4>1. script' = "idle" /\ Handed' = None
        BY <1>1, <3>1, <3>3, Leads, NothingHanded
      <4>2. PackagesNamed'
        BY <1>3, <2>2, <3>3, PacksNext DEF SamePackView
      <4>3. QED
        BY <1>1, <1>2, <1>3, <2>2, <3>3, <4>1, <4>2, IdlePacks, FlowAssumption
           DEF SamePackView
    <3>4. QED
      BY <1>1, <3>2, <3>3
  <2>4. CASE Enter(script, at, run)
    <3>1. script' = script /\ at' = at /\ Handed' = Handed
      BY <2>4 DEF Enter, Handed
    <3>2. QED
      BY <1>3, <2>2, <3>1, PacksNext DEF SamePackView, PackInv, SettledPacks, Settled,
         Undoing, FreshPacks, UpdatePacks, SamePacks, PromotePacks, FailPacks, RetirePacks,
         UnwindPacks, UndoPacks
  <2>5. QED
    BY <1>4, <2>1, <2>3, <2>4 DEF Quiet
<1>8. CASE at = 8
  <2>1. RemoveDevices
    BY <1>1, <1>8, FreshPlaces, OneAction
  <2>2. /\ UNCHANGED <<machine.reg, machine.staged>> /\ Advance
        /\ Node' = None /\ Loaded' = {}
    BY <2>1, RemovesDevices DEF Node, Loaded
  <2>3. Staged' = Staged /\ UNCHANGED <<Driver, PendingDriver, PreviousDriver>>
    BY <2>2 DEF Staged, Driver, PendingDriver, PreviousDriver, reg
  <2>4. script' = "fresh" /\ at' = 9 /\ Handed' = Handed
    BY <1>6, <1>8, <2>2
  <2>5. QED
    BY <1>2, <1>3, <1>8, <2>2, <2>3, <2>4, PacksNext, FlowAssumption DEF PackInv,
       SettledPacks, Settled, Undoing, FreshPacks, UpdatePacks, SamePacks, PromotePacks,
       FailPacks, RetirePacks, UnwindPacks, UndoPacks
<1>9. CASE at = 9
  <2>1. StagePackage
    BY <1>1, <1>9, FreshPlaces, OneAction
  <2>2. /\ UNCHANGED <<machine.reg, machine.node, machine.loaded>>
        /\ UNCHANGED <<Driver, PendingDriver, PreviousDriver, Node, Loaded>>
    BY <2>1, Stages DEF Driver, PendingDriver, PreviousDriver, reg, Node, Loaded
  <2>3. CASE UNCHANGED machine.staged /\ Fail
    BY <1>4, <2>2, <2>3 DEF SamePackView
  <2>4. CASE /\ machine'.staged = [machine.staged EXCEPT
                                     ![run.version] = IF @ = None THEN run.cert ELSE @]
             /\ AdvanceWith([run EXCEPT !.published = run.version])
    <3>1. run \in Runs /\ run.cert \in Certs /\ machine.staged \in [Versions -> Certs \cup {None}]
      BY <1>9 DEF Inv, Typed, RunOK, Machines
    <3>2. script' = "fresh" /\ at' = 10 /\ Handed' = run.version
      BY <1>5, <1>9, <2>4, <3>1 DEF Handed, Runs
    <3>3. Staged' = Staged \cup {run.version}
      BY <1>1, <1>2, <2>4, <3>1, FlowAssumption DEF Staged
    <3>4. QED
      BY <1>1, <1>2, <1>3, <1>9, <2>2, <3>2, <3>3, PacksNext DEF PackInv,
         SettledPacks, Settled, Undoing, FreshPacks, UpdatePacks, SamePacks, PromotePacks,
         FailPacks, RetirePacks, UnwindPacks, UndoPacks
  <2>5. QED
    BY <2>1, <2>3, <2>4, Stages
<1>10. CASE at = 10
  <2>1. RegisterDevice
    BY <1>1, <1>10, FreshPlaces, OneAction
  <2>2. /\ UNCHANGED <<machine.reg, machine.staged, machine.loaded>>
        /\ UNCHANGED <<Driver, PendingDriver, PreviousDriver, Loaded>> /\ Staged' = Staged
    BY <2>1, Registers DEF Driver, PendingDriver, PreviousDriver, reg, Loaded, Staged
  <2>3. CASE UNCHANGED machine.node /\ Fail
    BY <1>4, <2>2, <2>3 DEF SamePackView, Node
  <2>4. CASE machine'.node = "bare" /\ Advance
    <3>1. script' = "fresh" /\ at' = 11 /\ Handed' = Handed /\ Node' = "bare"
      BY <1>6, <1>10, <2>4 DEF Node
    <3>2. QED
      BY <1>2, <1>3, <1>10, <2>2, <3>1, PacksNext, FlowAssumption DEF PackInv,
         SettledPacks, Settled, Undoing, FreshPacks, UpdatePacks, SamePacks, PromotePacks,
         FailPacks, RetirePacks, UnwindPacks, UndoPacks
  <2>5. QED
    BY <2>1, <2>3, <2>4, Registers
<1>11. CASE at = 11
  <2>1. UpdateDevice
    BY <1>1, <1>11, FreshPlaces, OneAction
  <2>2. /\ UNCHANGED <<machine.reg, machine.staged>>
        /\ UNCHANGED <<Driver, PendingDriver, PreviousDriver>> /\ Staged' = Staged
    BY <2>1, Binds DEF Driver, PendingDriver, PreviousDriver, reg, Staged
  <2>3. CASE UNCHANGED <<machine.node, machine.loaded>> /\ Fail
    BY <1>4, <2>2, <2>3 DEF SamePackView, Node, Loaded
  <2>4. CASE /\ machine'.node = Handed /\ machine'.loaded \in {machine.loaded, {Handed}}
             /\ \E b : AdvanceWith([run EXCEPT !.reboot = b])
    <3>1. run \in Runs
      BY DEF Inv, Typed, RunOK
    <3>2. PICK b : AdvanceWith([run EXCEPT !.reboot = b])
      BY <2>4
    <3>3. script' = "fresh" /\ at' = 12 /\ Handed' = Handed
      BY <1>5, <1>11, <3>1, <3>2 DEF Handed, Runs
    <3>4. Node' = Handed /\ Loaded' \subseteq {Handed}
      BY <1>3, <1>11, <2>4 DEF Node, Loaded
    <3>5. QED
      BY <1>2, <1>3, <1>11, <2>2, <3>3, <3>4, PacksNext, FlowAssumption DEF PackInv,
         SettledPacks, Settled, Undoing, FreshPacks, UpdatePacks, SamePacks, PromotePacks,
         FailPacks, RetirePacks, UnwindPacks, UndoPacks
  <2>5. QED
    BY <2>1, <2>3, <2>4, Binds DEF Handed
<1>12. CASE at = 12
  <2>1. WriteValue /\ Call = "recordInf"
    BY <1>1, <1>12, FreshPlaces, OneAction
  <2>2. /\ UNCHANGED <<machine.staged, machine.node, machine.loaded>>
        /\ UNCHANGED <<Node, Loaded>> /\ Staged' = Staged
    BY <2>1, Writes DEF Node, Loaded, Staged
  <2>3. CASE UNCHANGED machine.reg /\ Fail
    BY <1>4, <2>2, <2>3 DEF SamePackView, Driver, PendingDriver, PreviousDriver, reg
  <2>4. CASE machine'.reg = [machine.reg EXCEPT ![Written[Call]] = ValueFor[Call]] /\ Advance
    <3>1. Written[Call] = "DriverInf" /\ ValueFor[Call] = Handed
      BY <2>1 DEF Written, ValueFor, Handed
    <3>2. DOMAIN machine.reg = Values
      BY DEF Inv, Typed, Machines
    <3>3. Driver' = Handed /\ UNCHANGED <<PendingDriver, PreviousDriver>>
      BY <2>4, <3>1, <3>2 DEF Driver, PendingDriver, PreviousDriver, reg, Values, InfValues
    <3>4. script' = "fresh" /\ at' = 13 /\ Handed' = Handed
      BY <1>6, <1>12, <2>4
    <3>5. QED
      BY <1>2, <1>3, <1>12, <2>2, <3>3, <3>4, PacksNext, FlowAssumption DEF PackInv,
         SettledPacks, Settled, Undoing, FreshPacks, UpdatePacks, SamePacks, PromotePacks,
         FailPacks, RetirePacks, UnwindPacks, UndoPacks
  <2>5. QED
    BY <2>1, <2>3, <2>4, Writes
<1>13. QED
  BY <1>1, <1>7, <1>8, <1>9, <1>10, <1>11, <1>12

LEMMA UpdateKeepsPacks ==
  ASSUME Inv, PackInv, Gentle, Next, ~Crash, script = "update"
  PROVE  PackInv'
<1>1. Place /\ at \in 1 .. 9 /\ (at > 7 => Handed \in Versions) /\ run.version \in Versions
  BY UpdatePlaces DEF Inv, Typed, RunOK, Handed, Going
<1>2. Staged \subseteq Versions /\ None \notin Staged /\ None \notin Versions
  BY PacksNow, FlowAssumption
<1>3. /\ Driver # None /\ Loaded \subseteq {Driver} /\ Node = Driver
      /\ PreviousDriver = None
      /\ PendingDriver = IF at <= 8 THEN None ELSE Handed
      /\ at <= 7 => Handed = None
      /\ Node # "bare"
      /\ Staged \subseteq {Handed, Driver, PendingDriver, None}
  BY <1>1, PacksNow DEF PackInv, UpdatePacks, SettledPacks
<1>4. CASE SamePackView /\ Fail
  BY <1>4, FailKeepsPacks
<1>5. \A r : AdvanceWith(r) /\ at < 9 => script' = "update" /\ at' = at + 1 /\ run' = r
  BY <1>1, Leads DEF On, Enter
<1>6. CASE at \in 1 .. 6
  <2>1. Quiet
    BY <1>1, <1>6, UpdatePlaces, QuietSteps DEF QuietCalls
  <2>2. Staged' = Staged /\ SamePackView
    BY <2>1, ViewOfStaged DEF Quiet
  <2>3. CASE \E r : AdvanceWith(r) /\ r.published = Handed
    <3>1. PICK r : AdvanceWith(r) /\ r.published = Handed
      BY <2>3
    <3>2. script' = "update" /\ at' = at + 1 /\ Handed' = Handed
      BY <1>5, <1>6, <3>1 DEF Handed
    <3>3. QED
      BY <1>1, <1>3, <1>6, <2>2, <3>2, PacksNext DEF SamePackView, PackInv, SettledPacks,
         Settled, Undoing, FreshPacks, UpdatePacks, SamePacks, PromotePacks, FailPacks,
         RetirePacks, UnwindPacks, UndoPacks
  <2>4. CASE Enter(script, at, run)
    <3>1. script' = script /\ at' = at /\ Handed' = Handed
      BY <2>4 DEF Enter, Handed
    <3>2. QED
      BY <1>3, <2>2, <3>1, PacksNext DEF SamePackView, PackInv, SettledPacks, Settled,
         Undoing, FreshPacks, UpdatePacks, SamePacks, PromotePacks, FailPacks, RetirePacks,
         UnwindPacks, UndoPacks
  <2>5. QED
    BY <1>4, <2>1, <2>3, <2>4 DEF Quiet
<1>7. CASE at = 7
  <2>1. StagePackage
    BY <1>1, <1>7, UpdatePlaces, OneAction
  <2>2. /\ UNCHANGED <<machine.reg, machine.node, machine.loaded>>
        /\ UNCHANGED <<Driver, PendingDriver, PreviousDriver, Node, Loaded>>
    BY <2>1, Stages DEF Driver, PendingDriver, PreviousDriver, reg, Node, Loaded
  <2>3. CASE UNCHANGED machine.staged /\ Fail
    BY <1>4, <2>2, <2>3 DEF SamePackView
  <2>4. CASE /\ machine'.staged = [machine.staged EXCEPT
                                     ![run.version] = IF @ = None THEN run.cert ELSE @]
             /\ AdvanceWith([run EXCEPT !.published = run.version])
    <3>1. run \in Runs /\ run.cert \in Certs /\ machine.staged \in [Versions -> Certs \cup {None}]
      BY <1>7 DEF Inv, Typed, RunOK, Machines
    <3>2. script' = "update" /\ at' = 8 /\ Handed' = run.version
      BY <1>5, <1>7, <2>4, <3>1 DEF Handed, Runs
    <3>3. Staged' = Staged \cup {run.version}
      BY <1>1, <1>2, <2>4, <3>1, FlowAssumption DEF Staged
    <3>4. QED
      BY <1>1, <1>2, <1>3, <1>7, <2>2, <3>2, <3>3, PacksNext DEF PackInv,
         SettledPacks, Settled, Undoing, FreshPacks, UpdatePacks, SamePacks, PromotePacks,
         FailPacks, RetirePacks, UnwindPacks, UndoPacks
  <2>5. QED
    BY <2>1, <2>3, <2>4, Stages
<1>8. CASE at = 8
  <2>1. WriteValue /\ Call = "recordInf"
    BY <1>1, <1>8, UpdatePlaces, OneAction
  <2>2. /\ UNCHANGED <<machine.staged, machine.node, machine.loaded>>
        /\ UNCHANGED <<Node, Loaded>> /\ Staged' = Staged
    BY <2>1, Writes DEF Node, Loaded, Staged
  <2>3. CASE UNCHANGED machine.reg /\ Fail
    BY <1>4, <2>2, <2>3 DEF SamePackView, Driver, PendingDriver, PreviousDriver, reg
  <2>4. CASE machine'.reg = [machine.reg EXCEPT ![Written[Call]] = ValueFor[Call]] /\ Advance
    <3>1. Written[Call] = "PendingDriverInf" /\ ValueFor[Call] = Handed
      BY <2>1 DEF Written, ValueFor, Handed
    <3>2. DOMAIN machine.reg = Values
      BY DEF Inv, Typed, Machines
    <3>3. PendingDriver' = Handed /\ UNCHANGED <<Driver, PreviousDriver>>
      BY <2>4, <3>1, <3>2 DEF Driver, PendingDriver, PreviousDriver, reg, Values, InfValues
    <3>4. script' = "update" /\ at' = 9 /\ Handed' = Handed
      BY <1>5, <1>8, <2>4 DEF Advance, Handed
    <3>5. QED
      BY <1>2, <1>3, <1>8, <2>2, <3>3, <3>4, PacksNext DEF PackInv,
         SettledPacks, Settled, Undoing, FreshPacks, UpdatePacks, SamePacks, PromotePacks,
         FailPacks, RetirePacks, UnwindPacks, UndoPacks
  <2>5. QED
    BY <2>1, <2>3, <2>4, Writes
<1>9. CASE at = 9
  <2>1. UpdateDevice
    BY <1>1, <1>9, UpdatePlaces, OneAction
  <2>2. /\ UNCHANGED <<machine.reg, machine.staged>>
        /\ UNCHANGED <<Driver, PendingDriver, PreviousDriver>> /\ Staged' = Staged
    BY <2>1, Binds DEF Driver, PendingDriver, PreviousDriver, reg, Staged
  <2>3. CASE UNCHANGED <<machine.node, machine.loaded>> /\ Fail
    BY <1>4, <2>2, <2>3 DEF SamePackView, Node, Loaded
  <2>4. CASE /\ machine'.node = Handed /\ machine'.loaded \in {machine.loaded, {Handed}}
             /\ \E b : AdvanceWith([run EXCEPT !.reboot = b])
    <3>1. run \in Runs
      BY DEF Inv, Typed, RunOK
    <3>2. PICK b : AdvanceWith([run EXCEPT !.reboot = b])
      BY <2>4
    <3>3. PICK r : r = [run EXCEPT !.reboot = b]
      OBVIOUS
    <3>4. AdvanceWith(r) /\ r.published = Handed
      BY <3>1, <3>2, <3>3 DEF Handed, Runs
    <3>5. /\ script' = IF Handed = Driver THEN "same" ELSE "promote"
          /\ at' = 1 /\ Handed' = Handed
      BY <1>1, <1>9, <3>4, Leads DEF Enter, Handed
    <3>6. Node' = Handed /\ Loaded' \subseteq {Driver, Handed}
      BY <1>3, <2>4 DEF Node, Loaded
    <3>7. Handed \in Versions /\ Handed # "bare"
      BY <1>1, <1>9, FlowAssumption
    <3>8. CASE Handed = Driver
      BY <1>2, <1>3, <1>9, <2>2, <3>5, <3>6, <3>7, <3>8, PacksNext DEF PackInv,
         SettledPacks, Settled, Undoing, FreshPacks, UpdatePacks, SamePacks, PromotePacks,
         FailPacks, RetirePacks, UnwindPacks, UndoPacks
    <3>9. CASE Handed # Driver
      BY <1>2, <1>3, <1>9, <2>2, <3>5, <3>6, <3>7, <3>9, PacksNext DEF PackInv,
         SettledPacks, Settled, Undoing, FreshPacks, UpdatePacks, SamePacks, PromotePacks,
         FailPacks, RetirePacks, UnwindPacks, UndoPacks
    <3>10. QED
      BY <3>8, <3>9
  <2>5. QED
    BY <2>1, <2>3, <2>4, Binds DEF Handed
<1>10. QED
  BY <1>1, <1>6, <1>7, <1>8, <1>9

LEMMA SameKeepsPacks ==
  ASSUME Inv, PackInv, Gentle, Next, ~Crash, script = "same"
  PROVE  PackInv'
<1>1. Place /\ at \in 1 .. 4
  BY SamePlaces DEF Inv, Typed
<1>2. None \notin Versions /\ "bare" \notin Versions /\ None \notin Staged
  BY PacksNow, FlowAssumption
<1>3. /\ Handed \in Versions /\ Driver = Handed
      /\ PendingDriver \in {None, Handed} /\ PreviousDriver = None
      /\ Loaded \subseteq {Handed} /\ Node = Handed
      /\ Staged \subseteq {Handed, None}
  BY PacksNow DEF PackInv, SamePacks
<1>4. \A r : AdvanceWith(r) => \/ at < 4 /\ script' = "same" /\ at' = at + 1 /\ run' = r
                               \/ script' = "idle" /\ Handed' = None
  BY <1>1, Leads, NothingHanded DEF On, Enter
<1>5. ASSUME /\ Staged' = Staged /\ UNCHANGED <<Driver, PreviousDriver, Node, Loaded>>
             /\ PendingDriver' \in {None, Handed}
             /\ \/ script' = "same" /\ Handed' = Handed
                \/ script' = "idle" /\ Handed' = None
      PROVE  PackInv'
  <2>1. CASE script' = "same" /\ Handed' = Handed
    BY <1>2, <1>3, <1>5, <2>1, PacksNext DEF PackInv, SettledPacks, Settled, Undoing,
       FreshPacks, UpdatePacks, SamePacks, PromotePacks, FailPacks, RetirePacks, UnwindPacks,
       UndoPacks
  <2>2. CASE script' = "idle" /\ Handed' = None
    <3>1. PackagesNamed'
      BY <1>3, <1>5, PacksNext
    <3>2. QED
      BY <1>2, <1>3, <1>5, <2>2, <3>1, IdlePacks
  <2>3. QED
    BY <1>5, <2>1, <2>2
<1>6. CASE at \in {1, 2, 4}
  <2>1. Quiet
    BY <1>1, <1>6, SamePlaces, QuietSteps DEF QuietCalls
  <2>2. Staged' = Staged /\ SamePackView
    BY <2>1, ViewOfStaged DEF Quiet
  <2>3. CASE Fail
    BY <2>2, <2>3, FailKeepsPacks
  <2>4. CASE (\E r : AdvanceWith(r) /\ r.published = Handed) \/ Enter(script, at, run)
    <3>1. \/ script' = "same" /\ Handed' = Handed
          \/ script' = "idle" /\ Handed' = None
      BY <1>4, <2>4 DEF Enter, Handed
    <3>2. QED
      BY <1>3, <1>5, <2>2, <3>1 DEF SamePackView
  <2>5. QED
    BY <2>1, <2>3, <2>4 DEF Quiet
<1>7. CASE at = 3
  <2>1. DeleteValue /\ Call = "forgetPendingInf"
    BY <1>1, <1>7, SamePlaces, OneAction
  <2>2. /\ UNCHANGED <<machine.staged, machine.node, machine.loaded>> /\ Advance
        /\ machine'.reg = [machine.reg EXCEPT ![Forgotten[Call]] = None]
    BY <2>1, Deletes
  <2>3. Forgotten[Call] = "PendingDriverInf" /\ DOMAIN machine.reg = Values
    BY <2>1 DEF Forgotten, Inv, Typed, Machines
  <2>4. PendingDriver' = None /\ UNCHANGED <<Driver, PreviousDriver>>
    BY <2>2, <2>3 DEF Driver, PendingDriver, PreviousDriver, reg, Values, InfValues
  <2>5. UNCHANGED <<Node, Loaded>> /\ Staged' = Staged
    BY <2>2 DEF Node, Loaded, Staged
  <2>6. script' = "same" /\ Handed' = Handed
    BY <1>4, <1>7, <2>2, Leads, <1>1 DEF Advance, Handed, On, Enter
  <2>7. QED
    BY <1>5, <2>4, <2>5, <2>6
<1>8. QED
  BY <1>1, <1>6, <1>7

\* A call that writes or deletes the name of a package changes no other.
LEMMA PackNames ==
  ASSUME Inv, NEW n \in InfValues, NEW x, machine'.reg = [machine.reg EXCEPT ![n] = x]
  PROVE  /\ Driver' = IF n = "DriverInf" THEN x ELSE Driver
         /\ PendingDriver' = IF n = "PendingDriverInf" THEN x ELSE PendingDriver
         /\ PreviousDriver' = IF n = "PreviousDriverInf" THEN x ELSE PreviousDriver
<1>1. DOMAIN machine.reg = Values /\ InfValues \subseteq Values
  BY DEF Inv, Typed, Machines, Values
<1>2. QED
  BY <1>1 DEF Driver, PendingDriver, PreviousDriver, reg, InfValues

LEMMA PromoteKeepsPacks ==
  ASSUME Inv, PackInv, Gentle, Next, ~Crash, script = "promote"
  PROVE  PackInv'
<1>1. Place /\ at \in 1 .. 11
  BY PromotePlaces DEF Inv, Typed
<1>2. /\ None \notin Versions /\ "bare" \notin Versions
      /\ Staged \subseteq Versions /\ Loaded \subseteq Versions
  BY PacksNow, FlowAssumption DEF Inv, Typed, Machines, Loaded
<1>3. /\ Handed \in Versions /\ Node = Handed
      /\ Driver # None /\ PreviousDriver # Handed
      /\ Loaded \subseteq {Driver, PreviousDriver, Handed}
      /\ IF at <= 4 THEN Driver # Handed ELSE Driver = Handed
      /\ at <= 2 => PreviousDriver = None
      /\ at \in {3, 4} => PreviousDriver = Driver
      /\ PendingDriver = IF at <= 6 THEN Handed ELSE None
      /\ at = 10 => PreviousDriver \notin Staged \cup Loaded
      /\ Staged \subseteq {Handed, Driver, PreviousDriver}
  BY <1>1, <1>2, PacksNow DEF PackInv, PromotePacks
<1>4. \A r : AdvanceWith(r) => \/ at < 11 /\ script' = "promote" /\ at' = at + 1 /\ run' = r
                               \/ at = 11 /\ script' = "idle" /\ Handed' = None
  BY <1>1, Leads, NothingHanded DEF On, Enter
<1>5. Advance /\ at < 11 => script' = "promote" /\ at' = at + 1 /\ Handed' = Handed
  BY <1>4 DEF Advance, Handed
<1>6. CASE at \in {1, 3, 5, 7, 8, 11}
  <2>1. Quiet
    BY <1>1, <1>6, PromotePlaces, QuietSteps DEF QuietCalls
  <2>2. Staged' = Staged /\ SamePackView
    BY <2>1, ViewOfStaged DEF Quiet
  <2>3. CASE Fail
    BY <2>2, <2>3, FailKeepsPacks
  <2>4. CASE (\E r : AdvanceWith(r) /\ r.published = Handed) \/ Enter(script, at, run)
    <3>1. \/ script' = "promote" /\ at' = at /\ Handed' = Handed
          \/ script' = "promote" /\ at' = at + 1 /\ Handed' = Handed /\ at < 11
          \/ script' = "idle" /\ Handed' = None /\ at = 11
      BY <1>4, <2>4 DEF Enter, Handed
    <3>2. CASE script' = "idle" /\ Handed' = None /\ at = 11
      <4>1. PackagesNamed'
        BY <1>3, <2>2, <3>2, PacksNext DEF SamePackView
      <4>2. QED
        BY <1>2, <1>3, <2>2, <3>2, <4>1, IdlePacks DEF SamePackView
    <3>3. CASE script' = "promote" /\ at' = at /\ Handed' = Handed
      BY <1>2, <1>3, <2>2, <3>3, PacksNext DEF SamePackView, PackInv, SettledPacks, Settled,
         Undoing, FreshPacks, UpdatePacks, SamePacks, PromotePacks, FailPacks, RetirePacks,
         UnwindPacks, UndoPacks
    <3>4. CASE script' = "promote" /\ at' = at + 1 /\ Handed' = Handed /\ at < 11
      BY <1>2, <1>3, <1>6, <2>2, <3>4, PacksNext DEF SamePackView, PackInv, SettledPacks,
         Settled, Undoing, FreshPacks, UpdatePacks, SamePacks, PromotePacks, FailPacks,
         RetirePacks, UnwindPacks, UndoPacks
    <3>5. QED
      BY <3>1, <3>2, <3>3, <3>4
  <2>5. QED
    BY <2>1, <2>3, <2>4 DEF Quiet
<1>7. CASE at \in {2, 4}
  <2>1. WriteValue /\ Call = IF at = 2 THEN "recordPreviousInf" ELSE "promoteInf"
    BY <1>1, <1>7, PromotePlaces, OneAction
  <2>2. /\ UNCHANGED <<machine.staged, machine.node, machine.loaded>>
        /\ UNCHANGED <<Node, Loaded>> /\ Staged' = Staged
    BY <2>1, Writes DEF Node, Loaded, Staged
  <2>3. CASE UNCHANGED machine.reg /\ Fail
    BY <2>2, <2>3, FailKeepsPacks DEF SamePackView, Driver, PendingDriver, PreviousDriver, reg
  <2>4. CASE machine'.reg = [machine.reg EXCEPT ![Written[Call]] = ValueFor[Call]] /\ Advance
    <3>1. /\ at = 2 => Written[Call] = "PreviousDriverInf" /\ ValueFor[Call] = Driver
          /\ at = 4 => Written[Call] = "DriverInf" /\ ValueFor[Call] = Handed
      BY <2>1 DEF Written, ValueFor, Handed, Driver
    <3>2. /\ at = 2 => PreviousDriver' = Driver /\ UNCHANGED <<Driver, PendingDriver>>
          /\ at = 4 => Driver' = Handed /\ UNCHANGED <<PreviousDriver, PendingDriver>>
      BY <1>7, <2>4, <3>1, PackNames DEF InfValues
    <3>3. script' = "promote" /\ at' = at + 1 /\ Handed' = Handed
      BY <1>5, <1>7, <2>4
    <3>4. CASE at = 2
      BY <1>2, <1>3, <2>2, <3>2, <3>3, <3>4, PacksNext DEF PackInv, SettledPacks, Settled,
         Undoing, FreshPacks, UpdatePacks, SamePacks, PromotePacks, FailPacks, RetirePacks,
         UnwindPacks, UndoPacks
    <3>5. CASE at = 4
      BY <1>2, <1>3, <2>2, <3>2, <3>3, <3>5, PacksNext DEF PackInv, SettledPacks, Settled,
         Undoing, FreshPacks, UpdatePacks, SamePacks, PromotePacks, FailPacks, RetirePacks,
         UnwindPacks, UndoPacks
    <3>6. QED
      BY <1>7, <3>4, <3>5
  <2>5. QED
    BY <2>1, <2>3, <2>4, Writes
<1>8. CASE at \in {6, 10}
  <2>1. DeleteValue /\ Call = IF at = 6 THEN "forgetPendingInf" ELSE "forgetPreviousInf"
    BY <1>1, <1>8, PromotePlaces, OneAction
  <2>2. /\ UNCHANGED <<machine.staged, machine.node, machine.loaded>> /\ Advance
        /\ machine'.reg = [machine.reg EXCEPT ![Forgotten[Call]] = None]
    BY <2>1, Deletes
  <2>3. /\ at = 6 => Forgotten[Call] = "PendingDriverInf"
        /\ at = 10 => Forgotten[Call] = "PreviousDriverInf"
    BY <2>1 DEF Forgotten
  <2>4. /\ at = 6 => PendingDriver' = None /\ UNCHANGED <<Driver, PreviousDriver>>
        /\ at = 10 => PreviousDriver' = None /\ UNCHANGED <<Driver, PendingDriver>>
    BY <1>8, <2>2, <2>3, PackNames DEF InfValues
  <2>5. UNCHANGED <<Node, Loaded>> /\ Staged' = Staged
    BY <2>2 DEF Node, Loaded, Staged
  <2>6. script' = "promote" /\ at' = at + 1 /\ Handed' = Handed
    BY <1>5, <1>8, <2>2
  <2>7. CASE at = 6
    BY <1>2, <1>3, <2>4, <2>5, <2>6, <2>7, PacksNext DEF PackInv, SettledPacks, Settled,
       Undoing, FreshPacks, UpdatePacks, SamePacks, PromotePacks, FailPacks, RetirePacks,
       UnwindPacks, UndoPacks
  <2>8. CASE at = 10
    BY <1>2, <1>3, <2>4, <2>5, <2>6, <2>8, PacksNext DEF PackInv, SettledPacks, Settled,
       Undoing, FreshPacks, UpdatePacks, SamePacks, PromotePacks, FailPacks, RetirePacks,
       UnwindPacks, UndoPacks
  <2>9. QED
    BY <1>8, <2>7, <2>8
<1>9. CASE at = 9
  <2>1. UnstagePackage /\ Call = "retireInf"
    BY <1>1, <1>9, PromotePlaces, OneAction
  <2>2. Unstaged[Call] = PreviousDriver
    BY <2>1 DEF Unstaged, PreviousDriver
  <2>3. /\ UNCHANGED <<machine.reg, machine.node, machine.loaded>>
        /\ \/ PreviousDriver = None /\ UNCHANGED machine.staged /\ Advance
           \/ /\ PreviousDriver # None /\ Removable(PreviousDriver)
              /\ machine'.staged = [machine.staged EXCEPT ![PreviousDriver] = None]
              /\ Advance
           \/ UNCHANGED machine.staged /\ Enter(script, 11, run)
    BY <1>9, <2>1, <2>2, Unstages
  <2>4. UNCHANGED <<Driver, PendingDriver, PreviousDriver, Node, Loaded>>
    BY <2>3 DEF Driver, PendingDriver, PreviousDriver, reg, Node, Loaded
  <2>5. /\ machine.staged \in [Versions -> Certs \cup {None}]
        /\ PreviousDriver \in Versions \cup {None}
    BY DEF Inv, Typed, Machines, PreviousDriver, reg, Values, InfValues, Holds
  <2>6. /\ script' = "promote" /\ Handed' = Handed
        /\ \/ at' = 10 /\ PreviousDriver \notin Loaded /\ Staged' = Staged \ {PreviousDriver}
           \/ at' = 11 /\ Staged' = Staged
    <3>1. CASE PreviousDriver = None /\ UNCHANGED machine.staged /\ Advance
      BY <1>2, <1>5, <1>9, <3>1 DEF Staged
    <3>2. CASE /\ PreviousDriver # None /\ Removable(PreviousDriver)
               /\ machine'.staged = [machine.staged EXCEPT ![PreviousDriver] = None]
               /\ Advance
      BY <1>5, <1>9, <2>5, <3>2 DEF Staged, Removable, Loaded
    <3>3. CASE UNCHANGED machine.staged /\ Enter(script, 11, run)
      BY <3>3 DEF Enter, Staged, Handed
    <3>4. QED
      BY <2>3, <3>1, <3>2, <3>3
  <2>7. QED
    BY <1>2, <1>3, <1>9, <2>4, <2>6, PacksNext DEF PackInv, SettledPacks, Settled,
       Undoing, FreshPacks, UpdatePacks, SamePacks, PromotePacks, FailPacks, RetirePacks,
       UnwindPacks, UndoPacks
<1>10. QED
  BY <1>1, <1>6, <1>7, <1>8, <1>9

\* Taking a package out of the driver store takes out that package only.
LEMMA Drops ==
  ASSUME Inv, Gentle, UnstagePackage, Call # "retireInf", NEW v \in Versions \cup {None},
         v = Unstaged[Call]
  PROVE  /\ UNCHANGED <<Driver, PendingDriver, PreviousDriver, Node, Loaded>> /\ Advance
         /\ \/ (v = None \/ v \in Loaded \/ v \notin Staged) /\ Staged' = Staged
            \/ Staged' = Staged \ {v}
<1>1. machine.staged \in [Versions -> Certs \cup {None}]
  BY DEF Inv, Typed, Machines
<1>2. /\ UNCHANGED <<machine.reg, machine.node, machine.loaded>> /\ Advance
      /\ \/ v = None /\ UNCHANGED machine.staged
         \/ v # None /\ machine'.staged = [machine.staged EXCEPT ![v] = None]
         \/ v # None /\ ~Removable(v) /\ UNCHANGED machine.staged
  BY Unstages
<1>3. UNCHANGED <<Driver, PendingDriver, PreviousDriver, Node, Loaded>>
  BY <1>2 DEF Driver, PendingDriver, PreviousDriver, reg, Node, Loaded
<1>4. \/ (v = None \/ v \in Loaded \/ v \notin Staged) /\ Staged' = Staged
      \/ Staged' = Staged \ {v}
  BY <1>1, <1>2 DEF Removable, Staged, Loaded
<1>5. QED
  BY <1>2, <1>3, <1>4

LEMMA NamesTyped ==
  ASSUME Inv
  PROVE  /\ {Handed, Driver, PendingDriver, PreviousDriver} \subseteq Versions \cup {None}
         /\ Node \in Versions \cup {None, "bare"} /\ Loaded \subseteq Versions
         /\ None \notin Versions /\ "bare" \notin Versions /\ None # "bare"
  BY FlowAssumption DEF Inv, Typed, RunOK, Runs, Machines, Handed, Driver, PendingDriver,
     PreviousDriver, reg, Node, Loaded, Values, InfValues, Holds, CertValues

LEMMA FailUpdateKeepsPacks ==
  ASSUME Inv, PackInv, Gentle, Next, ~Crash, script = "failUpdate"
  PROVE  PackInv'
<1>1. Place /\ at \in 1 .. 4
  BY FailUpdatePlaces DEF Inv, Typed
<1>2. Staged \subseteq Versions /\ None \notin Staged
  BY PacksNow
<1>3. /\ Driver # None /\ Loaded \subseteq {Driver} /\ Node = Driver
      /\ PreviousDriver = None /\ PendingDriver \in {None, Handed}
      /\ at > 1 => Handed = Driver \/ Handed \notin Staged
      /\ Staged \subseteq {Handed, Driver}
  BY <1>2, PacksNow DEF PackInv, FailPacks
<1>4. \A r : AdvanceWith(r) => \/ at < 4 /\ script' = "failUpdate" /\ at' = at + 1 /\ run' = r
                               \/ at = 4 /\ script' = "idle" /\ Handed' = None
  BY <1>1, Leads, NothingHanded DEF On, Enter
<1>5. Advance /\ at < 4 => script' = "failUpdate" /\ at' = at + 1 /\ Handed' = Handed
  BY <1>4 DEF Advance, Handed
<1>6. CASE at = 1
  <2>1. UnstagePackage /\ Call = "dropPackage"
    BY <1>1, <1>6, FailUpdatePlaces, OneAction
  <2>2. PICK v : v = IF Handed = Driver THEN None ELSE Handed
    OBVIOUS
  <2>3. v = Unstaged[Call] /\ v \in Versions \cup {None}
    BY <2>1, <2>2, NamesTyped DEF Unstaged, SameName, Handed, Driver
  <2>4. /\ UNCHANGED <<Driver, PendingDriver, PreviousDriver, Node, Loaded>> /\ Advance
        /\ \/ (v = None \/ v \in Loaded \/ v \notin Staged) /\ Staged' = Staged
           \/ Staged' = Staged \ {v}
    BY <2>1, <2>3, Drops
  <2>5. script' = "failUpdate" /\ at' = 2 /\ Handed' = Handed
    BY <1>5, <1>6, <2>4
  <2>6. Handed = Driver \/ Handed \notin Staged'
    BY <1>2, <1>3, <2>2, <2>4
  <2>7. Staged' \subseteq Staged
    BY <2>4
  <2>8. QED
    BY <1>3, <2>4, <2>5, <2>6, <2>7, NamesTyped, PacksNext DEF PackInv, SettledPacks, Settled,
       Undoing, FreshPacks, UpdatePacks, SamePacks, PromotePacks, FailPacks, RetirePacks,
       UnwindPacks, UndoPacks
<1>7. CASE at \in {2, 4}
  <2>1. Quiet
    BY <1>1, <1>7, FailUpdatePlaces, QuietSteps DEF QuietCalls
  <2>2. Staged' = Staged /\ SamePackView
    BY <2>1, ViewOfStaged DEF Quiet
  <2>4. \/ script' = "failUpdate" /\ at' = at /\ Handed' = Handed
        \/ script' = "failUpdate" /\ at' = at + 1 /\ Handed' = Handed
        \/ script' = "idle" /\ Handed' = None
    BY <1>4, <2>1 DEF Quiet, Enter, Handed
  <2>5. CASE script' = "idle" /\ Handed' = None
    <3>1. PackagesNamed'
      BY <1>3, <1>7, <2>2, <2>5, PacksNext DEF SamePackView
    <3>2. QED
      BY <1>3, <2>2, <2>5, <3>1, NamesTyped, IdlePacks DEF SamePackView
  <2>6. CASE script' = "failUpdate" /\ Handed' = Handed
    BY <1>3, <1>7, <2>2, <2>6, NamesTyped, PacksNext DEF SamePackView, PackInv, SettledPacks,
       Settled, Undoing, FreshPacks, UpdatePacks, SamePacks, PromotePacks, FailPacks,
       RetirePacks, UnwindPacks, UndoPacks
  <2>7. QED
    BY <2>4, <2>5, <2>6
<1>8. CASE at = 3
  <2>1. DeleteValue /\ Call = "forgetPendingInf"
    BY <1>1, <1>8, FailUpdatePlaces, OneAction
  <2>2. /\ UNCHANGED <<machine.staged, machine.node, machine.loaded>> /\ Advance
        /\ machine'.reg = [machine.reg EXCEPT !["PendingDriverInf"] = None]
    BY <2>1, Deletes DEF Forgotten
  <2>3. PendingDriver' = None /\ UNCHANGED <<Driver, PreviousDriver>>
    BY <2>2, PackNames DEF InfValues
  <2>4. UNCHANGED <<Node, Loaded>> /\ Staged' = Staged
    BY <2>2 DEF Node, Loaded, Staged
  <2>5. script' = "failUpdate" /\ at' = 4 /\ Handed' = Handed
    BY <1>5, <1>8, <2>2
  <2>6. QED
    BY <1>3, <1>8, <2>3, <2>4, <2>5, NamesTyped, PacksNext DEF PackInv, SettledPacks, Settled,
       Undoing, FreshPacks, UpdatePacks, SamePacks, PromotePacks, FailPacks, RetirePacks,
       UnwindPacks, UndoPacks
<1>9. QED
  BY <1>1, <1>6, <1>7, <1>8

LEMMA ChooseKeepsPacks ==
  ASSUME Inv, PackInv, ChooseInstallMode
  PROVE  PackInv'
<1>1. /\ script \in {"retire", "choose"} /\ script' = InstallMode /\ at' = 1 /\ Handed' = Handed
      /\ UNCHANGED machine
  BY CallSites DEF ChooseInstallMode, Enter, Handed, Inv, Typed
<1>2. SamePackView /\ Staged' = Staged
  BY <1>1 DEF SamePackView, Driver, PendingDriver, PreviousDriver, reg, Node, Loaded, Staged
<1>3. Handed = None /\ Staged \subseteq {Driver, PendingDriver, PreviousDriver} /\ None \notin Staged
  BY <1>1, PacksNow DEF PackInv, SettledPacks
<1>4. PendingDriver = None => /\ Loaded \subseteq {Driver, PreviousDriver}
                              /\ Node \in Versions => Node = Driver
                              /\ Driver # None => Driver # PreviousDriver
  BY <1>1 DEF PackInv, SettledPacks, Settled
<1>5. Node = "bare" => Driver = None
  BY DEF PackInv, SettledPacks
<1>6. CASE InstallMode = "fresh"
  <2>1. Driver = None /\ PendingDriver = None /\ PreviousDriver = None
    BY <1>6 DEF InstallMode, Recorded, Driver, PendingDriver, PreviousDriver, Values, InfValues
  <2>2. Loaded = {} /\ Node \notin Versions
    BY <1>4, <2>1, NamesTyped
  <2>3. QED
    BY <1>1, <1>2, <1>3, <1>6, <2>1, <2>2, PacksNext DEF SamePackView, PackInv, SettledPacks,
       Settled, Undoing, FreshPacks, UpdatePacks, SamePacks, PromotePacks, FailPacks,
       RetirePacks, UnwindPacks, UndoPacks
<1>7. CASE InstallMode = "update"
  <2>1. Driver # None /\ PendingDriver = None /\ PreviousDriver = None /\ Node # None
    BY <1>7 DEF InstallMode, Driver, PendingDriver, PreviousDriver, Node
  <2>2. Loaded \subseteq {Driver} /\ Node = Driver
    BY <1>4, <1>5, <2>1, NamesTyped
  <2>3. QED
    BY <1>1, <1>2, <1>3, <1>7, <2>1, <2>2, NamesTyped, PacksNext DEF SamePackView, PackInv,
       SettledPacks, Settled, Undoing, FreshPacks, UpdatePacks, SamePacks, PromotePacks,
       FailPacks, RetirePacks, UnwindPacks, UndoPacks
<1>8. CASE InstallMode = "reinstall"
  BY <1>1, <1>2, <1>3, <1>4, <1>5, <1>8, PacksNext DEF SamePackView, PackInv, SettledPacks,
     Settled, Undoing, FreshPacks, UpdatePacks, SamePacks, PromotePacks, FailPacks,
     RetirePacks, UnwindPacks, UndoPacks
<1>9. QED
  BY <1>6, <1>7, <1>8 DEF InstallMode

LEMMA RetireKeepsPacks ==
  ASSUME Inv, PackInv, Gentle, Next, ~Crash, script \in {"retire", "choose"}
  PROVE  PackInv'
<1>1. Place
  BY DEF Inv, Typed
<1>2. CASE Call = "choose"
  BY <1>2, OneAction, ChooseKeepsPacks
<1>3. CASE script = "retire" /\ at \in 1 .. 4
  <2>1. /\ Handed = None /\ PendingDriver = None /\ Loaded \subseteq {Driver, PreviousDriver}
        /\ Node \in Versions => Node = Driver
        /\ Driver # None => Driver # PreviousDriver
        /\ Node = "bare" => Driver = None
        /\ at = 4 => PreviousDriver \notin Staged \cup Loaded
        /\ Staged \subseteq {Driver, PreviousDriver}
    BY <1>3, PacksNow DEF PackInv, SettledPacks, Settled, RetirePacks
  <2>2. \A r : AdvanceWith(r) => script' = "retire" /\ at' = at + 1 /\ run' = r
    BY <1>1, <1>3, Leads DEF On, Enter
  <2>3. ASSUME /\ script' = "retire" /\ Handed' = Handed
               /\ UNCHANGED <<Driver, PendingDriver, Node, Loaded>> /\ Staged' \subseteq Staged
               /\ \/ PreviousDriver' = PreviousDriver
                  \/ PreviousDriver' = None /\ PreviousDriver \notin Staged \cup Loaded
               /\ at' = 4 => PreviousDriver' \notin Staged' \cup Loaded
        PROVE  PackInv'
    BY <2>1, <2>3, NamesTyped, PacksNext DEF PackInv, SettledPacks, Settled, Undoing,
       FreshPacks, UpdatePacks, SamePacks, PromotePacks, FailPacks, RetirePacks, UnwindPacks,
       UndoPacks
  <2>4. CASE at \in {1, 2}
    <3>1. Quiet
      BY <1>1, <1>3, <2>4, RetirePlaces, QuietSteps DEF QuietCalls
    <3>2. Staged' = Staged /\ SamePackView
      BY <3>1, ViewOfStaged DEF Quiet
    <3>4. script' = "retire" /\ at' \in {at, at + 1} /\ Handed' = Handed
      BY <1>3, <2>2, <3>1 DEF Quiet, Enter, Handed
    <3>5. QED
      BY <2>3, <2>4, <3>2, <3>4 DEF SamePackView
  <2>5. CASE at = 3
    <3>1. UnstagePackage /\ Call = "retireInf"
      BY <1>1, <1>3, <2>5, RetirePlaces, OneAction
    <3>2. Unstaged[Call] = PreviousDriver
      BY <3>1 DEF Unstaged, PreviousDriver
    <3>3. /\ UNCHANGED <<machine.reg, machine.node, machine.loaded>>
          /\ \/ PreviousDriver = None /\ UNCHANGED machine.staged /\ Advance
             \/ /\ PreviousDriver # None /\ Removable(PreviousDriver)
                /\ machine'.staged = [machine.staged EXCEPT ![PreviousDriver] = None]
                /\ Advance
             \/ UNCHANGED machine.staged /\ Enter(script, 5, run)
      BY <2>5, <3>1, <3>2, Unstages
    <3>4. UNCHANGED <<Driver, PendingDriver, PreviousDriver, Node, Loaded>>
      BY <3>3 DEF Driver, PendingDriver, PreviousDriver, reg, Node, Loaded
    <3>5. machine.staged \in [Versions -> Certs \cup {None}]
      BY DEF Inv, Typed, Machines
    <3>6. CASE PreviousDriver = None /\ UNCHANGED machine.staged /\ Advance
      <4>1. script' = "retire" /\ at' = 4 /\ Handed' = Handed /\ Staged' = Staged
        BY <2>2, <2>5, <3>6 DEF Advance, Handed, Staged
      <4>2. QED
        BY <2>3, <3>4, <3>6, <4>1, NamesTyped, PacksNow
    <3>7. CASE /\ PreviousDriver # None /\ Removable(PreviousDriver)
               /\ machine'.staged = [machine.staged EXCEPT ![PreviousDriver] = None]
               /\ Advance
      <4>1. script' = "retire" /\ at' = 4 /\ Handed' = Handed
        BY <2>2, <2>5, <3>7 DEF Advance, Handed
      <4>2. Staged' = Staged \ {PreviousDriver} /\ PreviousDriver \notin Loaded
        BY <3>5, <3>7, NamesTyped DEF Staged, Removable, Loaded
      <4>3. QED
        BY <2>3, <3>4, <4>1, <4>2
    <3>8. CASE UNCHANGED machine.staged /\ Enter(script, 5, run)
      <4>1. script' = "retire" /\ at' = 5 /\ Handed' = Handed /\ Staged' = Staged
        BY <1>3, <3>8 DEF Enter, Handed, Staged
      <4>2. QED
        BY <2>3, <3>4, <4>1
    <3>9. QED
      BY <3>3, <3>6, <3>7, <3>8
  <2>6. CASE at = 4
    <3>1. DeleteValue /\ Call = "forgetPreviousInf"
      BY <1>1, <1>3, <2>6, RetirePlaces, OneAction
    <3>2. /\ UNCHANGED <<machine.staged, machine.node, machine.loaded>> /\ Advance
          /\ machine'.reg = [machine.reg EXCEPT !["PreviousDriverInf"] = None]
      BY <3>1, Deletes DEF Forgotten
    <3>3. PreviousDriver' = None /\ UNCHANGED <<Driver, PendingDriver>>
      BY <3>2, PackNames DEF InfValues
    <3>4. UNCHANGED <<Node, Loaded>> /\ Staged' = Staged
      BY <3>2 DEF Node, Loaded, Staged
    <3>5. script' = "retire" /\ at' = 5 /\ Handed' = Handed
      BY <2>2, <2>6, <3>2 DEF Advance, Handed
    <3>6. QED
      BY <2>1, <2>3, <2>6, <3>3, <3>4, <3>5
  <2>7. QED
    BY <1>3, <2>4, <2>5, <2>6
<1>4. QED
  BY <1>1, <1>2, <1>3, RetirePlaces, ChooseCalls

LEMMA UnwindKeepsPacks ==
  ASSUME Inv, PackInv, Gentle, Next, ~Crash, script = "unwind"
  PROVE  PackInv'
<1>1. Place /\ at \in 1 .. 2
  BY UnwindPlaces DEF Inv, Typed
<1>2. /\ Driver = None /\ PendingDriver = None /\ PreviousDriver = None
      /\ Handed \in Staged
      /\ at = 2 => Loaded = {} /\ Node \notin Versions
      /\ Staged \subseteq {Handed} /\ None \notin Staged
  BY PacksNow DEF PackInv, UnwindPacks
<1>3. CASE at = 1
  <2>1. RemoveDevices
    BY <1>1, <1>3, UnwindPlaces, OneAction
  <2>2. /\ UNCHANGED <<machine.reg, machine.staged>> /\ Advance
        /\ Node' = None /\ Loaded' = {}
    BY <2>1, RemovesDevices DEF Node, Loaded
  <2>3. Staged' = Staged /\ UNCHANGED <<Driver, PendingDriver, PreviousDriver>>
    BY <2>2 DEF Staged, Driver, PendingDriver, PreviousDriver, reg
  <2>4. script' = "unwind" /\ at' = 2 /\ Handed' = Handed
    BY <1>1, <1>3, <2>2, Leads DEF Advance, On, Enter, Handed
  <2>5. QED
    BY <1>2, <2>2, <2>3, <2>4, NamesTyped, PacksNext DEF PackInv, SettledPacks, Settled,
       Undoing, FreshPacks, UpdatePacks, SamePacks, PromotePacks, FailPacks, RetirePacks,
       UnwindPacks, UndoPacks
<1>4. CASE at = 2
  <2>1. UnstagePackage /\ Call = "dropPackage"
    BY <1>1, <1>4, UnwindPlaces, OneAction
  <2>2. Handed = Unstaged[Call] /\ Handed \in Versions
    BY <1>2, <2>1, NamesTyped DEF Unstaged, SameName, Handed, Driver
  <2>3. /\ UNCHANGED <<Driver, PendingDriver, PreviousDriver, Node, Loaded>> /\ Advance
        /\ Staged' = Staged \ {Handed}
    BY <1>2, <1>4, <2>1, <2>2, NamesTyped, Drops
  <2>4. script' = "rollback" /\ at' = 1 /\ Handed' = Handed
    BY <1>1, <1>4, <2>3, Leads DEF Advance, Enter, Handed
  <2>5. QED
    BY <1>2, <1>4, <2>3, <2>4, NamesTyped, PacksNext DEF PackInv, SettledPacks, Settled,
       Undoing, FreshPacks, UpdatePacks, SamePacks, PromotePacks, FailPacks, RetirePacks,
       UnwindPacks, UndoPacks
<1>5. QED
  BY <1>1, <1>3, <1>4

\* The removal of an install deletes the record once nothing is left of what
\* it names.
LEMMA UndoKeepsPacks ==
  ASSUME Inv, PackInv, Gentle, Next, ~Crash, script \in Undoing
  PROVE  PackInv'
<1>1. Place /\ at \in 1 .. 9 /\ script \in {"rollback", "reinstall", "uninstall"}
  BY UninstallPlaces DEF Inv, Typed, Undoing
<1>2. Staged \subseteq Versions /\ None \notin Staged
  BY PacksNow
<1>3. /\ Handed \notin Staged \ {Driver}
      /\ script # "rollback" => Handed = None
      /\ at > 1 => Loaded = {} /\ Node = None
      /\ at > 2 => Driver \notin Staged
      /\ at > 3 => PendingDriver \notin Staged
      /\ at > 4 => PreviousDriver \notin Staged
      /\ Staged \subseteq {Driver, PendingDriver, PreviousDriver}
  BY <1>1, <1>2, PacksNow DEF PackInv, UndoPacks
<1>4. \A r : AdvanceWith(r) => \/ at < 9 /\ script' = script /\ at' = at + 1 /\ run' = r
                               \/ at = 9
  BY <1>1, Leads DEF On, Enter
<1>5. ASSUME /\ script' = script /\ at' \in {at, at + 1} /\ Handed' = Handed
             /\ UNCHANGED <<Driver, PendingDriver, PreviousDriver, Node, Loaded>>
             /\ Staged' \subseteq Staged /\ at > 1
             /\ at' = 3 => Driver \notin Staged'
             /\ at' = 4 => PendingDriver \notin Staged'
             /\ at' = 5 => PreviousDriver \notin Staged'
      PROVE  PackInv'
  <2>1. /\ at' > 2 => Driver \notin Staged'
        /\ at' > 3 => PendingDriver \notin Staged'
        /\ at' > 4 => PreviousDriver \notin Staged'
    BY <1>1, <1>3, <1>5
  <2>2. QED
    BY <1>1, <1>3, <1>5, <2>1, NamesTyped, PacksNext DEF PackInv, SettledPacks, Settled,
       Undoing, FreshPacks, UpdatePacks, SamePacks, PromotePacks, FailPacks, RetirePacks,
       UnwindPacks, UndoPacks
<1>6. Advance /\ at < 9 => script' = script /\ at' = at + 1 /\ Handed' = Handed
  BY <1>4 DEF Advance, Handed
<1>7. CASE at = 1
  <2>1. RemoveDevices
    BY <1>1, <1>7, UninstallPlaces, OneAction
  <2>2. /\ UNCHANGED <<machine.reg, machine.staged>> /\ Advance
        /\ Node' = None /\ Loaded' = {}
    BY <2>1, RemovesDevices DEF Node, Loaded
  <2>3. Staged' = Staged /\ UNCHANGED <<Driver, PendingDriver, PreviousDriver>>
    BY <2>2 DEF Staged, Driver, PendingDriver, PreviousDriver, reg
  <2>4. script' = script /\ at' = 2 /\ Handed' = Handed
    BY <1>6, <1>7, <2>2
  <2>5. PendingDriver = None /\ Driver # None => Driver # PreviousDriver
    BY DEF PackInv, SettledPacks, Settled
  <2>6. QED
    BY <1>1, <1>3, <2>2, <2>3, <2>4, <2>5, NamesTyped, PacksNext DEF PackInv, SettledPacks,
       Settled, Undoing, FreshPacks, UpdatePacks, SamePacks, PromotePacks, FailPacks,
       RetirePacks, UnwindPacks, UndoPacks
<1>8. CASE at \in {2, 3, 4}
  <2>1. /\ UnstagePackage
        /\ Call = IF at = 2 THEN "unstageDriver"
                  ELSE IF at = 3 THEN "unstagePending" ELSE "unstagePrevious"
    BY <1>1, <1>8, UninstallPlaces, OneAction
  <2>2. PICK v : v = IF at = 2 THEN Driver
                     ELSE IF at = 3
                     THEN IF PendingDriver = Driver THEN None ELSE PendingDriver
                     ELSE IF PreviousDriver = Driver THEN None ELSE PreviousDriver
    OBVIOUS
  <2>3. v = Unstaged[Call] /\ v \in Versions \cup {None} /\ Call # "retireInf"
    BY <1>8, <2>1, <2>2, NamesTyped
       DEF Unstaged, SameName, Driver, PendingDriver, PreviousDriver
  <2>4. /\ UNCHANGED <<Driver, PendingDriver, PreviousDriver, Node, Loaded>> /\ Advance
        /\ v \notin Staged' /\ Staged' \subseteq Staged
    BY <1>2, <1>3, <1>8, <2>1, <2>3, Drops
  <2>5. script' = script /\ at' = at + 1 /\ Handed' = Handed
    BY <1>6, <1>8, <2>4
  <2>6. QED
    BY <1>3, <1>5, <1>8, <2>2, <2>4, <2>5
<1>9. CASE at \in 5 .. 8
  <2>1. Quiet
    BY <1>1, <1>9, UninstallPlaces, QuietSteps DEF QuietCalls
  <2>2. Staged' = Staged /\ SamePackView
    BY <2>1, ViewOfStaged DEF Quiet
  <2>3. script' = script /\ at' \in {at, at + 1} /\ Handed' = Handed
    BY <1>1, <1>4, <1>9, <2>1 DEF Quiet, Enter, Handed
  <2>4. QED
    BY <1>3, <1>5, <1>9, <2>2, <2>3 DEF SamePackView
<1>10. CASE at = 9
  <2>1. DeleteState
    BY <1>1, <1>10, UninstallPlaces, OneAction
  <2>2. /\ UNCHANGED <<machine.staged, machine.node, machine.loaded>> /\ Advance
        /\ machine'.reg = [n \in Values |-> None]
    BY <2>1, DeletesState
  <2>3. Driver' = None /\ PendingDriver' = None /\ PreviousDriver' = None
    BY <2>2 DEF Driver, PendingDriver, PreviousDriver, reg, Values, InfValues
  <2>4. Staged = {} /\ Staged' = Staged
    BY <1>3, <1>10, <2>2 DEF Staged
  <2>5. Node' = None /\ Loaded' = {}
    BY <1>3, <1>10, <2>2 DEF Node, Loaded
  <2>6. \/ script' = "idle" /\ Handed' = None
        \/ script' = "fresh" /\ at' = 1 /\ Handed' = None
    BY <1>1, <1>3, <1>10, <2>2, Leads, NothingHanded DEF Advance, Enter, Handed
  <2>7. CASE script' = "idle" /\ Handed' = None
    BY <2>3, <2>4, <2>5, <2>7, NamesTyped, PacksNext, IdlePacks
  <2>8. CASE script' = "fresh" /\ at' = 1 /\ Handed' = None
    BY <2>3, <2>4, <2>5, <2>8, NamesTyped, PacksNext DEF PackInv, SettledPacks, Settled,
       Undoing, FreshPacks, UpdatePacks, SamePacks, PromotePacks, FailPacks, RetirePacks,
       UnwindPacks, UndoPacks
  <2>9. QED
    BY <2>6, <2>7, <2>8
<1>11. QED
  BY <1>1, <1>7, <1>8, <1>9, <1>10

\* Between two runs the record says what is there; a restart loads what the
\* node is bound to.
LEMMA IdleKeepsPacks ==
  ASSUME Inv, PackInv, Next, script = "idle"
  PROVE  PackInv'
<1>1. /\ Handed = None /\ Staged \subseteq {Driver, PendingDriver, PreviousDriver}
      /\ PendingDriver = None => /\ Loaded \subseteq {Driver, PreviousDriver}
                                 /\ Node \in Versions => Node = Driver
                                 /\ Driver # None => Driver # PreviousDriver
      /\ Node = "bare" => Driver = None
  BY PacksNow DEF PackInv, SettledPacks, Settled
<1>2. Call = "none"
  BY DEF Call
<1>3. \/ \E v \in Versions : RunInstall(v)
      \/ RunUninstall \/ Restart
  BY <1>2 DEF Next, ChooseInstallMode, WriteValue, Written, DeleteValue, Forgotten,
     DeleteState, CreateSigningCert, SignFiles, DestroySigningKey, TrustCertificate,
     RemoveTrustedCertificate, Untrusted, StagePackage, UnstagePackage, Unstaged,
     RemoveDevices, RegisterDevice, UpdateDevice, CopyPayload, RemoveInstallDir, Crash
<1>4. CASE (\E v \in Versions : RunInstall(v)) \/ RunUninstall
  <2>1. /\ UNCHANGED machine /\ at' = 1 /\ Handed' = None
        /\ \/ script' \in {"choose", "uninstall"}
           \/ script' = "retire" /\ PendingDriver = None
    BY <1>4 DEF RunInstall, RunUninstall, Enter, Handed, NewRun, NoRun, RetireFirst,
       PendingDriver
  <2>2. SamePackView /\ Staged' = Staged
    BY <2>1 DEF SamePackView, Driver, PendingDriver, PreviousDriver, reg, Node, Loaded, Staged
  <2>3. QED
    BY <1>1, <2>1, <2>2, NamesTyped, PacksNow, PacksNext DEF SamePackView, PackInv,
       SettledPacks, Settled, Undoing, FreshPacks, UpdatePacks, SamePacks, PromotePacks,
       FailPacks, RetirePacks, UnwindPacks, UndoPacks
<1>5. CASE Restart
  <2>1. machine \in Machines
    BY DEF Inv, Typed
  <2>2. /\ UNCHANGED <<machine.reg, machine.staged, machine.node>>
        /\ machine'.loaded \subseteq {machine.node} \cap Versions
        /\ script' = "idle" /\ run' = run
    BY <1>5, <2>1 DEF Restart, Set, Machines
  <2>3. /\ UNCHANGED <<Driver, PendingDriver, PreviousDriver, Node>>
        /\ Staged' = Staged /\ Handed' = None
        /\ Loaded' \subseteq {Node} \cap Versions
    BY <1>1, <2>2 DEF Driver, PendingDriver, PreviousDriver, reg, Node, Loaded, Staged, Handed
  <2>4. QED
    BY <1>1, <2>2, <2>3, PacksNext, IdlePacks
<1>6. QED
  BY <1>3, <1>4, <1>5

LEMMA PackInvBegins == Init => PackInv
<1> SUFFICES ASSUME Init PROVE PackInv
  OBVIOUS
<1>1. /\ script = "idle" /\ Handed = None /\ Driver = None /\ PendingDriver = None
      /\ PreviousDriver = None /\ Node = None /\ Loaded = {}
  BY DEF Init, CleanMachine, NoRun, NewRun, Handed, Driver, PendingDriver, PreviousDriver,
     reg, Node, Loaded, Values, InfValues
<1>2. Staged = {}
  BY DEF Init, CleanMachine, Staged
<1>3. QED
  BY <1>1, <1>2, PacksNow, FlowAssumption DEF PackInv, SettledPacks, Settled, Undoing,
     FreshPacks, UpdatePacks, SamePacks, PromotePacks, FailPacks, RetirePacks, UnwindPacks,
     UndoPacks

LEMMA PackInvSteps ==
  ASSUME Gentle, Inv, PackInv, [Next]_vars
  PROVE  PackInv'
<1>1. CASE UNCHANGED vars
  <2>1. UNCHANGED <<machine, script, at, run>>
    BY <1>1 DEF vars
  <2>2. UNCHANGED <<Handed, Driver, PendingDriver, PreviousDriver, Node, Loaded, Staged>>
    BY <2>1 DEF Handed, Driver, PendingDriver, PreviousDriver, reg, Node, Loaded, Staged
  <2>3. QED
    BY <2>1, <2>2, PacksNow, PacksNext DEF PackInv, SettledPacks, Settled, Undoing,
       FreshPacks, UpdatePacks, SamePacks, PromotePacks, FailPacks, RetirePacks, UnwindPacks,
       UndoPacks
<1>2. CASE Next /\ script = "idle"
  BY <1>2, IdleKeepsPacks
<1>3. CASE Crash
  BY <1>3, CrashKeepsPacks
<1>4. CASE Next /\ script # "idle" /\ ~Crash
  <2>1. script \in Names
    BY <1>4, ScriptNamed DEF Inv, Typed
  <2>2. QED
    BY <1>4, <2>1, FreshKeepsPacks, UpdateKeepsPacks, SameKeepsPacks, PromoteKeepsPacks,
       FailUpdateKeepsPacks, RetireKeepsPacks, UnwindKeepsPacks, UndoKeepsPacks
       DEF Names, Undoing
<1>5. QED
  BY <1>1, <1>2, <1>3, <1>4

LEMMA PackagesKnown == Gentle => (Spec => []PackInv)
<1> SUFFICES ASSUME Gentle PROVE Spec => []PackInv
  OBVIOUS
<1>1. Inv /\ PackInv /\ [Next]_vars => PackInv'
  BY PackInvSteps
<1>2. QED
  BY <1>1, PackInvBegins, FlowInvariant, PTL DEF Spec

-----------------------------------------------------------------------------
(* The invariant of signers: which of the recorded certificates signed the  *)
(* package on the node, and which the machine must go on trusting.          *)

SettledSigns ==
    /\ script \in {"idle", "retire", "choose"} => run.cert = None
    /\ Settled /\ Node \in Versions =>
           /\ machine.staged[Driver] = Current
           /\ Current # None /\ Current # PreviousCert

FreshSigns ==
    script = "fresh" =>
        /\ at > 7 => machine.trust[run.cert] = TrustStores
        /\ at > 9 => machine.staged[Handed] = run.cert

UpdateSigns ==
    script = "update" =>
        /\ machine.staged[Driver] = Current /\ Current # None /\ Current # run.cert
        /\ at <= 2 => run.cert = None
        /\ at > 6 => machine.trust[run.cert] = TrustStores
        /\ at > 7 /\ Handed # Driver => machine.staged[Handed] = run.cert

KeptSigns ==
    script \in {"same", "failUpdate"} =>
        /\ machine.staged[Driver] = Current /\ Current # None /\ Current # run.cert
        /\ PreviousCert = None

PromoteSigns ==
    script = "promote" =>
        /\ machine.staged[Handed] = run.cert /\ run.cert # None
        /\ IF at <= 3 THEN Current \notin {None, run.cert} ELSE Current = run.cert
        /\ PreviousCert # run.cert

\* What DriverTrusted says where no removal is refused.
NodeTrusted ==
    Node \in Versions => /\ machine.staged[Node] # None
                         /\ machine.trust[machine.staged[Node]] = TrustStores

SignInv ==
    /\ NodeTrusted
    /\ SettledSigns /\ FreshSigns /\ UpdateSigns /\ KeptSigns /\ PromoteSigns

\* What these properties read of the machine.
SignView == UNCHANGED <<Current, PreviousCert, Driver, machine.trust, machine.staged, Node>>

LEMMA TrustedNow ==
  NodeTrusted <=> (Node \in Versions =>
                        /\ machine.staged[Node] # None
                        /\ machine.trust[machine.staged[Node]] = TrustStores)
  BY DEF NodeTrusted

LEMMA TrustedNext ==
  NodeTrusted' <=> (Node' \in Versions =>
                        /\ machine'.staged[Node'] # None
                        /\ machine'.trust[machine'.staged[Node']] = TrustStores)
  BY DEF NodeTrusted, Node

LEMMA StoresTyped ==
  ASSUME Inv
  PROVE  /\ machine.trust \in [Certs -> SUBSET TrustStores]
         /\ machine.staged \in [Versions -> Certs \cup {None}]
         /\ {Current, PreviousCert, run.cert} \subseteq Certs \cup {None}
         /\ None \notin Certs /\ run \in Runs
<1>1. /\ machine.trust \in [Certs -> SUBSET TrustStores]
      /\ machine.staged \in [Versions -> Certs \cup {None}]
      /\ \A n \in Values : machine.reg[n] \in Holds(n) \cup {None}
  BY DEF Inv, Typed, Machines
<1>2. run \in Runs /\ run.cert \in Certs \cup {None}
  BY DEF Inv, Typed, RunOK, Runs
<1>3. \A n \in CertValues : n \in Values /\ Holds(n) = Certs
  <2>1. \A n \in CertValues : n \in Values
    BY DEF Values
  <2>2. \A n \in CertValues : Holds(n) = Certs
    BY DEF Holds, CertValues, InfValues
  <2>3. QED
    BY <2>1, <2>2
<1>4. {Current, PreviousCert} \subseteq Certs \cup {None}
  BY <1>1, <1>3 DEF Current, PreviousCert, reg, CertValues
<1>5. QED
  BY <1>1, <1>2, <1>4, FlowAssumption

\* A call that writes or deletes one value of the record changes no other.
LEMMA RecordNames ==
  ASSUME Inv, NEW n \in Values, NEW x, machine'.reg = [machine.reg EXCEPT ![n] = x]
  PROVE  /\ Current' = IF n = "CertThumbprint" THEN x ELSE Current
         /\ PreviousCert' = IF n = "PreviousCertThumbprint" THEN x ELSE PreviousCert
         /\ Driver' = IF n = "DriverInf" THEN x ELSE Driver
<1>1. DOMAIN machine.reg = Values
  BY DEF Inv, Typed, Machines
<1>2. QED
  BY <1>1 DEF Current, PreviousCert, Driver, reg, Values, CertValues, InfValues

LEMMA SameSigns ==
  ASSUME UNCHANGED <<machine.reg, machine.trust, machine.staged, machine.node>>
  PROVE  SignView
  BY DEF SignView, Current, PreviousCert, Driver, reg, Node

LEMMA SameNames ==
  ASSUME UNCHANGED machine.reg
  PROVE  UNCHANGED <<Current, PreviousCert, Driver>>
  BY DEF Current, PreviousCert, Driver, reg

\* The calls that leave the signers alone, and the certificate of the run.
SignQuietCalls == {"recordDir", "copy", "sign", "destroyKey", "recordVersion",
                   "recordPreviousInf", "forgetPendingCert", "forgetPendingInf",
                   "forgetPreviousInf", "removeFiles"}

GoesOn ==
    \/ Fail /\ script \in {"fresh", "update", "same", "promote"}
    \/ \E r : AdvanceWith(r) /\ r.cert = run.cert /\ r.published = Handed

LEMMA SignQuietSteps ==
  ASSUME Inv, Gentle, Next, script # "idle", ~Crash, Call \in SignQuietCalls
  PROVE  SignView /\ GoesOn
<1>1. run \in Runs
  BY StoresTyped
<1>2. Call \in {"recordDir", "recordVersion", "recordPreviousInf", "copy", "destroyKey"}
        => script \in {"fresh", "update", "same", "promote"}
  BY CallSites DEF Inv, Typed
<1>3. Advance => GoesOn
  BY DEF Advance, GoesOn, Handed
<1>4. CASE Call \in {"recordDir", "recordVersion", "recordPreviousInf"}
  <2>1. WriteValue
    BY <1>4, OneAction
  <2>2. Written[Call] \in {"InstallDir", "Version", "PreviousDriverInf"}
    BY <1>4 DEF Written
  <2>3. /\ UNCHANGED <<machine.trust, machine.staged, machine.node>>
        /\ \/ UNCHANGED machine.reg /\ Fail
           \/ /\ machine'.reg = [machine.reg EXCEPT ![Written[Call]] = ValueFor[Call]]
              /\ Advance
    BY <2>1, Writes
  <2>4. UNCHANGED <<Current, PreviousCert, Driver>>
    BY <2>2, <2>3, SameNames, RecordNames DEF Values, InfValues
  <2>5. QED
    BY <1>2, <1>3, <1>4, <2>3, <2>4 DEF SignView, Node, GoesOn
<1>5. CASE Call \in {"forgetPendingCert", "forgetPendingInf", "forgetPreviousInf"}
  <2>1. DeleteValue
    BY <1>5, OneAction
  <2>2. Forgotten[Call] \in {"PendingCertThumbprint", "PendingDriverInf", "PreviousDriverInf"}
    BY <1>5 DEF Forgotten
  <2>3. /\ UNCHANGED <<machine.trust, machine.staged, machine.node>>
        /\ machine'.reg = [machine.reg EXCEPT ![Forgotten[Call]] = None]
        /\ Advance
    BY <2>1, Deletes
  <2>4. UNCHANGED <<Current, PreviousCert, Driver>>
    BY <2>2, <2>3, RecordNames DEF Values, InfValues, CertValues
  <2>5. QED
    BY <1>3, <2>3, <2>4 DEF SignView, Node
<1>6. CASE Call = "copy"
  BY <1>2, <1>3, <1>6, OneAction, Copies, SameSigns DEF GoesOn
<1>7. CASE Call = "destroyKey"
  BY <1>2, <1>3, <1>7, OneAction, Destroys, SameSigns DEF GoesOn
<1>8. CASE Call = "removeFiles"
  BY <1>3, <1>8, OneAction, RemovesDir, SameSigns
<1>9. CASE Call = "sign"
  <2>1. UNCHANGED machine
    BY <1>9, OneAction, Signs
  <2>2. PICK b : AdvanceWith([run EXCEPT !.signed = b])
    BY <1>9, OneAction, Signs
  <2>3. [run EXCEPT !.signed = b].cert = run.cert /\ [run EXCEPT !.signed = b].published = Handed
    BY <1>1 DEF Runs, Handed
  <2>4. QED
    BY <2>1, <2>2, <2>3, SameSigns DEF GoesOn
<1>10. QED
  BY <1>4, <1>5, <1>6, <1>7, <1>8, <1>9 DEF SignQuietCalls

\* With no release on the node, or with the run over, little is left to say.
LEMMA IdleSigns ==
  ASSUME script' = "idle", run'.cert = None, NodeTrusted',
         PendingDriver' = None /\ Node' \in Versions =>
             /\ machine'.staged[Driver'] = Current'
             /\ Current' # None /\ Current' # PreviousCert'
  PROVE  SignInv'
  BY DEF SignInv, SettledSigns, Settled, Undoing, FreshSigns, UpdateSigns, KeptSigns,
     PromoteSigns

LEMMA BareSigns ==
  ASSUME Node' \notin Versions,
         \/ script' = "fresh" /\ at' \in 1 .. 7
         \/ script' \in Undoing \cup {"unwind"}
         \/ script' = "idle" /\ run'.cert = None
  PROVE  SignInv'
  BY TrustedNext DEF SignInv, SettledSigns, Settled, Undoing, FreshSigns, UpdateSigns,
     KeptSigns, PromoteSigns

LEMMA RunEnds ==
  ASSUME NEW o, EndRun(o) PROVE script' = "idle" /\ run'.cert = None /\ Handed' = None
  BY DEF EndRun, Handed, NoRun, NewRun

\* The signer of the driver in use, at each place where the run may stop.
LEMMA StopSigns ==
  ASSUME Inv, Gentle, Recording, PackInv, PackInv', SignInv, SignView, script # "idle",
         script' = "idle", run'.cert = None, UNCHANGED PendingDriver
  PROVE  SignInv'
<1>1. Place /\ (script = "fresh" => at \in 1 .. 13 /\ (at > 3 => run.cert \in Certs))
      /\ script \in Names /\ at \in Nat
  BY FreshPlaces, ScriptNamed DEF Inv, Typed, RunOK, Place
<1>2. NodeTrusted'
  BY TrustedNow, TrustedNext DEF SignInv, SignView
<1>3. ASSUME PendingDriver = None, Node \in Versions
      PROVE  machine.staged[Driver] = Current /\ Current # None /\ Current # PreviousCert
  <2>1. Node = Driver
    BY <1>3 DEF SignView, PackInv, SettledPacks, Settled
  <2>2. CASE script \in {"retire", "choose"} \cup Undoing
    BY <1>3, <2>2 DEF SignInv, SettledSigns, Settled
  <2>3. CASE script = "fresh"
    <3>1. at > 12
      BY <1>1, <1>3, <2>1, <2>3, NamesTyped DEF PackInv, FreshPacks
    <3>2. machine.staged[Handed] = run.cert /\ Driver = Handed
      BY <1>1, <2>3, <3>1 DEF SignInv, FreshSigns, PackInv, FreshPacks
    <3>3. Current = run.cert /\ PreviousCert = None /\ run.cert \in Certs
      BY <1>1, <2>3, <3>1 DEF Recording, RecordFits, Gentle
    <3>4. QED
      BY <3>2, <3>3, StoresTyped
  <2>4. CASE script = "update"
    BY <2>4 DEF SignInv, UpdateSigns, Recording, RecordFits
  <2>5. CASE script \in {"same", "failUpdate"}
    BY <2>5 DEF SignInv, KeptSigns
  <2>6. CASE script = "promote"
    <3>1. at > 6 /\ Driver = Handed
      BY <1>1, <1>3, <2>6, NamesTyped DEF PackInv, PromotePacks
    <3>2. QED
      BY <1>1, <2>6, <3>1 DEF SignInv, PromoteSigns
  <2>7. script # "unwind"
    BY <1>3, <2>1, NamesTyped DEF PackInv, UnwindPacks
  <2>8. QED
    BY <1>1, <2>2, <2>3, <2>4, <2>5, <2>6, <2>7 DEF Names, Undoing
<1>4. QED
  BY <1>2, <1>3, IdleSigns DEF SignView

LEMMA FailKeepsSigns ==
  ASSUME Inv, Gentle, Recording, PackInv, PackInv', SignInv, SignView, UNCHANGED PendingDriver, Fail,
         script \in {"fresh", "update", "same", "promote"}
  PROVE  SignInv'
<1>1. Place /\ NodeTrusted'
  BY TrustedNow, TrustedNext DEF SignInv, SignView, Inv, Typed
<1>2. CASE script \in {"same", "promote"}
  <2>1. script' = "idle" /\ run'.cert = None
    BY <1>1, <1>2, FailLeads, RunEnds
  <2>2. QED
    BY <1>2, <2>1, StopSigns
<1>3. CASE script = "update"
  <2>1. script' = "failUpdate" /\ run' = run
    BY <1>1, <1>3, FailLeads DEF Enter
  <2>2. PreviousCert = None
    BY <1>3 DEF Recording, RecordFits
  <2>3. QED
    BY <1>1, <1>3, <2>1, <2>2 DEF SignView, SignInv, SettledSigns, Settled, Undoing,
       FreshSigns, UpdateSigns, KeptSigns, PromoteSigns
<1>4. CASE script = "fresh"
  <2>1. /\ script' \in {"unwind", "rollback"} /\ run' = run
        /\ script' = "rollback" => at \in 1 .. 9 \cup {13}
    BY <1>1, <1>4, FreshPlaces, FailLeads DEF Enter
  <2>2. CASE Node' \notin Versions
    BY <2>1, <2>2, BareSigns DEF Undoing
  <2>3. CASE Node' \in Versions
    <3>1. Node \in Versions /\ at \in Nat
      BY <1>1, <2>3 DEF SignView, Place
    <3>2. at > 11 /\ Node = Handed
      BY <1>4, <3>1 DEF PackInv, FreshPacks
    <3>3. CASE script' = "unwind"
      BY <1>1, <3>3 DEF SignInv, SettledSigns, Settled, Undoing, FreshSigns, UpdateSigns,
         KeptSigns, PromoteSigns
    <3>4. CASE script' = "rollback"
      <4>1. at = 13
        BY <2>1, <3>2, <3>4
      <4>2. machine.staged[Handed] = run.cert /\ Driver = Handed
        BY <1>4, <4>1 DEF SignInv, FreshSigns, PackInv, FreshPacks
      <4>3. Current = run.cert /\ PreviousCert = None /\ run.cert \in Certs
        BY <1>4, <4>1 DEF Recording, RecordFits, Gentle, Inv, Typed, RunOK
      <4>4. QED
        BY <1>1, <3>4, <4>2, <4>3, StoresTyped DEF SignView, SignInv, SettledSigns, Settled,
           Undoing, FreshSigns, UpdateSigns, KeptSigns, PromoteSigns
    <3>5. QED
      BY <2>1, <3>3, <3>4
  <2>4. QED
    BY <2>2, <2>3
<1>5. QED
  BY <1>2, <1>3, <1>4

LEMMA FreshKeepsSigns ==
  ASSUME Inv, Inv', Recording, PackInv, PackInv', SignInv, Gentle, Next, ~Crash, script = "fresh"
  PROVE  SignInv'
<1>1. /\ Place /\ at \in 1 .. 13 /\ (at > 9 => Handed \in Versions) /\ run.version \in Versions
      /\ at > 3 => run.cert \in Certs
      /\ at' \in Nat
  BY FreshPlaces DEF Inv, Typed, RunOK, Handed, Going, Place
<1>2. \A r : AdvanceWith(r) => \/ at < 13 /\ script' = "fresh" /\ at' = at + 1 /\ run' = r
                               \/ at = 13 /\ script' = "idle" /\ run'.cert = None
  BY <1>1, Leads, RunEnds DEF On, Enter
<1>3. CASE SignView /\ UNCHANGED PendingDriver /\ Fail
  BY <1>3, FailKeepsSigns
<1>4. script' = "fresh" /\ at' <= 11 => Node' \notin Versions
  BY <1>1 DEF PackInv, FreshPacks
<1>5. CASE script' = "fresh" /\ at' \in 1 .. 7
  BY <1>1, <1>4, <1>5, BareSigns
<1>6. ASSUME /\ script' = "fresh" /\ at' > 7 /\ run'.cert = run.cert
             /\ machine'.trust[run.cert] = TrustStores
             /\ at' > 9 => machine'.staged[Handed'] = run.cert
      PROVE  SignInv'
  <2>1. at' > 11 => Node' = Handed'
    BY <1>1, <1>6 DEF PackInv, FreshPacks
  <2>2. at' \in Nat /\ (at' > 7 => run.cert \in Certs)
    BY <1>6 DEF Inv, Typed, RunOK, Place
  <2>3. NodeTrusted'
    BY <1>1, <1>4, <1>6, <2>1, <2>2, StoresTyped, TrustedNext
  <2>4. QED
    BY <1>6, <2>3 DEF SignInv, SettledSigns, Settled, Undoing, FreshSigns, UpdateSigns,
       KeptSigns, PromoteSigns
<1>7. CASE at \in {1, 2, 4, 5}
  <2>1. SignView /\ UNCHANGED PendingDriver /\ GoesOn
    <3>1. Call \in SignQuietCalls \cap QuietCalls
      BY <1>1, <1>7, FreshPlaces DEF SignQuietCalls, QuietCalls
    <3>2. QED
      BY <3>1, SignQuietSteps, QuietSteps DEF Quiet, SamePackView
  <2>2. CASE \E r : AdvanceWith(r) /\ r.cert = run.cert /\ r.published = Handed
    BY <1>2, <1>5, <1>7, <2>2
  <2>3. QED
    BY <1>3, <2>1, <2>2 DEF GoesOn
<1>8. CASE at = 3
  <2>1. CreateSigningCert
    BY <1>1, <1>8, FreshPlaces, OneAction
  <2>2. UNCHANGED <<machine.reg, machine.trust, machine.staged, machine.node>>
    BY <2>1, Creates
  <2>3. CASE Fail
    BY <1>3, <2>2, <2>3, SameSigns DEF PendingDriver, reg
  <2>4. CASE \E c : AdvanceWith([run EXCEPT !.cert = c])
    BY <1>2, <1>5, <1>8, <2>4
  <2>5. QED
    BY <2>1, <2>3, <2>4, Creates
<1>9. CASE at = 6
  <2>1. WriteValue
    BY <1>1, <1>9, FreshPlaces, OneAction
  <2>2. CASE UNCHANGED machine.reg /\ Fail
    <3>1. UNCHANGED <<machine.reg, machine.trust, machine.staged, machine.node>>
      BY <2>1, <2>2, Writes
    <3>2. QED
      BY <1>3, <2>2, <3>1, SameSigns DEF PendingDriver, reg
  <2>3. CASE Advance
    BY <1>2, <1>5, <1>9, <2>3 DEF Advance
  <2>4. QED
    BY <2>1, <2>2, <2>3, Writes
<1>10. CASE at = 7
  <2>1. TrustCertificate
    BY <1>1, <1>10, FreshPlaces, OneAction
  <2>2. CASE UNCHANGED machine.trust /\ Fail
    <3>1. UNCHANGED <<machine.reg, machine.trust, machine.staged, machine.node>>
      BY <2>1, <2>2, Trusts
    <3>2. QED
      BY <1>3, <2>2, <3>1, SameSigns DEF PendingDriver, reg
  <2>3. CASE Enter(script, at, run)
    BY <1>5, <1>10, <2>3 DEF Enter
  <2>4. CASE machine'.trust = [machine.trust EXCEPT ![run.cert] = TrustStores] /\ Advance
    <3>1. script' = "fresh" /\ at' = 8 /\ run' = run
      BY <1>2, <1>10, <2>4 DEF Advance
    <3>2. machine'.trust[run.cert] = TrustStores
      BY <1>1, <1>10, <2>4, StoresTyped
    <3>3. QED
      BY <1>6, <3>1, <3>2
  <2>5. QED
    BY <2>1, <2>2, <2>3, <2>4, Trusts
<1>11. CASE at \in {8, 10, 11, 12}
  <2>1. machine.trust[run.cert] = TrustStores /\ (at > 9 => machine.staged[Handed] = run.cert)
    BY <1>1, <1>11 DEF SignInv, FreshSigns
  <2>2. /\ UNCHANGED <<machine.trust, machine.staged>>
        /\ \/ Fail /\ UNCHANGED <<machine.reg, machine.node>>
           \/ \E r : AdvanceWith(r) /\ r.cert = run.cert /\ r.published = Handed
    <3>1. Advance => \E r : AdvanceWith(r) /\ r.cert = run.cert /\ r.published = Handed
      BY DEF Advance, Handed
    <3>2. CASE at = 8
      BY <1>1, <3>1, <3>2, FreshPlaces, OneAction, RemovesDevices
    <3>3. CASE at = 10
      BY <1>1, <3>1, <3>3, FreshPlaces, OneAction, Registers
    <3>4. CASE at = 11
      <4>1. \A b : /\ [run EXCEPT !.reboot = b].cert = run.cert
                   /\ [run EXCEPT !.reboot = b].published = Handed
        BY StoresTyped DEF Runs, Handed
      <4>2. QED
        BY <1>1, <3>4, <4>1, FreshPlaces, OneAction, Binds
    <3>5. CASE at = 12
      BY <1>1, <3>1, <3>5, FreshPlaces, OneAction, Writes
    <3>6. QED
      BY <1>11, <3>2, <3>3, <3>4, <3>5
  <2>3. CASE Fail /\ UNCHANGED <<machine.reg, machine.node>>
    BY <1>3, <2>2, <2>3, SameSigns DEF PendingDriver, reg
  <2>4. CASE \E r : AdvanceWith(r) /\ r.cert = run.cert /\ r.published = Handed
    <3>1. script' = "fresh" /\ at' = at + 1 /\ run'.cert = run.cert /\ Handed' = Handed
      BY <1>2, <1>11, <2>4 DEF Handed
    <3>2. QED
      BY <1>6, <1>11, <2>1, <2>2, <3>1
  <2>5. QED
    BY <2>2, <2>3, <2>4
<1>12. CASE at = 9
  <2>1. StagePackage
    BY <1>1, <1>12, FreshPlaces, OneAction
  <2>2. CASE UNCHANGED machine.staged /\ Fail
    <3>1. UNCHANGED <<machine.reg, machine.trust, machine.staged, machine.node>>
      BY <2>1, <2>2, Stages
    <3>2. QED
      BY <1>3, <2>2, <3>1, SameSigns DEF PendingDriver, reg
  <2>3. CASE /\ machine'.staged = [machine.staged EXCEPT
                                     ![run.version] = IF @ = None THEN run.cert ELSE @]
             /\ AdvanceWith([run EXCEPT !.published = run.version])
    <3>1. script' = "fresh" /\ at' = 10 /\ Handed' = run.version /\ run'.cert = run.cert
      BY <1>2, <1>12, <2>3, StoresTyped DEF Handed, Runs
    <3>2. run.version \notin Staged
      BY <1>1, <1>12, PacksNow, NamesTyped DEF PackInv, FreshPacks
    <3>3. machine.staged[run.version] = None
      BY <1>1, <3>2 DEF Staged
    <3>4. machine'.staged[Handed'] = run.cert
      BY <1>1, <2>3, <3>1, <3>3, StoresTyped
    <3>5. machine'.trust[run.cert] = TrustStores
      BY <1>12, <2>1, Stages DEF SignInv, FreshSigns
    <3>6. QED
      BY <1>6, <3>1, <3>4, <3>5
  <2>4. QED
    BY <2>1, <2>2, <2>3, Stages
<1>13. CASE at = 13
  <2>1. SignView /\ UNCHANGED PendingDriver /\ GoesOn
    <3>1. Call \in SignQuietCalls \cap QuietCalls
      BY <1>1, <1>13, FreshPlaces DEF SignQuietCalls, QuietCalls
    <3>2. QED
      BY <3>1, SignQuietSteps, QuietSteps DEF Quiet, SamePackView
  <2>2. CASE \E r : AdvanceWith(r) /\ r.cert = run.cert /\ r.published = Handed
    BY <1>2, <1>13, <2>1, <2>2, StopSigns
  <2>3. QED
    BY <1>3, <2>1, <2>2 DEF GoesOn
<1>14. QED
  BY <1>1, <1>7, <1>8, <1>9, <1>10, <1>11, <1>12, <1>13

LEMMA UpdateKeepsSigns ==
  ASSUME Inv, Inv', Recording, PackInv, PackInv', SignInv, Gentle, Next, ~Crash,
         script = "update"
  PROVE  SignInv'
<1>1. /\ Place /\ at \in 1 .. 9 /\ run.version \in Versions /\ at' \in Nat
      /\ at > 2 => run.cert \in Certs
      /\ at > 7 => Handed \in Versions
  BY UpdatePlaces DEF Inv, Typed, RunOK, Handed, Going, Place
<1>2. /\ machine.staged[Driver] = Current /\ Current # None /\ Current # run.cert
      /\ at <= 2 => run.cert = None
      /\ at > 6 => machine.trust[run.cert] = TrustStores
      /\ at > 7 /\ Handed # Driver => machine.staged[Handed] = run.cert
      /\ PreviousCert = None /\ Driver \in Versions /\ Node = Driver
      /\ machine.trust[Current] = TrustStores
      /\ Current \in Certs
  <2>1. Driver \in Versions /\ Node = Driver
    BY NamesTyped DEF PackInv, UpdatePacks
  <2>2. QED
    BY <2>1, TrustedNow, StoresTyped DEF SignInv, UpdateSigns, Recording, RecordFits
<1>3. \A r : AdvanceWith(r) =>
           \/ at < 9 /\ script' = "update" /\ at' = at + 1 /\ run' = r
           \/ /\ at = 9 /\ run' = r
              /\ script' = IF r.published = Driver THEN "same" ELSE "promote"
  BY <1>1, Leads DEF On, Enter
<1>4. CASE SignView /\ UNCHANGED PendingDriver /\ Fail
  BY <1>4, FailKeepsSigns
<1>5. ASSUME /\ script' = "update" /\ UNCHANGED <<Current, Driver, Node>>
             /\ run'.cert # Current
             /\ machine'.trust[Current] = TrustStores
             /\ machine'.staged[Driver] = Current
             /\ at' <= 2 => run'.cert = None
             /\ at' > 6 => machine'.trust[run'.cert] = TrustStores
             /\ at' > 7 /\ Handed' # Driver => machine'.staged[Handed'] = run'.cert
      PROVE  SignInv'
  <2>1. NodeTrusted'
    BY <1>2, <1>5, TrustedNext
  <2>2. QED
    BY <1>2, <1>5, <2>1 DEF SignInv, SettledSigns, Settled, Undoing, FreshSigns,
       UpdateSigns, KeptSigns, PromoteSigns
<1>6. CASE at \in {1, 3, 4}
  <2>1. SignView /\ UNCHANGED PendingDriver /\ GoesOn
    <3>1. Call \in SignQuietCalls \cap QuietCalls
      BY <1>1, <1>6, UpdatePlaces DEF SignQuietCalls, QuietCalls
    <3>2. QED
      BY <3>1, SignQuietSteps, QuietSteps DEF Quiet, SamePackView
  <2>2. CASE \E r : AdvanceWith(r) /\ r.cert = run.cert /\ r.published = Handed
    <3>1. script' = "update" /\ at' = at + 1 /\ run'.cert = run.cert
      BY <1>3, <1>6, <2>2
    <3>2. QED
      BY <1>2, <1>5, <1>6, <2>1, <3>1 DEF SignView
  <2>3. QED
    BY <1>4, <2>1, <2>2 DEF GoesOn
<1>7. CASE at = 2
  <2>1. CreateSigningCert
    BY <1>1, <1>7, UpdatePlaces, OneAction
  <2>2. UNCHANGED <<machine.reg, machine.trust, machine.staged, machine.node>>
    BY <2>1, Creates
  <2>3. SignView /\ UNCHANGED PendingDriver
    BY <2>2, SameSigns DEF PendingDriver, reg
  <2>4. CASE \E c \in Certs : Unused(c) /\ AdvanceWith([run EXCEPT !.cert = c])
    <3>1. PICK c \in Certs : Unused(c) /\ AdvanceWith([run EXCEPT !.cert = c])
      BY <2>4
    <3>2. script' = "update" /\ at' = 3 /\ run'.cert = c
      BY <1>3, <1>7, <3>1, StoresTyped DEF Runs
    <3>3. Current # c
      BY <3>1 DEF Unused, CertValues, Current
    <3>4. QED
      BY <1>2, <1>5, <2>3, <3>2, <3>3 DEF SignView
  <2>5. QED
    BY <1>4, <2>1, <2>3, <2>4, Creates
<1>8. CASE at \in {5, 8}
  <2>1. WriteValue /\ Call = IF at = 5 THEN "recordCert" ELSE "recordInf"
    BY <1>1, <1>8, UpdatePlaces, OneAction
  <2>2. Written[Call] \in {"PendingCertThumbprint", "PendingDriverInf"}
    BY <2>1 DEF Written
  <2>3. UNCHANGED <<machine.trust, machine.staged, machine.node, Node>>
    BY <2>1, Writes DEF Node
  <2>4. CASE UNCHANGED machine.reg /\ Fail
    BY <1>4, <2>3, <2>4, SameSigns DEF PendingDriver, reg
  <2>5. CASE /\ machine'.reg = [machine.reg EXCEPT ![Written[Call]] = ValueFor[Call]]
             /\ Advance
    <3>1. UNCHANGED <<Current, PreviousCert, Driver>>
      BY <2>2, <2>5, RecordNames DEF Values, InfValues, CertValues
    <3>2. script' = "update" /\ at' = at + 1 /\ run' = run /\ Handed' = Handed
      BY <1>3, <1>8, <2>5 DEF Advance, Handed
    <3>3. QED
      BY <1>2, <1>5, <1>8, <2>3, <3>1, <3>2
  <2>6. QED
    BY <2>1, <2>4, <2>5, Writes
<1>9. CASE at = 6
  <2>1. TrustCertificate
    BY <1>1, <1>9, UpdatePlaces, OneAction
  <2>2. UNCHANGED <<machine.reg, machine.staged, machine.node>>
    BY <2>1, Trusts
  <2>3. UNCHANGED <<Current, PreviousCert, Driver, Node, PendingDriver>>
    BY <2>2, SameNames DEF Node, PendingDriver, reg
  <2>4. CASE UNCHANGED machine.trust /\ Fail
    BY <1>4, <2>2, <2>3, <2>4, SameSigns
  <2>5. CASE machine'.trust = [machine.trust EXCEPT ![run.cert] = {"Root"}]
             /\ Enter(script, at, run)
    <3>1. script' = "update" /\ at' = 6 /\ run' = run
      BY <1>9, <2>5 DEF Enter
    <3>2. machine'.trust[Current] = TrustStores
      BY <1>2, <2>5, StoresTyped
    <3>3. QED
      BY <1>2, <1>5, <2>2, <2>3, <3>1, <3>2
  <2>6. CASE machine'.trust = [machine.trust EXCEPT ![run.cert] = TrustStores] /\ Advance
    <3>1. script' = "update" /\ at' = 7 /\ run' = run
      BY <1>3, <1>9, <2>6 DEF Advance
    <3>2. machine'.trust[Current] = TrustStores /\ machine'.trust[run.cert] = TrustStores
      BY <1>1, <1>2, <1>9, <2>6, StoresTyped
    <3>3. QED
      BY <1>2, <1>5, <2>2, <2>3, <3>1, <3>2
  <2>7. QED
    BY <2>1, <2>4, <2>5, <2>6, Trusts
<1>10. CASE at = 7
  <2>1. StagePackage
    BY <1>1, <1>10, UpdatePlaces, OneAction
  <2>2. UNCHANGED <<machine.reg, machine.trust, machine.node>>
    BY <2>1, Stages
  <2>3. UNCHANGED <<Current, PreviousCert, Driver, Node, PendingDriver>>
    BY <2>2, SameNames DEF Node, PendingDriver, reg
  <2>4. CASE UNCHANGED machine.staged /\ Fail
    BY <1>4, <2>2, <2>3, <2>4, SameSigns
  <2>5. CASE /\ machine'.staged = [machine.staged EXCEPT
                                     ![run.version] = IF @ = None THEN run.cert ELSE @]
             /\ AdvanceWith([run EXCEPT !.published = run.version])
    <3>1. script' = "update" /\ at' = 8 /\ Handed' = run.version /\ run'.cert = run.cert
      BY <1>3, <1>10, <2>5, StoresTyped DEF Handed, Runs
    <3>2. machine'.staged[Driver] = Current
      BY <1>2, <2>5, StoresTyped
    <3>3. ASSUME run.version # Driver PROVE machine'.staged[run.version] = run.cert
      <4>1. run.version \notin Staged
        BY <1>1, <1>10, <3>3, PacksNow, NamesTyped DEF PackInv, UpdatePacks
      <4>2. machine.staged[run.version] = None
        BY <1>1, <4>1 DEF Staged
      <4>3. QED
        BY <1>1, <2>5, <4>2, StoresTyped
    <3>4. QED
      BY <1>2, <1>5, <1>10, <2>2, <2>3, <3>1, <3>2, <3>3
  <2>6. QED
    BY <2>1, <2>4, <2>5, Stages
<1>11. CASE at = 9
  <2>1. UpdateDevice
    BY <1>1, <1>11, UpdatePlaces, OneAction
  <2>2. UNCHANGED <<machine.reg, machine.trust, machine.staged>>
    BY <2>1, Binds
  <2>3. UNCHANGED <<Current, PreviousCert, Driver, PendingDriver>>
    BY <2>2, SameNames DEF PendingDriver, reg
  <2>4. CASE UNCHANGED <<machine.node, machine.loaded>> /\ Fail
    BY <1>4, <2>2, <2>3, <2>4, SameSigns
  <2>5. CASE machine'.node = Handed /\ \E b : AdvanceWith([run EXCEPT !.reboot = b])
    <3>1. PICK b : AdvanceWith([run EXCEPT !.reboot = b])
      BY <2>5
    <3>2. PICK r : r = [run EXCEPT !.reboot = b]
      OBVIOUS
    <3>3. AdvanceWith(r) /\ r.published = Handed /\ r.cert = run.cert
      BY <3>1, <3>2, StoresTyped DEF Handed, Runs
    <3>4. /\ script' = IF Handed = Driver THEN "same" ELSE "promote"
          /\ run'.cert = run.cert /\ Handed' = Handed
      BY <1>3, <1>11, <3>3 DEF Handed
    <3>5. Node' = Handed /\ Handed \in Versions /\ run.cert \in Certs
      BY <1>1, <1>11, <2>5 DEF Node
    <3>6. CASE Handed = Driver
      <4>1. NodeTrusted'
        BY <1>2, <2>2, <3>5, <3>6, TrustedNext
      <4>2. QED
        BY <1>2, <2>2, <2>3, <3>4, <3>6, <4>1 DEF SignInv, SettledSigns, Settled, Undoing,
           FreshSigns, UpdateSigns, KeptSigns, PromoteSigns
    <3>7. CASE Handed # Driver
      <4>1. machine.staged[Handed] = run.cert /\ machine.trust[run.cert] = TrustStores
        BY <1>2, <1>11, <3>7
      <4>2. NodeTrusted'
        BY <2>2, <3>5, <4>1, StoresTyped, TrustedNext
      <4>3. PreviousCert # run.cert /\ Current \notin {None, run.cert} /\ run.cert # None
        BY <1>2, <3>5, StoresTyped
      <4>4. script' = "promote" /\ at' = 1
        BY <1>1, <1>11, <3>3, <3>7, Leads DEF Enter
      <4>5. QED
        BY <2>2, <2>3, <3>4, <4>1, <4>2, <4>3, <4>4 DEF SignInv, SettledSigns, Settled,
           Undoing, FreshSigns, UpdateSigns, KeptSigns, PromoteSigns
    <3>8. QED
      BY <3>6, <3>7
  <2>6. QED
    BY <2>1, <2>4, <2>5, Binds DEF Handed
<1>12. QED
  BY <1>1, <1>6, <1>7, <1>8, <1>9, <1>10, <1>11

\* Trust is taken from another certificate than the one given.
LEMMA OtherTrust ==
  ASSUME Inv, Gentle, RemoveTrustedCertificate, NEW c, c = Untrusted[Call],
         NEW d \in Certs, d # c
  PROVE  /\ UNCHANGED <<Current, PreviousCert, Driver, PendingDriver, machine.staged, Node>>
         /\ machine'.trust[d] = machine.trust[d]
         /\ Advance \/ Enter(script, at, run)
<1>1. UNCHANGED <<machine.reg, machine.staged, machine.node>>
  BY Untrusts
<1>2. UNCHANGED <<Current, PreviousCert, Driver, Node, PendingDriver>>
  BY <1>1, SameNames DEF Node, PendingDriver, reg
<1>3. /\ machine'.trust[d] = machine.trust[d]
      /\ Advance \/ Enter(script, at, run)
  BY Untrusts, StoresTyped
<1>4. QED
  BY <1>1, <1>2, <1>3

LEMMA SameKeepsSigns ==
  ASSUME Inv, Recording, PackInv, PackInv', SignInv, Gentle, Next, ~Crash, script = "same"
  PROVE  SignInv'
<1>1. Place /\ at \in 1 .. 4
  BY SamePlaces DEF Inv, Typed
<1>2. /\ machine.staged[Driver] = Current /\ Current \in Certs /\ Current # run.cert
      /\ PreviousCert = None /\ Driver \in Versions /\ Node = Driver
      /\ machine.trust[Current] = TrustStores
  <2>1. Driver \in Versions /\ Node = Driver
    BY DEF PackInv, SamePacks
  <2>2. QED
    BY <2>1, TrustedNow, StoresTyped DEF SignInv, KeptSigns
<1>3. \A r : AdvanceWith(r) => \/ script' = "same" /\ run' = r
                               \/ script' = "idle" /\ run'.cert = None
  BY <1>1, Leads, RunEnds DEF On, Enter
<1>4. CASE at = 1
  <2>1. RemoveTrustedCertificate /\ Untrusted[Call] = run.cert
    BY <1>1, <1>4, SamePlaces, OneAction DEF Untrusted
  <2>2. /\ UNCHANGED <<Current, PreviousCert, Driver, machine.staged, Node>>
        /\ machine'.trust[Current] = machine.trust[Current]
        /\ Advance \/ Enter(script, at, run)
    BY <1>2, <2>1, OtherTrust
  <2>3. script' = "same" /\ run' = run
    BY <1>1, <1>4, <2>2, Leads DEF Advance, On, Enter
  <2>4. NodeTrusted'
    BY <1>2, <2>2, StoresTyped, TrustedNext
  <2>5. QED
    BY <1>2, <2>2, <2>3, <2>4, StoresTyped DEF SignInv, SettledSigns, Settled, Undoing,
       FreshSigns, UpdateSigns, KeptSigns, PromoteSigns
<1>5. CASE at \in 2 .. 4
  <2>1. SignView /\ GoesOn
    <3>1. Call \in SignQuietCalls
      BY <1>1, <1>5, SamePlaces DEF SignQuietCalls
    <3>2. QED
      BY <3>1, SignQuietSteps
  <2>2. NodeTrusted'
    BY <2>1, TrustedNow, TrustedNext DEF SignInv, SignView
  <2>3. CASE script' = "idle" /\ run'.cert = None
    BY <1>2, <2>1, <2>2, <2>3, StoresTyped, IdleSigns DEF SignView
  <2>4. CASE script' = "same" /\ run'.cert = run.cert
    BY <1>2, <2>1, <2>2, <2>4, StoresTyped DEF SignView, SignInv, SettledSigns, Settled,
       Undoing, FreshSigns, UpdateSigns, KeptSigns, PromoteSigns
  <2>5. CASE Fail
    BY <1>1, <2>3, <2>5, FailLeads, RunEnds
  <2>6. QED
    BY <1>3, <2>1, <2>3, <2>4, <2>5 DEF GoesOn
<1>6. QED
  BY <1>1, <1>4, <1>5

LEMMA PromoteKeepsSigns ==
  ASSUME Inv, Recording, PackInv, PackInv', SignInv, Gentle, Next, ~Crash, script = "promote"
  PROVE  SignInv'
<1>1. Place /\ at \in 1 .. 11
  BY PromotePlaces DEF Inv, Typed
<1>2. /\ machine.staged[Handed] = run.cert /\ run.cert \in Certs
      /\ IF at <= 3 THEN Current \notin {None, run.cert} ELSE Current = run.cert
      /\ PreviousCert # run.cert
      /\ Handed \in Versions /\ Node = Handed /\ PreviousDriver # Handed
      /\ machine.trust[run.cert] = TrustStores
  <2>1. Handed \in Versions /\ Node = Handed /\ PreviousDriver # Handed
    BY DEF PackInv, PromotePacks
  <2>2. QED
    BY <2>1, TrustedNow, StoresTyped DEF SignInv, PromoteSigns
<1>3. \A r : AdvanceWith(r) =>
           \/ at < 11 /\ script' = "promote" /\ at' = at + 1 /\ run' = r
           \/ at = 11 /\ script' = "idle" /\ run'.cert = None
  BY <1>1, Leads, RunEnds DEF On, Enter
<1>4. CASE SignView /\ UNCHANGED PendingDriver /\ Fail
  BY <1>4, FailKeepsSigns
<1>5. ASSUME /\ script' = "promote" /\ Handed' = Handed /\ run'.cert = run.cert
             /\ IF at' <= 3 THEN Current' \notin {None, run.cert} ELSE Current' = run.cert
             /\ PreviousCert' # run.cert
             /\ machine'.staged[Handed] = run.cert
             /\ machine'.trust[run.cert] = TrustStores
             /\ UNCHANGED Node
      PROVE  SignInv'
  <2>1. NodeTrusted'
    BY <1>2, <1>5, StoresTyped, TrustedNext
  <2>2. QED
    BY <1>2, <1>5, <2>1, StoresTyped DEF SignInv, SettledSigns, Settled, Undoing, FreshSigns,
       UpdateSigns, KeptSigns, PromoteSigns
<1>6. Advance /\ at < 11 => /\ script' = "promote" /\ at' = at + 1 /\ Handed' = Handed
                            /\ run' = run
  BY <1>3 DEF Advance, Handed
<1>7. CASE at \in {1, 3, 4}
  <2>1. WriteValue /\ Call = IF at = 1 THEN "recordPreviousCert"
                             ELSE IF at = 3 THEN "promoteCert" ELSE "promoteInf"
    BY <1>1, <1>7, PromotePlaces, OneAction
  <2>2. UNCHANGED <<machine.trust, machine.staged, machine.node, Node>>
    BY <2>1, Writes DEF Node
  <2>3. CASE UNCHANGED machine.reg /\ Fail
    BY <1>4, <2>2, <2>3, SameSigns DEF PendingDriver, reg
  <2>4. CASE /\ machine'.reg = [machine.reg EXCEPT ![Written[Call]] = ValueFor[Call]]
             /\ Advance
    <3>1. /\ at = 1 => Written[Call] = "PreviousCertThumbprint" /\ ValueFor[Call] = Current
          /\ at = 3 => Written[Call] = "CertThumbprint" /\ ValueFor[Call] = run.cert
          /\ at = 4 => Written[Call] = "DriverInf"
      BY <2>1 DEF Written, ValueFor, Current
    <3>2. /\ at = 1 => PreviousCert' = Current /\ Current' = Current
          /\ at = 3 => Current' = run.cert /\ PreviousCert' = PreviousCert
          /\ at = 4 => UNCHANGED <<Current, PreviousCert>>
      BY <1>7, <2>4, <3>1, RecordNames DEF Values, CertValues, InfValues
    <3>3. script' = "promote" /\ at' = at + 1 /\ Handed' = Handed /\ run' = run
      BY <1>6, <1>7, <2>4
    <3>4. QED
      BY <1>2, <1>5, <1>7, <2>2, <3>2, <3>3
  <2>5. QED
    BY <2>1, <2>3, <2>4, Writes
<1>8. CASE at = 7
  <2>1. RemoveTrustedCertificate /\ Untrusted[Call] = PreviousCert
    BY <1>1, <1>8, PromotePlaces, OneAction DEF Untrusted, PreviousCert
  <2>2. /\ UNCHANGED <<Current, PreviousCert, Driver, machine.staged, Node>>
        /\ machine'.trust[run.cert] = machine.trust[run.cert]
        /\ Advance \/ Enter(script, at, run)
    BY <1>2, <2>1, OtherTrust
  <2>3. script' = "promote" /\ at' \in {7, 8} /\ Handed' = Handed /\ run' = run
    BY <1>6, <1>8, <2>2 DEF Enter, Handed
  <2>4. QED
    BY <1>2, <1>5, <1>8, <2>2, <2>3
<1>9. CASE at = 8
  <2>1. DeleteValue /\ Call = "forgetPreviousCert"
    BY <1>1, <1>9, PromotePlaces, OneAction
  <2>2. /\ UNCHANGED <<machine.trust, machine.staged, machine.node>> /\ Advance
        /\ machine'.reg = [machine.reg EXCEPT !["PreviousCertThumbprint"] = None]
    BY <2>1, Deletes DEF Forgotten
  <2>3. PreviousCert' = None /\ UNCHANGED Current
    BY <2>2, RecordNames DEF Values, CertValues
  <2>4. script' = "promote" /\ at' = 9 /\ Handed' = Handed /\ run' = run
    BY <1>6, <1>9, <2>2
  <2>5. QED
    BY <1>2, <1>5, <1>9, <2>2, <2>3, <2>4, StoresTyped DEF Node
<1>10. CASE at = 9
  <2>1. UnstagePackage /\ Unstaged[Call] = PreviousDriver /\ Call = "retireInf"
    BY <1>1, <1>10, PromotePlaces, OneAction DEF Unstaged, PreviousDriver
  <2>2. /\ UNCHANGED <<machine.reg, machine.trust, machine.node>>
        /\ \/ UNCHANGED machine.staged
           \/ machine'.staged = [machine.staged EXCEPT ![PreviousDriver] = None]
        /\ Advance \/ Enter(script, 11, run)
    BY <1>10, <2>1, Unstages
  <2>3. UNCHANGED <<Current, PreviousCert, Node>>
    BY <2>2, SameNames DEF Node
  <2>4. machine'.staged[Handed] = run.cert
    BY <1>2, <2>2, StoresTyped
  <2>5. script' = "promote" /\ at' \in {10, 11} /\ Handed' = Handed /\ run' = run
    BY <1>6, <1>10, <2>2 DEF Enter, Handed
  <2>6. QED
    BY <1>2, <1>5, <1>10, <2>2, <2>3, <2>4, <2>5
<1>11. CASE at \in {2, 5, 6, 10, 11}
  <2>1. SignView /\ GoesOn
    <3>1. Call \in SignQuietCalls
      BY <1>1, <1>11, PromotePlaces DEF SignQuietCalls
    <3>2. QED
      BY <3>1, SignQuietSteps
  <2>2. NodeTrusted'
    BY <2>1, TrustedNow, TrustedNext DEF SignInv, SignView
  <2>3. ASSUME script' = "idle", run'.cert = None
        PROVE  SignInv'
    <3>1. ASSUME PendingDriver' = None, Node' \in Versions
          PROVE  /\ machine'.staged[Driver'] = Current'
                 /\ Current' # None /\ Current' # PreviousCert'
      <4>1. Driver' = Node'
        BY <2>3, <3>1 DEF PackInv, SettledPacks, Settled
      <4>2. Driver = Handed
        BY <1>2, <2>1, <4>1 DEF SignView
      <4>3. at > 4
        BY <1>1, <4>2 DEF PackInv, PromotePacks
      <4>4. QED
        BY <1>1, <1>2, <2>1, <4>2, <4>3, StoresTyped DEF SignView, Handed
    <3>2. QED
      BY <2>2, <2>3, <3>1, IdleSigns
  <2>4. CASE Fail
    <3>1. script' = "idle" /\ run'.cert = None
      BY <1>1, <2>4, FailLeads, RunEnds
    <3>2. QED
      BY <2>3, <3>1
  <2>5. CASE \E r : AdvanceWith(r) /\ r.cert = run.cert /\ r.published = Handed
    <3>1. \/ script' = "idle" /\ run'.cert = None
          \/ /\ script' = "promote" /\ at' = at + 1 /\ run'.cert = run.cert
             /\ Handed' = Handed
      BY <1>3, <2>5 DEF Handed
    <3>2. CASE script' = "promote"
      BY <1>2, <1>5, <1>11, <2>1, <3>1, <3>2 DEF SignView
    <3>3. QED
      BY <2>3, <3>1, <3>2
  <2>6. QED
    BY <2>1, <2>4, <2>5 DEF GoesOn
<1>12. QED
  BY <1>1, <1>7, <1>8, <1>9, <1>10, <1>11

LEMMA FailUpdateKeepsSigns ==
  ASSUME Inv, Recording, PackInv, PackInv', SignInv, Gentle, Next, ~Crash,
         script = "failUpdate"
  PROVE  SignInv'
<1>1. Place /\ at \in 1 .. 4
  BY FailUpdatePlaces DEF Inv, Typed
<1>2. /\ machine.staged[Driver] = Current /\ Current \in Certs /\ Current # run.cert
      /\ PreviousCert = None /\ Driver \in Versions /\ Node = Driver
      /\ machine.trust[Current] = TrustStores
  <2>1. Driver \in Versions /\ Node = Driver
    BY NamesTyped DEF PackInv, FailPacks
  <2>2. QED
    BY <2>1, TrustedNow, StoresTyped DEF SignInv, KeptSigns
<1>3. \A r : AdvanceWith(r) => \/ script' = "failUpdate" /\ run' = r
                               \/ script' = "idle" /\ run'.cert = None
  BY <1>1, Leads, RunEnds DEF On, Enter
<1>4. ASSUME /\ \/ script' = "failUpdate" /\ run'.cert = run.cert
                \/ script' = "idle" /\ run'.cert = None
             /\ UNCHANGED <<Current, PreviousCert, Driver, Node>>
             /\ machine'.staged[Driver] = Current
             /\ machine'.trust[Current] = TrustStores
      PROVE  SignInv'
  <2>1. NodeTrusted'
    BY <1>2, <1>4, StoresTyped, TrustedNext
  <2>2. CASE script' = "idle" /\ run'.cert = None
    BY <1>2, <1>4, <2>1, <2>2, StoresTyped, IdleSigns
  <2>3. CASE script' = "failUpdate" /\ run'.cert = run.cert
    BY <1>2, <1>4, <2>1, <2>3, StoresTyped DEF SignInv, SettledSigns, Settled, Undoing,
       FreshSigns, UpdateSigns, KeptSigns, PromoteSigns
  <2>4. QED
    BY <1>4, <2>2, <2>3
<1>5. CASE at = 1
  <2>1. UnstagePackage /\ Call = "dropPackage"
    BY <1>1, <1>5, FailUpdatePlaces, OneAction
  <2>2. PICK v : v = Unstaged[Call]
    OBVIOUS
  <2>3. v # Driver
    BY <1>2, <2>1, <2>2, NamesTyped DEF Unstaged, SameName, Driver
  <2>4. /\ UNCHANGED <<machine.reg, machine.trust, machine.node>> /\ Advance
        /\ \/ UNCHANGED machine.staged
           \/ machine'.staged = [machine.staged EXCEPT ![v] = None]
    BY <2>1, <2>2, Unstages
  <2>5. UNCHANGED <<Current, PreviousCert, Driver, Node>>
    BY <2>4, SameNames DEF Node
  <2>6. machine'.staged[Driver] = Current
    BY <1>2, <2>3, <2>4, StoresTyped
  <2>7. QED
    BY <1>2, <1>3, <1>4, <2>4, <2>5, <2>6 DEF Advance
<1>6. CASE at = 2
  <2>1. RemoveTrustedCertificate /\ Untrusted[Call] = run.cert
    BY <1>1, <1>6, FailUpdatePlaces, OneAction DEF Untrusted
  <2>2. /\ UNCHANGED <<Current, PreviousCert, Driver, machine.staged, Node>>
        /\ machine'.trust[Current] = machine.trust[Current]
        /\ Advance \/ Enter(script, at, run)
    BY <1>2, <2>1, OtherTrust
  <2>3. QED
    BY <1>2, <1>3, <1>4, <2>2 DEF Advance, Enter
<1>7. CASE at \in {3, 4}
  <2>1. SignView /\ GoesOn
    <3>1. Call \in SignQuietCalls
      BY <1>1, <1>7, FailUpdatePlaces DEF SignQuietCalls
    <3>2. QED
      BY <3>1, SignQuietSteps
  <2>2. QED
    BY <1>2, <1>3, <1>4, <2>1 DEF SignView, GoesOn
<1>8. QED
  BY <1>1, <1>5, <1>6, <1>7

LEMMA ChooseKeepsSigns ==
  ASSUME Inv, Recording, PackInv, PackInv', SignInv, ChooseInstallMode
  PROVE  SignInv'
<1>1. /\ script \in {"retire", "choose"} /\ script' = InstallMode /\ at' = 1 /\ run' = run
      /\ UNCHANGED machine /\ InstallMode \in {"fresh", "update", "reinstall"}
  BY CallSites DEF ChooseInstallMode, InstallMode, Enter, Inv, Typed
<1>2. SignView /\ PendingDriver' = PendingDriver
  BY <1>1, SameSigns DEF PendingDriver, reg
<1>3. NodeTrusted' /\ run.cert = None
  BY <1>1, <1>2, TrustedNow, TrustedNext DEF SignInv, SignView, SettledSigns
<1>4. CASE InstallMode = "fresh"
  <2>1. Node' \notin Versions
    BY <1>1, <1>4 DEF PackInv, FreshPacks
  <2>2. QED
    BY <1>1, <1>4, <2>1, BareSigns
<1>5. CASE InstallMode = "update"
  <2>1. PendingDriver = None /\ Node # None /\ Driver # None
    BY <1>5 DEF InstallMode, PendingDriver, Node, Driver
  <2>2. Node \in Versions
    BY <2>1, NamesTyped DEF PackInv, SettledPacks
  <2>3. machine.staged[Driver] = Current /\ Current # None
    BY <1>1, <2>1, <2>2 DEF SignInv, SettledSigns, Settled
  <2>4. QED
    BY <1>1, <1>2, <1>3, <1>5, <2>3 DEF SignView, SignInv, SettledSigns, Settled, Undoing,
       FreshSigns, UpdateSigns, KeptSigns, PromoteSigns
<1>6. CASE InstallMode = "reinstall"
  BY <1>1, <1>2, <1>3, <1>6 DEF SignView, SignInv, SettledSigns, Settled, Undoing,
     FreshSigns, UpdateSigns, KeptSigns, PromoteSigns
<1>7. QED
  BY <1>1, <1>4, <1>5, <1>6

LEMMA RetireKeepsSigns ==
  ASSUME Inv, Recording, PackInv, PackInv', SignInv, Gentle, Next, ~Crash,
         script \in {"retire", "choose"}
  PROVE  SignInv'
<1>1. Place
  BY DEF Inv, Typed
<1>2. CASE Call = "choose"
  BY <1>2, OneAction, ChooseKeepsSigns
<1>3. CASE script = "retire" /\ at \in 1 .. 4
  <2>1. /\ run.cert = None /\ PendingDriver = None
        /\ Node \in Versions => /\ Node = Driver /\ Driver # PreviousDriver
                                /\ machine.staged[Driver] = Current
                                /\ Current \in Certs /\ Current # PreviousCert
                                /\ machine.trust[Current] = TrustStores
    BY <1>3, StoresTyped, NamesTyped, TrustedNow DEF SignInv, SettledSigns, PackInv,
       SettledPacks, RetirePacks, Settled
  <2>2. \A r : AdvanceWith(r) => script' = "retire" /\ at' = at + 1 /\ run' = r
    BY <1>1, <1>3, Leads DEF On, Enter
  <2>3. ASSUME /\ script' = "retire" /\ run'.cert = None
               /\ UNCHANGED <<Current, Driver, Node>>
               /\ PreviousCert' \in {PreviousCert, None}
               /\ Node \in Versions => /\ machine'.staged[Driver] = Current
                                       /\ machine'.trust[Current] = TrustStores
        PROVE  SignInv'
    <3>1. NodeTrusted'
      BY <2>1, <2>3, StoresTyped, TrustedNext
    <3>2. QED
      BY <2>1, <2>3, <3>1, StoresTyped DEF SignInv, SettledSigns, Settled, Undoing,
         FreshSigns, UpdateSigns, KeptSigns, PromoteSigns
  <2>4. CASE at = 1
    <3>1. RemoveTrustedCertificate /\ Untrusted[Call] = PreviousCert
      BY <1>1, <1>3, <2>4, RetirePlaces, OneAction DEF Untrusted, PreviousCert
    <3>2. /\ UNCHANGED <<machine.reg, machine.staged, machine.node>>
          /\ Advance \/ Enter(script, at, run)
      BY <3>1, Untrusts
    <3>3. Node \in Versions => machine'.trust[Current] = TrustStores
      BY <2>1, <3>1, OtherTrust
    <3>4. UNCHANGED <<Current, PreviousCert, Driver, Node>>
      BY <3>2, SameNames DEF Node
    <3>5. script' = "retire" /\ run'.cert = None
      BY <1>3, <2>1, <2>2, <3>2 DEF Advance, Enter
    <3>6. QED
      BY <2>1, <2>3, <3>2, <3>3, <3>4, <3>5
  <2>5. CASE at = 2
    <3>1. DeleteValue /\ Call = "forgetPreviousCert"
      BY <1>1, <1>3, <2>5, RetirePlaces, OneAction
    <3>2. /\ UNCHANGED <<machine.trust, machine.staged, machine.node>> /\ Advance
          /\ machine'.reg = [machine.reg EXCEPT !["PreviousCertThumbprint"] = None]
      BY <3>1, Deletes DEF Forgotten
    <3>3. PreviousCert' = None /\ UNCHANGED <<Current, Driver, Node>>
      BY <3>2, RecordNames DEF Values, CertValues, Node
    <3>4. QED
      BY <2>1, <2>2, <2>3, <3>2, <3>3 DEF Advance
  <2>6. CASE at = 3
    <3>1. UnstagePackage /\ Unstaged[Call] = PreviousDriver /\ Call = "retireInf"
      BY <1>1, <1>3, <2>6, RetirePlaces, OneAction DEF Unstaged, PreviousDriver
    <3>2. /\ UNCHANGED <<machine.reg, machine.trust, machine.node>>
          /\ \/ UNCHANGED machine.staged
             \/ machine'.staged = [machine.staged EXCEPT ![PreviousDriver] = None]
          /\ Advance \/ Enter(script, 5, run)
      BY <2>6, <3>1, Unstages
    <3>3. UNCHANGED <<Current, PreviousCert, Driver, Node>>
      BY <3>2, SameNames DEF Node
    <3>4. Node \in Versions => machine'.staged[Driver] = Current
      BY <2>1, <3>2, StoresTyped
    <3>5. script' = "retire" /\ run'.cert = None
      BY <1>3, <2>1, <2>2, <3>2 DEF Advance, Enter
    <3>6. QED
      BY <2>1, <2>3, <3>2, <3>3, <3>4, <3>5
  <2>7. CASE at = 4
    <3>1. SignView /\ GoesOn
      <4>1. Call \in SignQuietCalls
        BY <1>1, <1>3, <2>7, RetirePlaces DEF SignQuietCalls
      <4>2. QED
        BY <1>3, <4>1, SignQuietSteps
    <3>2. script' = "retire" /\ run'.cert = None
      BY <1>3, <2>1, <2>2, <3>1 DEF GoesOn
    <3>3. QED
      BY <2>1, <2>3, <3>1, <3>2 DEF SignView
  <2>8. QED
    BY <1>3, <2>4, <2>5, <2>6, <2>7
<1>4. QED
  BY <1>1, <1>2, <1>3, RetirePlaces, ChooseCalls

\* Both ways of taking an install apart begin with its node.
LEMMA UndoKeepsSigns ==
  ASSUME Inv, Recording, PackInv, PackInv', SignInv, Gentle, Next, ~Crash,
         script \in Undoing \cup {"unwind"}
  PROVE  SignInv'
<1>1. /\ Place /\ script \in {"rollback", "reinstall", "uninstall", "unwind"}
      /\ script = "unwind" => at \in 1 .. 2
      /\ script # "unwind" => at \in 1 .. 9
  BY UnwindPlaces, UninstallPlaces DEF Inv, Typed, Undoing
<1>2. \A r : AdvanceWith(r) => \/ script' \in Undoing \cup {"unwind"}
                               \/ script' = "fresh" /\ at' = 1
                               \/ script' = "idle" /\ run'.cert = None
  BY <1>1, Leads, RunEnds DEF On, Enter, Undoing
<1>3. CASE at = 1
  <2>1. RemoveDevices
    BY <1>1, <1>3, UnwindPlaces, UninstallPlaces, OneAction
  <2>2. Node' = None /\ Advance
    BY <2>1, RemovesDevices DEF Node
  <2>3. QED
    BY <1>2, <2>2, NamesTyped, BareSigns DEF Advance
<1>4. CASE at > 1
  <2>1. Node \notin Versions
    BY <1>1, <1>4, NamesTyped DEF PackInv, UndoPacks, UnwindPacks
  <2>2. CASE script = "unwind" \/ at \in {2, 3, 4}
    <3>1. UnstagePackage /\ Call # "retireInf"
      BY <1>1, <1>4, <2>2, UnwindPlaces, UninstallPlaces, OneAction
    <3>2. UNCHANGED machine.node /\ Advance
      BY <3>1, Unstages
    <3>3. QED
      BY <1>2, <2>1, <3>2, BareSigns DEF Advance, Node
  <2>3. CASE script # "unwind" /\ at \in {5, 6, 7}
    <3>1. RemoveTrustedCertificate
      BY <1>1, <2>3, UninstallPlaces, OneAction
    <3>2. UNCHANGED machine.node /\ (Advance \/ Enter(script, at, run))
      BY <3>1, Untrusts
    <3>3. CASE Advance
      BY <1>2, <2>1, <3>2, <3>3, BareSigns DEF Advance, Node
    <3>4. CASE Enter(script, at, run)
      BY <1>1, <2>1, <3>2, <3>4, BareSigns DEF Enter, Node
    <3>5. QED
      BY <3>2, <3>3, <3>4
  <2>4. CASE script # "unwind" /\ at \in {8, 9}
    <3>1. RemoveInstallDir \/ DeleteState
      BY <1>1, <2>4, UninstallPlaces, OneAction
    <3>2. UNCHANGED machine.node /\ Advance
      BY <3>1, RemovesDir, DeletesState
    <3>3. QED
      BY <1>2, <2>1, <3>2, BareSigns DEF Advance, Node
  <2>5. QED
    BY <1>1, <1>4, <2>2, <2>3, <2>4
<1>5. QED
  BY <1>1, <1>3, <1>4

LEMMA IdleKeepsSigns ==
  ASSUME Inv, PackInv, SignInv, Next, script = "idle"
  PROVE  SignInv'
<1>1. Call = "none" /\ machine \in Machines
  BY DEF Call, Inv, Typed
<1>2. \/ \E v \in Versions : RunInstall(v)
      \/ RunUninstall \/ Restart
  BY <1>1 DEF Next, ChooseInstallMode, WriteValue, Written, DeleteValue, Forgotten,
     DeleteState, CreateSigningCert, SignFiles, DestroySigningKey, TrustCertificate,
     RemoveTrustedCertificate, Untrusted, StagePackage, UnstagePackage, Unstaged,
     RemoveDevices, RegisterDevice, UpdateDevice, CopyPayload, RemoveInstallDir, Crash
<1>3. UNCHANGED <<machine.reg, machine.trust, machine.staged, machine.node>>
  BY <1>1, <1>2 DEF RunInstall, RunUninstall, Restart, Set, Machines
<1>4. /\ script' \in {"idle", "retire", "choose", "uninstall"}
      /\ script' # "uninstall" => run'.cert = None
  <2>1. run.cert = None
    BY DEF SignInv, SettledSigns
  <2>2. QED
    BY <1>2, <2>1 DEF RunInstall, RunUninstall, Restart, Enter, NewRun
<1>5. SignView /\ PendingDriver' = PendingDriver
  BY <1>3, SameSigns DEF PendingDriver, reg
<1>6. NodeTrusted'
  BY <1>5, TrustedNow, TrustedNext DEF SignInv, SignView
<1>7. QED
  BY <1>4, <1>5, <1>6 DEF SignView, SignInv, SettledSigns, Settled, Undoing, FreshSigns,
     UpdateSigns, KeptSigns, PromoteSigns

LEMMA SignInvBegins == Init => SignInv
<1> SUFFICES ASSUME Init PROVE SignInv
  OBVIOUS
<1>1. script = "idle" /\ run.cert = None /\ Node = None
  BY DEF Init, CleanMachine, NoRun, NewRun, Node
<1>2. QED
  BY <1>1, TrustedNow, FlowAssumption DEF SignInv, SettledSigns, Settled, Undoing,
     FreshSigns, UpdateSigns, KeptSigns, PromoteSigns

LEMMA SignInvSteps ==
  ASSUME Gentle, Inv, Inv', Recording, PackInv, PackInv', SignInv, [Next]_vars
  PROVE  SignInv'
<1>1. CASE UNCHANGED vars
  <2>1. UNCHANGED <<machine, script, at, run>>
    BY <1>1 DEF vars
  <2>2. SignView /\ UNCHANGED <<PendingDriver, Handed>>
    BY <2>1, SameSigns DEF PendingDriver, reg, Handed
  <2>3. QED
    BY <2>1, <2>2, TrustedNow, TrustedNext DEF SignView, SignInv, SettledSigns, Settled,
       Undoing, FreshSigns, UpdateSigns, KeptSigns, PromoteSigns
<1>2. CASE Next /\ script = "idle"
  BY <1>2, IdleKeepsSigns
<1>3. CASE Crash
  <2>1. UNCHANGED machine /\ script # "idle" /\ script' = "idle" /\ run'.cert = None
    BY <1>3, RunEnds DEF Crash
  <2>2. SignView /\ UNCHANGED PendingDriver
    BY <2>1, SameSigns DEF PendingDriver, reg
  <2>3. QED
    BY <2>1, <2>2, StopSigns
<1>4. CASE Next /\ script # "idle" /\ ~Crash
  <2>1. script \in Names
    BY <1>4, ScriptNamed DEF Inv, Typed
  <2>2. QED
    BY <1>4, <2>1, FreshKeepsSigns, UpdateKeepsSigns, SameKeepsSigns, PromoteKeepsSigns,
       FailUpdateKeepsSigns, RetireKeepsSigns, UndoKeepsSigns DEF Names, Undoing
<1>5. QED
  BY <1>1, <1>2, <1>3, <1>4

LEMMA SignersKnown == Gentle => (Spec => []SignInv)
<1> SUFFICES ASSUME Gentle PROVE Spec => []SignInv
  OBVIOUS
<1>1. Inv /\ Inv' /\ Recording /\ PackInv /\ PackInv' /\ SignInv /\ [Next]_vars => SignInv'
  BY SignInvSteps
<1>2. QED
  BY <1>1, SignInvBegins, FlowInvariant, RecordKept, PackagesKnown, PTL DEF Spec

(* Whatever else fails and wherever runs stop, where what Windows is asked   *)
(* to take away goes (Gentle), the driver on the device node is              *)
(* in the driver store and its signer is trusted in both stores: an update   *)
(* that is handed back the package in use undoes its own certificate and not *)
(* the one that package was signed with, and no retirement, failed update or *)
(* uninstall takes the trust of a driver that is still bound                 *)
(* (install_flow.cpp:96-100, 39-50, 186-203).                                *)
THEOREM DriverStaysTrusted == Gentle => (Spec => []DriverTrusted)
<1> SUFFICES ASSUME Gentle PROVE Spec => []DriverTrusted
  OBVIOUS
<1>1. SignInv => DriverTrusted
  BY DEF SignInv, NodeTrusted, DriverTrusted, Node
<1>2. QED
  BY <1>1, SignersKnown, PTL
=============================================================================
