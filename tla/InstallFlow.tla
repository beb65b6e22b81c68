------------------------------ MODULE InstallFlow ------------------------------
(***************************************************************************)
(* The setup program: src/setup/install_flow.cpp and every call it makes.  *)
(* One run (an install or an uninstall) owns the machine-wide setup lock   *)
(* and works through a list of calls, each of which may fail; the process  *)
(* or the machine may also stop between two calls.  The machine it changes *)
(* outlives it: the registry record, the two certificate stores, the key   *)
(* store, the driver store, the root device node and the install folder.   *)
(*                                                                         *)
(* A driver package is named by the version it was built as: staging an    *)
(* INF the driver store already holds hands back that package's name and   *)
(* keeps the catalog it was staged with (install_flow.cpp:96-99).          *)
(***************************************************************************)
EXTENDS Naturals, Sequences

CONSTANTS
    Versions,        \* releases, each with an INF of its own
    Certs,           \* signing certificates, by thumbprint
    None,            \* an empty registry value, no file, no node
    Fallible,        \* the kinds of call that may go wrong
    MaxFaults,       \* bound: failed calls and crashes in one behaviour
    DiesUnrecorded   \* may a run die holding a package it has not recorded

VARIABLES
    machine,   \* what outlives a run
    script,    \* the list of calls the run is working through, or "idle"
    at,        \* the index of its next call
    run,       \* the locals of RunInstall and RunUpdate
    outcome,   \* how the last run ended
    faults,    \* calls that failed and crashes so far
    before,    \* the machine as this run's ChooseInstallMode saw it
    refused    \* what a call was to take away and is still there

vars == <<machine, script, at, run, outcome, faults, before, refused>>

CertValues == {"CertThumbprint", "PendingCertThumbprint", "PreviousCertThumbprint"}
InfValues  == {"DriverInf", "PendingDriverInf", "PreviousDriverInf"}
Values     == CertValues \cup InfValues \cup {"Version", "InstallDir"}
TrustStores == {"Root", "TrustedPublisher"}
Failures == {"write", "copy", "key", "sign", "destroy", "trust", "stage", "register",
             "bind",
             "restart",  \* the swap succeeds but the old driver runs until a restart
             "unload",   \* the node goes but its driver runs until a restart
             "remove", "unstage", "untrust", "forget"}  \* removals, only logged

ASSUME FlowAssumption ==
    /\ MaxFaults \in Nat
    /\ None \notin Versions \cup Certs \cup {"bare", "mixed", "dir"}
    /\ Versions \cap {"bare", "mixed"} = {}
    /\ Fallible \subseteq Failures
    /\ DiesUnrecorded \in BOOLEAN

CleanMachine ==
    [reg    |-> [n \in Values |-> None],          \* HKLM\SOFTWARE\VRLF\VirtualGun
     trust  |-> [c \in Certs |-> {}],             \* the stores that hold it
     keys   |-> {},                               \* certs whose key still exists
     stuck  |-> {},                               \* certs whose key could not be deleted
     staged |-> [v \in Versions |-> None],        \* driver store: the catalog's signer
     node   |-> None,                             \* root node: its package, or "bare"
     loaded |-> {},                               \* packages a running driver uses
     files  |-> None]                             \* install folder: a version, or "mixed"

NewRun(v, payload) == [version |-> v, payload |-> payload, cert |-> None,
                       signed |-> TRUE, published |-> None, reboot |-> FALSE]
NoRun == NewRun(None, "release")

reg == machine.reg

\* What a removal may be refused: the node, the record, a package, a certificate.
TheNode == <<"node", None>>
TheRecord == <<"record", None>>
Package(v) == <<"package", v>>
Cert(c) == <<"cert", c>>

-----------------------------------------------------------------------------
(* The calls of each path through the code, in the order it makes them. *)

\* RetirePrevious, then the choice of a mode.
RetireScript == <<"retireCert", "forgetPreviousCert", "retireInf",
                  "forgetPreviousInf", "choose">>

\* Broken variant: the key goes only once the certificate is trusted.
BadFreshScript == <<"recordDir", "copy", "key", "sign", "recordCert", "trust",
                    "destroyKey", "removeNode", "stage", "register", "bind",
                    "recordInf", "recordVersion">>

\* The rest of RunInstall, with InstallDriver's calls in line.
FreshScript == <<"recordDir", "copy", "key", "sign", "destroyKey", "recordCert",
                 "trust", "removeNode", "stage", "register", "bind", "recordInf",
                 "recordVersion">>

\* Broken variant: the certificate is trusted before it is recorded.
BadUpdateScript == <<"copy", "key", "sign", "destroyKey", "trust", "recordCert",
                     "stage", "recordInf", "bind">>

\* RunUpdate up to UpdateDevice: the pending pair is recorded and installed.
UpdateScript == <<"copy", "key", "sign", "destroyKey", "recordCert", "trust",
                  "stage", "recordInf", "bind">>

\* Broken variant: the new certificate is forgotten and stays trusted.
BadSameScript == <<"forgetPendingCert", "forgetPendingInf", "recordVersion">>

\* RunUpdate when the store handed back the package the device already ran.
SameScript == <<"untrustNew", "forgetPendingCert", "forgetPendingInf",
                "recordVersion">>

\* RunUpdate when the device runs a new package.
PromoteScript == <<"recordPreviousCert", "recordPreviousInf", "promoteCert",
                   "promoteInf", "forgetPendingCert", "forgetPendingInf",
                   "retireCert", "forgetPreviousCert", "retireInf",
                   "forgetPreviousInf", "recordVersion">>

FailUpdateScript == <<"dropPackage", "untrustNew", "forgetPendingInf",
                      "forgetPendingCert">>

\* What a failing fresh install undoes itself before the generic rollback.
UnwindScript == <<"removeNode", "dropPackage">>

\* Broken variant: what an interrupted update staged is not looked for.
BadUninstallScript == <<"removeNode", "unstageDriver", "unstagePrevious",
                        "untrustCert", "untrustPending", "untrustPrevious",
                        "removeFiles", "deleteState">>

UninstallScript == <<"removeNode", "unstageDriver", "unstagePending",
                     "unstagePrevious", "untrustCert", "untrustPending",
                     "untrustPrevious", "removeFiles", "deleteState">>

\* Each list by name; the three uses of RunUninstall differ in what follows.
Scripts == [retire |-> RetireScript, choose |-> <<"choose">>,
            fresh |-> FreshScript, update |-> UpdateScript, same |-> SameScript,
            promote |-> PromoteScript, failUpdate |-> FailUpdateScript,
            unwind |-> UnwindScript, rollback |-> UninstallScript,
            reinstall |-> UninstallScript, uninstall |-> UninstallScript]

Call == IF script = "idle" THEN "none" ELSE Scripts[script][at]

-----------------------------------------------------------------------------
(* Control: what each call is followed by. *)

Enter(s, i, r) == script' = s /\ at' = i /\ run' = r /\ UNCHANGED outcome

EndRun(o) == script' = "idle" /\ at' = 1 /\ run' = NoRun /\ outcome' = o

\* Broken variant: every staged package is taken for a new one.
BadSameName(a, b) == FALSE

SameName(a, b) == a = b

\* What follows the last call of a script.
Finish(r) ==
    CASE script \in {"fresh", "same", "promote"} ->
            EndRun(IF r.reboot THEN "reboot" ELSE "installed")
      [] script = "update" ->
            Enter(IF SameName(r.published, reg["DriverInf"]) THEN "same" ELSE "promote", 1, r)
      [] script = "failUpdate" -> EndRun("kept")
      [] script = "unwind"     -> Enter("rollback", 1, r)
      [] script = "reinstall"  -> Enter("fresh", 1, r)
      [] script = "rollback"   -> EndRun("rolledback")
      [] script = "uninstall"  -> EndRun("uninstalled")

AdvanceWith(r) ==
    IF at < Len(Scripts[script]) THEN Enter(script, at + 1, r) ELSE Finish(r)

Advance == AdvanceWith(run)

\* Fail, FailUpdate, and the errors that neither handles.
Fail ==
    CASE script = "update" -> Enter("failUpdate", 1, run)
      [] script \in {"same", "promote"} -> EndRun("broken")
      [] script = "fresh" ->
            CASE Call \in {"bind", "recordInf"} -> Enter("unwind", 1, run)
              [] Call = "register" -> Enter("unwind", 2, run)
              [] OTHER -> Enter("rollback", 1, run)

Fault(kind) == kind \in Fallible /\ faults < MaxFaults /\ faults' = faults + 1

Fails(kind) == Fault(kind) /\ Fail /\ UNCHANGED before

Set(m) == machine' = m /\ UNCHANGED <<faults, before>>

\* A removal that succeeds, and one the machine refuses: it is logged at most,
\* and the run goes on.
Gone(x) == refused' = refused \ {x}
Refused(x) == refused' = refused \cup {x} /\ UNCHANGED <<machine, before>>

-----------------------------------------------------------------------------
(* The registry record. *)

Recorded == \E n \in Values : reg[n] # None

\* The call writes this value of the record.
Written == [recordDir |-> "InstallDir", recordVersion |-> "Version",
            recordCert |-> IF script = "update" THEN "PendingCertThumbprint"
                                                ELSE "CertThumbprint",
            recordInf |-> IF script = "update" THEN "PendingDriverInf" ELSE "DriverInf",
            recordPreviousCert |-> "PreviousCertThumbprint",
            recordPreviousInf |-> "PreviousDriverInf",
            promoteCert |-> "CertThumbprint", promoteInf |-> "DriverInf"]

\* Broken variant: the certificate's name is written where the package's belongs.
BadValueFor == [recordDir |-> "dir", recordVersion |-> run.version,
                recordCert |-> run.cert, recordInf |-> run.published,
                recordPreviousCert |-> reg["CertThumbprint"],
                recordPreviousInf |-> reg["CertThumbprint"],
                promoteCert |-> run.cert, promoteInf |-> run.published]

ValueFor == [recordDir |-> "dir", recordVersion |-> run.version,
             recordCert |-> run.cert, recordInf |-> run.published,
             recordPreviousCert |-> reg["CertThumbprint"],
             recordPreviousInf |-> reg["DriverInf"],
             promoteCert |-> run.cert, promoteInf |-> run.published]

WriteValue ==
    /\ Call \in DOMAIN Written
    /\ \/ Set([machine EXCEPT !.reg[Written[Call]] = ValueFor[Call]]) /\ Advance
       \/ Fails("write") /\ UNCHANGED machine
    /\ UNCHANGED refused

Forgotten == [forgetPendingCert |-> "PendingCertThumbprint",
              forgetPendingInf |-> "PendingDriverInf",
              forgetPreviousCert |-> "PreviousCertThumbprint",
              forgetPreviousInf |-> "PreviousDriverInf"]

\* Neither deletion says whether it succeeded.
DeleteValue ==
    /\ Call \in DOMAIN Forgotten
    /\ \/ Set([machine EXCEPT !.reg[Forgotten[Call]] = None]) /\ UNCHANGED refused
       \/ Fault("forget") /\ Refused(TheRecord)
    /\ Advance

DeleteState ==
    /\ Call = "deleteState"
    /\ \/ Set([machine EXCEPT !.reg = CleanMachine.reg]) /\ Gone(TheRecord)
       \/ Fault("forget") /\ Refused(TheRecord)
    /\ Advance

-----------------------------------------------------------------------------
(* The signing certificate and the stores that trust it. *)

\* A certificate this machine and this run have not seen.
Unused(c) ==
    /\ \A n \in CertValues : reg[n] # c /\ before.reg[n] # c
    /\ \A v \in Versions : machine.staged[v] # c /\ before.staged[v] # c
    /\ machine.trust[c] = {} /\ c \notin machine.keys /\ run.cert # c

CreateSigningCert ==
    /\ Call = "key"
    /\ \/ \E c \in Certs :
             /\ Unused(c)
             /\ Set([machine EXCEPT !.keys = @ \cup {c}])
             /\ AdvanceWith([run EXCEPT !.cert = c])
       \/ Fails("key") /\ UNCHANGED machine
    /\ UNCHANGED refused

\* Either of the two files may not get signed; the key goes all the same.
SignFiles ==
    /\ Call = "sign"
    /\ \/ UNCHANGED faults /\ AdvanceWith([run EXCEPT !.signed = TRUE])
       \/ Fault("sign") /\ AdvanceWith([run EXCEPT !.signed = FALSE])
    /\ UNCHANGED <<machine, before, refused>>

\* A key that cannot be deleted is logged, and the run goes on.
DestroySigningKey ==
    /\ Call = "destroyKey"
    /\ \/ Set([machine EXCEPT !.keys = @ \ {run.cert}])
       \/ /\ Fault("destroy") /\ UNCHANGED before
          /\ machine' = [machine EXCEPT !.stuck = @ \cup {run.cert}]
    /\ IF run.signed THEN Advance ELSE Fail
    /\ UNCHANGED refused

\* One store at a time, Root first, in both directions.
TrustCertificate ==
    /\ Call = "trust"
    /\ \/ IF machine.trust[run.cert] = {}
          THEN /\ Set([machine EXCEPT !.trust[run.cert] = {"Root"}])
               /\ Enter(script, at, run)
          ELSE /\ Set([machine EXCEPT !.trust[run.cert] = TrustStores])
               /\ Advance
       \/ Fails("trust") /\ UNCHANGED machine
    /\ UNCHANGED refused

Untrusted == [untrustNew |-> run.cert, retireCert |-> reg["PreviousCertThumbprint"],
              untrustCert |-> reg["CertThumbprint"],
              untrustPending |-> reg["PendingCertThumbprint"],
              untrustPrevious |-> reg["PreviousCertThumbprint"]]

\* A store that cannot be opened, or keeps the certificate, is passed over.
RemoveTrustedCertificate ==
    /\ Call \in DOMAIN Untrusted
    /\ LET c == Untrusted[Call] IN
         \/ c = None /\ Set(machine) /\ Advance /\ UNCHANGED refused
         \/ /\ c # None /\ "Root" \in machine.trust[c]
            /\ Set([machine EXCEPT !.trust[c] = @ \ {"Root"}])
            /\ Enter(script, at, run) /\ UNCHANGED refused
         \/ /\ c # None /\ "Root" \notin machine.trust[c]
            /\ Set([machine EXCEPT !.trust[c] = {}])
            /\ Advance /\ Gone(Cert(c))
         \/ /\ c # None /\ Fault("untrust") /\ Advance /\ UNCHANGED before
            /\ \E left \in SUBSET machine.trust[c] \ {{}} :
                  /\ "Root" \in machine.trust[c] => "Root" \in left
                  /\ machine' = [machine EXCEPT !.trust[c] = left]
            /\ refused' = refused \cup {Cert(c)}

-----------------------------------------------------------------------------
(* The driver store and the root device node. *)

StagePackage ==
    /\ Call = "stage"
    /\ \/ /\ Set([machine EXCEPT !.staged[run.version] = IF @ = None THEN run.cert ELSE @])
          /\ AdvanceWith([run EXCEPT !.published = run.version])
       \/ Fails("stage") /\ UNCHANGED machine
    /\ UNCHANGED refused

\* Broken variant: a failed update drops the package it was handed, whichever it is.
BadUnstaged == [retireInf |-> reg["PreviousDriverInf"], dropPackage |-> run.published,
                unstageDriver |-> reg["DriverInf"],
                unstagePending |-> reg["PendingDriverInf"],
                unstagePrevious |-> reg["PreviousDriverInf"]]

Unstaged == [retireInf |-> reg["PreviousDriverInf"],
             dropPackage |-> IF script = "failUpdate"
                                /\ SameName(run.published, reg["DriverInf"])
                             THEN None ELSE run.published,
             unstageDriver |-> reg["DriverInf"],
             unstagePending |-> IF SameName(reg["PendingDriverInf"], reg["DriverInf"])
                                THEN None ELSE reg["PendingDriverInf"],
             unstagePrevious |-> IF SameName(reg["PreviousDriverInf"], reg["DriverInf"])
                                 THEN None ELSE reg["PreviousDriverInf"]]

\* The package is in the store, and no driver that is running uses it.
Removable(v) == machine.staged[v] # None /\ v \notin machine.loaded

\* Best effort, except that RetirePrevious keeps the record of what stayed.
UnstagePackage ==
    /\ Call \in DOMAIN Unstaged
    /\ LET v == Unstaged[Call] IN
         \/ v = None /\ Set(machine) /\ Advance /\ UNCHANGED refused
         \/ /\ v # None /\ Removable(v)
            /\ Set([machine EXCEPT !.staged[v] = None])
            /\ Advance /\ Gone(Package(v))
         \/ /\ v # None
            /\ \/ ~Removable(v) /\ UNCHANGED faults
               \/ Removable(v) /\ Fault("unstage")
            /\ IF machine.staged[v] = None THEN Set(machine) /\ UNCHANGED refused
                                           ELSE Refused(Package(v))
            /\ IF Call = "retireInf" THEN Enter(script, at + 2, run) ELSE Advance

\* In a fresh install it is taken to succeed: the machine has one node at most.
RemoveDevices ==
    /\ Call = "removeNode"
    /\ \/ /\ \E left \in {{}, machine.loaded} :
                /\ machine' = [machine EXCEPT !.node = None, !.loaded = left]
                /\ IF left = {} THEN UNCHANGED faults ELSE Fault("unload")
          /\ Gone(TheNode) /\ UNCHANGED before
       \/ machine.node # None /\ script # "fresh" /\ Fault("remove") /\ Refused(TheNode)
    /\ Advance

RegisterDevice ==
    /\ Call = "register"
    /\ \/ Set([machine EXCEPT !.node = "bare"]) /\ Advance
       \/ Fails("register") /\ UNCHANGED machine
    /\ UNCHANGED refused

\* UpdateDriverForPlugAndPlayDevices, on a new node or on the one kept.
UpdateDevice ==
    /\ Call = "bind"
    /\ \/ /\ Set([machine EXCEPT !.node = run.published, !.loaded = {run.published}])
          /\ AdvanceWith([run EXCEPT !.reboot = FALSE])
       \/ /\ Fault("restart")
          /\ machine' = [machine EXCEPT !.node = run.published]
          /\ AdvanceWith([run EXCEPT !.reboot = TRUE])
          /\ UNCHANGED before
       \/ Fails("bind") /\ UNCHANGED machine
    /\ UNCHANGED refused

-----------------------------------------------------------------------------
(* The install folder. *)

\* A setup program that runs from the install folder is refused only here: a
\* reinstall has removed the install, and the folder, by then.
CopyPayload ==
    /\ Call = "copy"
    /\ \/ run.payload = "release" /\ Set([machine EXCEPT !.files = run.version]) /\ Advance
       \/ run.payload = "dir" /\ Set(machine) /\ Fail
       \/ run.payload = "release" /\ \E f \in {machine.files, "mixed"} :
             Fails("copy") /\ machine' = [machine EXCEPT !.files = f]
    /\ UNCHANGED refused

RemoveInstallDir ==
    /\ Call = "removeFiles"
    /\ Set(IF reg["InstallDir"] = None THEN machine ELSE [machine EXCEPT !.files = None])
    /\ Advance /\ UNCHANGED refused

-----------------------------------------------------------------------------
(* Runs.  The setup lock lets one in at a time; a run that died holding it *)
(* is taken over from, so a crash leaves the machine idle.                 *)

RetireFirst ==
    /\ reg["PendingCertThumbprint"] = None /\ reg["PendingDriverInf"] = None
    /\ reg["PreviousCertThumbprint"] # None \/ reg["PreviousDriverInf"] # None

\* From a release folder, or from the folder an earlier install made.
RunInstall(v) ==
    /\ script = "idle"
    /\ \E payload \in {"release"} \cup {p \in {"dir"} : machine.files = v} :
          Enter(IF RetireFirst THEN "retire" ELSE "choose", 1, NewRun(v, payload))
    /\ before' = CleanMachine /\ UNCHANGED <<machine, faults, refused>>

RunUninstall ==
    /\ script = "idle"
    /\ Enter("uninstall", 1, NoRun)
    /\ before' = CleanMachine /\ UNCHANGED <<machine, faults, refused>>

\* Broken variant: every install found is removed first.
BadInstallMode == IF Recorded THEN "reinstall" ELSE "fresh"

\* A complete install with nothing pending or left over, on its node.  The
\* folder is always the default one, and the machine never has a second node.
InstallMode ==
    IF ~Recorded THEN "fresh"
    ELSE IF \/ \E n \in {"Version", "CertThumbprint", "DriverInf"} : reg[n] = None
            \/ \E n \in {"PendingCertThumbprint", "PendingDriverInf",
                         "PreviousCertThumbprint", "PreviousDriverInf"} : reg[n] # None
            \/ machine.node = None
    THEN "reinstall" ELSE "update"

ChooseInstallMode ==
    /\ Call = "choose"
    /\ Enter(InstallMode, 1, run)
    /\ before' = machine
    /\ UNCHANGED <<machine, faults, refused>>

\* The run stops between two calls, and with it all it had not written down.
Unrecorded(v) ==
    v # None /\ machine.staged[v] # None /\ \A n \in InfValues : reg[n] # v

Crash ==
    /\ script # "idle" /\ faults < MaxFaults
    /\ DiesUnrecorded \/ ~Unrecorded(run.published)
    /\ faults' = faults + 1
    /\ EndRun("crashed")
    /\ UNCHANGED <<machine, before, refused>>

\* Restarting unloads the drivers that waited for it, and loads the node's, if
\* the store still has it.
Restart ==
    /\ script = "idle"
    /\ Set([machine EXCEPT !.loaded = {v \in Versions : v = machine.node /\ machine.staged[v] # None}])
    /\ UNCHANGED <<script, at, run, outcome, refused>>

Init ==
    /\ machine = CleanMachine /\ before = CleanMachine
    /\ script = "idle" /\ at = 1 /\ run = NoRun
    /\ outcome = "none" /\ faults = 0 /\ refused = {}

Next ==
    \/ \E v \in Versions : RunInstall(v)
    \/ RunUninstall \/ ChooseInstallMode
    \/ WriteValue \/ DeleteValue \/ DeleteState
    \/ CreateSigningCert \/ SignFiles \/ DestroySigningKey
    \/ TrustCertificate \/ RemoveTrustedCertificate
    \/ StagePackage \/ UnstagePackage
    \/ RemoveDevices \/ RegisterDevice \/ UpdateDevice
    \/ CopyPayload \/ RemoveInstallDir
    \/ Crash \/ Restart

Spec == Init /\ [][Next]_vars
===============================================================================
