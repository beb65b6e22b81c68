--------------------------- MODULE InstallFlowProps ---------------------------
(***************************************************************************)
(* What the setup program owes the machine it changes, whichever calls     *)
(* fail and wherever a run stops.                                          *)
(***************************************************************************)
EXTENDS InstallFlow

\* What each value of the record may hold.
Holds(n) ==
    CASE n \in CertValues -> Certs
      [] n \in InfValues \cup {"Version"} -> Versions
      [] n = "InstallDir" -> {"dir"}

Machines ==
    [reg    : {r \in [Values -> Versions \cup Certs \cup {None, "dir"}] :
                  \A n \in Values : r[n] \in Holds(n) \cup {None}},
     trust  : [Certs -> SUBSET TrustStores],
     keys   : SUBSET Certs,
     stuck  : SUBSET Certs,
     staged : [Versions -> Certs \cup {None}],
     node   : Versions \cup {None, "bare"},
     loaded : SUBSET Versions,
     files  : Versions \cup {None, "mixed"}]

Runs == [version : Versions \cup {None}, payload : {"release", "dir"}, cert : Certs \cup {None}, signed : BOOLEAN,
         published : Versions \cup {None}, reboot : BOOLEAN]

\* Every variable has the type its field or local has in the code.
TypeOK ==
    /\ machine \in Machines /\ before \in Machines
    /\ script \in DOMAIN Scripts \cup {"idle"}
    /\ at \in Nat /\ (script # "idle" => at \in DOMAIN Scripts[script])
    /\ run \in Runs
    /\ outcome \in {"none", "installed", "reboot", "kept", "rolledback", "broken",
                    "uninstalled", "crashed"}
    /\ faults \in 0 .. MaxFaults
    /\ refused \subseteq {TheNode, TheRecord} \cup {Package(v) : v \in Versions}
                         \cup {Cert(c) : c \in Certs}

-----------------------------------------------------------------------------
(* What holds between any two calls. *)

Trusted == {c \in Certs : machine.trust[c] # {}}
Staged  == {v \in Versions : machine.staged[v] # None}

\* Every certificate the machine trusts is one the record names, or one that
\* could not be removed.
TrustRecorded ==
    \A c \in Trusted : Cert(c) \in refused \/ \E n \in CertValues : reg[n] = c

\* So is every package it holds, or the run that staged it is about to.
PackagesRecorded ==
    \A v \in Staged : \/ Package(v) \in refused \/ run.published = v
                      \/ \E n \in InfValues : reg[n] = v

\* The machine never trusts a certificate, and never holds a package, that
\* the record does not name (or that the run which staged it is not about to
\* write down), but for one a run tried to remove and Windows kept: what is
\* neither recorded nor asked for no uninstall can ever undo
\* (install_flow.cpp:80, 112-113 and 151-153, registry_state.h:14-16).
Undoable == TrustRecorded /\ PackagesRecorded

\* The driver on the device node is in the driver store, and the certificate
\* that signed its catalog is trusted in both stores: neither an update, a
\* failed one, a retirement nor an uninstall takes away the trust of the
\* driver in use (install_flow.cpp:96-100).  Excepted are a node an uninstall
\* could not remove (driver_install.cpp:102), a package it could not, which the
\* next install is handed back with the old catalog, and a record it could not,
\* whose stale values a later run acts on.
DriverTrusted ==
    /\ machine.node \in Versions
    /\ {TheNode, TheRecord, Package(machine.node)} \cap refused = {}
    =>
        LET signer == machine.staged[machine.node] IN
            signer # None /\ machine.trust[signer] = TrustStores

\* No certificate is trusted, in any store, while its private key exists
\* (install_flow.cpp:73-84 and 160-168: the key goes before the trust comes),
\* unless Windows refused to delete it (cert_sign.cpp:234).
TrustedKeyGone == \A c \in Trusted : c \in machine.keys => c \in machine.stuck

-----------------------------------------------------------------------------
(* What a run that ended has done. *)

Pending == {"PendingCertThumbprint", "PendingDriverInf"}
Previous == {"PreviousCertThumbprint", "PreviousDriverInf"}

\* An install that reports success (RunInstall returns 0 or 3010) has left one
\* version everywhere: recorded, bound to the node, in the store under the
\* recorded and trusted certificate; nothing is pending, and of an older
\* install at most a package whose driver waits for a restart.  Without a
\* restart to come, that version is the one running.  What could not be
\* removed may be left besides.
SuccessIsComplete ==
    outcome \in {"installed", "reboot"} /\ script = "idle" /\ {TheNode, TheRecord} \cap refused = {} =>
        LET v == reg["DriverInf"]
            cert == reg["CertThumbprint"] IN
            /\ v \in Versions /\ cert \in Certs
            /\ reg["Version"] = v /\ machine.node = v /\ machine.files = v
            /\ machine.staged[v] = cert \/ (v \in Staged /\ Package(v) \in refused)
            /\ cert \in Trusted
            /\ \A c \in Trusted \ {cert} : Cert(c) \in refused
            /\ \A n \in Pending \cup {"PreviousCertThumbprint"} : reg[n] = None
            /\ \A p \in Staged \ {v, reg["PreviousDriverInf"]} : Package(p) \in refused
            /\ outcome = "installed" => machine.loaded = {v}

\* A failed update that says it keeps the existing install has put the record,
\* the trust stores, the driver store and the node back as they were when it
\* began, but for what it could not remove, and a package it was handed back
\* that no record named (FailUpdate, install_flow.cpp:39-50).
KeptIsAsBefore ==
    outcome = "kept" /\ script = "idle" =>
        /\ machine.node = before.node
        /\ machine.reg = before.reg \/ TheRecord \in refused
        /\ \A c \in Certs : machine.trust[c] = before.trust[c] \/ Cert(c) \in refused
        /\ \A v \in Versions :
             \/ machine.staged[v] = before.staged[v] \/ Package(v) \in refused
             \/ machine.staged[v] = None /\ \A n \in InfValues : before.reg[n] # v

\* An uninstall, and the rollback of a failed fresh install, leave no record,
\* certificate, package, node, driver or file, whatever interrupted runs came
\* before, except what they tried to remove and Windows kept: a refusal is
\* logged and the run goes on (driver_install.cpp:94, 102, cert_sign.cpp:274,
\* 279), and forgets nothing else on that account (RunUninstall,
\* install_flow.cpp:186-203).
UninstallLeavesNothing ==
    outcome \in {"uninstalled", "rolledback"} /\ script = "idle" =>
        /\ machine.reg = CleanMachine.reg \/ TheRecord \in refused
        /\ machine.node = None \/ TheNode \in refused
        /\ \A c \in Trusted : Cert(c) \in refused
        /\ \A v \in Staged : Package(v) \in refused
        /\ machine.loaded \subseteq Staged
        /\ machine.files = None

-----------------------------------------------------------------------------
(* What a step may never do. *)

Regular(m) ==
    /\ m.node \in Versions
    /\ \A n \in Values \ (Pending \cup Previous) : m.reg[n] # None
    /\ \A n \in Pending \cup Previous : m.reg[n] = None

\* An install on a machine whose record is complete, with nothing pending or
\* left over, never takes the device node away, succeed or fail: the device
\* paths games have bound stay (install_mode.h:15-17, install_flow.cpp:64-65).
NodeKept ==
    [][machine.node # None /\ machine'.node = None =>
          script = "uninstall" \/ ~Regular(before)]_vars
===============================================================================
