--------------------------- MODULE InstallFlowProofs ---------------------------
(***************************************************************************)
(* What InstallFlowProps says of signing keys, proved for any number of    *)
(* releases, certificates, failures and runs, and the types it rests on.   *)
(***************************************************************************)
EXTENDS InstallFlowProps, TLAPS

\* Where a run stands in its list of calls.
Place ==
    /\ script \in DOMAIN Scripts \cup {"idle"}
    /\ at \in Nat /\ (script # "idle" => at \in DOMAIN Scripts[script])

Outcomes == {"none", "installed", "reboot", "kept", "rolledback", "broken",
             "uninstalled", "crashed"}

Names == {"retire", "choose", "fresh", "update", "same", "promote", "failUpdate",
          "unwind", "rollback", "reinstall", "uninstall"}

-----------------------------------------------------------------------------
(* The lists of calls. *)

LEMMA ScriptNames ==
  /\ DOMAIN Scripts = Names
  /\ Scripts["retire"] = RetireScript /\ Scripts["choose"] = <<"choose">>
  /\ Scripts["fresh"] = FreshScript /\ Scripts["update"] = UpdateScript
  /\ Scripts["same"] = SameScript /\ Scripts["promote"] = PromoteScript
  /\ Scripts["failUpdate"] = FailUpdateScript /\ Scripts["unwind"] = UnwindScript
  /\ Scripts["rollback"] = UninstallScript /\ Scripts["reinstall"] = UninstallScript
  /\ Scripts["uninstall"] = UninstallScript
  BY DEF Scripts, Names

LEMMA ScriptLengths ==
  /\ Len(RetireScript) = 5 /\ Len(FreshScript) = 13 /\ Len(UpdateScript) = 9
  /\ Len(SameScript) = 4 /\ Len(PromoteScript) = 11 /\ Len(FailUpdateScript) = 4
  /\ Len(UnwindScript) = 2 /\ Len(UninstallScript) = 9
  /\ DOMAIN RetireScript = 1 .. 5 /\ DOMAIN FreshScript = 1 .. 13
  /\ DOMAIN UpdateScript = 1 .. 9 /\ DOMAIN SameScript = 1 .. 4
  /\ DOMAIN PromoteScript = 1 .. 11 /\ DOMAIN FailUpdateScript = 1 .. 4
  /\ DOMAIN UnwindScript = 1 .. 2 /\ DOMAIN UninstallScript = 1 .. 9
  BY DEF RetireScript, FreshScript, UpdateScript, SameScript, PromoteScript,
         FailUpdateScript, UnwindScript, UninstallScript

(* What each list calls, and where it makes the calls about keys, trust and *)
(* packages.                                                                *)
LEMMA FreshCalls ==
  ASSUME Place, script = "fresh"
  PROVE  /\ at \in 1 .. 13
         /\ Call = "key" <=> at = 3
         /\ Call = "sign" <=> at = 4
         /\ Call = "destroyKey" <=> at = 5
         /\ Call = "recordCert" <=> at = 6
         /\ Call = "trust" <=> at = 7
         /\ Call = "stage" <=> at = 9
         /\ Call = "bind" <=> at = 11
         /\ Call \in {"recordDir", "copy", "key", "sign", "destroyKey", "recordCert",
                      "trust", "removeNode", "stage", "register", "bind", "recordInf",
                      "recordVersion"}
<1>1. at \in 1 .. 13 /\ Call = FreshScript[at]
  BY ScriptNames, ScriptLengths DEF Place, Call
<1>2. QED
  BY <1>1 DEF FreshScript

LEMMA UpdateCalls ==
  ASSUME Place, script = "update"
  PROVE  /\ at \in 1 .. 9
         /\ Call = "key" <=> at = 2
         /\ Call = "sign" <=> at = 3
         /\ Call = "destroyKey" <=> at = 4
         /\ Call = "recordCert" <=> at = 5
         /\ Call = "trust" <=> at = 6
         /\ Call = "stage" <=> at = 7
         /\ Call = "bind" <=> at = 9
         /\ Call \in {"copy", "key", "sign", "destroyKey", "recordCert", "trust", "stage",
                      "recordInf", "bind"}
<1>1. at \in 1 .. 9 /\ Call = UpdateScript[at]
  BY ScriptNames, ScriptLengths DEF Place, Call
<1>2. QED
  BY <1>1 DEF UpdateScript

LEMMA RetireCalls ==
  ASSUME Place, script = "retire"
  PROVE  /\ at \in 1 .. 5 /\ (Call = "choose" <=> at = 5) /\ (Call = "retireInf" <=> at = 3)
         /\ Call \in {"retireCert", "forgetPreviousCert", "retireInf",
                      "forgetPreviousInf", "choose"}
<1>1. at \in 1 .. 5 /\ Call = RetireScript[at]
  BY ScriptNames, ScriptLengths DEF Place, Call
<1>2. QED
  BY <1>1 DEF RetireScript

LEMMA ChooseCalls ==
  ASSUME Place, script = "choose" PROVE at = 1 /\ Call = "choose"
  BY ScriptNames DEF Place, Call

LEMMA SameCalls ==
  ASSUME Place, script = "same"
  PROVE  /\ at \in 1 .. 4
         /\ Call \in {"untrustNew", "forgetPendingCert", "forgetPendingInf", "recordVersion"}
<1>1. at \in 1 .. 4 /\ Call = SameScript[at]
  BY ScriptNames, ScriptLengths DEF Place, Call
<1>2. QED
  BY <1>1 DEF SameScript

LEMMA PromoteCalls ==
  ASSUME Place, script = "promote"
  PROVE  /\ at \in 1 .. 11 /\ (Call = "retireInf" <=> at = 9)
         /\ Call \in {"recordPreviousCert", "recordPreviousInf", "promoteCert", "promoteInf",
                      "forgetPendingCert", "forgetPendingInf", "retireCert",
                      "forgetPreviousCert", "retireInf", "forgetPreviousInf",
                      "recordVersion"}
<1>1. at \in 1 .. 11 /\ Call = PromoteScript[at]
  BY ScriptNames, ScriptLengths DEF Place, Call
<1>2. QED
  BY <1>1 DEF PromoteScript

LEMMA UndoCalls ==
  ASSUME Place, script \in {"failUpdate", "unwind", "rollback", "reinstall", "uninstall"}
  PROVE  /\ at \in 1 .. 9
         /\ Call \in {"dropPackage", "untrustNew", "forgetPendingInf", "forgetPendingCert",
                      "removeNode", "unstageDriver", "unstagePending", "unstagePrevious",
                      "untrustCert", "untrustPending", "untrustPrevious", "removeFiles",
                      "deleteState"}
<1>1. CASE script = "failUpdate"
  <2>1. at \in 1 .. 4 /\ Call = FailUpdateScript[at]
    BY <1>1, ScriptNames, ScriptLengths DEF Place, Call
  <2>2. QED
    BY <2>1 DEF FailUpdateScript
<1>2. CASE script = "unwind"
  <2>1. at \in 1 .. 2 /\ Call = UnwindScript[at]
    BY <1>2, ScriptNames, ScriptLengths DEF Place, Call
  <2>2. QED
    BY <2>1 DEF UnwindScript
<1>3. CASE script \in {"rollback", "reinstall", "uninstall"}
  <2>1. at \in 1 .. 9 /\ Call = UninstallScript[at]
    BY <1>3, ScriptNames, ScriptLengths DEF Place, Call
  <2>2. QED
    BY <2>1 DEF UninstallScript
<1>4. QED
  BY <1>1, <1>2, <1>3

LEMMA ScriptNamed == Place => script \in Names \cup {"idle"}
  BY ScriptNames DEF Place

(* The calls by the lists they are made in.                                 *)
LEMMA CallSites ==
  ASSUME Place
  PROVE  /\ script = "idle" => Call = "none"
         /\ Call = "choose" => script \in {"retire", "choose"}
         /\ script = "choose" \/ (script = "retire" /\ at = 5) => Call = "choose"
         /\ Call = "key" => (script = "fresh" /\ at = 3) \/ (script = "update" /\ at = 2)
         /\ Call = "sign" => (script = "fresh" /\ at = 4) \/ (script = "update" /\ at = 3)
         /\ Call = "destroyKey" => (script = "fresh" /\ at = 5) \/ (script = "update" /\ at = 4)
         /\ Call = "trust" => (script = "fresh" /\ at = 7) \/ (script = "update" /\ at = 6)
         /\ Call = "stage" => (script = "fresh" /\ at = 9) \/ (script = "update" /\ at = 7)
         /\ Call = "bind" => (script = "fresh" /\ at = 11) \/ (script = "update" /\ at = 9)
         /\ Call = "retireInf" => (script = "retire" /\ at = 3) \/ (script = "promote" /\ at = 9)
         /\ Call \in {"recordDir", "recordVersion", "recordCert", "recordInf",
                      "recordPreviousCert", "recordPreviousInf", "promoteCert", "promoteInf",
                      "copy", "register"}
              => script \in {"fresh", "update", "same", "promote"}
<1>1. CASE script = "idle"
  <2>1. Call = "none"
    BY <1>1 DEF Call
  <2>2. QED
    BY <1>1, <2>1
<1>2. CASE script = "fresh"
  BY <1>2, FreshCalls
<1>3. CASE script = "update"
  BY <1>3, UpdateCalls
<1>4. CASE script = "retire"
  BY <1>4, RetireCalls
<1>5. CASE script = "choose"
  BY <1>5, ChooseCalls
<1>6. CASE script = "same"
  BY <1>6, SameCalls
<1>7. CASE script = "promote"
  BY <1>7, PromoteCalls
<1>8. CASE script \in {"failUpdate", "unwind", "rollback", "reinstall", "uninstall"}
  BY <1>8, UndoCalls
<1>9. QED
  BY <1>1, <1>2, <1>3, <1>4, <1>5, <1>6, <1>7, <1>8, ScriptNamed DEF Names

-----------------------------------------------------------------------------
(* Where a run goes next, and what it takes with it. *)

\* The release a run is about, while it may still be installed.
Going == {"retire", "choose", "reinstall", "fresh", "update"}

\* A run has a certificate once it made one, and knows the name of its package
\* from its staging to its binding.
RunOK(r) ==
    /\ r \in Runs
    /\ script \in Going => r.version \in Versions
    /\ (script = "fresh" /\ at > 3) \/ (script = "update" /\ at > 2) => r.cert \in Certs
    /\ (script = "fresh" /\ at > 9) \/ (script = "update" /\ at > 7) => r.published \in Versions

LEMMA Firsts == \A s \in Names : 1 \in DOMAIN Scripts[s]
<1> SUFFICES ASSUME NEW s \in Names PROVE 1 \in DOMAIN Scripts[s]
  OBVIOUS
<1>1. 1 \in DOMAIN <<"choose">>
  OBVIOUS
<1>2. QED
  BY <1>1, ScriptNames, ScriptLengths DEF Names

LEMMA Lengths ==
  \A s \in Names : DOMAIN Scripts[s] = 1 .. Len(Scripts[s]) /\ Len(Scripts[s]) \in Nat
<1> SUFFICES ASSUME NEW s \in Names
             PROVE  DOMAIN Scripts[s] = 1 .. Len(Scripts[s]) /\ Len(Scripts[s]) \in Nat
  OBVIOUS
<1>1. DOMAIN <<"choose">> = 1 .. Len(<<"choose">>) /\ Len(<<"choose">>) \in Nat
  OBVIOUS
<1>2. QED
  BY <1>1, ScriptNames, ScriptLengths DEF Names

LEMMA EnterPlace ==
  ASSUME NEW s \in Names, NEW i \in DOMAIN Scripts[s], NEW r, Enter(s, i, r)
  PROVE  Place'
<1>1. i \in Nat
  BY Lengths
<1>2. Scripts' = Scripts
  BY DEF Scripts, RetireScript, FreshScript, UpdateScript, SameScript, PromoteScript,
         FailUpdateScript, UnwindScript, UninstallScript
<1>3. script' = s /\ at' = i
  BY DEF Enter
<1>4. QED
  BY <1>1, <1>2, <1>3, ScriptNames DEF Place

LEMMA EndPlace ==
  ASSUME NEW o \in Outcomes, EndRun(o)
  PROVE  /\ Place' /\ outcome' \in Outcomes /\ script' = "idle" /\ run' = NoRun
         /\ RunOK(run)'
<1>1. script' = "idle" /\ at' = 1 /\ run' = NoRun /\ outcome' = o
  BY DEF EndRun
<1>2. NoRun \in Runs
  BY DEF NoRun, NewRun, Runs
<1>3. (RunOK(run))'
  BY <1>1, <1>2 DEF RunOK, Going, Runs
<1>4. QED
  BY <1>1, <1>3 DEF Place

LEMMA AdvanceFacts ==
  ASSUME Place, script # "idle", Call # "choose", outcome \in Outcomes,
         NEW r \in Runs, AdvanceWith(r),
         script \in Going => r.version \in Versions,
         (script = "fresh" /\ at >= 3) \/ (script = "update" /\ at >= 2)
           => r.cert \in Certs,
         (script = "fresh" /\ at >= 9) \/ (script = "update" /\ at >= 7)
           => r.published \in Versions
  PROVE  /\ Place' /\ outcome' \in Outcomes /\ RunOK(run)'
         /\ \/ script' = script /\ at' = at + 1 /\ run' = r
            \/ script' \in {"idle", "same", "promote", "rollback"}
            \/ script' = "fresh" /\ at' = 1
<1>1. script \in Names /\ at \in Nat /\ at \in 1 .. Len(Scripts[script])
  BY ScriptNamed, Lengths DEF Place
<1>2. CASE at < Len(Scripts[script])
  <2>1. Enter(script, at + 1, r)
    BY <1>2 DEF AdvanceWith
  <2>2. at + 1 \in DOMAIN Scripts[script]
    BY <1>1, <1>2, Lengths
  <2>3. Place'
    BY <1>1, <2>1, <2>2, EnterPlace
  <2>4. script' = script /\ at' = at + 1 /\ run' = r /\ outcome' = outcome
    BY <2>1 DEF Enter
  <2>5. RunOK(run)'
    BY <1>1, <2>4 DEF RunOK, Going, Runs
  <2>6. QED
    BY <2>3, <2>4, <2>5
<1>3. CASE ~(at < Len(Scripts[script]))
  <2>1. Finish(r)
    BY <1>3 DEF AdvanceWith
  <2>2. at = Len(Scripts[script])
    BY <1>1, <1>3
  <2>3. script \notin {"retire", "choose"}
    BY <2>2, CallSites, ScriptNames, ScriptLengths
  <2>4. ASSUME NEW s \in {"same", "promote", "rollback", "fresh"}, Enter(s, 1, r),
               s = "fresh" => script \in Going
        PROVE  /\ Place' /\ outcome' = outcome /\ RunOK(run)' /\ script' = s /\ at' = 1
    <3>1. s \in Names
      BY DEF Names
    <3>2. Place'
      BY <2>4, <3>1, Firsts, EnterPlace
    <3>3. script' = s /\ at' = 1 /\ run' = r /\ outcome' = outcome
      BY <2>1, <2>4 DEF Enter
    <3>4. RunOK(run)'
      BY <2>4, <3>3 DEF RunOK, Going, Runs
    <3>5. QED
      BY <3>2, <3>3, <3>4
  <2>5. CASE script \in {"fresh", "same", "promote"}
    <3>1. PICK o \in Outcomes : EndRun(o)
      BY <2>1, <2>5 DEF Finish, Outcomes
    <3>2. QED
      BY <3>1, EndPlace
  <2>6. CASE script = "update"
    <3>1. Enter("same", 1, r) \/ Enter("promote", 1, r)
      BY <2>1, <2>6 DEF Finish
    <3>2. QED
      BY <2>4, <3>1
  <2>7. CASE script = "unwind"
    <3>1. Enter("rollback", 1, r)
      BY <2>1, <2>7 DEF Finish
    <3>2. QED
      BY <2>4, <3>1
  <2>8. CASE script = "reinstall"
    <3>1. Enter("fresh", 1, r)
      BY <2>1, <2>8 DEF Finish
    <3>2. QED
      BY <2>4, <2>8, <3>1 DEF Going
  <2>9. CASE script \in {"failUpdate", "rollback", "uninstall"}
    <3>1. PICK o \in Outcomes : EndRun(o)
      BY <2>1, <2>9 DEF Finish, Outcomes
    <3>2. QED
      BY <3>1, EndPlace
  <2>10. QED
    BY <1>1, <2>3, <2>5, <2>6, <2>7, <2>8, <2>9 DEF Names
<1>4. QED
  BY <1>2, <1>3

LEMMA FailFacts ==
  ASSUME Place, script \in {"fresh", "update", "same", "promote"}, Fail, run \in Runs,
         outcome \in Outcomes
  PROVE  /\ Place' /\ outcome' \in Outcomes /\ RunOK(run)'
         /\ script' \in {"idle", "failUpdate", "unwind", "rollback"}
<1>1. ASSUME NEW s \in {"failUpdate", "unwind", "rollback"}, NEW i \in {1, 2}, Enter(s, i, run)
      PROVE  /\ Place' /\ outcome' \in Outcomes /\ RunOK(run)' /\ script' = s
  <2>1. s \in Names
    BY DEF Names
  <2>2. i \in DOMAIN Scripts[s]
    BY ScriptNames, ScriptLengths
  <2>3. Place'
    BY <1>1, <2>1, <2>2, EnterPlace
  <2>4. script' = s /\ run' = run /\ outcome' = outcome
    BY <1>1 DEF Enter
  <2>5. RunOK(run)'
    BY <2>4 DEF RunOK, Going, Runs
  <2>6. QED
    BY <2>3, <2>4, <2>5
<1>2. CASE script = "update"
  <2>1. Enter("failUpdate", 1, run)
    BY <1>2 DEF Fail
  <2>2. QED
    BY <2>1, <1>1
<1>3. CASE script \in {"same", "promote"}
  <2>1. EndRun("broken") /\ "broken" \in Outcomes
    BY <1>3 DEF Fail, Outcomes
  <2>2. QED
    BY <2>1, EndPlace
<1>4. CASE script = "fresh"
  <2>1. Enter("unwind", 1, run) \/ Enter("unwind", 2, run) \/ Enter("rollback", 1, run)
    BY <1>4 DEF Fail
  <2>2. QED
    BY <2>1, <1>1
<1>5. QED
  BY <1>2, <1>3, <1>4

-----------------------------------------------------------------------------
(* The changes a call makes leave a machine a machine. *)

LEMMA MachineEdits ==
  ASSUME NEW m \in Machines
  PROVE  /\ \A K \in SUBSET Certs : [m EXCEPT !.keys = K] \in Machines
         /\ \A K \in SUBSET Certs : [m EXCEPT !.stuck = K] \in Machines
         /\ \A x \in Versions \cup {None, "bare"} : [m EXCEPT !.node = x] \in Machines
         /\ \A L \in SUBSET Versions : [m EXCEPT !.loaded = L] \in Machines
         /\ \A x \in Versions \cup {None, "bare"}, L \in SUBSET Versions :
               [m EXCEPT !.node = x, !.loaded = L] \in Machines
         /\ \A f \in Versions \cup {None, "mixed"} : [m EXCEPT !.files = f] \in Machines
  BY DEF Machines

LEMMA TrustEdit ==
  ASSUME NEW m \in Machines, NEW c, NEW T \in SUBSET TrustStores
  PROVE  [m EXCEPT !.trust[c] = T] \in Machines
  BY DEF Machines

LEMMA StagedEdit ==
  ASSUME NEW m \in Machines, NEW v, NEW c \in Certs \cup {None}
  PROVE  [m EXCEPT !.staged[v] = c] \in Machines
  BY DEF Machines

LEMMA RegEdit ==
  ASSUME NEW m \in Machines, NEW n \in Values, NEW x \in Holds(n) \cup {None}
  PROVE  [m EXCEPT !.reg[n] = x] \in Machines
<1> DEFINE R == [m.reg EXCEPT ![n] = x]
<1>1. x \in Versions \cup Certs \cup {None, "dir"}
  BY DEF Holds, Values
<1>2. /\ m.reg \in [Values -> Versions \cup Certs \cup {None, "dir"}]
      /\ \A k \in Values : m.reg[k] \in Holds(k) \cup {None}
  BY DEF Machines
<1>3. R \in [Values -> Versions \cup Certs \cup {None, "dir"}]
  BY <1>1, <1>2
<1>4. \A k \in Values : R[k] \in Holds(k) \cup {None}
  BY <1>2
<1>5. QED
  BY <1>3, <1>4 DEF Machines

LEMMA CleanTyped == CleanMachine \in Machines
<1>1. [n \in Values |-> None] \in [Values -> Versions \cup Certs \cup {None, "dir"}]
  OBVIOUS
<1>2. \A n \in Values : [k \in Values |-> None][n] \in Holds(n) \cup {None}
  OBVIOUS
<1>3. QED
  BY <1>1, <1>2 DEF CleanMachine, Machines

LEMMA RegClears ==
  ASSUME NEW m \in Machines
  PROVE  [m EXCEPT !.reg = CleanMachine.reg] \in Machines
  BY CleanTyped DEF Machines

-----------------------------------------------------------------------------
(* Every step keeps the types. *)

Typed ==
    /\ machine \in Machines /\ before \in Machines
    /\ faults \in 0 .. MaxFaults
    /\ Place /\ outcome \in Outcomes /\ RunOK(run)

\* The step goes on to the next call, or leaves the calls that make a key.
Onward ==
    \/ script' = script /\ at' = at + 1 /\ run'.cert = run.cert
    \/ script' \in {"idle", "same", "promote", "failUpdate", "unwind", "rollback"}
    \/ script' = "fresh" /\ at' = 1

\* The part of Typed that says where a run stands.
Running == Place /\ outcome \in Outcomes /\ RunOK(run)

LEMMA Onwards ==
  ASSUME Running, script # "idle", Call \notin {"choose", "key", "stage"},
         NEW r \in Runs, AdvanceWith(r), r.version = run.version, r.cert = run.cert,
         r.published = run.published
  PROVE  Running' /\ Onward
<1>1. script \in Going => r.version \in Versions
  BY DEF Running, RunOK
<1>2. (script = "fresh" /\ at >= 3) \/ (script = "update" /\ at >= 2) => r.cert \in Certs
  BY FreshCalls, UpdateCalls DEF Running, RunOK
<1>3. (script = "fresh" /\ at >= 9) \/ (script = "update" /\ at >= 7)
         => r.published \in Versions
  BY FreshCalls, UpdateCalls DEF Running, RunOK
<1>4. Place /\ outcome \in Outcomes /\ Call # "choose"
  BY DEF Running
<1>5. /\ Place' /\ outcome' \in Outcomes /\ RunOK(run)'
      /\ \/ script' = script /\ at' = at + 1 /\ run' = r
         \/ script' \in {"idle", "same", "promote", "rollback"}
         \/ script' = "fresh" /\ at' = 1
  BY <1>1, <1>2, <1>3, <1>4, AdvanceFacts
<1>6. QED
  BY <1>5 DEF Running, Onward

LEMMA Advances ==
  ASSUME Running, script # "idle", Call \notin {"choose", "key", "stage"}, Advance
  PROVE  Running' /\ Onward
<1>1. run \in Runs
  BY DEF Running, RunOK
<1>2. AdvanceWith(run)
  BY DEF Advance
<1>3. QED
  BY <1>1, <1>2, Onwards

LEMMA FailsOver ==
  ASSUME Running, script \in {"fresh", "update", "same", "promote"}, Fail
  PROVE  Running' /\ Onward
<1>1. Place /\ run \in Runs /\ outcome \in Outcomes
  BY DEF Running, RunOK
<1>2. /\ Place' /\ outcome' \in Outcomes /\ RunOK(run)'
      /\ script' \in {"idle", "failUpdate", "unwind", "rollback"}
  BY <1>1, FailFacts
<1>3. QED
  BY <1>2 DEF Running, Onward

\* A call made again, one store later.
LEMMA Again ==
  ASSUME Running, script # "idle", Enter(script, at, run)
  PROVE  Running' /\ script' = script /\ at' = at /\ run' = run
<1>1. script \in Names /\ at \in DOMAIN Scripts[script]
  BY ScriptNamed DEF Running, Place
<1>2. Place'
  BY <1>1, EnterPlace
<1>3. script' = script /\ at' = at /\ run' = run /\ outcome' = outcome
  BY DEF Enter
<1>4. RunOK(run)'
  BY <1>3 DEF Running, RunOK
<1>5. QED
  BY <1>2, <1>3, <1>4 DEF Running

LEMMA Budget ==
  ASSUME NEW kind, Fault(kind), faults \in 0 .. MaxFaults
  PROVE  faults' \in 0 .. MaxFaults
  BY FlowAssumption DEF Fault

-----------------------------------------------------------------------------
(* The invariant: from the call that deletes the key to the one that trusts *)
(* its certificate, the key is gone or cannot be deleted.                   *)

Claimed == (script = "fresh" /\ at \in {6, 7}) \/ (script = "update" /\ at \in {5, 6})

KeySafe ==
    /\ Claimed => (run.cert \in machine.keys => run.cert \in machine.stuck)
    /\ TrustedKeyGone

Inv == Typed /\ KeySafe

\* The step makes no key, and trusts no certificate it did not.
KeysKept ==
    /\ machine'.keys \subseteq machine.keys
    /\ machine.stuck \subseteq machine'.stuck
    /\ \A c \in Certs : machine.trust[c] = {} => machine'.trust[c] = {}

LEMMA GoneStaysGone ==
  ASSUME TrustedKeyGone, KeysKept
  PROVE  TrustedKeyGone'
  BY DEF TrustedKeyGone, Trusted, KeysKept

LEMMA ClaimsMoveOn ==
  ASSUME Place, script # "idle", KeySafe, KeysKept, Onward, Call # "destroyKey"
  PROVE  KeySafe'
<1>1. TrustedKeyGone'
  BY GoneStaysGone DEF KeySafe
<1>2. ASSUME Claimed' PROVE Claimed /\ run'.cert = run.cert
  <2>1. /\ script' = script /\ at' = at + 1 /\ run'.cert = run.cert
        /\ (script = "fresh" /\ at' \in {6, 7}) \/ (script = "update" /\ at' \in {5, 6})
    BY <1>2 DEF Claimed, Onward
  <2>2. CASE script = "fresh"
    <3>1. at \in {5, 6} /\ at # 5
      BY <2>1, <2>2, FreshCalls
    <3>2. QED
      BY <2>1, <2>2, <3>1 DEF Claimed
  <2>3. CASE script = "update"
    <3>1. at \in {4, 5} /\ at # 4
      BY <2>1, <2>3, UpdateCalls
    <3>2. QED
      BY <2>1, <2>3, <3>1 DEF Claimed
  <2>4. QED
    BY <2>1, <2>2, <2>3
<1>3. QED
  BY <1>1, <1>2 DEF KeySafe, KeysKept

LEMMA NothingClaimed ==
  ASSUME TrustedKeyGone, KeysKept, ~(Claimed')
  PROVE  KeySafe'
  BY GoneStaysGone DEF KeySafe

LEMMA SameMachine ==
  ASSUME UNCHANGED machine
  PROVE  KeysKept
  BY DEF KeysKept

-----------------------------------------------------------------------------
(* The three ways most calls end. *)

\* Done, and on to the next call.
LEMMA Proceeds ==
  ASSUME Inv, script # "idle", Call \notin {"choose", "key", "stage", "destroyKey"},
         NEW m \in Machines, Set(m), KeysKept, Advance
  PROVE  Inv'
<1>1. Running /\ KeySafe /\ Place
  BY DEF Inv, Typed, Running
<1>2. Running' /\ Onward
  BY <1>1, Advances
<1>3. KeySafe'
  BY <1>1, <1>2, ClaimsMoveOn
<1>4. QED
  BY <1>2, <1>3 DEF Set, Inv, Typed, Running

\* Refused by Windows, or done only in part, and on to the next call.
LEMMA Shrugs ==
  ASSUME Inv, script # "idle", Call \notin {"choose", "key", "stage", "destroyKey"},
         NEW kind, Fault(kind), machine' \in Machines, UNCHANGED before, KeysKept, Advance
  PROVE  Inv'
<1>1. Running /\ KeySafe /\ Place /\ faults \in 0 .. MaxFaults
  BY DEF Inv, Typed, Running
<1>2. Running' /\ Onward
  BY <1>1, Advances
<1>3. KeySafe'
  BY <1>1, <1>2, ClaimsMoveOn
<1>4. faults' \in 0 .. MaxFaults
  BY <1>1, Budget
<1>5. QED
  BY <1>2, <1>3, <1>4 DEF Inv, Typed, Running

\* Failed, and on to what undoes the run.
LEMMA Stops ==
  ASSUME Inv, script \in {"fresh", "update", "same", "promote"}, Call # "destroyKey",
         NEW kind, Fails(kind), machine' \in Machines, KeysKept
  PROVE  Inv'
<1>1. Running /\ KeySafe /\ Place /\ script # "idle" /\ faults \in 0 .. MaxFaults
  BY DEF Inv, Typed, Running
<1>2. Running' /\ Onward
  BY <1>1, FailsOver DEF Fails
<1>3. KeySafe'
  BY <1>1, <1>2, ClaimsMoveOn
<1>4. faults' \in 0 .. MaxFaults
  BY <1>1, Budget DEF Fails
<1>5. QED
  BY <1>2, <1>3, <1>4 DEF Fails, Inv, Typed, Running

\* Half done, and made again for the other store.
LEMMA Repeats ==
  ASSUME Inv, script # "idle", NEW m \in Machines, Set(m), Enter(script, at, run),
         machine.keys = m.keys, machine.stuck = m.stuck, TrustedKeyGone'
  PROVE  Inv'
<1>1. Running /\ KeySafe
  BY DEF Inv, Typed, Running
<1>2. Running' /\ script' = script /\ at' = at /\ run' = run
  BY <1>1, Again
<1>3. KeySafe'
  BY <1>1, <1>2 DEF KeySafe, Claimed, Set
<1>4. QED
  BY <1>2, <1>3 DEF Set, Inv, Typed, Running

-----------------------------------------------------------------------------
(* One lemma for each call. *)

LEMMA WriteKeeps ==
  ASSUME Inv, WriteValue
  PROVE  Inv'
<1>1. /\ Call \in {"recordDir", "recordVersion", "recordCert", "recordInf",
                   "recordPreviousCert", "recordPreviousInf", "promoteCert", "promoteInf"}
      /\ Place /\ machine \in Machines /\ run \in Runs
  BY DEF WriteValue, Written, Inv, Typed, RunOK
<1>2. script \in {"fresh", "update", "same", "promote"} /\ script # "idle"
  BY <1>1, CallSites
<1>3. CASE Set([machine EXCEPT !.reg[Written[Call]] = ValueFor[Call]]) /\ Advance
  <2>1. /\ run.version \in Versions \cup {None} /\ run.cert \in Certs \cup {None}
        /\ run.published \in Versions \cup {None}
    BY <1>1 DEF Runs
  <2>2. /\ reg["CertThumbprint"] \in Holds("CertThumbprint") \cup {None}
        /\ reg["DriverInf"] \in Holds("DriverInf") \cup {None}
    BY <1>1 DEF reg, Machines, Values, CertValues, InfValues
  <2>3. /\ \A n \in CertValues : Holds(n) = Certs
        /\ \A n \in InfValues \cup {"Version"} : Holds(n) = Versions
        /\ Holds("InstallDir") = {"dir"}
    BY DEF Holds, CertValues, InfValues
  <2>4. /\ Written[Call] \in Values
        /\ ValueFor[Call] \in Holds(Written[Call]) \cup {None}
    BY <1>1, <2>1, <2>2, <2>3 DEF Written, ValueFor, Values, CertValues, InfValues
  <2>5. [machine EXCEPT !.reg[Written[Call]] = ValueFor[Call]] \in Machines
    BY <1>1, <2>4, RegEdit
  <2>6. KeysKept
    BY <1>1, <1>3 DEF Set, KeysKept, Machines
  <2>7. QED
    BY <1>1, <1>2, <1>3, <2>5, <2>6, Proceeds
<1>4. CASE Fails("write") /\ UNCHANGED machine
  BY <1>1, <1>2, <1>4, SameMachine, Stops
<1>5. QED
  BY <1>3, <1>4 DEF WriteValue

LEMMA DeleteKeeps ==
  ASSUME Inv, DeleteValue
  PROVE  Inv'
<1>1. /\ Call \in {"forgetPendingCert", "forgetPendingInf", "forgetPreviousCert",
                   "forgetPreviousInf"}
      /\ Place /\ machine \in Machines /\ Advance
  BY DEF DeleteValue, Forgotten, Inv, Typed
<1>2. script # "idle"
  BY <1>1, CallSites
<1>3. Forgotten[Call] \in Values
  BY <1>1 DEF Forgotten, Values, CertValues, InfValues
<1>4. [machine EXCEPT !.reg[Forgotten[Call]] = None] \in Machines
  BY <1>1, <1>3, RegEdit
<1>5. CASE Set([machine EXCEPT !.reg[Forgotten[Call]] = None])
  <2>1. KeysKept
    BY <1>1, <1>5 DEF Set, KeysKept, Machines
  <2>2. QED
    BY <1>1, <1>2, <1>4, <1>5, <2>1, Proceeds
<1>6. CASE Fault("forget") /\ UNCHANGED <<machine, before>>
  BY <1>1, <1>2, <1>6, SameMachine, Shrugs
<1>7. QED
  BY <1>5, <1>6 DEF DeleteValue, Refused

LEMMA DeleteStateKeeps ==
  ASSUME Inv, DeleteState
  PROVE  Inv'
<1>1. Call = "deleteState" /\ Place /\ machine \in Machines /\ Advance
  BY DEF DeleteState, Inv, Typed
<1>2. script # "idle"
  BY <1>1, CallSites
<1>3. CASE Set([machine EXCEPT !.reg = CleanMachine.reg])
  <2>1. KeysKept
    BY <1>1, <1>3 DEF Set, KeysKept, Machines
  <2>2. QED
    BY <1>1, <1>2, <1>3, <2>1, RegClears, Proceeds
<1>4. CASE Fault("forget") /\ UNCHANGED <<machine, before>>
  BY <1>1, <1>2, <1>4, SameMachine, Shrugs
<1>5. QED
  BY <1>3, <1>4 DEF DeleteState, Refused

LEMMA CreateKeeps ==
  ASSUME Inv, CreateSigningCert
  PROVE  Inv'
<1>1. /\ Call = "key" /\ Running /\ Place /\ machine \in Machines /\ TrustedKeyGone
      /\ run \in Runs /\ outcome \in Outcomes
  BY DEF CreateSigningCert, Inv, Typed, Running, RunOK, KeySafe
<1>2. (script = "fresh" /\ at = 3) \/ (script = "update" /\ at = 2)
  BY <1>1, CallSites
<1>3. ASSUME NEW c \in Certs, Unused(c), Set([machine EXCEPT !.keys = @ \cup {c}]),
             AdvanceWith([run EXCEPT !.cert = c])
      PROVE  Inv'
  <2> DEFINE r == [run EXCEPT !.cert = c]
  <2>1. r \in Runs /\ r.cert = c /\ r.version = run.version
    BY <1>1 DEF Runs
  <2>2. script \in Going => r.version \in Versions
    BY <1>1, <2>1 DEF Running, RunOK
  <2> HIDE DEF r
  <2>3. /\ Place' /\ outcome' \in Outcomes /\ RunOK(run)'
        /\ \/ script' = script /\ at' = at + 1 /\ run' = r
           \/ script' \in {"idle", "same", "promote", "rollback"}
           \/ script' = "fresh" /\ at' = 1
    <3>1. AdvanceWith(r)
      BY <1>3 DEF r
    <3>2. /\ script # "idle" /\ Call # "choose" /\ r.cert \in Certs
          /\ ~(script = "fresh" /\ at >= 9) /\ ~(script = "update" /\ at >= 7)
      BY <1>1, <1>2, <2>1
    <3>3. QED
      BY <1>1, <2>1, <2>2, <3>1, <3>2, AdvanceFacts
  <2>4. ~(Claimed')
    BY <1>2, <2>3 DEF Claimed
  <2>5. machine' \in Machines
    <3>1. machine.keys \cup {c} \in SUBSET Certs
      BY <1>1 DEF Machines
    <3>2. QED
      BY <1>1, <1>3, <3>1, MachineEdits DEF Set
  <2>6. /\ machine'.keys = machine.keys \cup {c} /\ machine'.stuck = machine.stuck
        /\ machine'.trust = machine.trust /\ machine.trust[c] = {}
    BY <1>1, <1>3 DEF Set, Unused, Machines
  <2>7. TrustedKeyGone'
    BY <1>1, <2>6 DEF TrustedKeyGone, Trusted
  <2>8. QED
    BY <1>3, <2>3, <2>4, <2>5, <2>7 DEF Set, Inv, Typed, KeySafe
<1>4. CASE Fails("key") /\ UNCHANGED machine
  BY <1>1, <1>2, <1>4, SameMachine, Stops
<1>5. QED
  BY <1>3, <1>4 DEF CreateSigningCert

LEMMA SignKeeps ==
  ASSUME Inv, SignFiles
  PROVE  Inv'
<1>1. /\ Call = "sign" /\ Running /\ Place /\ run \in Runs /\ KeySafe
      /\ faults \in 0 .. MaxFaults
      /\ UNCHANGED <<machine, before>>
  BY DEF SignFiles, Inv, Typed, Running, RunOK
<1>2. script # "idle"
  BY <1>1, CallSites
<1>3. PICK b \in BOOLEAN : AdvanceWith([run EXCEPT !.signed = b])
  BY DEF SignFiles
<1>4. Running' /\ Onward
  <2> DEFINE r == [run EXCEPT !.signed = b]
  <2>1. /\ r \in Runs /\ r.version = run.version /\ r.cert = run.cert
        /\ r.published = run.published
    BY <1>1 DEF Runs
  <2>2. AdvanceWith(r)
    BY <1>3
  <2> HIDE DEF r
  <2>3. QED
    BY <1>1, <1>2, <2>1, <2>2, Onwards
<1>5. KeySafe'
  BY <1>1, <1>2, <1>4, SameMachine, ClaimsMoveOn
<1>6. faults' \in 0 .. MaxFaults
  BY <1>1, Budget DEF SignFiles
<1>7. QED
  BY <1>1, <1>4, <1>5, <1>6 DEF Inv, Typed, Running

(* The one call that establishes the claim: the key of the run's own        *)
(* certificate is gone, or on record as not to be had.                      *)
LEMMA DestroyKeeps ==
  ASSUME Inv, DestroySigningKey
  PROVE  Inv'
<1>1. /\ Call = "destroyKey" /\ Running /\ Place /\ machine \in Machines /\ KeySafe
      /\ faults \in 0 .. MaxFaults /\ before \in Machines
  BY DEF DestroySigningKey, Inv, Typed, Running
<1>2. (script = "fresh" /\ at = 5) \/ (script = "update" /\ at = 4)
  BY <1>1, CallSites
<1>3. run.cert \in Certs
  BY <1>1, <1>2 DEF Running, RunOK
<1>4. /\ machine' \in Machines /\ before' \in Machines /\ faults' \in 0 .. MaxFaults
      /\ run.cert \in machine'.keys => run.cert \in machine'.stuck
      /\ KeysKept
  <2>1. CASE Set([machine EXCEPT !.keys = @ \ {run.cert}])
    <3>1. machine.keys \ {run.cert} \in SUBSET Certs
      BY <1>1 DEF Machines
    <3>2. machine' \in Machines
      BY <1>1, <2>1, <3>1, MachineEdits DEF Set
    <3>3. /\ machine'.keys = machine.keys \ {run.cert} /\ machine'.stuck = machine.stuck
          /\ machine'.trust = machine.trust
      BY <1>1, <2>1 DEF Set, Machines
    <3>4. QED
      BY <1>1, <2>1, <3>2, <3>3 DEF Set, KeysKept
  <2>2. CASE /\ Fault("destroy") /\ UNCHANGED before
             /\ machine' = [machine EXCEPT !.stuck = @ \cup {run.cert}]
    <3>1. machine.stuck \cup {run.cert} \in SUBSET Certs
      BY <1>1, <1>3 DEF Machines
    <3>2. machine' \in Machines
      BY <1>1, <2>2, <3>1, MachineEdits
    <3>3. /\ machine'.stuck = machine.stuck \cup {run.cert} /\ machine'.keys = machine.keys
          /\ machine'.trust = machine.trust
      BY <1>1, <2>2 DEF Machines
    <3>4. faults' \in 0 .. MaxFaults
      BY <1>1, <2>2, Budget
    <3>5. QED
      BY <1>1, <2>2, <3>2, <3>3, <3>4 DEF KeysKept
  <2>3. QED
    BY <2>1, <2>2 DEF DestroySigningKey
<1>5. Running' /\ Onward
  <2>1. CASE run.signed
    BY <1>1, <1>2, <2>1, Advances DEF DestroySigningKey
  <2>2. CASE ~run.signed
    BY <1>1, <1>2, <2>2, FailsOver DEF DestroySigningKey
  <2>3. QED
    BY <2>1, <2>2
<1>6. KeySafe'
  <2>1. TrustedKeyGone'
    BY <1>1, <1>4, GoneStaysGone DEF KeySafe
  <2>2. Claimed' => run'.cert = run.cert
    BY <1>5 DEF Onward, Claimed
  <2>3. QED
    BY <1>4, <2>1, <2>2 DEF KeySafe
<1>7. QED
  BY <1>4, <1>5, <1>6 DEF Inv, Typed, Running

(* The only call that adds trust finds the claim established.               *)
LEMMA TrustKeeps ==
  ASSUME Inv, TrustCertificate
  PROVE  Inv'
<1>1. Call = "trust" /\ Place /\ machine \in Machines /\ KeySafe
  BY DEF TrustCertificate, Inv, Typed
<1>2. (script = "fresh" /\ at = 7) \/ (script = "update" /\ at = 6)
  BY <1>1, CallSites
<1>3. run.cert \in machine.keys => run.cert \in machine.stuck
  BY <1>1, <1>2 DEF KeySafe, Claimed
<1>4. ASSUME NEW T \in SUBSET TrustStores, Set([machine EXCEPT !.trust[run.cert] = T])
      PROVE  /\ [machine EXCEPT !.trust[run.cert] = T] \in Machines
             /\ machine'.keys = machine.keys /\ machine'.stuck = machine.stuck
             /\ TrustedKeyGone'
  <2>1. [machine EXCEPT !.trust[run.cert] = T] \in Machines
    BY <1>1, TrustEdit
  <2>2. /\ machine'.keys = machine.keys /\ machine'.stuck = machine.stuck
        /\ machine'.trust = [machine.trust EXCEPT ![run.cert] = T]
        /\ machine.trust \in [Certs -> SUBSET TrustStores]
    BY <1>1, <1>4 DEF Set, Machines
  <2>3. \A c \in Certs : machine'.trust[c] # {} => machine.trust[c] # {} \/ c = run.cert
    BY <2>2
  <2>4. TrustedKeyGone'
    BY <1>1, <1>3, <2>2, <2>3 DEF TrustedKeyGone, Trusted, KeySafe
  <2>5. QED
    BY <2>1, <2>2, <2>4
<1>5. CASE /\ Set([machine EXCEPT !.trust[run.cert] = {"Root"}])
           /\ Enter(script, at, run)
  <2> DEFINE m == [machine EXCEPT !.trust[run.cert] = {"Root"}]
  <2>1. {"Root"} \in SUBSET TrustStores
    BY DEF TrustStores
  <2>2. m \in Machines /\ m.keys = machine.keys /\ m.stuck = machine.stuck /\ TrustedKeyGone'
    BY <1>1, <1>4, <1>5, <2>1 DEF Machines
  <2>3. Set(m)
    BY <1>5
  <2> HIDE DEF m
  <2>4. QED
    BY <1>2, <1>5, <2>2, <2>3, Repeats
<1>6. CASE Set([machine EXCEPT !.trust[run.cert] = TrustStores]) /\ Advance
  <2>1. /\ [machine EXCEPT !.trust[run.cert] = TrustStores] \in Machines
        /\ machine'.keys = machine.keys /\ machine'.stuck = machine.stuck
        /\ TrustedKeyGone'
    BY <1>4, <1>6
  <2>2. Running' /\ Onward
    BY <1>1, <1>2, <1>6, Advances DEF Inv, Typed, Running
  <2>3. ~(Claimed')
    BY <1>2, <2>2 DEF Onward, Claimed
  <2>4. QED
    BY <1>6, <2>1, <2>2, <2>3 DEF Set, Inv, Typed, Running, KeySafe
<1>7. CASE Fails("trust") /\ UNCHANGED machine
  BY <1>1, <1>2, <1>7, SameMachine, Stops
<1>8. QED
  BY <1>5, <1>6, <1>7 DEF TrustCertificate

LEMMA UntrustKeeps ==
  ASSUME Inv, RemoveTrustedCertificate
  PROVE  Inv'
<1>1. /\ Call \in {"untrustNew", "retireCert", "untrustCert", "untrustPending",
                   "untrustPrevious"}
      /\ Place /\ machine \in Machines /\ KeySafe
  BY DEF RemoveTrustedCertificate, Untrusted, Inv, Typed
<1>2. script # "idle"
  BY <1>1, CallSites
<1>3. ASSUME NEW c, NEW T \in SUBSET TrustStores, T \subseteq machine.trust[c],
             Set([machine EXCEPT !.trust[c] = T])
      PROVE  /\ [machine EXCEPT !.trust[c] = T] \in Machines /\ KeysKept
             /\ machine'.keys = machine.keys /\ machine'.stuck = machine.stuck
             /\ TrustedKeyGone'
  <2>1. [machine EXCEPT !.trust[c] = T] \in Machines
    BY <1>1, TrustEdit
  <2>2. /\ machine'.keys = machine.keys /\ machine'.stuck = machine.stuck
        /\ machine'.trust = [machine.trust EXCEPT ![c] = T]
        /\ machine.trust \in [Certs -> SUBSET TrustStores]
    BY <1>1, <1>3 DEF Set, Machines
  <2>3. KeysKept
    BY <1>3, <2>2 DEF KeysKept
  <2>4. QED
    BY <1>1, <2>1, <2>2, <2>3, GoneStaysGone DEF KeySafe
<1>4. PICK c : \/ c = None /\ Set(machine) /\ Advance
               \/ /\ c # None /\ "Root" \in machine.trust[c]
                  /\ Set([machine EXCEPT !.trust[c] = @ \ {"Root"}])
                  /\ Enter(script, at, run)
               \/ /\ c # None /\ "Root" \notin machine.trust[c]
                  /\ Set([machine EXCEPT !.trust[c] = {}])
                  /\ Advance
               \/ /\ Fault("untrust") /\ Advance /\ UNCHANGED before
                  /\ \E left \in SUBSET machine.trust[c] \ {{}} :
                        machine' = [machine EXCEPT !.trust[c] = left]
  BY Zenon DEF RemoveTrustedCertificate
<1>5. CASE Set(machine) /\ Advance
  <2>1. KeysKept
    BY <1>5, SameMachine DEF Set
  <2>2. QED
    BY <1>1, <1>2, <1>5, <2>1, Proceeds
<1>6. CASE /\ "Root" \in machine.trust[c]
           /\ Set([machine EXCEPT !.trust[c] = @ \ {"Root"}])
           /\ Enter(script, at, run)
  <2> DEFINE m == [machine EXCEPT !.trust[c] = machine.trust[c] \ {"Root"}]
  <2>1. CASE c \in Certs
    <3>1. /\ machine.trust[c] \ {"Root"} \in SUBSET TrustStores
          /\ machine.trust[c] \ {"Root"} \subseteq machine.trust[c]
      BY <1>1, <2>1 DEF Machines
    <3>2. Set(m)
      BY <1>6
    <3>3. m \in Machines /\ TrustedKeyGone'
      BY <1>3, <3>1, <3>2
    <3>4. m.keys = machine.keys /\ m.stuck = machine.stuck
      BY <1>1 DEF Machines
    <3> HIDE DEF m
    <3>5. QED
      BY <1>2, <1>6, <3>2, <3>3, <3>4, Repeats
  <2>2. CASE c \notin Certs
    <3>1. m = machine
      BY <1>1, <2>2 DEF Machines
    <3>2. Set(machine)
      BY <1>6, <3>1
    <3>3. TrustedKeyGone'
      BY <1>1, <3>2, SameMachine, GoneStaysGone DEF Set, KeySafe
    <3>4. QED
      BY <1>1, <1>2, <1>6, <3>2, <3>3, Repeats
  <2>3. QED
    BY <2>1, <2>2
<1>7. CASE Set([machine EXCEPT !.trust[c] = {}]) /\ Advance
  <2>1. {} \in SUBSET TrustStores /\ {} \subseteq machine.trust[c]
    OBVIOUS
  <2>2. [machine EXCEPT !.trust[c] = {}] \in Machines /\ KeysKept
    BY <1>3, <1>7, <2>1
  <2>3. QED
    BY <1>1, <1>2, <1>7, <2>2, Proceeds
<1>8. CASE /\ Fault("untrust") /\ Advance /\ UNCHANGED before
           /\ \E left \in SUBSET machine.trust[c] \ {{}} :
                 machine' = [machine EXCEPT !.trust[c] = left]
  <2>1. PICK left \in SUBSET machine.trust[c] : machine' = [machine EXCEPT !.trust[c] = left]
    BY <1>8
  <2>2. CASE c \in Certs
    <3>1. left \in SUBSET TrustStores
      BY <1>1, <2>1, <2>2 DEF Machines
    <3>2. machine' \in Machines
      BY <1>1, <2>1, <3>1, TrustEdit
    <3>3. KeysKept
      BY <1>1, <2>1, <2>2 DEF KeysKept, Machines
    <3>4. QED
      BY <1>1, <1>2, <1>8, <3>2, <3>3, Shrugs
  <2>3. CASE c \notin Certs
    <3>1. machine' = machine
      BY <1>1, <2>1, <2>3 DEF Machines
    <3>2. QED
      BY <1>1, <1>2, <1>8, <3>1, SameMachine, Shrugs
  <2>4. QED
    BY <2>2, <2>3
<1>9. QED
  BY <1>4, <1>5, <1>6, <1>7, <1>8

LEMMA StageKeeps ==
  ASSUME Inv, StagePackage
  PROVE  Inv'
<1>1. /\ Call = "stage" /\ Running /\ Place /\ machine \in Machines /\ KeySafe
      /\ run \in Runs /\ RunOK(run) /\ outcome \in Outcomes
  BY DEF StagePackage, Inv, Typed, Running, RunOK
<1>2. (script = "fresh" /\ at = 9) \/ (script = "update" /\ at = 7)
  BY <1>1, CallSites
<1>3. run.version \in Versions /\ run.cert \in Certs
  BY <1>1, <1>2 DEF RunOK, Going
<1>4. ASSUME NEW x, x = (IF machine.staged[run.version] = None THEN run.cert
                                                               ELSE machine.staged[run.version]),
             Set([machine EXCEPT !.staged[run.version] = x]),
             AdvanceWith([run EXCEPT !.published = run.version])
      PROVE  Inv'
  <2> DEFINE r == [run EXCEPT !.published = run.version]
  <2>1. /\ r \in Runs /\ r.version \in Versions /\ r.cert \in Certs /\ r.published \in Versions
        /\ r.cert = run.cert
    BY <1>1, <1>3 DEF Runs
  <2>2. AdvanceWith(r) /\ script # "idle" /\ Call # "choose"
    BY <1>1, <1>2, <1>4
  <2> HIDE DEF r
  <2>3. /\ Place' /\ outcome' \in Outcomes /\ RunOK(run)'
        /\ \/ script' = script /\ at' = at + 1 /\ run' = r
           \/ script' \in {"idle", "same", "promote", "rollback"}
           \/ script' = "fresh" /\ at' = 1
    BY <1>1, <2>1, <2>2, AdvanceFacts
  <2>4. x \in Certs \cup {None}
    BY <1>1, <1>3, <1>4 DEF Machines
  <2>5. machine' \in Machines
    BY <1>1, <1>4, <2>4, StagedEdit DEF Set
  <2>6. KeysKept
    BY <1>1, <1>4 DEF Set, KeysKept, Machines
  <2>7. ~(Claimed')
    BY <1>2, <2>3 DEF Claimed
  <2>8. KeySafe'
    BY <1>1, <2>6, <2>7, NothingClaimed DEF KeySafe
  <2>9. QED
    BY <1>4, <2>3, <2>5, <2>8 DEF Set, Inv, Typed
<1>5. CASE Fails("stage") /\ UNCHANGED machine
  BY <1>1, <1>2, <1>5, SameMachine, Stops
<1>6. QED
  BY <1>4, <1>5 DEF StagePackage

LEMMA UnstageKeeps ==
  ASSUME Inv, UnstagePackage
  PROVE  Inv'
<1>1. /\ Call \in {"retireInf", "dropPackage", "unstageDriver", "unstagePending",
                   "unstagePrevious"}
      /\ Place /\ machine \in Machines /\ KeySafe /\ Running
  BY DEF UnstagePackage, Unstaged, Inv, Typed, Running
<1>2. script # "idle"
  BY <1>1, CallSites
<1>3. PICK v : \/ Set([machine EXCEPT !.staged[v] = None]) /\ Advance
               \/ /\ UNCHANGED faults \/ Fault("unstage")
                  /\ UNCHANGED <<machine, before>>
                  /\ \/ Advance
                     \/ Call = "retireInf" /\ Enter(script, at + 2, run)
  <2>1. PICK v : \/ Set(machine) /\ Advance
                 \/ Set([machine EXCEPT !.staged[v] = None]) /\ Advance
                 \/ /\ UNCHANGED faults \/ Fault("unstage")
                    /\ Set(machine) \/ Refused(Package(v))
                    /\ \/ Advance
                       \/ Call = "retireInf" /\ Enter(script, at + 2, run)
    BY Zenon DEF UnstagePackage
  <2>2. Set(machine) => UNCHANGED <<machine, faults, before>>
    BY DEF Set
  <2>3. Refused(Package(v)) => UNCHANGED <<machine, before>>
    BY DEF Refused
  <2>4. QED
    BY <2>1, <2>2, <2>3
<1>4. CASE (UNCHANGED faults \/ Fault("unstage")) /\ UNCHANGED <<machine, before>> /\ Advance
  <2>1. KeysKept
    BY <1>4, SameMachine
  <2>2. CASE UNCHANGED faults
    <3>1. Set(machine)
      BY <1>4, <2>2 DEF Set
    <3>2. QED
      BY <1>1, <1>2, <1>4, <2>1, <3>1, Proceeds
  <2>3. CASE Fault("unstage")
    BY <1>1, <1>2, <1>4, <2>1, <2>3, Shrugs
  <2>4. QED
    BY <1>4, <2>2, <2>3
<1>5. CASE Set([machine EXCEPT !.staged[v] = None]) /\ Advance
  <2>1. [machine EXCEPT !.staged[v] = None] \in Machines
    BY <1>1, StagedEdit
  <2>2. KeysKept
    BY <1>1, <1>5 DEF Set, KeysKept, Machines
  <2>3. QED
    BY <1>1, <1>2, <1>5, <2>1, <2>2, Proceeds
<1>6. CASE /\ UNCHANGED faults \/ Fault("unstage")
           /\ UNCHANGED <<machine, before>>
           /\ Call = "retireInf" /\ Enter(script, at + 2, run)
  <2>1. (script = "retire" /\ at = 3) \/ (script = "promote" /\ at = 9)
    BY <1>1, <1>6, CallSites
  <2>2. script \in Names /\ at + 2 \in DOMAIN Scripts[script]
    BY <2>1, ScriptNames, ScriptLengths DEF Names
  <2>3. Place'
    BY <1>6, <2>2, EnterPlace
  <2>4. script' = script /\ at' = at + 2 /\ run' = run /\ outcome' = outcome
    BY <1>6 DEF Enter
  <2>5. RunOK(run)'
    BY <1>1, <2>1, <2>4 DEF Running, RunOK
  <2>6. KeySafe'
    BY <1>1, <1>6, <2>1, <2>4, SameMachine, NothingClaimed DEF KeySafe, Claimed
  <2>7. faults \in 0 .. MaxFaults
    BY DEF Inv, Typed
  <2>8. faults' \in 0 .. MaxFaults
    BY <1>6, <2>7, Budget
  <2>9. QED
    BY <1>6, <2>3, <2>4, <2>5, <2>6, <2>8 DEF Inv, Typed
<1>7. QED
  BY <1>3, <1>4, <1>5, <1>6

LEMMA RemoveDevicesKeeps ==
  ASSUME Inv, RemoveDevices
  PROVE  Inv'
<1>1. /\ Call = "removeNode" /\ Running /\ Place /\ machine \in Machines /\ KeySafe
      /\ faults \in 0 .. MaxFaults /\ UNCHANGED before /\ Advance
  BY DEF RemoveDevices, Refused, Inv, Typed, Running
<1>2. script # "idle"
  BY <1>1, CallSites
<1>3. CASE machine' = machine /\ Fault("remove")
  BY <1>1, <1>2, <1>3, SameMachine, Shrugs
<1> SUFFICES ASSUME \E left \in {{}, machine.loaded} :
                       /\ machine' = [machine EXCEPT !.node = None, !.loaded = left]
                       /\ IF left = {} THEN UNCHANGED faults ELSE Fault("unload")
             PROVE  Inv'
  BY <1>3 DEF RemoveDevices, Refused
<1>11. PICK left \in {{}, machine.loaded} :
             /\ machine' = [machine EXCEPT !.node = None, !.loaded = left]
             /\ IF left = {} THEN UNCHANGED faults ELSE Fault("unload")
  OBVIOUS
<1>4. left \in SUBSET Versions
  BY <1>1 DEF Machines
<1>5. machine' \in Machines
  BY <1>1, <1>11, <1>4, MachineEdits
<1>6. KeysKept
  BY <1>1, <1>11 DEF KeysKept, Machines
<1>7. faults' \in 0 .. MaxFaults
  BY <1>1, <1>11, Budget
<1>8. Running' /\ Onward
  BY <1>1, <1>2, Advances
<1>9. KeySafe'
  BY <1>1, <1>2, <1>6, <1>8, ClaimsMoveOn
<1>10. QED
  BY <1>1, <1>5, <1>7, <1>8, <1>9 DEF Inv, Typed, Running

LEMMA RegisterKeeps ==
  ASSUME Inv, RegisterDevice
  PROVE  Inv'
<1>1. Call = "register" /\ Place /\ machine \in Machines
  BY DEF RegisterDevice, Inv, Typed
<1>2. script \in {"fresh", "update", "same", "promote"} /\ script # "idle"
  BY <1>1, CallSites
<1>3. CASE Set([machine EXCEPT !.node = "bare"]) /\ Advance
  <2>1. [machine EXCEPT !.node = "bare"] \in Machines
    BY <1>1, MachineEdits
  <2>2. KeysKept
    BY <1>1, <1>3 DEF Set, KeysKept, Machines
  <2>3. QED
    BY <1>1, <1>2, <1>3, <2>1, <2>2, Proceeds
<1>4. CASE Fails("register") /\ UNCHANGED machine
  BY <1>1, <1>2, <1>4, SameMachine, Stops
<1>5. QED
  BY <1>3, <1>4 DEF RegisterDevice

LEMMA UpdateDeviceKeeps ==
  ASSUME Inv, UpdateDevice
  PROVE  Inv'
<1>1. /\ Call = "bind" /\ Running /\ Place /\ machine \in Machines /\ KeySafe
      /\ faults \in 0 .. MaxFaults /\ RunOK(run) /\ run \in Runs /\ before \in Machines
  BY DEF UpdateDevice, Inv, Typed, Running, RunOK
<1>2. (script = "fresh" /\ at = 11) \/ (script = "update" /\ at = 9)
  BY <1>1, CallSites
<1>3. run.published \in Versions
  BY <1>1, <1>2 DEF RunOK
<1>4. ASSUME NEW b \in BOOLEAN, AdvanceWith([run EXCEPT !.reboot = b])
      PROVE  Running' /\ Onward
  <2> DEFINE r == [run EXCEPT !.reboot = b]
  <2>1. /\ r \in Runs /\ r.version = run.version /\ r.cert = run.cert
        /\ r.published = run.published
    BY <1>1 DEF Runs
  <2>2. AdvanceWith(r) /\ script # "idle"
    BY <1>2, <1>4
  <2> HIDE DEF r
  <2>3. QED
    BY <1>1, <2>1, <2>2, Onwards
<1>5. CASE /\ Set([machine EXCEPT !.node = run.published, !.loaded = {run.published}])
           /\ AdvanceWith([run EXCEPT !.reboot = FALSE])
  <2>1. {run.published} \in SUBSET Versions
    BY <1>3
  <2>2. machine' \in Machines
    BY <1>1, <1>3, <1>5, <2>1, MachineEdits DEF Set
  <2>3. KeysKept
    BY <1>1, <1>5 DEF Set, KeysKept, Machines
  <2>4. Running' /\ Onward
    BY <1>4, <1>5
  <2>5. KeySafe'
    BY <1>1, <1>2, <2>3, <2>4, ClaimsMoveOn
  <2>6. QED
    BY <1>1, <1>5, <2>2, <2>4, <2>5 DEF Set, Inv, Typed, Running
<1>6. CASE /\ Fault("restart")
           /\ machine' = [machine EXCEPT !.node = run.published]
           /\ AdvanceWith([run EXCEPT !.reboot = TRUE])
           /\ UNCHANGED before
  <2>1. machine' \in Machines
    BY <1>1, <1>3, <1>6, MachineEdits
  <2>2. KeysKept
    BY <1>1, <1>6 DEF KeysKept, Machines
  <2>3. Running' /\ Onward
    BY <1>4, <1>6
  <2>4. KeySafe'
    BY <1>1, <1>2, <2>2, <2>3, ClaimsMoveOn
  <2>5. faults' \in 0 .. MaxFaults
    BY <1>1, <1>6, Budget
  <2>6. QED
    BY <1>1, <1>6, <2>1, <2>3, <2>4, <2>5 DEF Inv, Typed, Running
<1>7. CASE Fails("bind") /\ UNCHANGED machine
  BY <1>1, <1>2, <1>7, SameMachine, Stops
<1>8. QED
  BY <1>5, <1>6, <1>7 DEF UpdateDevice

LEMMA CopyKeeps ==
  ASSUME Inv, CopyPayload
  PROVE  Inv'
<1>1. /\ Call = "copy" /\ Running /\ Place /\ machine \in Machines /\ KeySafe
      /\ run \in Runs /\ RunOK(run)
  BY DEF CopyPayload, Inv, Typed, Running, RunOK
<1>2. script \in {"fresh", "update"} /\ script # "idle"
  BY <1>1, CallSites, SameCalls, PromoteCalls
<1>3. CASE Set([machine EXCEPT !.files = run.version]) /\ Advance
  <2>1. run.version \in Versions
    BY <1>1, <1>2 DEF RunOK, Going
  <2>2. [machine EXCEPT !.files = run.version] \in Machines
    BY <1>1, <2>1, MachineEdits
  <2>3. KeysKept
    BY <1>1, <1>3 DEF Set, KeysKept, Machines
  <2>4. QED
    BY <1>1, <1>2, <1>3, <2>2, <2>3, Proceeds
<1>4. CASE Set(machine) /\ Fail
  <2>1. Running' /\ Onward
    BY <1>1, <1>2, <1>4, FailsOver
  <2>2. KeySafe'
    BY <1>1, <1>2, <1>4, <2>1, SameMachine, ClaimsMoveOn DEF Set
  <2>3. QED
    BY <1>4, <2>1, <2>2 DEF Set, Inv, Typed, Running
<1>5. ASSUME NEW f \in {machine.files, "mixed"}, Fails("copy"),
             machine' = [machine EXCEPT !.files = f]
      PROVE  Inv'
  <2>1. f \in Versions \cup {None, "mixed"}
    BY <1>1 DEF Machines
  <2>2. machine' \in Machines
    BY <1>1, <1>5, <2>1, MachineEdits
  <2>3. KeysKept
    BY <1>1, <1>5 DEF KeysKept, Machines
  <2>4. QED
    BY <1>1, <1>2, <1>5, <2>2, <2>3, Stops
<1>6. QED
  BY <1>3, <1>4, <1>5 DEF CopyPayload

LEMMA RemoveDirKeeps ==
  ASSUME Inv, RemoveInstallDir
  PROVE  Inv'
<1>1. Call = "removeFiles" /\ Place /\ machine \in Machines /\ Advance
  BY DEF RemoveInstallDir, Inv, Typed
<1>2. script # "idle"
  BY <1>1, CallSites
<1>3. PICK m \in {machine, [machine EXCEPT !.files = None]} : Set(m)
  BY DEF RemoveInstallDir
<1>4. m \in Machines
  BY <1>1, MachineEdits
<1>5. KeysKept
  BY <1>1, <1>3 DEF Set, KeysKept, Machines
<1>6. QED
  BY <1>1, <1>2, <1>3, <1>4, <1>5, Proceeds

LEMMA ChooseKeeps ==
  ASSUME Inv, ChooseInstallMode
  PROVE  Inv'
<1>1. /\ Call = "choose" /\ Running /\ Place /\ machine \in Machines /\ TrustedKeyGone
      /\ outcome \in Outcomes /\ RunOK(run) /\ run \in Runs
      /\ Enter(InstallMode, 1, run) /\ before' = machine /\ UNCHANGED <<machine, faults>>
  BY DEF ChooseInstallMode, Inv, Typed, Running, RunOK, KeySafe
<1>2. script \in {"retire", "choose"}
  BY <1>1, CallSites
<1>3. run.version \in Versions
  BY <1>1, <1>2 DEF RunOK, Going
<1>4. InstallMode \in {"fresh", "reinstall", "update"} /\ InstallMode \in Names
  BY DEF InstallMode, Names
<1>5. Place'
  BY <1>1, <1>4, Firsts, EnterPlace
<1>6. script' \in {"fresh", "reinstall", "update"} /\ at' = 1 /\ run' = run
      /\ outcome' = outcome
  BY <1>1, <1>4 DEF Enter
<1>7. RunOK(run)'
  BY <1>1, <1>3, <1>6 DEF RunOK
<1>8. KeySafe'
  BY <1>1, <1>6, SameMachine, NothingClaimed DEF Claimed
<1>9. QED
  BY <1>1, <1>5, <1>6, <1>7, <1>8 DEF Inv, Typed

-----------------------------------------------------------------------------
(* What begins, ends and outlives a run. *)

LEMMA InstallBegins ==
  ASSUME Inv, NEW v \in Versions, RunInstall(v)
  PROVE  Inv'
<1>1. /\ TrustedKeyGone /\ outcome \in Outcomes
      /\ before' = CleanMachine /\ UNCHANGED <<machine, faults>>
  BY DEF RunInstall, Inv, Typed, KeySafe
<1>2. PICK s \in {"retire", "choose"}, payload \in {"release", "dir"} :
             Enter(s, 1, NewRun(v, payload))
  BY DEF RunInstall
<1>3. s \in Names
  BY DEF Names
<1>4. Place'
  BY <1>2, <1>3, Firsts, EnterPlace
<1>5. script' = s /\ at' = 1 /\ run' = NewRun(v, payload) /\ outcome' = outcome
  BY <1>2 DEF Enter
<1>6. NewRun(v, payload) \in Runs /\ NewRun(v, payload).version = v
  BY DEF NewRun, Runs
<1>7. RunOK(run)'
  BY <1>5, <1>6 DEF RunOK
<1>8. KeySafe'
  BY <1>1, <1>5, SameMachine, NothingClaimed DEF Claimed
<1>9. QED
  BY <1>1, <1>4, <1>5, <1>7, <1>8, CleanTyped DEF Inv, Typed

LEMMA UninstallBegins ==
  ASSUME Inv, RunUninstall
  PROVE  Inv'
<1>1. /\ TrustedKeyGone /\ outcome \in Outcomes /\ Enter("uninstall", 1, NoRun)
      /\ before' = CleanMachine /\ UNCHANGED <<machine, faults>>
  BY DEF RunUninstall, Inv, Typed, KeySafe
<1>2. "uninstall" \in Names
  BY DEF Names
<1>3. Place'
  BY <1>1, <1>2, Firsts, EnterPlace
<1>4. script' = "uninstall" /\ at' = 1 /\ run' = NoRun /\ outcome' = outcome
  BY <1>1 DEF Enter
<1>5. NoRun \in Runs
  BY DEF NoRun, NewRun, Runs
<1>6. RunOK(run)'
  BY <1>4, <1>5 DEF RunOK, Going
<1>7. KeySafe'
  BY <1>1, <1>4, SameMachine, NothingClaimed DEF Claimed
<1>8. QED
  BY <1>1, <1>3, <1>4, <1>6, <1>7, CleanTyped DEF Inv, Typed

LEMMA CrashKeeps ==
  ASSUME Inv, Crash
  PROVE  Inv'
<1>1. /\ TrustedKeyGone /\ EndRun("crashed") /\ UNCHANGED <<machine, before>>
      /\ faults \in 0 .. MaxFaults /\ faults < MaxFaults /\ faults' = faults + 1
  BY DEF Crash, Inv, Typed, KeySafe
<1>2. "crashed" \in Outcomes
  BY DEF Outcomes
<1>3. Place' /\ outcome' \in Outcomes /\ RunOK(run)' /\ script' = "idle"
  BY <1>1, <1>2, EndPlace
<1>4. KeySafe'
  BY <1>1, <1>3, SameMachine, NothingClaimed DEF Claimed
<1>5. faults' \in 0 .. MaxFaults
  BY <1>1, FlowAssumption
<1>6. QED
  BY <1>1, <1>3, <1>4, <1>5 DEF Inv, Typed

LEMMA RestartKeeps ==
  ASSUME Inv, Restart
  PROVE  Inv'
<1>1. /\ machine \in Machines /\ KeySafe /\ script = "idle"
      /\ UNCHANGED <<script, at, run, outcome, faults, before>>
  BY DEF Restart, Set, Inv, Typed
<1>2. PICK L \in SUBSET Versions : machine' = [machine EXCEPT !.loaded = L]
  BY DEF Restart, Set
<1>3. machine' \in Machines
  BY <1>1, <1>2, MachineEdits
<1>4. KeysKept
  BY <1>1, <1>2 DEF KeysKept, Machines
<1>5. KeySafe'
  BY <1>1, <1>4, NothingClaimed DEF KeySafe, Claimed
<1>6. Place' /\ outcome' \in Outcomes /\ RunOK(run)'
  BY <1>1 DEF Inv, Typed, Place, RunOK
<1>7. QED
  BY <1>1, <1>3, <1>5, <1>6 DEF Inv, Typed

-----------------------------------------------------------------------------
LEMMA InvBegins == Init => Inv
<1> SUFFICES ASSUME Init PROVE Inv
  OBVIOUS
<1>1. /\ machine = CleanMachine /\ before = CleanMachine /\ script = "idle" /\ at = 1
      /\ run = NoRun /\ outcome = "none" /\ faults = 0
  BY DEF Init
<1>2. faults \in 0 .. MaxFaults
  BY <1>1, FlowAssumption
<1>3. Place /\ outcome \in Outcomes
  BY <1>1 DEF Place, Outcomes
<1>4. NoRun \in Runs
  BY DEF NoRun, NewRun, Runs
<1>5. RunOK(run)
  BY <1>1, <1>4 DEF RunOK, Going
<1>6. machine.keys = {}
  BY <1>1 DEF CleanMachine
<1>7. KeySafe
  BY <1>1, <1>6 DEF KeySafe, Claimed, TrustedKeyGone
<1>8. QED
  BY <1>1, <1>2, <1>3, <1>5, <1>7, CleanTyped DEF Inv, Typed

LEMMA StutterKeeps ==
  ASSUME Inv, UNCHANGED vars
  PROVE  Inv'
<1>1. /\ UNCHANGED <<machine, script, at, run, outcome, faults, before>>
      /\ Typed /\ KeySafe
  BY DEF vars, Inv
<1>2. Typed'
  BY <1>1 DEF Typed, Place, RunOK
<1>3. KeySafe'
  BY <1>1 DEF KeySafe, Claimed, TrustedKeyGone, Trusted
<1>4. QED
  BY <1>2, <1>3 DEF Inv

LEMMA InvSteps == Inv /\ [Next]_vars => Inv'
<1> SUFFICES ASSUME Inv, [Next]_vars PROVE Inv'
  OBVIOUS
<1>1. ASSUME NEW v \in Versions, RunInstall(v) PROVE Inv'
  BY <1>1, InstallBegins
<1>2. CASE RunUninstall \/ ChooseInstallMode \/ Crash \/ Restart
  BY <1>2, UninstallBegins, ChooseKeeps, CrashKeeps, RestartKeeps
<1>3. CASE WriteValue \/ DeleteValue \/ DeleteState
  BY <1>3, WriteKeeps, DeleteKeeps, DeleteStateKeeps
<1>4. CASE \/ CreateSigningCert \/ SignFiles \/ DestroySigningKey
           \/ TrustCertificate \/ RemoveTrustedCertificate
  BY <1>4, CreateKeeps, SignKeeps, DestroyKeeps, TrustKeeps, UntrustKeeps
<1>5. CASE \/ StagePackage \/ UnstagePackage \/ RemoveDevices \/ RegisterDevice
           \/ UpdateDevice \/ CopyPayload \/ RemoveInstallDir
  BY <1>5, StageKeeps, UnstageKeeps, RemoveDevicesKeeps, RegisterKeeps, UpdateDeviceKeeps,
     CopyKeeps, RemoveDirKeeps
<1>6. CASE UNCHANGED vars
  BY <1>6, StutterKeeps
<1>7. QED
  BY <1>1, <1>2, <1>3, <1>4, <1>5, <1>6 DEF Next

LEMMA FlowInvariant == Spec => []Inv
  BY InvBegins, InvSteps, PTL DEF Spec

-----------------------------------------------------------------------------
(* What a removal may be refused stays one of four kinds of thing. *)

RefusedTyped ==
    refused \subseteq {TheNode, TheRecord} \cup {Package(v) : v \in Versions}
                     \cup {Cert(c) : c \in Certs}

\* A removal named by the record or the run names a certificate or a package.
LEMMA RemovalsNamed ==
  ASSUME Inv
  PROVE  /\ Call \in DOMAIN Untrusted => Untrusted[Call] \in Certs \cup {None}
         /\ Call \in DOMAIN Unstaged => Unstaged[Call] \in Versions \cup {None}
<1>1. machine \in Machines /\ run \in Runs
  BY DEF Inv, Typed, RunOK
<1>2. /\ \A n \in CertValues : Holds(n) = Certs /\ n \in Values
      /\ \A n \in InfValues : Holds(n) = Versions /\ n \in Values
  BY DEF Holds, Values, CertValues, InfValues
<1>3. /\ \A n \in CertValues : reg[n] \in Certs \cup {None}
      /\ \A n \in InfValues : reg[n] \in Versions \cup {None}
  BY <1>1, <1>2 DEF reg, Machines
<1>4. run.cert \in Certs \cup {None} /\ run.published \in Versions \cup {None}
  BY <1>1 DEF Runs
<1>5. Call \in DOMAIN Untrusted => Untrusted[Call] \in Certs \cup {None}
  BY <1>3, <1>4 DEF Untrusted, CertValues
<1>6. Call \in DOMAIN Unstaged => Unstaged[Call] \in Versions \cup {None}
  BY <1>3, <1>4 DEF Unstaged, InfValues
<1>7. QED
  BY <1>5, <1>6

LEMMA RefusedSteps == Inv /\ RefusedTyped /\ [Next]_vars => RefusedTyped'
<1> SUFFICES ASSUME Inv, RefusedTyped, [Next]_vars PROVE RefusedTyped'
  OBVIOUS
<1>1. CASE \/ UNCHANGED refused
           \/ \E x : Gone(x)
           \/ \E x \in {TheNode, TheRecord} \cup {Package(v) : v \in Versions}
                        \cup {Cert(c) : c \in Certs} : refused' = refused \cup {x}
  BY <1>1 DEF RefusedTyped, Gone, TheNode, TheRecord, Package, Cert
<1>2. CASE DeleteValue \/ DeleteState \/ RemoveDevices
  BY <1>1, <1>2 DEF DeleteValue, DeleteState, RemoveDevices, Refused
<1>3. CASE RemoveTrustedCertificate
  <2>1. PICK c : /\ c = Untrusted[Call] /\ Call \in DOMAIN Untrusted
                 /\ \/ UNCHANGED refused
                    \/ Gone(Cert(c))
                    \/ c # None /\ refused' = refused \cup {Cert(c)}
    BY <1>3, Zenon DEF RemoveTrustedCertificate
  <2>2. c # None => c \in Certs
    BY <2>1, RemovalsNamed
  <2>3. QED
    BY <1>1, <2>1, <2>2
<1>4. CASE UnstagePackage
  <2>1. PICK v : /\ v = Unstaged[Call] /\ Call \in DOMAIN Unstaged
                 /\ \/ UNCHANGED refused
                    \/ Gone(Package(v))
                    \/ v # None /\ Refused(Package(v))
    BY <1>4, Zenon DEF UnstagePackage
  <2>2. v # None => v \in Versions
    BY <2>1, RemovalsNamed
  <2>3. QED
    BY <1>1, <2>1, <2>2 DEF Refused
<1>5. CASE \/ WriteValue \/ CreateSigningCert \/ SignFiles \/ DestroySigningKey
           \/ TrustCertificate \/ StagePackage \/ RegisterDevice \/ UpdateDevice
           \/ CopyPayload \/ RemoveInstallDir
  BY <1>1, <1>5 DEF WriteValue, CreateSigningCert, SignFiles, DestroySigningKey,
     TrustCertificate, StagePackage, RegisterDevice, UpdateDevice, CopyPayload,
     RemoveInstallDir
<1>6. CASE \/ \E v \in Versions : RunInstall(v)
           \/ RunUninstall \/ ChooseInstallMode \/ Crash \/ Restart \/ UNCHANGED vars
  BY <1>1, <1>6 DEF RunInstall, RunUninstall, ChooseInstallMode, Crash, Restart, vars
<1>7. QED
  BY <1>2, <1>3, <1>4, <1>5, <1>6 DEF Next

LEMMA RefusedKnown == Spec => []RefusedTyped
<1>1. Init => RefusedTyped
  BY DEF Init, RefusedTyped
<1>2. QED
  BY <1>1, FlowInvariant, RefusedSteps, PTL DEF Spec

(* Every variable keeps the type of the code's field or local: no call ever *)
(* reads the name of a package or of a certificate before the call that      *)
(* finds it (RunInstall and RunUpdate, install_flow.cpp:66-184).             *)
THEOREM FlowTypeCorrect == Spec => []TypeOK
<1>1. Inv /\ RefusedTyped => TypeOK
  BY ScriptNames DEF Inv, Typed, Place, RunOK, Outcomes, RefusedTyped, TypeOK
<1>2. QED
  BY <1>1, FlowInvariant, RefusedKnown, PTL

(* Whatever fails and wherever a run stops, no certificate is trusted while  *)
(* its private key exists, unless Windows refused to delete the key          *)
(* (install_flow.cpp:73-84 and 160-168, cert_sign.cpp:234).                  *)
THEOREM KeyGone == Spec => []TrustedKeyGone
<1>1. Inv => TrustedKeyGone
  BY DEF Inv, KeySafe
<1>2. QED
  BY <1>1, FlowInvariant, PTL

-----------------------------------------------------------------------------
(* The node: only the paths below take it away, and none of them is chosen  *)
(* on a machine whose install is regular.                                   *)

Rebuilding == {"fresh", "unwind", "rollback", "reinstall"}

\* What the run knows of the machine it set out to change.
ModeOK == script \in Rebuilding => ~Regular(before)

\* A path that rebuilds is entered from one that does, or chosen.
LEMMA RebuildsOnlyByChoice ==
  ASSUME Place, Next, ~ChooseInstallMode
  PROVE  script' \in Rebuilding => before' = before /\ script \in Rebuilding
<1>1. ASSUME script # "idle", Call # "choose", NEW r, AdvanceWith(r)
      PROVE  script' \in Rebuilding => script \in Rebuilding
  <2>1. script \in Names /\ at \in 1 .. Len(Scripts[script])
    BY <1>1, ScriptNamed, Lengths DEF Place
  <2>2. CASE at < Len(Scripts[script])
    BY <2>2, <1>1 DEF AdvanceWith, Enter
  <2>3. CASE ~(at < Len(Scripts[script]))
    <3>1. Finish(r) /\ at = Len(Scripts[script])
      BY <1>1, <2>1, <2>3 DEF AdvanceWith
    <3>2. script \notin {"retire", "choose"}
      BY <1>1, <3>1, CallSites, ScriptNames, ScriptLengths
    <3>3. QED
      BY <2>1, <3>1, <3>2 DEF Finish, EndRun, Enter, Names, Rebuilding
  <2>4. QED
    BY <2>2, <2>3
<1>2. ASSUME script \in {"fresh", "update", "same", "promote"}, Fail
      PROVE  script' \in Rebuilding => script \in Rebuilding
  BY <1>2 DEF Fail, EndRun, Enter, Rebuilding
<1>3. CASE \E v \in Versions : RunInstall(v)
  BY <1>3 DEF RunInstall, Enter, Rebuilding
<1>4. CASE RunUninstall \/ Crash \/ Restart
  BY <1>4 DEF RunUninstall, Crash, Restart, Set, EndRun, Enter, Rebuilding
<1>5. CASE WriteValue \/ DeleteValue \/ DeleteState
  <2>1. Call # "choose" /\ script # "idle" /\ before' = before
    BY <1>5, CallSites DEF WriteValue, DeleteValue, DeleteState, Written, Forgotten, Set,
       Refused, Fails
  <2>2. CASE Advance
    BY <1>1, <2>1, <2>2 DEF Advance
  <2>3. CASE WriteValue /\ Fail
    BY <1>2, <2>1, <2>3, CallSites DEF WriteValue, Written
  <2>4. QED
    BY <1>5, <2>1, <2>2, <2>3 DEF WriteValue, DeleteValue, DeleteState, Fails
<1>6. CASE CreateSigningCert \/ SignFiles \/ DestroySigningKey \/ TrustCertificate
  <2>1. /\ Call \in {"key", "sign", "destroyKey", "trust"} /\ script \in {"fresh", "update"}
        /\ before' = before
    BY <1>6, CallSites DEF CreateSigningCert, SignFiles, DestroySigningKey, TrustCertificate,
       Set, Fails
  <2>2. ASSUME NEW r, AdvanceWith(r) PROVE script' \in Rebuilding => script \in Rebuilding
    BY <1>1, <2>1, <2>2
  <2>3. CASE Fail
    BY <1>2, <2>1, <2>3
  <2>4. CASE Enter(script, at, run)
    BY <2>1, <2>4 DEF Enter
  <2>5. QED
    BY <1>6, <2>1, <2>2, <2>3, <2>4 DEF CreateSigningCert, SignFiles, DestroySigningKey,
       TrustCertificate, Advance, Fails
<1>7. CASE RemoveTrustedCertificate \/ UnstagePackage
  <2>1. Call # "choose" /\ script # "idle"
    BY <1>7, CallSites DEF RemoveTrustedCertificate, UnstagePackage, Untrusted, Unstaged
  <2>2. before' = before /\ (Advance \/ \E i : Enter(script, i, run))
    BY <1>7, Zenon DEF RemoveTrustedCertificate, UnstagePackage, Set, Refused
  <2>3. QED
    BY <1>1, <2>1, <2>2 DEF Advance, Enter
<1>8. CASE StagePackage \/ RegisterDevice \/ UpdateDevice \/ CopyPayload
  <2>1. /\ Call # "choose" /\ script \in {"fresh", "update", "same", "promote"}
        /\ before' = before
    BY <1>8, CallSites DEF StagePackage, RegisterDevice, UpdateDevice, CopyPayload, Set, Fails
  <2>2. ASSUME NEW r, AdvanceWith(r) PROVE script' \in Rebuilding => script \in Rebuilding
    BY <1>1, <2>1, <2>2
  <2>3. CASE Fail
    BY <1>2, <2>1, <2>3
  <2>4. QED
    BY <1>8, <2>1, <2>2, <2>3 DEF StagePackage, RegisterDevice, UpdateDevice, CopyPayload,
       Advance, Fails
<1>9. CASE RemoveDevices \/ RemoveInstallDir
  <2>1. Call # "choose" /\ script # "idle" /\ before' = before /\ Advance
    BY <1>9, CallSites DEF RemoveDevices, RemoveInstallDir, Set, Refused
  <2>2. QED
    BY <1>1, <2>1 DEF Advance
<1>10. QED
  BY <1>3, <1>4, <1>5, <1>6, <1>7, <1>8, <1>9 DEF Next

LEMMA ModeChosen ==
  ASSUME Typed, ChooseInstallMode
  PROVE  ModeOK'
<1>1. /\ machine \in Machines /\ before' = machine
      /\ script' = InstallMode
  BY DEF Typed, ChooseInstallMode, Enter
<1>2. CASE ~Recorded
  <2>1. "Version" \in Values \ (Pending \cup Previous) /\ machine.reg["Version"] = None
    BY <1>2 DEF Recorded, reg, Values, Pending, Previous, CertValues, InfValues
  <2>2. QED
    BY <1>1, <2>1 DEF ModeOK, Regular
<1>3. CASE Recorded
  <2>1. ASSUME script' \in Rebuilding
        PROVE  \/ \E n \in {"Version", "CertThumbprint", "DriverInf"} : reg[n] = None
               \/ \E n \in {"PendingCertThumbprint", "PendingDriverInf",
                            "PreviousCertThumbprint", "PreviousDriverInf"} : reg[n] # None
               \/ machine.node = None
    BY <1>1, <1>3, <2>1 DEF InstallMode, Rebuilding
  <2>2. {"Version", "CertThumbprint", "DriverInf"} \subseteq Values \ (Pending \cup Previous)
    BY DEF Values, Pending, Previous, CertValues, InfValues
  <2>3. {"PendingCertThumbprint", "PendingDriverInf", "PreviousCertThumbprint",
         "PreviousDriverInf"} = Pending \cup Previous
    BY DEF Pending, Previous
  <2>4. ASSUME script' \in Rebuilding PROVE ~Regular(machine)
    BY <2>1, <2>2, <2>3, <2>4, FlowAssumption DEF Regular, reg
  <2>5. QED
    BY <1>1, <2>4 DEF ModeOK
<1>4. QED
  BY <1>2, <1>3

LEMMA ModeSteps == Inv /\ ModeOK /\ [Next]_vars => ModeOK'
<1> SUFFICES ASSUME Inv, ModeOK, [Next]_vars PROVE ModeOK'
  OBVIOUS
<1>1. CASE ChooseInstallMode
  BY <1>1, ModeChosen DEF Inv
<1>2. CASE Next /\ ~ChooseInstallMode
  <2>1. script' \in Rebuilding => before' = before /\ script \in Rebuilding
    BY <1>2, RebuildsOnlyByChoice DEF Inv, Typed
  <2>2. QED
    BY <2>1 DEF ModeOK, Regular
<1>3. CASE UNCHANGED vars
  BY <1>3 DEF vars, ModeOK, Regular
<1>4. QED
  BY <1>1, <1>2, <1>3

\* Only the call that removes the node removes it, and the paths that make it
\* rebuild or uninstall.
LEMMA NodeSites ==
  ASSUME Inv, Next, machine.node # None, machine'.node = None
  PROVE  script \in Rebuilding \/ script = "uninstall"
<1>1. machine \in Machines /\ Place /\ Running
  BY DEF Inv, Typed, Running
<1>2. CASE RemoveDevices
  <2>1. Call = "removeNode"
    BY <1>2 DEF RemoveDevices
  <2>2. script \in Names
    BY <1>1, <2>1, CallSites, ScriptNamed
  <2>3. script \notin {"retire", "choose", "update", "same", "promote"}
    BY <1>1, <2>1, RetireCalls, ChooseCalls, UpdateCalls, SameCalls, PromoteCalls
  <2>4. script # "failUpdate"
    <3>1. ASSUME script = "failUpdate" PROVE Call = FailUpdateScript[at] /\ at \in 1 .. 4
      BY <1>1, <3>1, ScriptNames, ScriptLengths DEF Place, Call
    <3>2. QED
      BY <2>1, <3>1 DEF FailUpdateScript
  <2>5. QED
    BY <2>2, <2>3, <2>4 DEF Names, Rebuilding
<1>3. CASE RegisterDevice
  <2>1. machine' = [machine EXCEPT !.node = "bare"] \/ machine' = machine
    BY <1>3 DEF RegisterDevice, Set
  <2>2. machine'.node = "bare" \/ machine'.node = machine.node
    BY <1>1, <2>1 DEF Machines
  <2>3. QED
    BY <2>2, FlowAssumption
<1>4. CASE UpdateDevice
  <2>1. (script = "fresh" /\ at = 11) \/ (script = "update" /\ at = 9)
    BY <1>1, <1>4, CallSites DEF UpdateDevice
  <2>2. run.published \in Versions
    BY <1>1, <2>1 DEF Running, RunOK
  <2>3. \/ machine' = [machine EXCEPT !.node = run.published, !.loaded = {run.published}]
        \/ machine' = [machine EXCEPT !.node = run.published]
        \/ machine' = machine
    BY <1>4 DEF UpdateDevice, Set
  <2>4. machine'.node = run.published \/ machine'.node = machine.node
    BY <1>1, <2>3 DEF Machines
  <2>5. QED
    BY <2>2, <2>4, FlowAssumption
<1>5. CASE WriteValue \/ DeleteValue \/ DeleteState
  BY <1>1, <1>5 DEF WriteValue, DeleteValue, DeleteState, Refused, Set, Machines
<1>6. CASE \/ CreateSigningCert \/ SignFiles \/ DestroySigningKey \/ TrustCertificate
           \/ RemoveTrustedCertificate
  <2>1. machine'.node = machine.node
    <3>1. CASE CreateSigningCert \/ SignFiles \/ DestroySigningKey
      BY <1>1, <3>1 DEF CreateSigningCert, SignFiles, DestroySigningKey, Set, Machines
    <3>2. CASE TrustCertificate
      BY <1>1, <3>2 DEF TrustCertificate, Set, Machines
    <3>3. CASE RemoveTrustedCertificate
      <4>1. machine' = machine \/ \E c, T : machine' = [machine EXCEPT !.trust[c] = T]
        BY <3>3, Zenon DEF RemoveTrustedCertificate, Set
      <4>2. QED
        BY <1>1, <4>1 DEF Machines
    <3>4. QED
      BY <1>6, <3>1, <3>2, <3>3
  <2>2. QED
    BY <2>1
<1>7. CASE StagePackage \/ UnstagePackage
  <2>1. machine' = machine \/ \E v, c : machine' = [machine EXCEPT !.staged[v] = c]
    BY <1>7, Zenon DEF StagePackage, UnstagePackage, Refused, Set
  <2>2. QED
    BY <1>1, <2>1 DEF Machines
<1>8. CASE CopyPayload \/ RemoveInstallDir
  BY <1>1, <1>8 DEF CopyPayload, RemoveInstallDir, Set, Machines
<1>9. CASE Restart
  BY <1>1, <1>9 DEF Restart, Set, Machines
<1>10. CASE \/ \E v \in Versions : RunInstall(v)
            \/ RunUninstall \/ ChooseInstallMode \/ Crash
  BY <1>10 DEF RunInstall, RunUninstall, ChooseInstallMode, Crash
<1>11. QED
  BY <1>2, <1>3, <1>4, <1>5, <1>6, <1>7, <1>8, <1>9, <1>10 DEF Next

(* An install on a machine whose record is complete, with nothing pending or *)
(* left over, never takes the device node away, succeed or fail: neither the *)
(* update nor what undoes it calls RemoveDevices, and the paths that do are   *)
(* not chosen (install_mode.h:15-17, install_flow.cpp:64-65).                *)
THEOREM RegularKeepsNode == Spec => NodeKept
<1>1. Init => ModeOK
  BY DEF Init, ModeOK, Rebuilding
<1>2. Spec => []ModeOK
  BY <1>1, FlowInvariant, ModeSteps, PTL DEF Spec
<1>3. Inv /\ ModeOK /\ [Next]_vars =>
        [machine.node # None /\ machine'.node = None =>
            script = "uninstall" \/ ~Regular(before)]_vars
  BY NodeSites DEF ModeOK, vars
<1>4. QED
  BY <1>2, <1>3, FlowInvariant, PTL DEF Spec, NodeKept

-----------------------------------------------------------------------------
(* The record: how its three certificates stand to what the machine trusts, *)
(* at each place of each list.                                              *)

Current == reg["CertThumbprint"]
PendingCert == reg["PendingCertThumbprint"]
PreviousCert == reg["PreviousCertThumbprint"]

Undoing == {"rollback", "reinstall", "uninstall"}

\* The certificates the machine trusts and was not refused to remove.
Held == {c \in Trusted : Cert(c) \notin refused}

\* The step gives up no certificate it could not remove.
CertsKept == \A c : Cert(c) \in refused => Cert(c) \in refused'

RecordFits ==
    /\ script = "fresh" => /\ at <= 6 => {Current, PendingCert, PreviousCert} \cap Held = {}
                           /\ at > 6 => Current = run.cert
                           /\ \/ "forget" \in Fallible
                              \/ /\ PendingCert = None /\ PreviousCert = None
                                 /\ at <= 6 => Current = None
    /\ script = "update" => /\ PreviousCert = None
                            /\ PendingCert = IF at <= 5 THEN None ELSE run.cert
    /\ script = "same" => /\ at <= 2 => PendingCert = run.cert
                          /\ at = 2 => run.cert \notin Held
    /\ script = "failUpdate" => /\ PendingCert \in {None, run.cert}
                                /\ at > 2 => run.cert \notin Held
    /\ script = "promote" => /\ at = 1 => PreviousCert = None
                             /\ at \in {2, 3} => PreviousCert = Current
                             /\ at \in {4, 5} => Current = run.cert
                             /\ at <= 5 => PendingCert = run.cert
                             /\ at = 8 => PreviousCert \notin Held
    /\ script = "retire" => (at = 2 => PreviousCert \notin Held)
    /\ script \in Undoing => /\ at > 5 => Current \notin Held
                             /\ at > 6 => PendingCert \notin Held
                             /\ at > 7 => PreviousCert \notin Held

Recording == TrustRecorded /\ RecordFits

\* Where each list makes the calls that change a certificate of the record or
\* its trust.
LEMMA RecordSites ==
  ASSUME Place
  PROVE  /\ script = "same" => /\ Call = "untrustNew" <=> at = 1
                               /\ Call = "forgetPendingCert" <=> at = 2
         /\ script = "promote" => /\ Call = "recordPreviousCert" <=> at = 1
                                  /\ Call = "promoteCert" <=> at = 3
                                  /\ Call = "forgetPendingCert" <=> at = 5
                                  /\ Call = "retireCert" <=> at = 7
                                  /\ Call = "forgetPreviousCert" <=> at = 8
         /\ script = "retire" => /\ Call = "retireCert" <=> at = 1
                                 /\ Call = "forgetPreviousCert" <=> at = 2
         /\ script = "failUpdate" => /\ Call = "untrustNew" <=> at = 2
                                     /\ Call = "forgetPendingCert" <=> at = 4
         /\ script \in Undoing => /\ Call = "untrustCert" <=> at = 5
                                  /\ Call = "untrustPending" <=> at = 6
                                  /\ Call = "untrustPrevious" <=> at = 7
                                  /\ Call = "deleteState" <=> at = 9
         /\ script \in Undoing \cup {"unwind"} => Call \notin {"forgetPendingCert", "untrustNew"}
         /\ script \notin Undoing => Call \notin {"untrustCert", "untrustPending",
                                              "untrustPrevious", "deleteState"}
<1>1. CASE script = "same"
  <2>1. at \in 1 .. 4 /\ Call = SameScript[at]
    BY <1>1, ScriptNames, ScriptLengths DEF Place, Call
  <2>2. QED
    BY <1>1, <2>1 DEF SameScript, Undoing
<1>2. CASE script = "promote"
  <2>1. at \in 1 .. 11 /\ Call = PromoteScript[at]
    BY <1>2, ScriptNames, ScriptLengths DEF Place, Call
  <2>2. QED
    BY <1>2, <2>1 DEF PromoteScript, Undoing
<1>3. CASE script = "retire"
  <2>1. at \in 1 .. 5 /\ Call = RetireScript[at]
    BY <1>3, ScriptNames, ScriptLengths DEF Place, Call
  <2>2. QED
    BY <1>3, <2>1 DEF RetireScript, Undoing
<1>4. CASE script = "failUpdate"
  <2>1. at \in 1 .. 4 /\ Call = FailUpdateScript[at]
    BY <1>4, ScriptNames, ScriptLengths DEF Place, Call
  <2>2. QED
    BY <1>4, <2>1 DEF FailUpdateScript, Undoing
<1>5. CASE script \in Undoing
  <2>1. at \in 1 .. 9 /\ Call = UninstallScript[at]
    BY <1>5, ScriptNames, ScriptLengths DEF Place, Call, Undoing
  <2>2. /\ Call = "untrustCert" <=> at = 5
        /\ Call = "untrustPending" <=> at = 6
        /\ Call = "untrustPrevious" <=> at = 7
        /\ Call = "deleteState" <=> at = 9
        /\ Call \notin {"forgetPendingCert", "untrustNew"}
    BY <2>1 DEF UninstallScript
  <2>3. QED
    BY <1>5, <2>2 DEF Undoing
<1>6. CASE script = "unwind"
  <2>1. at \in 1 .. 2 /\ Call = UnwindScript[at]
    BY <1>6, ScriptNames, ScriptLengths DEF Place, Call
  <2>2. QED
    BY <1>6, <2>1 DEF UnwindScript, Undoing
<1>7. CASE script \in {"fresh", "update", "choose", "idle"}
  <2>1. Call \notin {"untrustCert", "untrustPending", "untrustPrevious", "deleteState"}
    BY <1>7, FreshCalls, UpdateCalls, ChooseCalls, CallSites
  <2>2. QED
    BY <1>7, <2>1 DEF Undoing
<1>8. QED
  BY <1>1, <1>2, <1>3, <1>4, <1>5, <1>6, <1>7, ScriptNamed DEF Undoing, Names

\* The same, by the call.
LEMMA RecordCalls ==
  ASSUME Place
  PROVE  /\ Call = "recordCert" => (script = "fresh" /\ at = 6) \/ (script = "update" /\ at = 5)
         /\ Call = "recordPreviousCert" => script = "promote" /\ at = 1
         /\ Call = "promoteCert" => script = "promote" /\ at = 3
         /\ Call = "forgetPendingCert" => \/ script = "same" /\ at = 2
                                          \/ script = "promote" /\ at = 5
                                          \/ script = "failUpdate" /\ at = 4
         /\ Call = "forgetPreviousCert" => \/ script = "promote" /\ at = 8
                                           \/ script = "retire" /\ at = 2
         /\ Call = "untrustNew" => (script = "same" /\ at = 1) \/ (script = "failUpdate" /\ at = 2)
         /\ Call = "retireCert" => (script = "promote" /\ at = 7) \/ (script = "retire" /\ at = 1)
         /\ Call = "untrustCert" => script \in Undoing /\ at = 5
         /\ Call = "untrustPending" => script \in Undoing /\ at = 6
         /\ Call = "untrustPrevious" => script \in Undoing /\ at = 7
         /\ Call = "deleteState" => script \in Undoing /\ at = 9
<1>1. CASE script \in {"fresh", "update", "choose", "idle"}
  BY <1>1, FreshCalls, UpdateCalls, ChooseCalls, CallSites
<1>2. CASE script \in {"same", "promote", "retire"}
  BY <1>2, SameCalls, PromoteCalls, RetireCalls, RecordSites
<1>3. CASE script \in {"failUpdate", "unwind", "rollback", "reinstall", "uninstall"}
  BY <1>3, UndoCalls, RecordSites DEF Undoing
<1>4. QED
  BY <1>1, <1>2, <1>3, ScriptNamed DEF Names

\* Where the step goes: the next call, the list that follows, or what undoes it.
Moves ==
    \/ script' = script /\ at' = at + 1
    \/ script' = "idle"
    \/ script = "update" /\ at = 9 /\ script' \in {"same", "promote"} /\ at' = 1
    \/ script = "update" /\ script' = "failUpdate" /\ at' = 1
    \/ script = "reinstall" /\ at = 9 /\ script' = "fresh" /\ at' = 1
    \/ script' = "unwind"
    \/ script' = "rollback" /\ at' = 1

LEMMA AdvanceMoves ==
  ASSUME Place, script # "idle", Call # "choose", NEW r, AdvanceWith(r)
  PROVE  Moves /\ (script' # "idle" => run' = r)
<1>1. script \in Names /\ at \in 1 .. Len(Scripts[script])
  BY ScriptNamed, Lengths DEF Place
<1>2. CASE at < Len(Scripts[script])
  BY <1>2 DEF AdvanceWith, Enter, Moves
<1>3. CASE ~(at < Len(Scripts[script]))
  <2>1. Finish(r) /\ at = Len(Scripts[script])
    BY <1>1, <1>3 DEF AdvanceWith
  <2>2. script \notin {"retire", "choose"}
    BY <2>1, CallSites, ScriptNames, ScriptLengths
  <2>3. script \in {"update", "reinstall"} => at = 9
    BY <2>1, ScriptNames, ScriptLengths
  <2>4. QED
    BY <1>1, <2>1, <2>2, <2>3 DEF Finish, EndRun, Enter, Names, Moves
<1>4. QED
  BY <1>2, <1>3

LEMMA FailMoves ==
  ASSUME script \in {"fresh", "update", "same", "promote"}, Fail
  PROVE  Moves /\ script' # script /\ (script' # "idle" => run' = run)
  BY DEF Fail, EndRun, Enter, Moves

\* What the record's properties read of the machine.
SameRecord == UNCHANGED <<Current, PendingCert, PreviousCert>>

LEMMA NamedNow ==
  /\ TrustRecorded <=> Held \subseteq {Current, PendingCert, PreviousCert}
  /\ Held \subseteq Certs /\ None \notin Held
<1>1. Trusted \subseteq Certs /\ None \notin Trusted
  BY FlowAssumption DEF Trusted
<1>2. QED
  BY <1>1 DEF TrustRecorded, Held, CertValues, Current, PendingCert, PreviousCert

LEMMA NamedNext ==
  /\ TrustRecorded' <=> Held' \subseteq {Current', PendingCert', PreviousCert'}
  /\ None \notin Held'
<1>1. Trusted' \subseteq Certs /\ None \notin Trusted'
  BY FlowAssumption DEF Trusted
<1>2. QED
  BY <1>1 DEF TrustRecorded, Held, CertValues, Current, PendingCert, PreviousCert, reg

\* What the other removals are refused has no bearing on a certificate.
LEMMA OtherRefusals ==
  ASSUME \/ UNCHANGED refused \/ Gone(TheNode) \/ Gone(TheRecord)
         \/ \E v : Gone(Package(v))
         \/ \E x : refused' = refused \cup {x}
  PROVE  CertsKept
<1> SUFFICES ASSUME NEW c, Cert(c) \in refused PROVE Cert(c) \in refused'
  BY DEF CertsKept
<1>1. Cert(c) # TheNode /\ Cert(c) # TheRecord /\ \A v : Cert(c) # Package(v)
  BY DEF Cert, TheNode, TheRecord, Package
<1>2. QED
  BY <1>1 DEF Gone

\* The calls that change a certificate of the record, or take its trust away.
RecordChanges == {"recordCert", "untrustNew", "forgetPendingCert", "recordPreviousCert",
                  "promoteCert", "retireCert", "forgetPreviousCert", "untrustCert",
                  "untrustPending", "untrustPrevious", "deleteState"}

LEMMA RecordStays ==
  ASSUME Place, Recording, script # "idle", Moves, SameRecord, Held' \subseteq Held,
         script' # "idle" => run'.cert = run.cert,
         Call \notin RecordChanges \/ (script' # script /\ script # "reinstall")
  PROVE  Recording'
<1>1. TrustRecorded'
  BY NamedNow, NamedNext DEF SameRecord, Recording
<1>2. CASE script' # script
  <2>1. script = "reinstall" => at # 9 \/ script' = "idle" \/ script' = "rollback"
          \/ script' = "unwind"
    BY <1>2, RecordSites DEF Undoing, RecordChanges, Moves
  <2>2. RecordFits'
    BY <1>2, <2>1 DEF Moves, SameRecord, Recording, RecordFits, Undoing
  <2>3. QED
    BY <1>1, <2>2 DEF Recording
<1>3. CASE script' = script /\ at' = at + 1 /\ Call \notin RecordChanges
  <2>1. script = "fresh" => at \in Nat /\ at # 6
    BY <1>3, FreshCalls DEF RecordChanges
  <2>2. script = "update" => at \in Nat /\ at # 5
    BY <1>3, UpdateCalls DEF RecordChanges
  <2>3. /\ at \in Nat /\ at >= 1
        /\ script = "same" => at \notin {1, 2}
        /\ script = "promote" => at \notin {1, 3, 5, 7, 8}
        /\ script = "retire" => at # 1
        /\ script = "failUpdate" => at # 2
        /\ script \in Undoing => at \notin {5, 6, 7, 9}
    BY <1>3, RecordSites, ScriptNamed, Lengths DEF RecordChanges, Place, Undoing
  <2>4. RecordFits'
    BY <1>3, <2>1, <2>2, <2>3 DEF SameRecord, Recording, RecordFits, Undoing
  <2>5. QED
    BY <1>1, <2>4 DEF Recording
<1>4. CASE script' = script /\ at' = 1 /\ script' = "rollback"
  BY <1>1, <1>4 DEF Recording, RecordFits, Undoing
<1>5. CASE script' = script /\ script' = "unwind"
  BY <1>1, <1>5 DEF Recording, RecordFits, Undoing
<1>6. QED
  BY <1>2, <1>3, <1>4, <1>5 DEF Moves

LEMMA SameView ==
  ASSUME machine'.trust = machine.trust, CertsKept,
         \A n \in CertValues : machine'.reg[n] = machine.reg[n]
  PROVE  SameRecord /\ Held' \subseteq Held
  BY DEF SameRecord, Current, PendingCert, PreviousCert, reg, CertValues, Trusted, Held,
         CertsKept

LEMMA WriteRecords ==
  ASSUME Inv, Recording, WriteValue
  PROVE  Recording'
<1>1. /\ Call \in {"recordDir", "recordVersion", "recordCert", "recordInf",
                   "recordPreviousCert", "recordPreviousInf", "promoteCert", "promoteInf"}
      /\ Place /\ machine \in Machines
  BY DEF WriteValue, Written, Inv, Typed
<1>2. script \in {"fresh", "update", "same", "promote"} /\ script # "idle"
  BY <1>1, CallSites
<1>6. CertsKept
  BY OtherRefusals DEF WriteValue
<1>3. CASE Fails("write") /\ UNCHANGED machine
  <2>1. SameRecord /\ Held' \subseteq Held
    BY <1>3, <1>6, SameView
  <2>2. Moves /\ script' # script /\ (script' # "idle" => run' = run)
    BY <1>2, <1>3, FailMoves DEF Fails
  <2>3. QED
    BY <1>1, <1>2, <2>1, <2>2, RecordStays
<1>4. CASE Set([machine EXCEPT !.reg[Written[Call]] = ValueFor[Call]]) /\ Advance
  <2>1. Moves /\ (script' # "idle" => run' = run)
    BY <1>1, <1>2, <1>4, AdvanceMoves DEF Advance
  <2>2. /\ machine'.trust = machine.trust
        /\ machine'.reg = [machine.reg EXCEPT ![Written[Call]] = ValueFor[Call]]
        /\ DOMAIN machine.reg = Values
    BY <1>1, <1>4 DEF Set, Machines
  <2>3. Held' \subseteq Held
    BY <1>6, <2>2 DEF Trusted, Held, CertsKept
  <2>4. CASE Call \notin {"recordCert", "recordPreviousCert", "promoteCert"}
    <3>1. Written[Call] \notin CertValues
      BY <1>1, <2>4 DEF Written, CertValues
    <3>2. SameRecord
      BY <1>6, <2>2, <3>1, SameView
    <3>3. Call \notin RecordChanges
      BY <1>1, <2>4 DEF RecordChanges
    <3>4. QED
      BY <1>1, <1>2, <2>1, <2>3, <3>2, <3>3, RecordStays
  <2>5. CASE Call = "recordCert" /\ script = "fresh"
    <3>1. at = 6
      BY <1>1, <2>5, RecordCalls
    <3>2. Written[Call] = "CertThumbprint" /\ ValueFor[Call] = run.cert
      BY <2>5 DEF Written, ValueFor
    <3>3. Current' = run.cert /\ PendingCert' = PendingCert /\ PreviousCert' = PreviousCert
      BY <2>2, <3>2 DEF Current, PendingCert, PreviousCert, reg, Values, CertValues
    <3>4. /\ Held = {}
          /\ "forget" \in Fallible \/ (PendingCert = None /\ PreviousCert = None)
      BY <2>5, <3>1, NamedNow DEF Recording, RecordFits
    <3>5. TrustRecorded'
      BY <2>3, <3>4, NamedNext
    <3>6. RecordFits'
      BY <2>1, <2>5, <3>1, <3>3, <3>4 DEF Moves, RecordFits, Undoing
    <3>7. QED
      BY <3>5, <3>6 DEF Recording
  <2>6. CASE Call = "recordCert" /\ script = "update"
    <3>1. at = 5
      BY <1>1, <2>6, RecordCalls
    <3>2. Written[Call] = "PendingCertThumbprint" /\ ValueFor[Call] = run.cert
      BY <2>6 DEF Written, ValueFor
    <3>3. Current' = Current /\ PendingCert' = run.cert /\ PreviousCert' = PreviousCert
      BY <2>2, <3>2 DEF Current, PendingCert, PreviousCert, reg, Values, CertValues
    <3>4. Held \subseteq {Current} /\ PreviousCert = None
      BY <2>6, <3>1, NamedNow DEF Recording, RecordFits
    <3>5. TrustRecorded'
      BY <2>3, <3>3, <3>4, NamedNext
    <3>6. RecordFits'
      BY <2>1, <2>6, <3>1, <3>3, <3>4 DEF Moves, RecordFits, Undoing
    <3>7. QED
      BY <3>5, <3>6 DEF Recording
  <2>7. CASE Call = "recordPreviousCert"
    <3>1. script = "promote" /\ at = 1
      BY <1>1, <2>7, RecordCalls
    <3>2. Written[Call] = "PreviousCertThumbprint" /\ ValueFor[Call] = Current
      BY <2>7 DEF Written, ValueFor, Current
    <3>3. Current' = Current /\ PendingCert' = PendingCert /\ PreviousCert' = Current
      BY <2>2, <3>2 DEF Current, PendingCert, PreviousCert, reg, Values, CertValues
    <3>4. Held \subseteq {Current, PendingCert} /\ PendingCert = run.cert
      BY <3>1, NamedNow DEF Recording, RecordFits
    <3>5. TrustRecorded'
      BY <2>3, <3>3, <3>4, NamedNext
    <3>6. RecordFits'
      BY <2>1, <3>1, <3>3, <3>4 DEF Moves, RecordFits, Undoing
    <3>7. QED
      BY <3>5, <3>6 DEF Recording
  <2>8. CASE Call = "promoteCert"
    <3>1. script = "promote" /\ at = 3
      BY <1>1, <2>8, RecordCalls
    <3>2. Written[Call] = "CertThumbprint" /\ ValueFor[Call] = run.cert
      BY <2>8 DEF Written, ValueFor
    <3>3. Current' = run.cert /\ PendingCert' = PendingCert /\ PreviousCert' = PreviousCert
      BY <2>2, <3>2 DEF Current, PendingCert, PreviousCert, reg, Values, CertValues
    <3>4. /\ Held \subseteq {Current, PendingCert, PreviousCert} /\ PreviousCert = Current
          /\ PendingCert = run.cert
      BY <3>1, NamedNow DEF Recording, RecordFits
    <3>5. TrustRecorded'
      BY <2>3, <3>3, <3>4, NamedNext
    <3>6. RecordFits'
      BY <2>1, <3>1, <3>3, <3>4 DEF Moves, RecordFits, Undoing
    <3>7. QED
      BY <3>5, <3>6 DEF Recording
  <2>9. QED
    BY <1>1, <2>4, <2>5, <2>6, <2>7, <2>8, RecordCalls
<1>5. QED
  BY <1>3, <1>4 DEF WriteValue

LEMMA DeleteRecords ==
  ASSUME Inv, Recording, DeleteValue
  PROVE  Recording'
<1>1. /\ Call \in {"forgetPendingCert", "forgetPendingInf", "forgetPreviousCert",
                   "forgetPreviousInf"}
      /\ Place /\ machine \in Machines
      /\ Advance /\ CertsKept
  BY OtherRefusals DEF DeleteValue, Refused, Forgotten, Inv, Typed
<1>2. script # "idle"
  BY <1>1, CallSites
<1>3. Moves /\ (script' # "idle" => run' = run)
  BY <1>1, <1>2, AdvanceMoves DEF Advance
<1>4. /\ machine'.trust = machine.trust
      /\ \/ machine'.reg = [machine.reg EXCEPT ![Forgotten[Call]] = None]
         \/ machine'.reg = machine.reg
      /\ DOMAIN machine.reg = Values
  BY <1>1 DEF DeleteValue, Refused, Set, Machines
<1>5. Held' \subseteq Held
  BY <1>1, <1>4 DEF Trusted, Held, CertsKept
<1>6. CASE Call \in {"forgetPendingInf", "forgetPreviousInf"}
  <2>1. Forgotten[Call] \notin CertValues
    BY <1>6 DEF Forgotten, CertValues
  <2>2. SameRecord
    <3>1. CASE machine'.reg = machine.reg
      BY <1>1, <1>4, <3>1, SameView
    <3>2. CASE machine'.reg = [machine.reg EXCEPT ![Forgotten[Call]] = None]
      BY <1>1, <1>4, <2>1, <3>2, SameView
    <3>3. QED
      BY <1>4, <3>1, <3>2
  <2>3. Call \notin RecordChanges
    BY <1>6 DEF RecordChanges
  <2>4. QED
    BY <1>1, <1>2, <1>3, <1>5, <2>2, <2>3, RecordStays
<1>7. CASE Call = "forgetPendingCert"
  <2>1. \/ script = "same" /\ at = 2
        \/ script = "promote" /\ at = 5
        \/ script = "failUpdate" /\ at = 4
    BY <1>1, <1>7, RecordCalls
  <2>2. Forgotten[Call] = "PendingCertThumbprint"
    BY <1>7 DEF Forgotten
  <2>3. Current' = Current /\ PendingCert' \in {None, PendingCert} /\ PreviousCert' = PreviousCert
    BY <1>4, <2>2 DEF Current, PendingCert, PreviousCert, reg, Values, CertValues
  <2>4. PendingCert \in Held => PendingCert = Current
    BY <2>1, NamedNow DEF Recording, RecordFits
  <2>5. TrustRecorded'
    BY <1>5, <2>3, <2>4, NamedNow, NamedNext DEF Recording
  <2>6. RecordFits'
    BY <1>3, <1>5, <2>1, <2>3 DEF Moves, Recording, RecordFits, Undoing
  <2>7. QED
    BY <2>5, <2>6 DEF Recording
<1>8. CASE Call = "forgetPreviousCert"
  <2>1. (script = "promote" /\ at = 8) \/ (script = "retire" /\ at = 2)
    BY <1>1, <1>8, RecordCalls
  <2>2. Forgotten[Call] = "PreviousCertThumbprint"
    BY <1>8 DEF Forgotten
  <2>3. Current' = Current /\ PendingCert' = PendingCert /\ PreviousCert' \in {None, PreviousCert}
    BY <1>4, <2>2 DEF Current, PendingCert, PreviousCert, reg, Values, CertValues
  <2>4. PreviousCert \notin Held
    BY <2>1 DEF Recording, RecordFits
  <2>5. TrustRecorded'
    BY <1>5, <2>3, <2>4, NamedNow, NamedNext DEF Recording
  <2>6. RecordFits'
    BY <1>3, <2>1, <2>3 DEF Moves, RecordFits, Undoing
  <2>7. QED
    BY <2>5, <2>6 DEF Recording
<1>9. QED
  BY <1>1, <1>6, <1>7, <1>8

LEMMA DeleteStateRecords ==
  ASSUME Inv, Recording, DeleteState
  PROVE  Recording'
<1>1. Call = "deleteState" /\ Place /\ machine \in Machines /\ Advance /\ CertsKept
  BY OtherRefusals DEF DeleteState, Refused, Inv, Typed
<1>2. script \in Undoing /\ script # "idle" /\ at = 9
  BY <1>1, RecordCalls DEF Undoing
<1>3. Moves /\ (script' # "idle" => run' = run)
  BY <1>1, <1>2, AdvanceMoves DEF Advance
<1>4. /\ machine'.trust = machine.trust
      /\ \/ machine'.reg = [n \in Values |-> None]
         \/ machine'.reg = machine.reg /\ "forget" \in Fallible
  BY <1>1 DEF DeleteState, Refused, Fault, Set, CleanMachine, Machines
<1>5. \/ Current' = None /\ PendingCert' = None /\ PreviousCert' = None
      \/ "forget" \in Fallible
  BY <1>4 DEF Current, PendingCert, PreviousCert, reg, Values, CertValues
<1>6. Held = {}
  BY <1>2, NamedNow DEF Recording, RecordFits
<1>7. Held' = {}
  BY <1>1, <1>4, <1>6 DEF Trusted, Held, CertsKept
<1>8. TrustRecorded'
  BY <1>7, NamedNext
<1>9. RecordFits'
  BY <1>2, <1>3, <1>5, <1>7 DEF Moves, RecordFits, Undoing
<1>10. QED
  BY <1>8, <1>9 DEF Recording

LEMMA UntrustRecords ==
  ASSUME Inv, Recording, RemoveTrustedCertificate
  PROVE  Recording'
<1>1. /\ Call \in {"untrustNew", "retireCert", "untrustCert", "untrustPending",
                   "untrustPrevious"}
      /\ Place /\ machine \in Machines
  BY DEF RemoveTrustedCertificate, Untrusted, Inv, Typed
<1>2. script # "idle"
  BY <1>1, CallSites
<1>3. PICK c : /\ c = Untrusted[Call]
               /\ \/ c = None /\ Set(machine) /\ Advance /\ UNCHANGED refused
                  \/ /\ c # None /\ "Root" \in machine.trust[c]
                     /\ Set([machine EXCEPT !.trust[c] = @ \ {"Root"}])
                     /\ Enter(script, at, run) /\ UNCHANGED refused
                  \/ /\ c # None /\ "Root" \notin machine.trust[c]
                     /\ Set([machine EXCEPT !.trust[c] = {}])
                     /\ Advance /\ Gone(Cert(c))
                  \/ /\ c # None /\ Advance
                     /\ \E left \in SUBSET machine.trust[c] \ {{}} :
                           machine' = [machine EXCEPT !.trust[c] = left]
                     /\ refused' = refused \cup {Cert(c)}
  BY Zenon DEF RemoveTrustedCertificate
<1>4. /\ machine'.reg = machine.reg
      /\ \/ machine'.trust = machine.trust
         \/ \E left \in SUBSET machine.trust[c] :
               machine'.trust = [machine.trust EXCEPT ![c] = left]
  <2>1. \/ machine' = machine
        \/ \E left \in SUBSET machine.trust[c] :
               machine' = [machine EXCEPT !.trust[c] = left]
    <3>1. Set(machine) => machine' = machine
      BY DEF Set
    <3>2. Set([machine EXCEPT !.trust[c] = @ \ {"Root"}])
            => machine' = [machine EXCEPT !.trust[c] = machine.trust[c] \ {"Root"}]
      BY DEF Set
    <3>3. Set([machine EXCEPT !.trust[c] = {}]) => machine' = [machine EXCEPT !.trust[c] = {}]
      BY DEF Set
    <3>4. QED
      BY <1>3, <3>1, <3>2, <3>3
  <2>2. CASE machine' = machine
    BY <2>2
  <2>3. ASSUME NEW left \in SUBSET machine.trust[c],
               machine' = [machine EXCEPT !.trust[c] = left]
        PROVE  machine'.reg = machine.reg /\ machine'.trust = [machine.trust EXCEPT ![c] = left]
    BY <1>1, <2>3 DEF Machines
  <2>4. QED
    BY <2>1, <2>2, <2>3
<1>5. SameRecord
  BY <1>4 DEF SameRecord, Current, PendingCert, PreviousCert, reg
<1>11. Trusted' \subseteq Trusted
  <2>1. machine.trust \in [Certs -> SUBSET TrustStores]
    BY <1>1 DEF Machines
  <2>2. ASSUME NEW d \in Certs, machine'.trust[d] # {} PROVE machine.trust[d] # {}
    BY <1>4, <2>1, <2>2
  <2>3. QED
    BY <2>2 DEF Trusted
<1>12. \A d : d # c /\ Cert(d) \in refused => Cert(d) \in refused'
  BY <1>3 DEF Gone, Cert
<1>13. \/ UNCHANGED refused
       \/ c \notin Trusted'
       \/ Cert(c) \in refused'
  <2>1. CASE Set([machine EXCEPT !.trust[c] = {}])
    BY <1>1, <2>1 DEF Set, Machines, Trusted
  <2>2. QED
    BY <1>3, <2>1
<1>6. Held' \subseteq Held
  BY <1>11, <1>12, <1>13 DEF Held
<1>7. TrustRecorded'
  BY <1>5, <1>6, NamedNow, NamedNext DEF SameRecord, Recording
<1>8. CASE Enter(script, at, run)
  BY <1>5, <1>6, <1>7, <1>8 DEF Enter, SameRecord, Recording, RecordFits, Undoing
<1>9. CASE Advance
  <2>1. Moves /\ (script' # "idle" => run' = run)
    BY <1>1, <1>2, <1>9, AdvanceMoves DEF Advance
  <2>2. CASE c \notin Held'
    <3>1. /\ Call = "untrustNew" => c = run.cert
          /\ Call \in {"retireCert", "untrustPrevious"} => c = PreviousCert
          /\ Call = "untrustCert" => c = Current
          /\ Call = "untrustPending" => c = PendingCert
      BY <1>3 DEF Untrusted, Current, PendingCert, PreviousCert
    <3>2. CASE Call = "untrustNew"
      <4>1. (script = "same" /\ at = 1) \/ (script = "failUpdate" /\ at = 2)
        BY <1>1, <3>2, RecordCalls
      <4>2. RecordFits'
        BY <1>5, <2>1, <2>2, <3>1, <3>2, <4>1
           DEF Moves, SameRecord, Recording, RecordFits, Undoing
      <4>3. QED
        BY <1>7, <4>2 DEF Recording
    <3>3. CASE Call = "retireCert"
      <4>1. (script = "promote" /\ at = 7) \/ (script = "retire" /\ at = 1)
        BY <1>1, <3>3, RecordCalls
      <4>2. RecordFits'
        BY <1>5, <2>1, <2>2, <3>1, <3>3, <4>1
           DEF Moves, SameRecord, Recording, RecordFits, Undoing
      <4>3. QED
        BY <1>7, <4>2 DEF Recording
    <3>4. CASE Call \in {"untrustCert", "untrustPending", "untrustPrevious"}
      <4>1. /\ script \in Undoing
            /\ at = IF Call = "untrustCert" THEN 5 ELSE IF Call = "untrustPending" THEN 6 ELSE 7
        BY <1>1, <3>4, RecordCalls
      <4>2. RecordFits'
        BY <1>5, <1>6, <2>1, <2>2, <3>1, <3>4, <4>1
           DEF Moves, SameRecord, Recording, RecordFits, Undoing
      <4>3. QED
        BY <1>7, <4>2 DEF Recording
    <3>5. QED
      BY <1>1, <3>2, <3>3, <3>4
  <2>3. CASE c \in Held'
    <3>1. c \in Certs /\ c # None /\ machine'.trust[c] # {} /\ Cert(c) \notin refused'
      BY <2>3, FlowAssumption DEF Held, Trusted
    <3>2. DOMAIN machine.trust = Certs
      BY <1>1 DEF Machines
    <3>3. Enter(script, at, run)
      BY <1>1, <1>3, <3>1, <3>2 DEF Set, Machines
    <3>4. QED
      BY <1>8, <3>3
  <2>4. QED
    BY <2>2, <2>3
<1>10. QED
  BY <1>3, <1>8, <1>9

LEMMA TrustRecords ==
  ASSUME Inv, Recording, TrustCertificate
  PROVE  Recording'
<1>1. Call = "trust" /\ Place /\ machine \in Machines
  BY DEF TrustCertificate, Inv, Typed
<1>2. (script = "fresh" /\ at = 7) \/ (script = "update" /\ at = 6)
  BY <1>1, CallSites
<1>6. CertsKept
  BY OtherRefusals DEF TrustCertificate
<1>3. CASE Fails("trust") /\ UNCHANGED machine
  <2>1. SameRecord /\ Held' \subseteq Held
    BY <1>3, <1>6, SameView
  <2>2. Moves /\ script' # script /\ (script' # "idle" => run' = run)
    BY <1>2, <1>3, FailMoves DEF Fails
  <2>3. QED
    BY <1>1, <1>2, <2>1, <2>2, RecordStays
<1>4. ASSUME NEW T, Set([machine EXCEPT !.trust[run.cert] = T]),
             Enter(script, at, run) \/ Advance
      PROVE  Recording'
  <2>1. /\ machine'.reg = machine.reg
        /\ machine'.trust = [machine.trust EXCEPT ![run.cert] = T]
    BY <1>1, <1>4 DEF Set, Machines
  <2>2. SameRecord
    BY <2>1 DEF SameRecord, Current, PendingCert, PreviousCert, reg
  <2>3. Held' \subseteq Held \cup {run.cert}
    BY <1>1, <1>6, <2>1 DEF Held, CertsKept, Trusted, Machines
  <2>4. run.cert \in {Current, PendingCert}
    BY <1>2 DEF Recording, RecordFits
  <2>5. TrustRecorded'
    BY <2>2, <2>3, <2>4, NamedNow, NamedNext DEF SameRecord, Recording
  <2>6. RecordFits'
    <3>1. CASE Enter(script, at, run)
      BY <1>2, <2>2, <3>1 DEF Enter, SameRecord, Recording, RecordFits, Undoing
    <3>2. CASE Advance
      <4>1. Moves /\ (script' # "idle" => run' = run)
        BY <1>1, <1>2, <3>2, AdvanceMoves DEF Advance
      <4>2. QED
        BY <1>2, <2>2, <4>1 DEF Moves, SameRecord, Recording, RecordFits, Undoing
    <3>3. QED
      BY <1>4, <3>1, <3>2
  <2>7. QED
    BY <2>5, <2>6 DEF Recording
<1>5. QED
  BY <1>3, <1>4 DEF TrustCertificate

LEMMA CreateRecords ==
  ASSUME Inv, Recording, CreateSigningCert
  PROVE  Recording'
<1>1. Call = "key" /\ Place /\ machine \in Machines
  BY DEF CreateSigningCert, Inv, Typed
<1>2. (script = "fresh" /\ at = 3) \/ (script = "update" /\ at = 2)
  BY <1>1, CallSites
<1>3. machine'.reg = machine.reg /\ machine'.trust = machine.trust
  BY <1>1 DEF CreateSigningCert, Set, Machines
<1>4. SameRecord /\ Held' \subseteq Held
  BY <1>3, SameView, OtherRefusals DEF CreateSigningCert
<1>5. TrustRecorded'
  BY <1>4, NamedNow, NamedNext DEF SameRecord, Recording
<1>6. Moves
  <2>1. CASE Fail
    BY <1>2, <2>1, FailMoves
  <2>2. CASE \E r : AdvanceWith(r)
    BY <1>1, <1>2, <2>2, AdvanceMoves
  <2>3. QED
    BY <2>1, <2>2 DEF CreateSigningCert, Fails
<1>7. RecordFits'
  BY <1>2, <1>4, <1>6 DEF Moves, SameRecord, Recording, RecordFits, Undoing
<1>8. QED
  BY <1>5, <1>7 DEF Recording

(* Every other call leaves the certificates of the record, and their trust. *)

LEMMA OnwardRecords ==
  ASSUME Place, Recording, script # "idle", Call \notin RecordChanges \cup {"choose"},
         machine'.trust = machine.trust, machine'.reg = machine.reg, CertsKept,
         NEW r, r.cert = run.cert, AdvanceWith(r)
  PROVE  Recording'
<1>1. SameRecord /\ Held' \subseteq Held
  BY SameView
<1>2. Moves /\ (script' # "idle" => run' = r)
  BY AdvanceMoves
<1>3. QED
  BY <1>1, <1>2, RecordStays

LEMMA FailRecords ==
  ASSUME Place, Recording, script \in {"fresh", "update", "same", "promote"}, Fail,
         machine'.trust = machine.trust, machine'.reg = machine.reg, CertsKept
  PROVE  Recording'
<1>1. SameRecord /\ Held' \subseteq Held
  BY SameView
<1>2. Moves /\ script' # script /\ (script' # "idle" => run' = run)
  BY FailMoves
<1>3. QED
  BY <1>1, <1>2, RecordStays

LEMMA OtherRecords ==
  ASSUME Inv, Recording,
         \/ SignFiles \/ DestroySigningKey \/ StagePackage \/ RemoveDevices
         \/ RegisterDevice \/ UpdateDevice \/ CopyPayload \/ RemoveInstallDir
  PROVE  Recording'
<1>1. Place /\ machine \in Machines /\ run \in Runs
  BY DEF Inv, Typed, RunOK
<1>2. Call \in {"sign", "destroyKey", "stage", "removeNode", "register", "bind", "copy",
               "removeFiles"}
  BY DEF SignFiles, DestroySigningKey, StagePackage, RemoveDevices, RegisterDevice,
         UpdateDevice, CopyPayload, RemoveInstallDir
<1>3. script # "idle" /\ Call \notin RecordChanges \cup {"choose"}
  BY <1>1, <1>2, CallSites DEF RecordChanges
<1>4. machine'.trust = machine.trust /\ machine'.reg = machine.reg
  <2>1. CASE SignFiles \/ DestroySigningKey \/ StagePackage \/ RemoveDevices
    BY <1>1, <2>1 DEF SignFiles, DestroySigningKey, StagePackage, RemoveDevices, Refused, Set,
       Machines
  <2>2. CASE RegisterDevice \/ UpdateDevice \/ CopyPayload \/ RemoveInstallDir
    BY <1>1, <2>2 DEF RegisterDevice, UpdateDevice, CopyPayload, RemoveInstallDir, Set, Machines
  <2>3. QED
    BY <2>1, <2>2
<1>5. Fail => script \in {"fresh", "update", "same", "promote"} \/ Call \in {"removeNode", "removeFiles"}
  BY <1>1, <1>2, CallSites
<1>6. \/ \E r : r.cert = run.cert /\ AdvanceWith(r)
      \/ Fail /\ Call \notin {"removeNode", "removeFiles"}
  <2>1. CASE Advance
    BY <2>1 DEF Advance
  <2>2. ASSUME NEW b, AdvanceWith([run EXCEPT !.signed = b])
        PROVE  \E r : r.cert = run.cert /\ AdvanceWith(r)
    <3>1. [run EXCEPT !.signed = b].cert = run.cert
      BY <1>1 DEF Runs
    <3>2. QED
      BY <2>2, <3>1
  <2>3. ASSUME NEW b, AdvanceWith([run EXCEPT !.reboot = b])
        PROVE  \E r : r.cert = run.cert /\ AdvanceWith(r)
    <3>1. [run EXCEPT !.reboot = b].cert = run.cert
      BY <1>1 DEF Runs
    <3>2. QED
      BY <2>3, <3>1
  <2>4. ASSUME NEW b, AdvanceWith([run EXCEPT !.published = b])
        PROVE  \E r : r.cert = run.cert /\ AdvanceWith(r)
    <3>1. [run EXCEPT !.published = b].cert = run.cert
      BY <1>1 DEF Runs
    <3>2. QED
      BY <2>4, <3>1
  <2>5. CASE SignFiles
    BY <2>2, <2>5 DEF SignFiles
  <2>6. CASE StagePackage
    BY <2>4, <2>6 DEF StagePackage, Fails
  <2>7. CASE UpdateDevice
    BY <2>3, <2>7 DEF UpdateDevice, Fails
  <2>8. CASE DestroySigningKey \/ RegisterDevice \/ CopyPayload
    BY <2>1, <2>8 DEF DestroySigningKey, RegisterDevice, CopyPayload, Fails
  <2>9. CASE RemoveDevices \/ RemoveInstallDir
    BY <2>1, <2>9 DEF RemoveDevices, RemoveInstallDir
  <2>10. QED
    BY <2>5, <2>6, <2>7, <2>8, <2>9
<1>7. CertsKept
  BY OtherRefusals DEF SignFiles, DestroySigningKey, StagePackage, RemoveDevices, Refused,
     RegisterDevice, UpdateDevice, CopyPayload, RemoveInstallDir
<1>8. QED
  BY <1>1, <1>3, <1>4, <1>5, <1>6, <1>7, OnwardRecords, FailRecords

LEMMA UnstageRecords ==
  ASSUME Inv, Recording, UnstagePackage
  PROVE  Recording'
<1>1. /\ Call \in {"retireInf", "dropPackage", "unstageDriver", "unstagePending",
                   "unstagePrevious"}
      /\ Place /\ machine \in Machines
  BY DEF UnstagePackage, Unstaged, Inv, Typed
<1>2. script # "idle" /\ Call \notin RecordChanges \cup {"choose"}
  BY <1>1, CallSites DEF RecordChanges
<1>3. PICK v : /\ \/ machine' = machine
                  \/ machine' = [machine EXCEPT !.staged[v] = None]
               /\ \/ Advance
                  \/ Call = "retireInf" /\ Enter(script, at + 2, run)
               /\ UNCHANGED refused \/ Gone(Package(v)) \/ refused' = refused \cup {Package(v)}
  BY Zenon DEF UnstagePackage, Refused, Set
<1>8. CertsKept
  BY <1>3, OtherRefusals
<1>4. machine'.trust = machine.trust /\ machine'.reg = machine.reg
  BY <1>1, <1>3 DEF Machines
<1>5. CASE Advance
  BY <1>1, <1>2, <1>4, <1>5, <1>8, OnwardRecords DEF Advance
<1>6. CASE Call = "retireInf" /\ Enter(script, at + 2, run)
  <2>1. (script = "retire" /\ at = 3) \/ (script = "promote" /\ at = 9)
    BY <1>1, <1>6, CallSites
  <2>2. SameRecord /\ Held' \subseteq Held
    BY <1>4, <1>8, SameView
  <2>3. TrustRecorded'
    BY <2>2, NamedNow, NamedNext DEF SameRecord, Recording
  <2>4. RecordFits'
    BY <1>6, <2>1 DEF Enter, RecordFits, Undoing
  <2>5. QED
    BY <2>3, <2>4 DEF Recording
<1>7. QED
  BY <1>3, <1>5, <1>6

\* An install chosen as fresh finds no certificate recorded, and one chosen as
\* an update none but the current one.
LEMMA ChooseRecords ==
  ASSUME Recording, ChooseInstallMode
  PROVE  Recording'
<1>1. machine' = machine /\ script' = InstallMode /\ at' = 1 /\ run' = run
  BY DEF ChooseInstallMode, Enter
<1>2. SameRecord /\ Held' \subseteq Held
  BY <1>1, SameView, OtherRefusals DEF ChooseInstallMode
<1>3. TrustRecorded'
  BY <1>2, NamedNow, NamedNext DEF SameRecord, Recording
<1>4. CASE ~Recorded
  <2>1. Current = None /\ PendingCert = None /\ PreviousCert = None
    BY <1>4 DEF Recorded, Values, CertValues, Current, PendingCert, PreviousCert
  <2>2. script' = "fresh"
    BY <1>1, <1>4 DEF InstallMode
  <2>4. None \notin Held'
    BY NamedNext
  <2>3. RecordFits'
    BY <1>1, <1>2, <2>1, <2>2, <2>4 DEF RecordFits, SameRecord, Undoing
  <2>5. QED
    BY <1>3, <2>3 DEF Recording
<1>5. CASE Recorded
  <2>1. /\ script' \in {"reinstall", "update"}
        /\ script' = "update" => PendingCert = None /\ PreviousCert = None
    BY <1>1, <1>5 DEF InstallMode, PendingCert, PreviousCert
  <2>2. RecordFits'
    BY <1>1, <1>2, <2>1 DEF RecordFits, SameRecord, Undoing
  <2>3. QED
    BY <1>3, <2>2 DEF Recording
<1>6. QED
  BY <1>4, <1>5

LEMMA RunRecords ==
  ASSUME Recording,
         \/ \E v \in Versions : RunInstall(v)
         \/ RunUninstall \/ Crash \/ Restart \/ UNCHANGED vars,
         machine \in Machines
  PROVE  Recording'
<1>1. machine'.trust = machine.trust /\ machine'.reg = machine.reg
  BY DEF RunInstall, RunUninstall, Crash, Restart, Set, vars, Machines
<1>2. SameRecord /\ Held' \subseteq Held
  BY <1>1, SameView, OtherRefusals DEF RunInstall, RunUninstall, Crash, Restart, vars
<1>3. TrustRecorded'
  BY <1>2, NamedNow, NamedNext DEF SameRecord, Recording
<1>4. \/ script' \in {"retire", "choose", "uninstall"} /\ at' = 1
      \/ script' = "idle"
      \/ script' = script /\ at' = at /\ run' = run
  BY DEF RunInstall, RunUninstall, Crash, Restart, EndRun, Enter, vars
<1>5. RecordFits'
  BY <1>2, <1>4 DEF SameRecord, Recording, RecordFits, Undoing
<1>6. QED
  BY <1>3, <1>5 DEF Recording

LEMMA RecordingSteps == Inv /\ Recording /\ [Next]_vars => Recording'
<1> SUFFICES ASSUME Inv, Recording, [Next]_vars PROVE Recording'
  OBVIOUS
<1>1. machine \in Machines
  BY DEF Inv, Typed
<1>2. CASE \/ \E v \in Versions : RunInstall(v)
           \/ RunUninstall \/ Crash \/ Restart \/ UNCHANGED vars
  BY <1>1, <1>2, RunRecords
<1>3. CASE ChooseInstallMode \/ WriteValue \/ DeleteValue \/ DeleteState
  BY <1>3, ChooseRecords, WriteRecords, DeleteRecords, DeleteStateRecords
<1>4. CASE CreateSigningCert \/ TrustCertificate \/ RemoveTrustedCertificate \/ UnstagePackage
  BY <1>4, CreateRecords, TrustRecords, UntrustRecords, UnstageRecords
<1>5. CASE \/ SignFiles \/ DestroySigningKey \/ StagePackage \/ RemoveDevices
           \/ RegisterDevice \/ UpdateDevice \/ CopyPayload \/ RemoveInstallDir
  BY <1>5, OtherRecords
<1>6. QED
  BY <1>2, <1>3, <1>4, <1>5 DEF Next

LEMMA RecordKept == Spec => []Recording
<1>1. Init => Recording
  <2>1. Init => machine.trust = [c \in Certs |-> {}] /\ script = "idle"
    BY DEF Init, CleanMachine
  <2>2. QED
    BY <2>1 DEF Recording, TrustRecorded, Trusted, Held, RecordFits, Undoing
<1>2. QED
  BY <1>1, FlowInvariant, RecordingSteps, PTL DEF Spec

(* Whatever fails, wherever a run stops and however often one is tried       *)
(* again, every certificate the machine trusts is named by the record, so    *)
(* that an uninstall can take its trust away, or is one a run was refused to *)
(* remove: a certificate is recorded                                         *)
(* before it is trusted, and forgotten only untrusted or under another name  *)
(* (install_flow.cpp:80-83, 111-118, 151-153, 194-197).                         *)
THEOREM TrustIsRecorded == Spec => []TrustRecorded
<1>1. Recording => TrustRecorded
  BY DEF Recording
<1>2. QED
  BY <1>1, RecordKept, PTL
=============================================================================
