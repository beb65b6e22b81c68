---------------------------- MODULE MCInstallFlow ----------------------------
(* The setup program on two releases, with every sequence of runs, failed    *)
(* calls, crashes and restarts a fault budget allows.                        *)
EXTENDS InstallFlowProps, TLC

CONSTANTS v1, v2, c1, c2, c3, c4, c5

MCVersions == {v1, v2}
MCCerts == {c1, c2, c3, c4, c5}

MCFailures == Failures
MCNothing == {}

\* Releases and thumbprints are only ever compared.
Symmetry == Permutations(MCVersions) \cup Permutations(MCCerts)
===============================================================================
