----------------------------- MODULE MCGunFile -----------------------------
(* The instances TLC checks: names for small sets of threads, operations    *)
(* and report values, and the symmetry between those that are alike.        *)
EXTENDS GunFileProps, TLC

CONSTANTS t1, t2, r1, r2, i1, i2, x1, n1, n2, p0, p1

OneButton == {0, 1}
TwoButtons == {0, 1, 2}
EventSymmetry == Permutations({r1, r2}) \cup Permutations({i1, i2})

\* The parser on its own: every list of four items after a size and a count, and
\* 32 pushes.  Sums of ten bits stand for the machine's, so that some overflow.
Parser == INSTANCE ReportDescriptorProps WITH ULONG_MAX <- 1023

Items == {Parser!Item(op, 0) : op \in {"push", "pop", "input", "output", "collection", "long"}}
           \cup {Parser!Item("size", 8), Parser!Item("count", 300), Parser!Item("count", 1),
                 Parser!Item("id", 1)}
Descriptors == {<<Parser!Item("size", 3), Parser!Item("count", 5)>> \o tail :
                    tail \in [1 .. 4 -> Items]}
                 \cup {[k \in 1 .. n |-> Parser!Item("push", 0)] : n \in {31, 32}}

AgreesOnAll == Parser!Agrees(Descriptors)

(* Once a handle has a descriptor, the sizes it goes by are right: those    *)
(* the parser finds are those of a definition without a stack (WinUHid.c:   *)
(* 37-255), on every descriptor of Descriptors; see Agrees.                 *)
ParserAgrees == "ReportDescriptor" \in config => AgreesOnAll
=============================================================================
