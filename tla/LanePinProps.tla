----------------------------- MODULE LanePinProps -----------------------------
(* What pinning the lanes owes the games that bind by device path.  Nothing *)
(* here models code.                                                        *)
EXTENDS LanePin

(* Type invariant, in three parts: the keys and nodes, where the loops of   *)
(* PinLanes (lane_pin.cpp:116-173) stand, and where ReadVhfKeys stands.  No *)
(* lane gets more than MAX_ROUNDS rounds, and no more lanes fail than there *)
(* are.                                                                     *)
DeviceOK ==
    /\ keys \in [KeyNames -> LaneKeys \cup {NoKey}]
    /\ rootNamed \in BOOLEAN
    /\ holders \in [Lanes -> SUBSET {"setup", "app"}]
    /\ node \in [Lanes -> {"absent", "setup", "app", "left"}]
    /\ mouse \in [Lanes -> Prefixes]

SetupOK ==
    /\ pc \in {"idle", "driver", "root", "readRoot", "readKey", "decide", "write",
               "remove", "create", "mouse", "destroy", "gone"}
    /\ lane \in Lanes /\ round \in 0 .. 3
    /\ seen \in LaneKeys \cup {NoKey} /\ ok \in BOOLEAN
    /\ install_code \in {0, 3010} /\ outcome \in {STILL_ACTIVE, 0, 1, 3010}
    /\ summary \in [driver_unavailable : BOOLEAN, failed : 0 .. MaxLanes]
    /\ pinned \subseteq Lanes

LookOK == unread \subseteq KeyNames /\ collision \in BOOLEAN

TypeOK == DeviceOK /\ SetupOK /\ LookOK

IsPinned(l) ==
    /\ rootNamed
    /\ keys[LaneKeyName(l)] = Key(TRUE, PinnedPrefix(l))

Blocked(l) == \E n \in KeyNames : ~IsLaneKeyOf(n, l) /\ SomePrefix(keys[n]) = PinnedPrefix(l)

(* An exit code that does not say "failed" (lane_pin_rules.h:66, "pins only *)
(* ever make it worse") means that every lane's key is installed and holds  *)
(* the pinned prefix, whatever was created, removed or timed out on the     *)
(* way; except a lane Windows meddled with after PinLane read its key, and  *)
(* except a driver that waits for a reboot.                                 *)
SuccessIsPinned ==
    outcome \in {0, 3010} /\ ~summary.driver_unavailable
      => \A l \in Lanes \ touched : IsPinned(l)

(* A lane counted as pinned is free: the device setup created to learn its  *)
(* key is not there any more, so the next program that starts the lane gets *)
(* a node, and a mouse on the pinned path (lane_pin.cpp:84, 108).           *)
PinnedLaneIsFree == \A l \in pinned : node[l] # "setup"

(* A key takes its lane's prefix, although a key of another lane or device  *)
(* holds it, in two cases only: that key changed after ReadVhfKeys had come *)
(* to it, while setup was still to look at others, to decide and to write   *)
(* (lane_pin.cpp:128, 133), or ReadVhfKeys never came to it, because a call *)
(* failed (55, 59) or an index had moved.  Then two mice get one path; a    *)
(* key that stays as it is while setup looks and writes is respected, as is *)
(* one that comes and goes.                                                 *)
NoCollisionMade ==
    [][\A l \in Lanes :
         /\ SomePrefix(keys'[LaneKeyName(l)]) = PinnedPrefix(l)
         /\ SomePrefix(keys[LaneKeyName(l)]) # PinnedPrefix(l)
         => {n \in KeyNames : ~IsLaneKeyOf(n, l) /\ SomePrefix(keys'[n]) = PinnedPrefix(l)}
              \subseteq overlooked]_vars

(* A lane is given up as unsettled only when Windows took its key away, or  *)
(* flagged it, after each of three creations: anything less is repaired     *)
(* within the rounds of one run (lane_pin.cpp:118-150).                     *)
UnsettledMeansLost == \A n \in unsettled : n >= 3

(* "Run install again" (README.md:18, install_flow.cpp:19): whatever was    *)
(* lost, half installed, cut off or replaced, once it is quiet every lane   *)
(* gets its pinned prefix back and keeps it, unless another device has it.  *)
(* An orphaned key of an earlier root does not stop it.                     *)
RerunPins == \A l \in Lanes : <>[](IsPinned(l) \/ Blocked(l))
=============================================================================
