----------------------------- MODULE VirtualGun -----------------------------
(* What a virtual gun looks like from outside the driver: to the games that *)
(* read it, to VHF, which waits for an answer to every operation it raises, *)
(* and to the one client that owns it.  Threads, queues, locks and ids are  *)
(* not visible here.                                                        *)
EXTENDS Integers

CONSTANTS Ops, Reports, ZeroReport

VARIABLES
    owned,   \* the client still has the gun
    device,  \* "absent", "present" or "removed"
    held,    \* the report games last saw
    refused, \* the device would not take the release
    op       \* "none", "raised", "shown" or "answered", for each operation

vars == <<owned, device, held, refused, op>>

Pending == {o \in Ops : op[o] \in {"raised", "shown"}}
Released(rep) == [rep EXCEPT !.buttons = 0]

Init ==
    /\ owned = TRUE /\ device = "absent" /\ held = ZeroReport /\ refused = FALSE
    /\ op = [o \in Ops |-> "none"]

Plug ==
    /\ owned /\ device = "absent" /\ device' = "present"
    /\ UNCHANGED <<owned, held, op, refused>>

(* Only its owner moves the gun or presses its buttons ... *)
Move(rep) ==
    /\ owned /\ device = "present" /\ held' = rep
    /\ UNCHANGED <<owned, device, op, refused>>

Raise(o) ==
    /\ device = "present" /\ op[o] = "none"
    /\ op' = [op EXCEPT ![o] = "raised"]
    /\ UNCHANGED <<owned, device, held, refused>>

Show(o) ==
    /\ op[o] = "raised"
    /\ op' = [op EXCEPT ![o] = "shown"]
    /\ UNCHANGED <<owned, device, held, refused>>

(* The owner answers what it was shown ... *)
Reply(o) ==
    /\ owned /\ op[o] = "shown"
    /\ op' = [op EXCEPT ![o] = "answered"]
    /\ UNCHANGED <<owned, device, held, refused>>

(* ... and the driver whatever else it cannot or will not show: one         *)
(* operation as it is raised or later, or, once the owner is gone, all that *)
(* are pending.                                                             *)
Reject(S) ==
    /\ device = "present"
    /\ \A o \in S : op[o] # "answered" /\ (op[o] = "shown" => ~owned)
    /\ op' = [o \in Ops |-> IF o \in S THEN "answered" ELSE op[o]]
    /\ UNCHANGED <<owned, device, held, refused>>

Abandon ==
    /\ owned /\ owned' = FALSE
    /\ UNCHANGED <<device, held, op, refused>>

(* ... and once it is gone, the only thing that happens to the buttons is   *)
(* that they are let go, before the gun is unplugged, unless that is        *)
(* refused.                                                                 *)
Release ==
    /\ ~owned /\ device = "present" /\ held' = Released(held)
    /\ UNCHANGED <<owned, device, op, refused>>

RefuseRelease ==
    /\ ~owned /\ device = "present" /\ refused' = TRUE
    /\ UNCHANGED <<owned, device, held, op>>

Unplug ==
    /\ ~owned /\ device = "present" /\ Pending = {}
    /\ held = Released(held) \/ refused
    /\ device' = "removed"
    /\ UNCHANGED <<owned, held, op, refused>>

Next ==
    \/ Plug
    \/ \E rep \in Reports : Move(rep)
    \/ \E o \in Ops : Raise(o) \/ Show(o) \/ Reply(o)
    \/ \E S \in SUBSET Ops : Reject(S)
    \/ Abandon
    \/ Release
    \/ RefuseRelease
    \/ Unplug

Spec == Init /\ [][Next]_vars
=============================================================================
