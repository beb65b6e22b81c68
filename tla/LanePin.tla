-------------------------------- MODULE LanePin --------------------------------
(***************************************************************************)
(* The last part of an install: src/setup/lane_pin.cpp, lane_pin_rules.h   *)
(* and the names of shared/gun_device.h.  PinLanes gives every lane's      *)
(* device key a fixed ParentIdPrefix, from which Windows makes the Raw     *)
(* Input path of the lane's mouse.  It reads and writes keys that Windows  *)
(* writes too: plug and play (Pnp...) brings a lane's node up, a program   *)
(* may hold a lane, other devices come, go and take prefixes, keys get     *)
(* lost, and the install may be cut off and run again.                     *)
(*                                                                         *)
(* A key is named by its parent and its lane: "live" is the one root node  *)
(* of this install, "old" the root of an earlier one, "other" a parent     *)
(* that is not ours.  A lane's pinned prefix is the lane itself; what      *)
(* Windows makes up is Generated.                                          *)
(***************************************************************************)
EXTENDS Naturals

CONSTANTS
    MaxLanes,        \* VGUN_MAX_LANES
    Foreign,         \* devices under VHF that are not virtual guns
    NoKey,           \* a key that does not exist
    NoPrefix,        \* an empty ParentIdPrefix, and no mouse
    Generated,       \* a prefix Windows made up
    MaxDisturbances  \* bound: what others do and what fails, in one behaviour

Lanes == 0 .. MaxLanes - 1

Prefixes == Lanes \cup {NoPrefix, Generated}
LaneKeys == [installed : BOOLEAN, prefix : Prefixes]

ASSUME PinAssumption ==
    /\ MaxLanes \in Nat \ {0}
    /\ MaxDisturbances \in Nat
    /\ NoPrefix # Generated
    /\ {NoPrefix, Generated} \cap Lanes = {}
    /\ NoKey \notin LaneKeys

VARIABLES
    keys,          \* Enum\VHF\HID_DEVICE_SYSTEM_VHF: a LaneKey per name
    rootNamed,     \* has the live root node a ParentIdPrefix
    holders,       \* who has a lane's virtual device started
    node,          \* who brought up the lane's VHF node: this run's setup, an
                   \* "app", a run that "left" it behind; or it is "absent"
    mouse,         \* the prefix in the path of the lane's started mouse
    pc, lane, round, seen, ok,  \* where PinLanes stands, and its locals
    unread,        \* keys ReadVhfKeys has still to come to
    collision,      \* a key it has read holds the lane's prefix
    install_code, summary,      \* the argument of FinishWithPins, and PinSummary
    outcome,       \* the exit code of the last run, or STILL_ACTIVE
    pinned,        \* lanes this run has counted as pinned
    disturbances,  \* what others did and what failed so far
    touched,       \* lanes Windows meddled with since the key was last read
    losses,        \* times the key of the lane being pinned was lost or flagged
    unsettled,     \* the losses of a lane just given up as unsettled, if any
    overlooked     \* keys ReadVhfKeys did not come to, or that changed since

device == <<keys, rootNamed, holders, node, mouse>>
setup == <<pc, lane, round, seen, ok, unread, collision, install_code, summary, outcome,
           pinned>>
history == <<disturbances, touched, losses, unsettled, overlooked>>
look == <<unread, collision, overlooked>>
vars == <<device, setup, history>>

STILL_ACTIVE == 259

\* A device under VHF whose prefix Windows made up, or that has one of ours.
ForeignKeys == {NoKey} \cup [installed : {TRUE}, prefix : Lanes \cup {Generated}]

KeyNames == ({"live", "old"} \X Lanes) \cup ({"other"} \X Foreign)
Key(installed, prefix) == [installed |-> installed, prefix |-> prefix]

PinnedPrefix(l) == l
LaneKeyName(l) == <<"live", l>>
IsLaneKeyOf(name, l) == name[1] # "other" /\ name[2] = l
SomePrefix(k) == IF k = NoKey THEN NoPrefix ELSE k.prefix

Init ==
    /\ \E taken \in [Foreign -> ForeignKeys] :
         keys = [n \in KeyNames |-> IF n[1] = "other" THEN taken[n[2]] ELSE NoKey]
    /\ rootNamed = FALSE
    /\ holders = [l \in Lanes |-> {}]
    /\ node = [l \in Lanes |-> "absent"]
    /\ mouse = [l \in Lanes |-> NoPrefix]
    /\ pc = "idle" /\ lane = 0 /\ round = 0 /\ seen = NoKey /\ ok = TRUE
    /\ unread = {} /\ collision = FALSE /\ overlooked = {}
    /\ install_code = 0 /\ outcome = STILL_ACTIVE /\ pinned = {}
    /\ summary = [driver_unavailable |-> FALSE, failed |-> 0]
    /\ disturbances = 0 /\ touched = {} /\ losses = 0 /\ unsettled = {}

Disturb == disturbances < MaxDisturbances /\ disturbances' = disturbances + 1
Undisturbed == UNCHANGED <<disturbances, touched>>

-----------------------------------------------------------------------------
(* The rules: lane_pin_rules.h. *)

\* Broken variant: a prefix is looked for among other guns only.
BadRivals(l) == {n \in KeyNames : n[1] # "other" /\ ~IsLaneKeyOf(n, l)}

\* Broken variant: the lane's key from an earlier install counts too.
BadRivalsOrphan(l) == KeyNames \ {LaneKeyName(l)}

\* The keys whose prefix IsCollision compares with the lane's.
Rivals(l) == {n \in KeyNames \ {LaneKeyName(l)} : ~IsLaneKeyOf(n, l)}

\* Broken variant: a key Windows never finished installing is as good as any.
BadDecidePin(key, l, collides) ==
    CASE key = NoKey                     -> "CreateFirst"
      [] key.prefix = PinnedPrefix(l)    -> "AlreadyPinned"
      [] collides                        -> "Collision"
      [] OTHER                           -> "Write"

DecidePin(key, l, collides) ==
    CASE key = NoKey                     -> "CreateFirst"
      [] key # NoKey /\ ~key.installed   -> "RemoveThenCreate"
      [] key # NoKey /\ key.installed /\ key.prefix = PinnedPrefix(l) -> "AlreadyPinned"
      [] OTHER                           -> IF collides THEN "Collision" ELSE "Write"

PinExitCode(code, pins) ==
    IF pins.driver_unavailable THEN IF code = 3010 THEN 3010 ELSE 1
    ELSE IF pins.failed > 0 THEN 1 ELSE code

-----------------------------------------------------------------------------
(* The loops of PinLanes and PinLane. *)

\* A run starts once the install is complete; a later one retries the pins.
FinishWithPins ==
    /\ pc = "idle" /\ pc' = "driver"
    /\ install_code' \in {0, 3010}
    /\ summary' = [driver_unavailable |-> FALSE, failed |-> 0]
    /\ pinned' = {} /\ unsettled' = {} /\ outcome' = STILL_ACTIVE
    /\ UNCHANGED <<device, lane, round, seen, ok, look, losses>> /\ Undisturbed

\* PinLanes returns s.
Exit(s) ==
    /\ pc' = "idle" /\ summary' = s
    /\ outcome' = PinExitCode(install_code, s)
    /\ lane' = 0 /\ round' = 0 /\ losses' = 0 /\ seen' = NoKey /\ ok' = TRUE

\* The driver's control device answers within DRIVER_TIMEOUT.
DriverRuns ==
    /\ pc = "driver" /\ pc' = "root" /\ Undisturbed
    /\ UNCHANGED <<device, lane, round, seen, ok, look, install_code, summary, outcome,
                   pinned, losses, unsettled>>

DriverUnavailable ==
    /\ pc = "driver" /\ Disturb /\ UNCHANGED touched
    /\ Exit([summary EXCEPT !.driver_unavailable = TRUE])
    /\ UNCHANGED <<device, look, install_code, pinned, unsettled>>

LiveRoot ==
    /\ pc = "root" /\ pc' = "readRoot" /\ lane' = 0 /\ round' = 0 /\ losses' = 0
    /\ UNCHANGED <<device, seen, ok, look, install_code, summary, outcome, pinned,
                   unsettled>> /\ Undisturbed

NoLiveRoot ==
    /\ pc = "root" /\ Disturb /\ UNCHANGED touched
    /\ Exit([summary EXCEPT !.failed = MaxLanes])
    /\ UNCHANGED <<device, look, install_code, pinned, unsettled>>

\* PinLane returns and PinLanes goes on with the next lane.
LaneDone(success) ==
    LET s == IF success THEN summary ELSE [summary EXCEPT !.failed = @ + 1] IN
    /\ pinned' = IF success THEN pinned \cup {lane} ELSE pinned
    /\ IF lane + 1 = MaxLanes
         THEN Exit(s)
         ELSE /\ pc' = "readRoot" /\ summary' = s /\ lane' = lane + 1
              /\ round' = 0 /\ losses' = 0 /\ seen' = NoKey /\ ok' = TRUE
              /\ UNCHANGED outcome
    /\ UNCHANGED install_code

\* Broken variant: one creation should do.
BadRounds == 2

MAX_ROUNDS == 4

\* Broken variant: the loop goes on until the key settles.
BadNextRound ==
    /\ pc' = "readRoot" /\ round' = round + 1 /\ seen' = NoKey
    /\ UNCHANGED <<lane, ok, install_code, summary, outcome, pinned, losses, unsettled>>

\* The end of the loop's body.
NextRound ==
    IF round + 1 = MAX_ROUNDS
      THEN LaneDone(FALSE) /\ unsettled' = {losses}
      ELSE /\ pc' = "readRoot" /\ round' = round + 1 /\ seen' = NoKey
           /\ UNCHANGED <<lane, ok, install_code, summary, outcome, pinned, losses,
                          unsettled>>

ReadRoot ==
    /\ pc = "readRoot"
    /\ pc' = IF rootNamed THEN "readKey" ELSE "create"
    /\ UNCHANGED <<device, lane, round, seen, ok, look, install_code, summary, outcome,
                   pinned, losses, unsettled>> /\ Undisturbed

ReadLaneKey ==
    /\ pc = "readKey" /\ pc' = "decide"
    /\ seen' = keys[LaneKeyName(lane)]
    /\ touched' = touched \ {lane}
    /\ unread' = Rivals(lane) /\ collision' = FALSE /\ overlooked' = {}
    /\ UNCHANGED <<device, lane, round, ok, install_code, summary, outcome, pinned,
                   losses, unsettled, disturbances>>

\* ReadVhfKeys comes to the next key, in the registry's order.
ReadVhfKey(n) ==
    /\ pc = "decide" /\ n \in unread /\ keys[n] # NoKey
    /\ unread' = unread \ {n} /\ overlooked' = overlooked \ {n}
    /\ collision' = (collision \/ SomePrefix(keys[n]) = PinnedPrefix(lane))
    /\ UNCHANGED <<device, lane, round, seen, ok, pc, install_code, summary, outcome,
                   pinned, losses, unsettled>> /\ Undisturbed

\* A call of it fails, or an index has moved: what is missing counts as free.
VhfKeysMissed ==
    /\ pc = "decide" /\ unread # {} /\ Disturb /\ UNCHANGED touched
    /\ unread' = {} /\ overlooked' = overlooked \cup unread
    /\ UNCHANGED <<device, lane, round, seen, ok, pc, collision, install_code, summary,
                   outcome, pinned, losses, unsettled>>

\* No key is left to read: the switch on DecidePin.
Decide ==
    /\ pc = "decide" /\ \A n \in unread : keys[n] = NoKey
    /\ unread' = {} /\ collision' = FALSE
    /\ LET action == DecidePin(seen, lane, collision) IN
         IF action \in {"AlreadyPinned", "Collision"}
           THEN LaneDone(action = "AlreadyPinned") /\ UNCHANGED unsettled
           ELSE /\ pc' = CASE action = "Write"       -> "write"
                           [] action = "CreateFirst" -> "create"
                           [] OTHER                  -> "remove"
                /\ UNCHANGED <<lane, round, seen, ok, install_code, summary, outcome,
                               pinned, losses, unsettled>>
    /\ UNCHANGED <<device, overlooked>> /\ Undisturbed

\* RegSetKeyValueW makes the key if it is gone; Windows never installs that one.
WritePrefix ==
    /\ pc = "write"
    /\ keys' = [keys EXCEPT ![LaneKeyName(lane)] =
                  Key(@ # NoKey /\ @.installed, PinnedPrefix(lane))]
    /\ LaneDone(TRUE)
    /\ UNCHANGED <<rootNamed, holders, node, mouse, look, unsettled>> /\ Undisturbed

\* A write, removal or creation fails and PinLane gives the lane up.
CallFails ==
    /\ pc \in {"write", "remove", "create"} /\ Disturb /\ UNCHANGED touched
    /\ LaneDone(FALSE)
    /\ UNCHANGED <<device, look, unsettled>>

\* A removed node is gone for whoever held it.
Removed(l) ==
    /\ keys' = [keys EXCEPT ![LaneKeyName(l)] = NoKey]
    /\ holders' = [holders EXCEPT ![l] = {}]
    /\ node' = [node EXCEPT ![l] = "absent"]
    /\ mouse' = [mouse EXCEPT ![l] = NoPrefix]
    /\ UNCHANGED rootNamed

\* It fails when the node is no longer known.
RemoveDeviceInstance ==
    /\ pc = "remove" /\ UNCHANGED look /\ Undisturbed
    /\ IF keys[LaneKeyName(lane)] = NoKey
         THEN LaneDone(FALSE) /\ UNCHANGED <<device, unsettled>>
         ELSE /\ pc' = "create" /\ Removed(lane)
              /\ UNCHANGED <<lane, round, seen, ok, install_code, summary, outcome,
                             pinned, losses, unsettled>>

-----------------------------------------------------------------------------
(* CreateOnce *)

Goto(to, success) ==
    /\ pc' = to /\ ok' = success
    /\ UNCHANGED <<lane, round, seen, look, install_code, summary, outcome, pinned,
                   losses, unsettled>>

\* A second start of a lane another program holds may be refused or not.
StartDevice ==
    /\ pc = "create" /\ Undisturbed
    /\ \/ /\ holders' = [holders EXCEPT ![lane] = @ \cup {"setup"}]
          /\ Goto("mouse", TRUE)
       \/ holders[lane] # {} /\ Goto("destroy", FALSE) /\ UNCHANGED holders
    /\ UNCHANGED <<keys, rootNamed, node, mouse>>

StartFails ==
    /\ pc = "create" /\ Disturb /\ UNCHANGED touched
    /\ Goto("destroy", FALSE) /\ UNCHANGED device

MouseStarts ==
    /\ pc = "mouse" /\ mouse[lane] # NoPrefix
    /\ Goto("destroy", TRUE) /\ UNCHANGED device /\ Undisturbed

\* After 15 s; Windows is slow, or the mouse cannot come.
MouseTimeout ==
    /\ pc = "mouse" /\ mouse[lane] = NoPrefix
    /\ \/ (node[lane] # "absent" \/ holders[lane] = {}) /\ Undisturbed
       \/ Disturb /\ UNCHANGED touched
    /\ Goto("destroy", FALSE) /\ UNCHANGED device

\* WinUHidStopDevice (if started) and WinUHidDestroyDevice
DestroyDevice ==
    /\ pc = "destroy"
    /\ holders' = [holders EXCEPT ![lane] = @ \ {"setup"}]
    /\ node' = [node EXCEPT ![lane] = IF @ = "setup" /\ "app" \in holders[lane]
                                        THEN "app" ELSE @]
    /\ Goto("gone", ok) /\ UNCHANGED <<keys, rootNamed, mouse>> /\ Undisturbed

\* CreateOnce returns: PinLane gives the lane up or begins the next round.
Created(success) ==
    /\ IF success THEN NextRound ELSE LaneDone(FALSE) /\ UNCHANGED unsettled
    /\ UNCHANGED look

\* Broken variant: the next round begins while the device is still there.
BadDeviceGone ==
    /\ pc = "gone" /\ Created(ok) /\ UNCHANGED device /\ Undisturbed

DeviceGone ==
    /\ pc = "gone" /\ node[lane] = "absent"
    /\ Created(ok) /\ UNCHANGED device /\ Undisturbed

\* After 10 s; Windows is slow, or a program holds the lane.
GoneTimeout ==
    /\ pc = "gone" /\ node[lane] # "absent"
    /\ \/ holders[lane] # {} /\ Undisturbed
       \/ Disturb /\ UNCHANGED touched
    /\ Created(FALSE)
    /\ node' = [node EXCEPT ![lane] = "left"]
    /\ UNCHANGED <<keys, rootNamed, holders, mouse>>

-----------------------------------------------------------------------------
(* Windows and other programs. *)

Outside == UNCHANGED <<pc, lane, round, seen, ok, look, install_code, summary, outcome,
                       pinned, unsettled>>
Meddle(l) ==
    /\ Disturb
    /\ touched' = touched \cup {l}
    /\ losses' = IF pc \notin {"idle", "driver", "root"} /\ l = lane
                   THEN losses + 1 ELSE losses

\* A started lane's node and mouse come up, under the key it has or a new one.
PnpArrives(l) ==
    /\ holders[l] # {} /\ node[l] = "absent"
    /\ node' = [node EXCEPT ![l] = IF "app" \in holders[l] THEN "app" ELSE "setup"]
    /\ rootNamed' = TRUE
    /\ LET key == keys[LaneKeyName(l)]
           prefix == IF SomePrefix(key) = NoPrefix THEN Generated ELSE key.prefix
       IN IF key = NoKey \/ key.installed
            THEN /\ keys' = [keys EXCEPT ![LaneKeyName(l)] = Key(TRUE, prefix)]
                 /\ mouse' = [mouse EXCEPT ![l] = prefix]
            ELSE UNCHANGED <<keys, mouse>>
    /\ UNCHANGED <<holders, losses>> /\ Outside /\ Undisturbed

\* The node comes up but its driver is not installed (CONFIGFLAG_FAILED_INSTALL).
PnpFails(l) ==
    /\ holders[l] # {} /\ node[l] = "absent" /\ Meddle(l)
    /\ node' = [node EXCEPT ![l] = IF "app" \in holders[l] THEN "app" ELSE "setup"]
    /\ rootNamed' = TRUE
    /\ keys' = [keys EXCEPT ![LaneKeyName(l)] = Key(FALSE, SomePrefix(@))]
    /\ UNCHANGED <<holders, mouse>> /\ Outside

PnpDeparts(l) ==
    /\ holders[l] = {} /\ node[l] # "absent"
    /\ node' = [node EXCEPT ![l] = "absent"]
    /\ mouse' = [mouse EXCEPT ![l] = NoPrefix]
    /\ UNCHANGED <<keys, rootNamed, holders, losses>> /\ Outside /\ Undisturbed

\* Windows or its user removes a lane's device.
KeyLost(l) ==
    /\ keys[LaneKeyName(l)] # NoKey /\ Meddle(l)
    /\ Removed(l) /\ Outside

\* A program starts or stops a lane.
AppTakes(l) ==
    /\ "app" \notin holders[l] /\ Disturb /\ UNCHANGED touched
    /\ holders' = [holders EXCEPT ![l] = @ \cup {"app"}]
    /\ UNCHANGED <<keys, rootNamed, node, mouse, losses>> /\ Outside

AppReleases(l) ==
    /\ "app" \in holders[l]
    /\ holders' = [holders EXCEPT ![l] = @ \ {"app"}]
    /\ UNCHANGED <<keys, rootNamed, node, mouse, losses>> /\ Outside /\ Undisturbed

\* Another device under VHF arrives, takes a prefix, or goes, at any time.
ForeignTakes(f, key) ==
    /\ keys[<<"other", f>>] # key /\ Disturb
    /\ keys' = [keys EXCEPT ![<<"other", f>>] = key]
    /\ overlooked' = IF pc \in {"decide", "write"}
                       THEN overlooked \cup {<<"other", f>>} ELSE overlooked
    /\ UNCHANGED <<rootNamed, holders, node, mouse, setup, touched, losses, unsettled>>

\* Between two runs the root node is replaced: the keys become orphans.
NewRoot ==
    /\ pc = "idle" /\ Disturb /\ touched' = Lanes
    /\ keys' = [n \in KeyNames |-> CASE n[1] = "old"  -> keys[<<"live", n[2]>>]
                                     [] n[1] = "live" -> NoKey
                                     [] OTHER         -> keys[n]]
    /\ rootNamed' = FALSE
    /\ holders' = [l \in Lanes |-> {}]
    /\ node' = [l \in Lanes |-> "absent"]
    /\ mouse' = [l \in Lanes |-> NoPrefix]
    /\ UNCHANGED losses /\ Outside

\* The setup program dies; the driver takes down the device it held.
Crash ==
    /\ pc # "idle" /\ Disturb /\ UNCHANGED touched
    /\ pc' = "idle" /\ lane' = 0 /\ round' = 0 /\ losses' = 0 /\ seen' = NoKey
    /\ ok' = TRUE /\ unread' = {} /\ collision' = FALSE /\ overlooked' = {}
    /\ holders' = [l \in Lanes |-> holders[l] \ {"setup"}]
    /\ node' = [l \in Lanes |-> IF node[l] = "setup" THEN "left" ELSE node[l]]
    /\ UNCHANGED <<keys, rootNamed, mouse, install_code, summary, outcome,
                   pinned, unsettled>>

-----------------------------------------------------------------------------

PinStep ==
    \/ DriverRuns \/ LiveRoot \/ ReadRoot \/ ReadLaneKey \/ Decide \/ WritePrefix
    \/ \E n \in unread : ReadVhfKey(n)
    \/ RemoveDeviceInstance \/ StartDevice \/ MouseStarts \/ DestroyDevice
    \/ DeviceGone

Timeouts == MouseTimeout \/ GoneTimeout
Failures ==
    DriverUnavailable \/ NoLiveRoot \/ VhfKeysMissed \/ CallFails \/ StartFails \/ Crash

Pnp(l) == PnpArrives(l) \/ PnpDeparts(l)

Next ==
    \/ FinishWithPins \/ PinStep \/ Timeouts \/ Failures \/ NewRoot
    \/ \E f \in Foreign, key \in ForeignKeys : ForeignTakes(f, key)
    \/ \E l \in Lanes : Pnp(l) \/ PnpFails(l) \/ KeyLost(l) \/ AppTakes(l) \/ AppReleases(l)

\* The program runs on, its waits end, Windows brings nodes up and down, and
\* the user runs the install again, as its log tells him to.
Fairness ==
    /\ WF_vars(PinStep) /\ WF_vars(Timeouts) /\ WF_vars(FinishWithPins)
    /\ \A l \in Lanes : WF_vars(Pnp(l))

Spec == Init /\ [][Next]_vars /\ Fairness
=============================================================================
