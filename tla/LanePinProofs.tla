----------------------------- MODULE LanePinProofs -----------------------------
(***************************************************************************)
(* What LanePinProps says of pinning, proved for every number of lanes and *)
(* devices and without the bound on disturbances playing a part.           *)
(*                                                                         *)
(* The invariant has one part per thing the code relies on without looking *)
(* again: who holds the device it creates, what a started mouse says of    *)
(* its key, how old the key it read is, and how many rounds it has had.    *)
(***************************************************************************)
EXTENDS LanePinProps, TLAPS

InLane == {"readRoot", "readKey", "decide", "write", "remove", "create", "mouse",
           "destroy", "gone"}

Installed(l) == keys[LaneKeyName(l)] # NoKey /\ keys[LaneKeyName(l)].installed
Settled(l) == rootNamed /\ Installed(l)
SeenInstalled == seen # NoKey /\ seen.installed

\* PinLanes counts each lane it is done with, as pinned or as failed.
CountInv ==
    /\ pc # "idle" => outcome = STILL_ACTIVE /\ ~summary.driver_unavailable
    /\ pc \in {"driver", "root"} => pinned = {} /\ summary.failed = 0
    /\ pc \in InLane => /\ \A l \in pinned : l < lane
                        /\ summary.failed <= lane
                        /\ summary.failed = 0 => \A l \in Lanes : l < lane => l \in pinned
    /\ outcome \in {0, 3010} /\ ~summary.driver_unavailable => Lanes \subseteq pinned

\* Setup's own device is the current lane's, and only within CreateOnce.
NodeInv ==
    \A l \in Lanes :
        /\ node[l] = "setup" => l = lane /\ pc \in {"mouse", "destroy", "gone"}
        /\ "setup" \in holders[l] => l = lane /\ pc \in {"mouse", "destroy"}

\* A mouse that has started has an installed key.
MouseInv ==
    \A l \in Lanes : mouse[l] # NoPrefix => Settled(l) /\ node[l] # "absent"

\* What PinLane knows of the key it read, unless Windows meddled since.
SeenInv ==
    /\ pc \in {"readKey", "decide", "write", "remove"} => rootNamed
    /\ pc = "write" => SeenInstalled
    /\ pc \in {"decide", "write"} /\ lane \notin touched /\ SeenInstalled =>
         /\ Installed(lane)
         /\ seen.prefix = PinnedPrefix(lane) => keys[LaneKeyName(lane)].prefix = PinnedPrefix(lane)

PinnedInv == \A l \in pinned \ touched : IsPinned(l)

\* A rival that holds the prefix has been read, is still to be read, or was
\* overlooked; when PinLane writes, only the last is left.
FreeInv ==
    pc \in {"decide", "write"} =>
        \A n \in Rivals(lane) : SomePrefix(keys[n]) = PinnedPrefix(lane) =>
            n \in overlooked \/ (pc = "decide" /\ (n \in unread \/ collision))

\* A lane has used up one round more than Windows took its key away, at most.
RoundInv ==
    /\ losses \in Nat
    /\ pc \in {"readRoot", "readKey"} =>
         round = 0 \/ (Settled(lane) /\ losses >= round - 1) \/ losses >= round
    /\ pc = "decide" =>
         round = 0 \/ (SeenInstalled /\ losses >= round - 1) \/ losses >= round
    /\ pc \in {"remove", "create", "mouse"} => losses >= round
    /\ pc \in {"destroy", "gone"} /\ ok =>
         (Settled(lane) /\ losses >= round) \/ losses >= round + 1
    /\ UnsettledMeansLost

PinInv == TypeOK /\ CountInv /\ NodeInv /\ MouseInv /\ SeenInv /\ PinnedInv
              /\ FreeInv /\ RoundInv

USE PinAssumption DEF Lanes

-----------------------------------------------------------------------------
(* What a lane's end does to the variables of PinLanes. *)

LEMMA LaneDoneFacts ==
  ASSUME NEW success, LaneDone(success)
  PROVE  /\ pc' \in {"idle", "readRoot"} /\ round' = 0 /\ losses' = 0
         /\ pinned' = IF success THEN pinned \cup {lane} ELSE pinned
  BY DEF LaneDone, Exit

LEMMA LaneDoneTyped ==
  ASSUME SetupOK, CountInv, pc \in InLane, NEW success, LaneDone(success)
  PROVE  SetupOK'
<1>1. summary.failed \in 0 .. lane /\ lane \in 0 .. MaxLanes - 1
  BY DEF SetupOK, CountInv
<1>2. lane + 1 # MaxLanes => lane + 1 \in 0 .. MaxLanes - 1
  BY <1>1
<1>3. [summary EXCEPT !.failed = @ + 1] \in [driver_unavailable : BOOLEAN, failed : 0 .. MaxLanes]
  BY <1>1 DEF SetupOK
<1>4. summary' \in [driver_unavailable : BOOLEAN, failed : 0 .. MaxLanes]
  BY <1>3 DEF LaneDone, Exit, SetupOK
<1>5. pinned' \subseteq Lanes
  BY DEF LaneDone, SetupOK
<1>6. outcome' \in {STILL_ACTIVE, 0, 1, 3010}
  BY DEF LaneDone, Exit, PinExitCode, SetupOK
<1>7. pc' \in {"idle", "readRoot"} /\ round' = 0 /\ seen' = NoKey /\ ok' = TRUE /\ lane' \in Lanes
      /\ install_code' = install_code
  BY <1>1, <1>2 DEF LaneDone, Exit
<1>8. QED
  BY <1>4, <1>5, <1>6, <1>7 DEF SetupOK

LEMMA LaneDoneCounted ==
  ASSUME SetupOK, CountInv, pc \in InLane, NEW success \in BOOLEAN, LaneDone(success)
  PROVE  CountInv'
<1>1. /\ summary.failed \in 0 .. lane /\ lane \in 0 .. MaxLanes - 1
      /\ outcome = STILL_ACTIVE /\ ~summary.driver_unavailable
      /\ \A l \in pinned : l < lane
      /\ summary.failed = 0 => \A l \in Lanes : l < lane => l \in pinned
  BY DEF SetupOK, CountInv, InLane
<1>2. summary' = IF success THEN summary ELSE [summary EXCEPT !.failed = @ + 1]
  BY DEF LaneDone, Exit
<1>3. /\ ~summary'.driver_unavailable /\ summary'.failed \in 0 .. lane + 1
      /\ summary'.failed = 0 => success /\ summary.failed = 0
  BY <1>1, <1>2 DEF SetupOK
<1>4. /\ \A l \in pinned' : l < lane + 1
      /\ summary'.failed = 0 => \A l \in Lanes : l < lane + 1 => l \in pinned'
  <2>1. pinned' = IF success THEN pinned \cup {lane} ELSE pinned
    BY DEF LaneDone
  <2>2. \A l \in pinned' : l < lane + 1
    BY <2>1, <1>1 DEF SetupOK
  <2>3. ASSUME NEW l \in Lanes, summary'.failed = 0, l < lane + 1 PROVE l \in pinned'
    <3>1. l < lane \/ l = lane
      BY <2>3, <1>1
    <3>2. QED
      BY <3>1, <2>1, <2>3, <1>1, <1>3
  <2>4. QED
    BY <2>2, <2>3
<1>5. CASE lane + 1 = MaxLanes
  <2>1. pc' = "idle" /\ outcome' = IF summary'.failed > 0 THEN 1 ELSE install_code
    BY <1>5, <1>3, <1>2 DEF LaneDone, Exit, PinExitCode
  <2>2. outcome' \in {0, 3010} => summary'.failed = 0
    BY <2>1, <1>3
  <2>3. QED
    BY <2>1, <2>2, <1>3, <1>4, <1>5 DEF CountInv, InLane
<1>6. CASE lane + 1 # MaxLanes
  <2>1. pc' = "readRoot" /\ lane' = lane + 1 /\ outcome' = STILL_ACTIVE
    BY <1>6, <1>1 DEF LaneDone
  <2>2. QED
    BY <2>1, <1>3, <1>4 DEF CountInv, InLane, STILL_ACTIVE
<1>7. QED
  BY <1>5, <1>6

-----------------------------------------------------------------------------
(* What reading the other keys does, and what other devices do. *)

LookStep == (\E n \in unread : ReadVhfKey(n)) \/ VhfKeysMissed

LEMMA LookFacts ==
  ASSUME LookStep
  PROVE  /\ pc = "decide" /\ pc' = "decide" /\ touched' = touched
         /\ UNCHANGED <<device, lane, round, seen, ok, install_code, summary, outcome,
                        pinned, losses, unsettled>>
  BY DEF LookStep, ReadVhfKey, VhfKeysMissed, Undisturbed

ForeignStep == \E f \in Foreign, key \in ForeignKeys : ForeignTakes(f, key)

LEMMA ForeignFacts ==
  ASSUME ForeignStep
  PROVE  /\ \E f \in Foreign, key \in LaneKeys \cup {NoKey} :
              keys' = [keys EXCEPT ![<<"other", f>>] = key]
         /\ UNCHANGED <<rootNamed, holders, node, mouse, setup, touched, losses, unsettled>>
<1>1. ForeignKeys \subseteq LaneKeys \cup {NoKey}
  BY DEF ForeignKeys, LaneKeys, Prefixes
<1>2. QED
  BY <1>1 DEF ForeignStep, ForeignTakes

-----------------------------------------------------------------------------
(* Types. *)

LEMMA NextRoundTyped ==
  ASSUME SetupOK, CountInv, pc \in InLane, NEW success \in BOOLEAN, Created(success)
  PROVE  SetupOK' /\ CountInv'
<1>1. CASE success /\ round + 1 # MAX_ROUNDS
  <2>1. /\ pc' = "readRoot" /\ round' = round + 1 /\ seen' = NoKey
        /\ UNCHANGED <<lane, ok, install_code, summary, outcome, pinned>>
    BY <1>1 DEF Created, NextRound
  <2>2. round + 1 \in 0 .. 3
    BY <1>1 DEF SetupOK, MAX_ROUNDS
  <2>3. SetupOK'
    BY <2>1, <2>2 DEF SetupOK
  <2>4. CountInv'
    BY <2>1 DEF CountInv, InLane
  <2>5. QED
    BY <2>3, <2>4
<1>2. CASE ~(success /\ round + 1 # MAX_ROUNDS)
  <2>1. LaneDone(FALSE)
    BY <1>2 DEF Created, NextRound
  <2>2. QED
    BY <2>1, LaneDoneTyped, LaneDoneCounted
<1>3. QED
  BY <1>1, <1>2

(* SetupOK and CountInv go together: no more lanes fail than there are.     *)
LEMMA SetupStep == TypeOK /\ CountInv /\ [Next]_vars => SetupOK' /\ CountInv'
<1> SUFFICES ASSUME TypeOK, CountInv, [Next]_vars PROVE SetupOK' /\ CountInv'
  OBVIOUS
<1> USE DEF TypeOK
<1>1. CASE FinishWithPins
  BY <1>1 DEF FinishWithPins, SetupOK, CountInv, InLane, STILL_ACTIVE
<1>2. CASE DriverRuns \/ LiveRoot
  <2>1. /\ pc \in {"driver", "root"} /\ pc' \in {"root", "readRoot"}
        /\ (pc' = "root" => lane' = lane /\ round' = round)
        /\ (pc' = "readRoot" => lane' = 0 /\ round' = 0)
        /\ UNCHANGED <<seen, ok, install_code, summary, outcome, pinned>>
    BY <1>2 DEF DriverRuns, LiveRoot
  <2>2. SetupOK'
    BY <2>1 DEF SetupOK
  <2>3. CountInv'
    BY <2>1 DEF SetupOK, CountInv, InLane
  <2>4. QED
    BY <2>2, <2>3
<1>3. CASE DriverUnavailable \/ NoLiveRoot
  <2>1. pc \in {"driver", "root"} /\ pc' = "idle" /\ pinned' = pinned
        /\ lane' = 0 /\ round' = 0 /\ seen' = NoKey /\ ok' = TRUE
        /\ install_code' = install_code
        /\ outcome' = PinExitCode(install_code, summary')
    BY <1>3 DEF DriverUnavailable, NoLiveRoot, Exit
  <2>2. summary' \in [driver_unavailable : BOOLEAN, failed : 0 .. MaxLanes]
        /\ (summary'.driver_unavailable \/ summary'.failed = MaxLanes)
    <3>1. summary \in [driver_unavailable : BOOLEAN, failed : 0 .. MaxLanes]
      BY DEF SetupOK
    <3>2. CASE summary' = [summary EXCEPT !.driver_unavailable = TRUE]
      BY <3>1, <3>2
    <3>3. CASE summary' = [summary EXCEPT !.failed = MaxLanes]
      BY <3>1, <3>3
    <3>4. QED
      BY <1>3, <3>2, <3>3 DEF DriverUnavailable, NoLiveRoot, Exit
  <2>3. outcome' \in {1, 3010} /\ (~summary'.driver_unavailable => outcome' = 1)
    BY <2>1, <2>2 DEF PinExitCode, SetupOK
  <2>4. QED
    BY <2>1, <2>2, <2>3 DEF SetupOK, CountInv, InLane
<1>4. CASE ReadRoot \/ ReadLaneKey
  <2>1. /\ pc \in InLane /\ pc' \in {"readKey", "create", "decide"}
        /\ seen' \in {seen, keys[LaneKeyName(lane)]}
        /\ UNCHANGED <<lane, round, ok, install_code, summary, outcome, pinned>>
    BY <1>4 DEF ReadRoot, ReadLaneKey, InLane
  <2>2. keys[LaneKeyName(lane)] \in LaneKeys \cup {NoKey}
    BY DEF SetupOK, DeviceOK, KeyNames, LaneKeyName
  <2>3. SetupOK'
    BY <2>1, <2>2 DEF SetupOK
  <2>4. CountInv'
    BY <2>1 DEF CountInv, InLane
  <2>5. QED
    BY <2>3, <2>4
<1>5. CASE Decide
  <2>1. pc \in InLane
    BY <1>5 DEF Decide, InLane
  <2>2. CASE \E b \in BOOLEAN : LaneDone(b)
    BY <2>1, <2>2, LaneDoneTyped, LaneDoneCounted
  <2>3. CASE /\ pc' \in {"write", "create", "remove"}
             /\ UNCHANGED <<lane, round, seen, ok, install_code, summary, outcome, pinned>>
    BY <2>1, <2>3 DEF SetupOK, CountInv, InLane
  <2>4. QED
    BY <1>5, <2>2, <2>3 DEF Decide
<1>6. CASE WritePrefix \/ CallFails
  BY <1>6, LaneDoneTyped, LaneDoneCounted DEF WritePrefix, CallFails, InLane
<1>7. CASE RemoveDeviceInstance
  <2>1. pc \in InLane
    BY <1>7 DEF RemoveDeviceInstance, InLane
  <2>2. CASE LaneDone(FALSE)
    BY <2>1, <2>2, LaneDoneTyped, LaneDoneCounted
  <2>3. CASE pc' = "create" /\ UNCHANGED <<lane, round, seen, ok, install_code, summary,
                                            outcome, pinned>>
    BY <2>1, <2>3 DEF SetupOK, CountInv, InLane
  <2>4. QED
    BY <1>7, <2>2, <2>3 DEF RemoveDeviceInstance
<1>8. CASE StartDevice \/ StartFails \/ MouseStarts \/ MouseTimeout \/ DestroyDevice
  <2>1. /\ pc \in InLane /\ pc' \in {"mouse", "destroy", "gone"} /\ ok' \in BOOLEAN
        /\ UNCHANGED <<lane, round, seen, install_code, summary, outcome, pinned>>
    <3>1. ok \in BOOLEAN
      BY DEF SetupOK
    <3>2. CASE StartDevice \/ StartFails
      BY <3>1, <3>2 DEF StartDevice, StartFails, Goto, InLane
    <3>3. CASE MouseStarts \/ MouseTimeout \/ DestroyDevice
      BY <3>1, <3>3 DEF MouseStarts, MouseTimeout, DestroyDevice, Goto, InLane
    <3>4. QED
      BY <1>8, <3>2, <3>3
  <2>2. QED
    BY <2>1 DEF SetupOK, CountInv, InLane
<1>9. CASE DeviceGone \/ GoneTimeout
  <2>1. pc \in InLane
    BY <1>9 DEF DeviceGone, GoneTimeout, InLane
  <2>2. ok \in BOOLEAN
    BY DEF SetupOK
  <2>3. CASE Created(ok)
    BY <2>1, <2>2, <2>3, NextRoundTyped
  <2>4. CASE Created(FALSE)
    BY <2>1, <2>4, NextRoundTyped
  <2>5. QED
    BY <1>9, <2>3, <2>4 DEF DeviceGone, GoneTimeout
<1>10. CASE Crash
  BY <1>10 DEF Crash, SetupOK, CountInv, InLane, STILL_ACTIVE
<1>11. CASE NewRoot \/ (\E l \in Lanes : Pnp(l) \/ PnpFails(l) \/ KeyLost(l)
                          \/ AppTakes(l) \/ AppReleases(l))
  <2>1. Outside
    BY <1>11 DEF NewRoot, Pnp, PnpArrives, PnpDeparts, PnpFails, KeyLost, AppTakes, AppReleases
  <2>2. QED
    BY <2>1 DEF Outside, SetupOK, CountInv, InLane
<1>12. CASE ForeignStep \/ UNCHANGED vars
  <2>1. UNCHANGED setup
    BY <1>12, ForeignFacts DEF vars
  <2>2. QED
    BY <2>1 DEF setup, SetupOK, CountInv, InLane
<1>13. CASE LookStep
  <2>1. /\ pc = "decide" /\ pc' = "decide"
        /\ UNCHANGED <<lane, round, seen, ok, install_code, summary, outcome, pinned>>
    BY <1>13, LookFacts
  <2>2. SetupOK'
    BY <2>1 DEF SetupOK
  <2>3. CountInv'
    BY <2>1 DEF CountInv, InLane
  <2>4. QED
    BY <2>2, <2>3
<1>14. QED
  BY <1>1, <1>2, <1>3, <1>4, <1>5, <1>6, <1>7, <1>8, <1>9, <1>10, <1>11, <1>12, <1>13
     DEF Next, PinStep, Timeouts, Failures, LookStep, ForeignStep

(* ReadVhfKeys only reads on, and starts anew with each look.               *)
LEMMA LookOKStep == TypeOK /\ [Next]_vars => LookOK'
<1> SUFFICES ASSUME TypeOK, [Next]_vars PROVE unread' \subseteq KeyNames /\ collision' \in BOOLEAN
  BY DEF LookOK, KeyNames
<1>0. unread \subseteq KeyNames /\ collision \in BOOLEAN
  BY DEF TypeOK, LookOK
<1>1. CASE FinishWithPins \/ DriverRuns \/ LiveRoot \/ DriverUnavailable \/ NoLiveRoot \/ ReadRoot
  BY <1>0, <1>1 DEF FinishWithPins, DriverRuns, LiveRoot, DriverUnavailable, NoLiveRoot,
                    ReadRoot, look
<1>2. CASE ReadLaneKey
  BY <1>2 DEF ReadLaneKey, Rivals
<1>3. CASE LookStep
  <2>1. CASE VhfKeysMissed
    BY <1>0, <2>1 DEF VhfKeysMissed
  <2>2. ASSUME NEW n \in unread, ReadVhfKey(n)
        PROVE  unread' \subseteq KeyNames /\ collision' \in BOOLEAN
    BY <1>0, <2>2 DEF ReadVhfKey
  <2>3. QED
    BY <1>3, <2>1, <2>2 DEF LookStep
<1>4. CASE Decide \/ Crash
  BY <1>4 DEF Decide, Crash
<1>5. CASE WritePrefix \/ CallFails \/ RemoveDeviceInstance
  BY <1>0, <1>5 DEF WritePrefix, CallFails, RemoveDeviceInstance, look
<1>6. CASE StartDevice \/ StartFails \/ MouseStarts \/ MouseTimeout \/ DestroyDevice
  BY <1>0, <1>6 DEF StartDevice, StartFails, MouseStarts, MouseTimeout, DestroyDevice, Goto, look
<1>7. CASE DeviceGone \/ GoneTimeout
  BY <1>0, <1>7 DEF DeviceGone, GoneTimeout, Created, look
<1>8. CASE NewRoot \/ (\E l \in Lanes : Pnp(l) \/ PnpFails(l) \/ KeyLost(l)
                          \/ AppTakes(l) \/ AppReleases(l))
  <2>1. Outside
    BY <1>8 DEF NewRoot, Pnp, PnpArrives, PnpDeparts, PnpFails, KeyLost, AppTakes, AppReleases
  <2>2. QED
    BY <1>0, <2>1 DEF Outside, look
<1>9. CASE ForeignStep \/ UNCHANGED vars
  <2>1. UNCHANGED setup
    BY <1>9, ForeignFacts DEF vars
  <2>2. QED
    BY <1>0, <2>1 DEF setup
<1>10. QED
  BY <1>1, <1>2, <1>3, <1>4, <1>5, <1>6, <1>7, <1>8, <1>9
     DEF Next, PinStep, Timeouts, Failures, LookStep, ForeignStep

-----------------------------------------------------------------------------
(* The device side. *)

LEMMA KeyFacts ==
  /\ \A l \in Lanes : LaneKeyName(l) \in KeyNames
  /\ \A l, m \in Lanes : LaneKeyName(l) = LaneKeyName(m) => l = m
  /\ \A b \in BOOLEAN, p \in Prefixes :
       /\ Key(b, p) \in LaneKeys /\ Key(b, p) # NoKey
       /\ Key(b, p).installed = b /\ Key(b, p).prefix = p
  /\ \A k \in LaneKeys : k.installed \in BOOLEAN /\ k.prefix \in Prefixes
  /\ \A k \in LaneKeys \cup {NoKey} : SomePrefix(k) \in Prefixes
  /\ \A l \in Lanes : PinnedPrefix(l) = l /\ l \in Prefixes
                      /\ l # NoPrefix /\ l # Generated
  /\ NoPrefix \in Prefixes /\ Generated \in Prefixes
<1>1. \A l \in Lanes : LaneKeyName(l) \in KeyNames
  BY DEF LaneKeyName, KeyNames
<1>2. \A l, m \in Lanes : LaneKeyName(l) = LaneKeyName(m) => l = m
  BY DEF LaneKeyName
<1>3. \A b \in BOOLEAN, p \in Prefixes :
        /\ Key(b, p) \in LaneKeys
        /\ Key(b, p).installed = b /\ Key(b, p).prefix = p
  BY DEF Key, LaneKeys
<1>4. \A k \in LaneKeys : k.installed \in BOOLEAN /\ k.prefix \in Prefixes
  BY DEF LaneKeys
<1>5. NoKey \notin LaneKeys
  BY DEF PinAssumption
<1>6. NoPrefix \in Prefixes /\ Generated \in Prefixes
  BY DEF Prefixes
<1>7. \A k \in LaneKeys \cup {NoKey} : SomePrefix(k) \in Prefixes
  BY <1>4, <1>6 DEF SomePrefix
<1>8. \A l \in Lanes : PinnedPrefix(l) = l /\ l \in Prefixes
                       /\ l # NoPrefix /\ l # Generated
  BY DEF PinnedPrefix, Prefixes, PinAssumption
<1>9. QED
  BY <1>1, <1>2, <1>3, <1>4, <1>5, <1>6, <1>7, <1>8

LEMMA SetKey ==
  ASSUME DeviceOK, NEW l \in Lanes, NEW k, keys' = [keys EXCEPT ![LaneKeyName(l)] = k]
  PROVE  /\ keys'[LaneKeyName(l)] = k
         /\ \A m \in Lanes : m # l => keys'[LaneKeyName(m)] = keys[LaneKeyName(m)]
         /\ \A n \in KeyNames : n # LaneKeyName(l) => keys'[n] = keys[n]
<1>1. LaneKeyName(l) \in KeyNames /\ \A m \in Lanes : LaneKeyName(m) \in KeyNames
  BY KeyFacts
<1>2. \A m \in Lanes : m # l => LaneKeyName(m) # LaneKeyName(l)
  BY KeyFacts
<1>3. QED
  BY <1>1, <1>2 DEF DeviceOK

LEMMA ForeignKeyFacts ==
  ASSUME DeviceOK, ForeignStep
  PROVE  /\ \A l \in Lanes : keys'[LaneKeyName(l)] = keys[LaneKeyName(l)]
         /\ keys' \in [KeyNames -> LaneKeys \cup {NoKey}]
<1>1. PICK f \in Foreign, key \in LaneKeys \cup {NoKey} :
        keys' = [keys EXCEPT ![<<"other", f>>] = key]
  BY ForeignFacts
<1>2. \A l \in Lanes : LaneKeyName(l) # <<"other", f>> /\ LaneKeyName(l) \in KeyNames
  BY DEF LaneKeyName, KeyNames
<1>3. QED
  BY <1>1, <1>2 DEF DeviceOK

(* The steps that leave keys, nodes and mice as they are.                   *)
QuietStep ==
    \/ FinishWithPins \/ DriverRuns \/ DriverUnavailable \/ LiveRoot \/ NoLiveRoot
    \/ ReadRoot \/ ReadLaneKey \/ Decide \/ CallFails \/ StartFails \/ MouseStarts
    \/ MouseTimeout \/ DeviceGone \/ LookStep

LEMMA QuietFacts == QuietStep => UNCHANGED device
<1>1. FinishWithPins \/ DriverRuns \/ DriverUnavailable \/ LiveRoot => UNCHANGED device
  BY DEF FinishWithPins, DriverRuns, DriverUnavailable, LiveRoot
<1>2. NoLiveRoot \/ ReadRoot \/ ReadLaneKey => UNCHANGED device
  BY DEF NoLiveRoot, ReadRoot, ReadLaneKey
<1>3. Decide \/ CallFails \/ DeviceGone => UNCHANGED device
  BY DEF Decide, CallFails, DeviceGone
<1>4. StartFails \/ MouseStarts \/ MouseTimeout => UNCHANGED device
  BY DEF StartFails, MouseStarts, MouseTimeout
<1>5. QED
  BY <1>1, <1>2, <1>3, <1>4, LookFacts DEF QuietStep

LEMMA RemoveFacts ==
  ASSUME RemoveDeviceInstance
  PROVE  \/ UNCHANGED device /\ LaneDone(FALSE) /\ UNCHANGED unsettled
         \/ /\ Removed(lane) /\ pc' = "create"
            /\ UNCHANGED <<lane, round, seen, ok, summary, outcome, pinned, losses, unsettled>>
  BY DEF RemoveDeviceInstance

(* Every step, by what it does to the device side.                          *)
LEMMA StepKinds ==
  ASSUME [Next]_vars
  PROVE  \/ QuietStep \/ UNCHANGED vars
         \/ WritePrefix \/ RemoveDeviceInstance \/ StartDevice \/ DestroyDevice \/ GoneTimeout
         \/ \E l \in Lanes : PnpArrives(l) \/ PnpFails(l)
         \/ \E l \in Lanes : PnpDeparts(l) \/ KeyLost(l)
         \/ \E l \in Lanes : AppTakes(l) \/ AppReleases(l)
         \/ NewRoot \/ Crash \/ ForeignStep
  BY DEF Next, PinStep, Timeouts, Failures, Pnp, QuietStep, LookStep, ForeignStep

LEMMA ArriveKeys ==
  ASSUME TypeOK, NEW l \in Lanes, PnpArrives(l) \/ PnpFails(l)
  PROVE  /\ \/ keys' = keys
               /\ keys[LaneKeyName(l)] # NoKey /\ ~keys[LaneKeyName(l)].installed
            \/ \E k \in LaneKeys :
                 /\ keys' = [keys EXCEPT ![LaneKeyName(l)] = k]
                 /\ k.prefix \in {SomePrefix(keys[LaneKeyName(l)]), Generated}
                 /\ SomePrefix(keys[LaneKeyName(l)]) # NoPrefix =>
                      k.prefix = SomePrefix(keys[LaneKeyName(l)])
                 /\ k # NoKey /\ (PnpArrives(l) => k.installed)
         /\ rootNamed' = TRUE /\ holders' = holders
<1> DEFINE key == keys[LaneKeyName(l)]
<1>1. key \in LaneKeys \cup {NoKey} /\ SomePrefix(key) \in Prefixes
  BY KeyFacts DEF TypeOK, DeviceOK
<1>2. key # NoKey => SomePrefix(key) = key.prefix
  BY DEF SomePrefix
<1>3. key = NoKey => SomePrefix(key) = NoPrefix
  BY DEF SomePrefix
<1>4. CASE PnpArrives(l)
  <2> DEFINE prefix == IF SomePrefix(key) = NoPrefix THEN Generated ELSE key.prefix
  <2>1. prefix \in Prefixes /\ prefix \in {SomePrefix(key), Generated}
        /\ (SomePrefix(key) # NoPrefix => prefix = SomePrefix(key))
    BY <1>1, <1>2, <1>3, KeyFacts
  <2>2. \/ keys' = keys /\ key # NoKey /\ ~key.installed
        \/ keys' = [keys EXCEPT ![LaneKeyName(l)] = Key(TRUE, prefix)]
    BY <1>4 DEF PnpArrives
  <2>3. rootNamed' = TRUE /\ holders' = holders
    BY <1>4 DEF PnpArrives
  <2>4. Key(TRUE, prefix) \in LaneKeys /\ Key(TRUE, prefix).prefix = prefix
        /\ Key(TRUE, prefix).installed /\ Key(TRUE, prefix) # NoKey
    BY <2>1, KeyFacts
  <2> HIDE DEF prefix
  <2>5. QED
    BY <2>1, <2>2, <2>3, <2>4
<1>5. CASE PnpFails(l)
  <2>1. keys' = [keys EXCEPT ![LaneKeyName(l)] = Key(FALSE, SomePrefix(key))]
        /\ rootNamed' = TRUE /\ holders' = holders
    BY <1>5 DEF PnpFails
  <2>2. Key(FALSE, SomePrefix(key)) \in LaneKeys
        /\ Key(FALSE, SomePrefix(key)).prefix = SomePrefix(key)
        /\ Key(FALSE, SomePrefix(key)) # NoKey
    BY <1>1, KeyFacts
  <2>3. CASE ~PnpArrives(l)
    BY <2>1, <2>2, <2>3
  <2>4. QED
    BY <1>4, <2>3
<1>6. QED
  BY <1>4, <1>5

LEMMA WriteFacts ==
  ASSUME DeviceOK, lane \in Lanes, WritePrefix
  PROVE  /\ \E k \in LaneKeys :
              /\ keys' = [keys EXCEPT ![LaneKeyName(lane)] = k]
              /\ k # NoKey /\ k.prefix = lane
              /\ Installed(lane) => k = Key(TRUE, lane)
         /\ UNCHANGED <<rootNamed, holders, node, mouse>>
<1> DEFINE key == keys[LaneKeyName(lane)]
           k == Key(key # NoKey /\ key.installed, PinnedPrefix(lane))
<1>1. key \in LaneKeys \cup {NoKey}
  BY KeyFacts DEF DeviceOK
<1>2. (key # NoKey /\ key.installed) \in BOOLEAN
  OBVIOUS
<1>3. k \in LaneKeys /\ k # NoKey /\ k.prefix = lane
  <2>1. CASE key # NoKey /\ key.installed
    <3>1. k = Key(TRUE, lane)
      BY <2>1 DEF Key, PinnedPrefix
    <3>2. QED
      BY <3>1, KeyFacts
  <2>2. CASE ~(key # NoKey /\ key.installed)
    <3>1. k = Key(FALSE, lane)
      BY <2>2 DEF Key, PinnedPrefix
    <3>2. QED
      BY <3>1, KeyFacts
  <2>3. QED
    BY <2>1, <2>2
<1>4. Installed(lane) => k = Key(TRUE, lane)
  BY DEF Installed, Key, PinnedPrefix
<1>5. keys' = [keys EXCEPT ![LaneKeyName(lane)] = k]
      /\ UNCHANGED <<rootNamed, holders, node, mouse>>
  BY DEF WritePrefix
<1> HIDE DEF k
<1>6. QED
  BY <1>3, <1>4, <1>5

LEMMA DeviceStep == TypeOK /\ [Next]_vars => DeviceOK'
<1> SUFFICES ASSUME TypeOK, [Next]_vars PROVE DeviceOK'
  OBVIOUS
<1>0. DeviceOK /\ lane \in Lanes
  BY DEF TypeOK, SetupOK
<1>1. CASE QuietStep \/ UNCHANGED vars
  BY <1>0, <1>1, QuietFacts DEF vars, device, DeviceOK, KeyNames
<1>2. CASE WritePrefix
  <2>1. /\ \E k \in LaneKeys : keys' = [keys EXCEPT ![LaneKeyName(lane)] = k]
        /\ UNCHANGED <<rootNamed, holders, node, mouse>>
    BY <1>2, <1>0, WriteFacts
  <2>2. keys' \in [KeyNames -> LaneKeys \cup {NoKey}]
    BY <2>1, <1>0 DEF DeviceOK
  <2>3. QED
    BY <2>1, <2>2, <1>0 DEF DeviceOK, KeyNames
<1>3. ASSUME NEW l \in Lanes, Removed(l) PROVE DeviceOK'
  BY <1>0, <1>3, KeyFacts DEF DeviceOK, Removed, KeyNames
<1>4. CASE RemoveDeviceInstance
  BY <1>0, <1>3, <1>4, RemoveFacts DEF device, DeviceOK, KeyNames
<1>5. CASE StartDevice \/ DestroyDevice \/ GoneTimeout
  <2>1. keys' = keys /\ rootNamed' = rootNamed /\ mouse' = mouse
    BY <1>5 DEF StartDevice, DestroyDevice, GoneTimeout
  <2>2. holders' \in [Lanes -> SUBSET {"setup", "app"}]
    <3>1. holders' = holders \/ \E h \in SUBSET {"setup", "app"} :
                                  holders' = [holders EXCEPT ![lane] = h]
      <4>1. holders[lane] \in SUBSET {"setup", "app"}
        BY <1>0 DEF DeviceOK
      <4>2. CASE StartDevice
        BY <4>1, <4>2 DEF StartDevice
      <4>3. CASE DestroyDevice
        BY <4>1, <4>3 DEF DestroyDevice
      <4>4. CASE GoneTimeout
        BY <4>4 DEF GoneTimeout
      <4>5. QED
        BY <1>5, <4>2, <4>3, <4>4
    <3>2. QED
      BY <3>1, <1>0 DEF DeviceOK
  <2>3. node' \in [Lanes -> {"absent", "setup", "app", "left"}]
    BY <1>5, <1>0 DEF StartDevice, DestroyDevice, GoneTimeout, DeviceOK
  <2>4. QED
    BY <2>1, <2>2, <2>3, <1>0 DEF DeviceOK, KeyNames
<1>6. ASSUME NEW l \in Lanes, PnpArrives(l) \/ PnpFails(l) PROVE DeviceOK'
  <2>1. keys' \in [KeyNames -> LaneKeys \cup {NoKey}]
    BY <1>6, <1>0, ArriveKeys, KeyFacts DEF DeviceOK
  <2>2. node' \in [Lanes -> {"absent", "setup", "app", "left"}]
    BY <1>6, <1>0 DEF PnpArrives, PnpFails, DeviceOK
  <2>3. mouse' \in [Lanes -> Prefixes]
    <3>1. SomePrefix(keys[LaneKeyName(l)]) \in Prefixes /\ Generated \in Prefixes
      BY <1>0, KeyFacts DEF DeviceOK
    <3>2. SomePrefix(keys[LaneKeyName(l)]) # NoPrefix =>
            SomePrefix(keys[LaneKeyName(l)]) = keys[LaneKeyName(l)].prefix
      BY DEF SomePrefix
    <3>3. mouse' = mouse \/ \E p \in Prefixes : mouse' = [mouse EXCEPT ![l] = p]
      BY <1>6, <3>1, <3>2 DEF PnpArrives, PnpFails
    <3>4. QED
      BY <3>3, <1>0 DEF DeviceOK
  <2>4. rootNamed' = TRUE /\ holders' = holders
    BY <1>6, ArriveKeys
  <2>5. QED
    BY <2>1, <2>2, <2>3, <2>4, <1>0 DEF DeviceOK, KeyNames
<1>7. ASSUME NEW l \in Lanes, PnpDeparts(l) \/ KeyLost(l) PROVE DeviceOK'
  <2>1. CASE PnpDeparts(l)
    BY <2>1, <1>0, KeyFacts DEF PnpDeparts, DeviceOK, KeyNames
  <2>2. CASE KeyLost(l)
    BY <2>2, <1>3 DEF KeyLost
  <2>3. QED
    BY <1>7, <2>1, <2>2
<1>8. ASSUME NEW l \in Lanes, AppTakes(l) \/ AppReleases(l) PROVE DeviceOK'
  <2>1. UNCHANGED <<keys, rootNamed, node, mouse>>
    BY <1>8 DEF AppTakes, AppReleases
  <2>2. holders' \in [Lanes -> SUBSET {"setup", "app"}]
    BY <1>8, <1>0 DEF AppTakes, AppReleases, DeviceOK
  <2>3. QED
    BY <2>1, <2>2, <1>0 DEF DeviceOK, KeyNames
<1>9. CASE NewRoot
  <2>1. \A n \in KeyNames : n[1] = "old" => <<"live", n[2]>> \in KeyNames
    BY DEF KeyNames
  <2>2. keys' \in [KeyNames -> LaneKeys \cup {NoKey}]
    BY <1>9, <1>0, <2>1 DEF NewRoot, DeviceOK
  <2>3. rootNamed' = FALSE /\ holders' = [l \in Lanes |-> {}]
        /\ node' = [l \in Lanes |-> "absent"] /\ mouse' = [l \in Lanes |-> NoPrefix]
    BY <1>9 DEF NewRoot
  <2>4. QED
    BY <2>2, <2>3, KeyFacts DEF DeviceOK, KeyNames
<1>10. CASE Crash
  <2>1. UNCHANGED <<keys, rootNamed, mouse>>
    BY <1>10 DEF Crash
  <2>2. holders' \in [Lanes -> SUBSET {"setup", "app"}]
    BY <1>10, <1>0 DEF Crash, DeviceOK
  <2>3. node' \in [Lanes -> {"absent", "setup", "app", "left"}]
    BY <1>10, <1>0 DEF Crash, DeviceOK
  <2>4. QED
    BY <2>1, <2>2, <2>3, <1>0 DEF DeviceOK, KeyNames
<1>11. CASE ForeignStep
  BY <1>11, <1>0, ForeignFacts, ForeignKeyFacts DEF DeviceOK, KeyNames
<1>12. QED
  BY StepKinds, <1>1, <1>2, <1>4, <1>5, <1>6, <1>7, <1>8, <1>9, <1>10, <1>11

-----------------------------------------------------------------------------
(* Who holds the device PinLane creates. *)

LEMMA QuietPc ==
  QuietStep => \/ pc \notin {"mouse", "destroy", "gone"}
               \/ pc = "mouse" /\ pc' = "destroy" /\ lane' = lane
               \/ pc = "gone" /\ node[lane] = "absent"
<1>1. FinishWithPins \/ DriverRuns \/ DriverUnavailable \/ LiveRoot \/ NoLiveRoot
        \/ ReadRoot \/ ReadLaneKey \/ Decide => pc \notin {"mouse", "destroy", "gone"}
  BY DEF FinishWithPins, DriverRuns, DriverUnavailable, LiveRoot, NoLiveRoot, ReadRoot,
         ReadLaneKey, Decide
<1>2. CallFails \/ StartFails => pc \notin {"mouse", "destroy", "gone"}
  BY DEF CallFails, StartFails
<1>3. MouseStarts \/ MouseTimeout => pc = "mouse" /\ pc' = "destroy" /\ lane' = lane
  BY DEF MouseStarts, MouseTimeout, Goto
<1>4. DeviceGone => pc = "gone" /\ node[lane] = "absent"
  BY DEF DeviceGone
<1>5. LookStep => pc \notin {"mouse", "destroy", "gone"}
  BY LookFacts
<1>6. QED
  BY <1>1, <1>2, <1>3, <1>4, <1>5 DEF QuietStep

LEMMA NodeStep == TypeOK /\ NodeInv /\ [Next]_vars => NodeInv'
<1> SUFFICES ASSUME TypeOK, NodeInv, [Next]_vars PROVE NodeInv'
  OBVIOUS
<1>0. /\ lane \in Lanes /\ holders \in [Lanes -> SUBSET {"setup", "app"}]
      /\ node \in [Lanes -> {"absent", "setup", "app", "left"}]
  BY DEF TypeOK, DeviceOK, SetupOK
<1>1. CASE QuietStep
  <2>1. node' = node /\ holders' = holders
    BY <1>1, QuietFacts DEF device
  <2>2. QED
    BY <1>1, <2>1, QuietPc DEF NodeInv
<1>2. CASE UNCHANGED vars
  BY <1>2 DEF NodeInv, vars, device, setup
<1>3. CASE WritePrefix
  BY <1>3 DEF WritePrefix, NodeInv
<1>4. CASE RemoveDeviceInstance
  <2>1. pc = "remove"
    BY <1>4 DEF RemoveDeviceInstance
  <2>2. \A l \in Lanes : node[l] # "setup" /\ "setup" \notin holders[l]
    BY <2>1 DEF NodeInv
  <2>3. CASE UNCHANGED device
    BY <2>2, <2>3 DEF NodeInv, device
  <2>4. CASE Removed(lane)
    BY <2>2, <2>4, <1>0 DEF NodeInv, Removed
  <2>5. QED
    BY <1>4, <2>3, <2>4, RemoveFacts
<1>5. CASE StartDevice
  <2>1. /\ \A l \in Lanes : node[l] # "setup" /\ "setup" \notin holders[l]
        /\ node' = node /\ lane' = lane
    BY <1>5 DEF StartDevice, Goto, NodeInv
  <2>2. \/ holders' = [holders EXCEPT ![lane] = @ \cup {"setup"}] /\ pc' = "mouse"
        \/ holders' = holders
    BY <1>5 DEF StartDevice, Goto
  <2>3. QED
    BY <2>1, <2>2, <1>0 DEF NodeInv
<1>6. CASE DestroyDevice
  <2>1. /\ pc' = "gone" /\ lane' = lane /\ pc = "destroy"
        /\ holders' = [holders EXCEPT ![lane] = @ \ {"setup"}]
        /\ \A l \in Lanes : l # lane => node'[l] = node[l]
    BY <1>6, <1>0 DEF DestroyDevice, Goto
  <2>2. QED
    BY <2>1, <1>0 DEF NodeInv
<1>7. CASE GoneTimeout
  BY <1>7, <1>0 DEF GoneTimeout, NodeInv
<1>8. ASSUME NEW l \in Lanes, PnpArrives(l) \/ PnpFails(l) PROVE NodeInv'
  <2>1. /\ pc' = pc /\ lane' = lane /\ holders' = holders
        /\ holders[l] # {} /\ node[l] = "absent"
        /\ node' = [node EXCEPT ![l] = IF "app" \in holders[l] THEN "app" ELSE "setup"]
    BY <1>8 DEF PnpArrives, PnpFails, Outside
  <2>2. "app" \notin holders[l] => "setup" \in holders[l]
    BY <2>1, <1>0
  <2>3. QED
    BY <2>1, <2>2, <1>0 DEF NodeInv
<1>9. ASSUME NEW l \in Lanes, PnpDeparts(l) \/ KeyLost(l) PROVE NodeInv'
  <2>1. /\ pc' = pc /\ lane' = lane /\ node' = [node EXCEPT ![l] = "absent"]
        /\ (holders' = holders \/ holders' = [holders EXCEPT ![l] = {}])
    BY <1>9 DEF PnpDeparts, KeyLost, Removed, Outside
  <2>2. QED
    BY <2>1, <1>0 DEF NodeInv
<1>10. ASSUME NEW l \in Lanes, AppTakes(l) \/ AppReleases(l) PROVE NodeInv'
  <2>1. /\ pc' = pc /\ lane' = lane /\ node' = node
        /\ (holders' = [holders EXCEPT ![l] = @ \cup {"app"}]
             \/ holders' = [holders EXCEPT ![l] = @ \ {"app"}])
    BY <1>10 DEF AppTakes, AppReleases, Outside
  <2>2. \A m \in Lanes : "setup" \in holders'[m] => "setup" \in holders[m]
    BY <2>1, <1>0
  <2>3. QED
    BY <2>1, <2>2 DEF NodeInv
<1>11. CASE NewRoot
  <2>1. holders' = [l \in Lanes |-> {}] /\ node' = [l \in Lanes |-> "absent"]
    BY <1>11 DEF NewRoot
  <2>2. QED
    BY <2>1 DEF NodeInv
<1>12. CASE Crash
  <2>1. /\ holders' = [l \in Lanes |-> holders[l] \ {"setup"}]
        /\ node' = [l \in Lanes |-> IF node[l] = "setup" THEN "left" ELSE node[l]]
    BY <1>12 DEF Crash
  <2>2. QED
    BY <2>1 DEF NodeInv
<1>13. CASE ForeignStep
  BY <1>13, ForeignFacts DEF NodeInv, setup
<1>14. QED
  BY StepKinds, <1>1, <1>2, <1>3, <1>4, <1>5, <1>6, <1>7, <1>8, <1>9, <1>10, <1>11, <1>12, <1>13

-----------------------------------------------------------------------------
(* What a started mouse says of its lane's key. *)

LEMMA MouseStep == TypeOK /\ MouseInv /\ [Next]_vars => MouseInv'
<1> SUFFICES ASSUME TypeOK, MouseInv, [Next]_vars PROVE MouseInv'
  OBVIOUS
<1> USE DEF Settled, Installed
<1>0. /\ lane \in Lanes /\ DeviceOK
      /\ node \in [Lanes -> {"absent", "setup", "app", "left"}]
      /\ mouse \in [Lanes -> Prefixes] /\ keys \in [KeyNames -> LaneKeys \cup {NoKey}]
  BY DEF TypeOK, DeviceOK, SetupOK
<1>1. CASE QuietStep \/ UNCHANGED vars
  BY <1>1, QuietFacts DEF MouseInv, vars, device
<1>2. CASE WritePrefix
  <2>1. PICK k \in LaneKeys : /\ keys' = [keys EXCEPT ![LaneKeyName(lane)] = k]
                              /\ k # NoKey
                              /\ Installed(lane) => k = Key(TRUE, lane)
    BY <1>0, <1>2, WriteFacts
  <2>2. UNCHANGED <<rootNamed, holders, node, mouse>>
    BY <1>2 DEF WritePrefix
  <2>3. Key(TRUE, lane).installed
    BY DEF Key
  <2>4. \A l \in Lanes : Installed(l) => Installed(l)'
    <3>1. keys'[LaneKeyName(lane)] = k
          /\ \A m \in Lanes : m # lane => keys'[LaneKeyName(m)] = keys[LaneKeyName(m)]
      BY <1>0, <2>1, SetKey
    <3>2. QED
      BY <2>1, <2>3, <3>1
  <2>5. QED
    BY <2>2, <2>4 DEF MouseInv
<1>3. ASSUME NEW l \in Lanes, Removed(l) PROVE MouseInv'
  <2>1. \A m \in Lanes : m # l => /\ keys'[LaneKeyName(m)] = keys[LaneKeyName(m)]
                                  /\ node'[m] = node[m] /\ mouse'[m] = mouse[m]
    BY <1>0, <1>3, KeyFacts DEF Removed
  <2>2. mouse'[l] = NoPrefix /\ rootNamed' = rootNamed
    BY <1>0, <1>3 DEF Removed
  <2>3. QED
    BY <2>1, <2>2 DEF MouseInv
<1>4. CASE RemoveDeviceInstance
  <2>1. CASE UNCHANGED device
    BY <2>1 DEF MouseInv, device
  <2>2. QED
    BY <1>4, <2>1, <1>3, <1>0, RemoveFacts
<1>5. CASE StartDevice
  BY <1>5 DEF StartDevice, MouseInv
<1>6. CASE DestroyDevice \/ GoneTimeout
  <2>1. /\ UNCHANGED <<keys, rootNamed, mouse>>
        /\ \A l \in Lanes : node[l] # "absent" => node'[l] # "absent"
    BY <1>6, <1>0 DEF DestroyDevice, GoneTimeout
  <2>2. QED
    BY <2>1 DEF MouseInv
<1>7. ASSUME NEW l \in Lanes, PnpArrives(l) \/ PnpFails(l) PROVE MouseInv'
  <2>1. /\ rootNamed' = TRUE /\ mouse[l] = NoPrefix
        /\ node'[l] # "absent" /\ \A m \in Lanes : m # l => node'[m] = node[m]
    BY <1>7, <1>0 DEF PnpArrives, PnpFails, MouseInv
  <2>2. \A m \in Lanes : m # l => keys'[LaneKeyName(m)] = keys[LaneKeyName(m)]
    <3>1. keys' = keys \/ \E k : keys' = [keys EXCEPT ![LaneKeyName(l)] = k]
      BY <1>7, ArriveKeys
    <3>2. QED
      BY <1>0, <3>1, SetKey
  <2>3. \A m \in Lanes : m # l => mouse'[m] = mouse[m]
    BY <1>7, <1>0 DEF PnpArrives, PnpFails
  <2>4. mouse'[l] # NoPrefix => Installed(l)'
    <3>1. CASE mouse' = mouse
      BY <3>1, <2>1
    <3>2. CASE mouse' # mouse
      <4>1. PnpArrives(l) /\ (keys[LaneKeyName(l)] = NoKey \/ keys[LaneKeyName(l)].installed)
        BY <1>7, <3>2 DEF PnpArrives, PnpFails
      <4>2. PICK k : /\ keys' = [keys EXCEPT ![LaneKeyName(l)] = k]
                     /\ k # NoKey /\ k.installed
        BY <4>1, ArriveKeys
      <4>3. keys'[LaneKeyName(l)] = k
        BY <4>2, <1>0, SetKey
      <4>4. QED
        BY <4>2, <4>3
    <3>3. QED
      BY <3>1, <3>2
  <2>5. QED
    BY <2>1, <2>2, <2>3, <2>4 DEF MouseInv
<1>8. ASSUME NEW l \in Lanes, PnpDeparts(l) \/ KeyLost(l) PROVE MouseInv'
  <2>1. CASE KeyLost(l)
    BY <2>1, <1>3 DEF KeyLost
  <2>2. CASE PnpDeparts(l)
    BY <2>2, <1>0 DEF PnpDeparts, MouseInv
  <2>3. QED
    BY <1>8, <2>1, <2>2
<1>9. ASSUME NEW l \in Lanes, AppTakes(l) \/ AppReleases(l) PROVE MouseInv'
  BY <1>9 DEF AppTakes, AppReleases, MouseInv
<1>10. CASE NewRoot
  <2>1. mouse' = [l \in Lanes |-> NoPrefix]
    BY <1>10 DEF NewRoot
  <2>2. QED
    BY <2>1 DEF MouseInv
<1>11. CASE Crash
  <2>1. /\ UNCHANGED <<keys, rootNamed, mouse>>
        /\ node' = [l \in Lanes |-> IF node[l] = "setup" THEN "left" ELSE node[l]]
    BY <1>11 DEF Crash
  <2>2. QED
    BY <2>1 DEF MouseInv
<1>12. CASE ForeignStep
  BY <1>0, <1>12, ForeignFacts, ForeignKeyFacts DEF MouseInv
<1>13. QED
  BY StepKinds, <1>1, <1>2, <1>4, <1>5, <1>6, <1>7, <1>8, <1>9, <1>10, <1>11, <1>12

-----------------------------------------------------------------------------
(* What a step leaves of a lane's key. *)

OutsideStep ==
    \/ \E l \in Lanes : PnpArrives(l) \/ PnpFails(l)
    \/ \E l \in Lanes : PnpDeparts(l) \/ KeyLost(l)
    \/ \E l \in Lanes : AppTakes(l) \/ AppReleases(l)
    \/ NewRoot \/ ForeignStep

\* What is left alone: where PinLanes stands.
Apart == UNCHANGED <<pc, lane, round, seen, ok, install_code, summary, outcome, pinned,
                     unsettled>>

LEMMA OutsideFacts ==
  OutsideStep => /\ Apart
                 /\ \A m \in Lanes : m \in touched => m \in touched'
                 /\ Outside \/ ForeignStep
<1> USE DEF Apart, Outside
<1>1. ASSUME NEW l \in Lanes, PnpArrives(l) \/ PnpFails(l)
      PROVE  Outside /\ \A m \in Lanes : m \in touched => m \in touched'
  BY <1>1 DEF PnpArrives, PnpFails, Meddle, Undisturbed
<1>2. ASSUME NEW l \in Lanes, PnpDeparts(l) \/ KeyLost(l)
      PROVE  Outside /\ \A m \in Lanes : m \in touched => m \in touched'
  BY <1>2 DEF PnpDeparts, KeyLost, Meddle, Undisturbed
<1>3. ASSUME NEW l \in Lanes, AppTakes(l) \/ AppReleases(l)
      PROVE  Outside /\ \A m \in Lanes : m \in touched => m \in touched'
  BY <1>3 DEF AppTakes, AppReleases, Undisturbed
<1>4. NewRoot => Outside /\ \A m \in Lanes : m \in touched => m \in touched'
  BY DEF NewRoot
<1>5. ForeignStep => Apart /\ touched' = touched
  BY ForeignFacts DEF setup
<1>6. Outside => Apart
  OBVIOUS
<1> HIDE DEF Apart, Outside
<1>7. QED
  BY <1>1, <1>2, <1>3, <1>4, <1>5, <1>6 DEF OutsideStep

\* A key that is installed stays so, and keeps the prefix it is pinned to.
Keeps(l) ==
    /\ rootNamed => rootNamed'
    /\ Installed(l) => /\ Installed(l)'
                       /\ keys[LaneKeyName(l)].prefix = l => keys'[LaneKeyName(l)].prefix = l

LEMMA KeepKey ==
  ASSUME TypeOK, [Next]_vars, NEW l \in Lanes, ~PnpFails(l), ~KeyLost(l), ~NewRoot,
         RemoveDeviceInstance => l # lane
  PROVE  Keeps(l)
<1> USE DEF Installed
<1>0. DeviceOK /\ lane \in Lanes
  BY DEF TypeOK, SetupOK
<1>1. CASE keys' = keys /\ rootNamed' = rootNamed
  BY <1>1 DEF Keeps
<1>2. CASE QuietStep \/ UNCHANGED vars \/ StartDevice \/ DestroyDevice \/ GoneTimeout \/ Crash
  <2>1. QuietStep \/ UNCHANGED vars => keys' = keys /\ rootNamed' = rootNamed
    BY QuietFacts DEF vars, device
  <2>2. StartDevice \/ DestroyDevice \/ GoneTimeout \/ Crash
          => keys' = keys /\ rootNamed' = rootNamed
    BY DEF StartDevice, DestroyDevice, GoneTimeout, Crash
  <2>3. QED
    BY <1>1, <1>2, <2>1, <2>2
<1>3. CASE WritePrefix
  <2>1. PICK k \in LaneKeys : /\ keys' = [keys EXCEPT ![LaneKeyName(lane)] = k]
                              /\ k # NoKey
                              /\ Installed(lane) => k = Key(TRUE, lane)
    BY <1>0, <1>3, WriteFacts
  <2>2. rootNamed' = rootNamed
    BY <1>3 DEF WritePrefix
  <2>3. /\ keys'[LaneKeyName(lane)] = k
        /\ l # lane => keys'[LaneKeyName(l)] = keys[LaneKeyName(l)]
    BY <1>0, <2>1, SetKey
  <2>4. Key(TRUE, lane).installed /\ Key(TRUE, lane).prefix = lane
    BY DEF Key
  <2>5. CASE l = lane
    BY <2>1, <2>2, <2>3, <2>4, <2>5 DEF Keeps
  <2>6. CASE l # lane
    BY <2>2, <2>3, <2>6 DEF Keeps
  <2>7. QED
    BY <2>5, <2>6
<1>4. ASSUME NEW m \in Lanes, m # l, Removed(m) PROVE Keeps(l)
  <2>1. keys' = [keys EXCEPT ![LaneKeyName(m)] = NoKey] /\ rootNamed' = rootNamed
    BY <1>4 DEF Removed
  <2>2. keys'[LaneKeyName(l)] = keys[LaneKeyName(l)]
    BY <1>0, <1>4, <2>1, SetKey
  <2>3. QED
    BY <2>1, <2>2 DEF Keeps
<1>5. CASE RemoveDeviceInstance
  <2>1. CASE UNCHANGED device
    BY <2>1, <1>1 DEF device
  <2>2. QED
    BY <1>0, <1>4, <1>5, <2>1, RemoveFacts
<1>6. ASSUME NEW m \in Lanes, PnpArrives(m) \/ PnpFails(m) PROVE Keeps(l)
  <2>1. rootNamed' = TRUE
    BY <1>6, ArriveKeys
  <2>2. CASE m # l
    <3>1. keys' = keys \/ \E k : keys' = [keys EXCEPT ![LaneKeyName(m)] = k]
      BY <1>6, ArriveKeys
    <3>2. keys'[LaneKeyName(l)] = keys[LaneKeyName(l)]
      BY <1>0, <2>2, <3>1, SetKey
    <3>3. QED
      BY <2>1, <3>2 DEF Keeps
  <2>3. CASE m = l /\ Installed(l) /\ keys' # keys
    <3>1. PnpArrives(l)
      BY <1>6, <2>3
    <3>2. PICK k \in LaneKeys :
            /\ keys' = [keys EXCEPT ![LaneKeyName(l)] = k]
            /\ SomePrefix(keys[LaneKeyName(l)]) # NoPrefix =>
                      k.prefix = SomePrefix(keys[LaneKeyName(l)])
            /\ k # NoKey /\ k.installed
      BY <2>3, <3>1, ArriveKeys
    <3>3. keys'[LaneKeyName(l)] = k
      BY <1>0, <3>2, SetKey
    <3>4. SomePrefix(keys[LaneKeyName(l)]) = keys[LaneKeyName(l)].prefix
      BY <2>3 DEF SomePrefix
    <3>5. l # NoPrefix
      BY KeyFacts
    <3>6. QED
      BY <2>1, <3>2, <3>3, <3>4, <3>5 DEF Keeps
  <2>4. QED
    BY <2>1, <2>2, <2>3 DEF Keeps
<1>7. ASSUME NEW m \in Lanes, PnpDeparts(m) \/ KeyLost(m) PROVE Keeps(l)
  <2>1. CASE PnpDeparts(m)
    BY <2>1, <1>1 DEF PnpDeparts
  <2>2. CASE KeyLost(m)
    BY <2>2, <1>4 DEF KeyLost
  <2>3. QED
    BY <1>7, <2>1, <2>2
<1>8. ASSUME NEW m \in Lanes, AppTakes(m) \/ AppReleases(m) PROVE Keeps(l)
  BY <1>1, <1>8 DEF AppTakes, AppReleases
<1>9. CASE ForeignStep
  BY <1>0, <1>9, ForeignFacts, ForeignKeyFacts DEF Keeps
<1>10. QED
  BY StepKinds, <1>2, <1>3, <1>5, <1>6, <1>7, <1>8, <1>9

LEMMA Untouched ==
  ASSUME NEW l \in Lanes, l \notin touched'
  PROVE  ~PnpFails(l) /\ ~KeyLost(l) /\ ~NewRoot
  BY DEF PnpFails, KeyLost, Meddle, NewRoot

-----------------------------------------------------------------------------
(* Where a step takes PinLane. *)

UnchangedLane == UNCHANGED <<lane, round, seen, ok, pinned, losses, unsettled>>

LEMMA DecideFacts ==
  ASSUME Decide
  PROVE  /\ pc = "decide" /\ touched' = touched /\ overlooked' = overlooked
         /\ \A n \in unread : keys[n] = NoKey
         /\ \/ pc' = "write" /\ SeenInstalled /\ ~collision /\ UnchangedLane
            \/ pc' \in {"create", "remove"} /\ ~SeenInstalled /\ UnchangedLane
            \/ LaneDone(FALSE) /\ UNCHANGED unsettled
            \/ /\ LaneDone(TRUE) /\ UNCHANGED unsettled
               /\ SeenInstalled /\ seen.prefix = PinnedPrefix(lane)
<1> DEFINE action == DecidePin(seen, lane, collision)
<1>1. CASE seen = NoKey
  <2>1. action = "CreateFirst"
    BY <1>1 DEF DecidePin
  <2>2. QED
    BY <1>1, <2>1 DEF Decide, Undisturbed, UnchangedLane, SeenInstalled
<1>2. CASE seen # NoKey /\ ~seen.installed
  <2>1. action = "RemoveThenCreate"
    BY <1>2 DEF DecidePin
  <2>2. QED
    BY <1>2, <2>1 DEF Decide, Undisturbed, UnchangedLane, SeenInstalled
<1>3. CASE seen # NoKey /\ seen.installed /\ seen.prefix = PinnedPrefix(lane)
  <2>1. action = "AlreadyPinned"
    BY <1>3 DEF DecidePin
  <2>2. QED
    BY <1>3, <2>1 DEF Decide, Undisturbed, SeenInstalled
<1>4. CASE seen # NoKey /\ seen.installed /\ seen.prefix # PinnedPrefix(lane)
  <2>1. CASE collision
    <3>1. action = "Collision"
      BY <1>4, <2>1 DEF DecidePin
    <3>2. QED
      BY <3>1 DEF Decide, Undisturbed
  <2>2. CASE ~collision
    <3>1. action = "Write"
      BY <1>4, <2>2 DEF DecidePin
    <3>2. QED
      BY <1>4, <2>2, <3>1 DEF Decide, Undisturbed, UnchangedLane, SeenInstalled
  <2>3. QED
    BY <2>1, <2>2
<1>5. QED
  BY <1>1, <1>2, <1>3, <1>4

LEMMA CreatedFacts ==
  ASSUME NEW success \in BOOLEAN, Created(success)
  PROVE  /\ pc' \in {"idle", "readRoot"} /\ pinned' = pinned
         /\ \/ round' = 0 /\ losses' = 0 /\ unsettled' = unsettled
            \/ /\ round' = 0 /\ losses' = 0 /\ success
               /\ round + 1 = MAX_ROUNDS /\ unsettled' = {losses}
            \/ success /\ round' = round + 1 /\ UNCHANGED <<lane, losses, unsettled>>
<1>1. CASE LaneDone(FALSE) /\ unsettled' = unsettled
  <2>1. pc' \in {"idle", "readRoot"} /\ round' = 0 /\ losses' = 0 /\ pinned' = pinned
    BY <1>1, LaneDoneFacts
  <2>2. QED
    BY <1>1, <2>1
<1>2. CASE success /\ round + 1 = MAX_ROUNDS
  <2>1. LaneDone(FALSE) /\ unsettled' = {losses}
    BY <1>2 DEF Created, NextRound
  <2>2. QED
    BY <1>2, <2>1, LaneDoneFacts
<1>3. CASE success /\ round + 1 # MAX_ROUNDS
  BY <1>3 DEF Created, NextRound
<1>4. QED
  BY <1>1, <1>2, <1>3 DEF Created

LEMMA QuietTo ==
  TypeOK /\ QuietStep => \/ ReadRoot \/ ReadLaneKey \/ Decide \/ LookStep
                         \/ pc' \in {"driver", "root", "idle", "readRoot", "destroy"}
<1>1. FinishWithPins \/ DriverRuns \/ DriverUnavailable \/ LiveRoot \/ NoLiveRoot
        => pc' \in {"driver", "root", "idle", "readRoot", "destroy"}
  BY DEF FinishWithPins, DriverRuns, DriverUnavailable, LiveRoot, NoLiveRoot, Exit
<1>2. StartFails \/ MouseStarts \/ MouseTimeout => pc' = "destroy"
  BY DEF StartFails, MouseStarts, MouseTimeout, Goto
<1>3. CallFails => pc' \in {"idle", "readRoot"}
  BY LaneDoneFacts DEF CallFails
<1>4. TypeOK /\ DeviceGone => pc' \in {"idle", "readRoot"}
  BY CreatedFacts DEF DeviceGone, TypeOK, SetupOK
<1>5. QED
  BY <1>1, <1>2, <1>3, <1>4 DEF QuietStep

LEMMA DriveTo ==
  StartDevice \/ DestroyDevice \/ GoneTimeout \/ Crash
    => pc' \in {"mouse", "destroy", "gone", "idle", "readRoot"}
<1>1. StartDevice \/ DestroyDevice \/ Crash => pc' \in {"mouse", "destroy", "gone", "idle"}
  BY DEF StartDevice, DestroyDevice, Crash, Goto
<1>2. GoneTimeout => pc' \in {"idle", "readRoot"}
  BY CreatedFacts DEF GoneTimeout
<1>3. QED
  BY <1>1, <1>2

LEMMA RootKept == OutsideStep /\ pc # "idle" => (rootNamed => rootNamed')
  BY ForeignFacts DEF OutsideStep, PnpArrives, PnpFails, PnpDeparts, KeyLost, Removed,
         AppTakes, AppReleases, NewRoot

LEMMA SeenStep == TypeOK /\ SeenInv /\ [Next]_vars => SeenInv'
<1> SUFFICES ASSUME TypeOK, SeenInv, [Next]_vars PROVE SeenInv'
  OBVIOUS
<1>0. lane \in Lanes
  BY DEF TypeOK, SetupOK
<1>1. CASE pc' \notin {"readKey", "decide", "write", "remove"}
  BY <1>1 DEF SeenInv
<1>2. CASE ReadRoot
  <2>1. pc' = (IF rootNamed THEN "readKey" ELSE "create") /\ rootNamed' = rootNamed
    BY <1>2 DEF ReadRoot, device
  <2>2. QED
    BY <2>1 DEF SeenInv
<1>3. CASE ReadLaneKey
  <2>1. /\ pc = "readKey" /\ pc' = "decide" /\ seen' = keys[LaneKeyName(lane)]
        /\ lane' = lane /\ keys' = keys /\ rootNamed' = rootNamed
    BY <1>3 DEF ReadLaneKey, device
  <2>2. QED
    BY <2>1 DEF SeenInv, SeenInstalled, Installed
<1>4. CASE Decide
  <2>1. pc = "decide" /\ touched' = touched /\ keys' = keys /\ rootNamed' = rootNamed
    BY <1>4, DecideFacts, QuietFacts DEF QuietStep, device
  <2>2. CASE pc' = "write" /\ SeenInstalled /\ UnchangedLane
    BY <2>1, <2>2 DEF SeenInv, SeenInstalled, Installed, UnchangedLane
  <2>3. CASE pc' \in {"create", "remove"}
    BY <2>1, <2>3 DEF SeenInv
  <2>4. CASE \E b \in BOOLEAN : LaneDone(b)
    BY <1>1, <2>4, LaneDoneFacts
  <2>5. QED
    BY <1>4, <2>2, <2>3, <2>4, DecideFacts
<1>5. CASE QuietStep
  <2>1. CASE LookStep
    BY <2>1, LookFacts DEF device, SeenInv, SeenInstalled, Installed
  <2>2. QED
    BY <1>1, <1>2, <1>3, <1>4, <1>5, <2>1, QuietTo
<1>6. CASE UNCHANGED vars
  BY <1>6 DEF vars, device, setup, history, SeenInv, SeenInstalled, Installed
<1>7. CASE WritePrefix
  BY <1>1, <1>7, LaneDoneFacts DEF WritePrefix
<1>8. CASE RemoveDeviceInstance
  BY <1>1, <1>8, RemoveFacts, LaneDoneFacts
<1>9. CASE StartDevice \/ DestroyDevice \/ GoneTimeout \/ Crash
  BY <1>1, <1>9, DriveTo
<1>10. CASE OutsideStep
  <2>1. UNCHANGED <<pc, lane, seen>> /\ \A m \in Lanes : m \in touched => m \in touched'
    BY <1>10, OutsideFacts DEF Apart
  <2>2. pc # "idle" => (rootNamed => rootNamed')
    BY <1>10, RootKept
  <2>3. pc \in {"decide", "write"} /\ lane \notin touched' => Keeps(lane)
    <3>1. SUFFICES ASSUME pc \in {"decide", "write"}, lane \notin touched' PROVE Keeps(lane)
      OBVIOUS
    <3>2. ~RemoveDeviceInstance
      BY <3>1 DEF RemoveDeviceInstance
    <3>3. QED
      BY <1>0, <3>1, <3>2, KeepKey, Untouched
  <2>4. (pc \in {"readKey", "decide", "write", "remove"} => rootNamed)'
    BY <2>1, <2>2 DEF SeenInv
  <2>5. (pc = "write" => SeenInstalled)'
    BY <2>1 DEF SeenInv, SeenInstalled
  <2>6. ASSUME pc' \in {"decide", "write"}, lane' \notin touched', SeenInstalled'
        PROVE  /\ Installed(lane)'
               /\ (seen.prefix = PinnedPrefix(lane) =>
                     keys[LaneKeyName(lane)].prefix = PinnedPrefix(lane))'
    <3>1. SeenInstalled /\ lane \notin touched /\ Keeps(lane)
      BY <1>0, <2>1, <2>3, <2>6 DEF SeenInstalled
    <3>2. /\ Installed(lane)
          /\ seen.prefix = lane => keys[LaneKeyName(lane)].prefix = lane
      BY <2>1, <2>6, <3>1 DEF SeenInv, PinnedPrefix
    <3>3. Installed(lane)' /\ (seen.prefix = lane => keys'[LaneKeyName(lane)].prefix = lane)
      BY <2>1, <3>1, <3>2 DEF Keeps, Installed
    <3>4. QED
      BY <2>1, <3>3 DEF PinnedPrefix
  <2>7. QED
    BY <2>4, <2>5, <2>6 DEF SeenInv
<1>11. QED
  BY StepKinds, <1>5, <1>6, <1>7, <1>8, <1>9, <1>10 DEF OutsideStep

-----------------------------------------------------------------------------
(* A pinned lane stays pinned. *)

LEMMA PinnedSteps ==
  ASSUME TypeOK, [Next]_vars
  PROVE  \/ pinned' \subseteq pinned
         \/ /\ pinned' \subseteq pinned \cup {lane}
            /\ WritePrefix \/ (Decide /\ SeenInstalled /\ seen.prefix = PinnedPrefix(lane))
<1>1. CASE WritePrefix
  BY <1>1 DEF WritePrefix, LaneDone
<1>2. CASE Decide
  <2>1. CASE UnchangedLane
    BY <2>1 DEF UnchangedLane
  <2>2. CASE LaneDone(FALSE)
    BY <2>2 DEF LaneDone
  <2>3. CASE LaneDone(TRUE) /\ SeenInstalled /\ seen.prefix = PinnedPrefix(lane)
    BY <1>2, <2>3 DEF LaneDone
  <2>4. QED
    BY <1>2, <2>1, <2>2, <2>3, DecideFacts
<1>3. FinishWithPins \/ DriverRuns \/ DriverUnavailable \/ LiveRoot \/ NoLiveRoot
        \/ ReadRoot \/ ReadLaneKey => pinned' \subseteq pinned
  BY DEF FinishWithPins, DriverRuns, DriverUnavailable, LiveRoot, NoLiveRoot, ReadRoot,
         ReadLaneKey
<1>4. CallFails \/ StartFails \/ MouseStarts \/ MouseTimeout => pinned' \subseteq pinned
  BY DEF CallFails, LaneDone, StartFails, MouseStarts, MouseTimeout, Goto
<1>5. DeviceGone \/ GoneTimeout => pinned' \subseteq pinned
  <2>1. ok \in BOOLEAN
    BY DEF TypeOK, SetupOK
  <2>2. DeviceGone => Created(ok)
    BY DEF DeviceGone
  <2>3. GoneTimeout => Created(FALSE)
    BY DEF GoneTimeout
  <2>4. QED
    BY <2>1, <2>2, <2>3, CreatedFacts
<1>6. RemoveDeviceInstance => pinned' \subseteq pinned
  BY RemoveFacts DEF LaneDone
<1>7. StartDevice \/ DestroyDevice \/ Crash => pinned' \subseteq pinned
  BY DEF StartDevice, DestroyDevice, Crash, Goto
<1>8. OutsideStep => pinned' \subseteq pinned
  BY OutsideFacts DEF Apart
<1>9. UNCHANGED vars \/ LookStep => pinned' \subseteq pinned
  BY LookFacts DEF vars, setup
<1>10. QED
  BY StepKinds, <1>1, <1>2, <1>3, <1>4, <1>5, <1>6, <1>7, <1>8, <1>9
     DEF OutsideStep, QuietStep

LEMMA TouchedSteps ==
  ASSUME [Next]_vars, NEW l \in Lanes, l \in touched
  PROVE  l \in touched' \/ (ReadLaneKey /\ l = lane)
<1>1. FinishWithPins \/ DriverRuns \/ DriverUnavailable \/ LiveRoot \/ NoLiveRoot
        \/ ReadRoot => touched' = touched
  BY DEF FinishWithPins, DriverRuns, DriverUnavailable, LiveRoot, NoLiveRoot, ReadRoot,
         Undisturbed
<1>2. ReadLaneKey => touched' = touched \ {lane}
  BY DEF ReadLaneKey
<1>3. Decide \/ CallFails \/ StartFails \/ MouseStarts => touched' = touched
  BY DEF Decide, CallFails, StartFails, MouseStarts, Undisturbed
<1>4. MouseTimeout \/ DeviceGone \/ GoneTimeout => touched' = touched
  BY DEF MouseTimeout, DeviceGone, GoneTimeout, Undisturbed
<1>5. WritePrefix \/ RemoveDeviceInstance \/ StartDevice \/ DestroyDevice \/ Crash
        => touched' = touched
  BY DEF WritePrefix, RemoveDeviceInstance, StartDevice, DestroyDevice, Crash, Undisturbed
<1>6. OutsideStep => l \in touched'
  BY OutsideFacts
<1>7. UNCHANGED vars \/ LookStep => touched' = touched
  BY LookFacts DEF vars, history
<1>8. QED
  BY StepKinds, <1>1, <1>2, <1>3, <1>4, <1>5, <1>6, <1>7 DEF OutsideStep, QuietStep

LEMMA PinnedKey ==
  ASSUME NEW k \in LaneKeys \cup {NoKey}, NEW l \in Lanes
  PROVE  k = Key(TRUE, l) <=> k # NoKey /\ k.installed /\ k.prefix = l
<1>1. Key(TRUE, l) # NoKey /\ Key(TRUE, l).installed /\ Key(TRUE, l).prefix = l
  BY KeyFacts
<1>2. ASSUME k \in LaneKeys, k.installed, k.prefix = l PROVE k = Key(TRUE, l)
  BY <1>2 DEF LaneKeys, Key
<1>3. QED
  BY <1>1, <1>2

LEMMA PinnedStep ==
  TypeOK /\ CountInv /\ SeenInv /\ PinnedInv /\ [Next]_vars => PinnedInv'
<1> SUFFICES ASSUME TypeOK, CountInv, SeenInv, PinnedInv, [Next]_vars PROVE PinnedInv'
  OBVIOUS
<1>0. DeviceOK /\ lane \in Lanes /\ pinned \subseteq Lanes /\ DeviceOK'
  BY DeviceStep DEF TypeOK, SetupOK
<1>1. pc \in InLane => lane \notin pinned
  BY <1>0 DEF CountInv
<1> SUFFICES ASSUME NEW l \in pinned', l \notin touched' PROVE IsPinned(l)'
  BY DEF PinnedInv
<1>2. l \in Lanes
  BY <1>0, PinnedSteps
<1> DEFINE key == keys[LaneKeyName(l)]
<1>3. key \in LaneKeys \cup {NoKey} /\ key' \in LaneKeys \cup {NoKey}
  <2>1. LaneKeyName(l) \in KeyNames
    BY <1>2, KeyFacts
  <2>2. KeyNames' = KeyNames /\ LaneKeyName(l)' = LaneKeyName(l)
    BY DEF KeyNames, LaneKeyName
  <2>3. keys \in [KeyNames -> LaneKeys \cup {NoKey}]
    BY <1>0 DEF DeviceOK
  <2>4. keys' \in [KeyNames -> LaneKeys \cup {NoKey}]
    BY <1>0, <2>2 DEF DeviceOK
  <2>5. QED
    BY <2>1, <2>2, <2>3, <2>4
<1>4. IsPinned(l) => Installed(l) /\ key.prefix = l
  BY <1>3, <1>2, PinnedKey DEF IsPinned, Installed, PinnedPrefix
<1>5. rootNamed' /\ Installed(l)' /\ key'.prefix = l => IsPinned(l)'
  BY <1>3, <1>2, PinnedKey DEF IsPinned, Installed, PinnedPrefix
<1>6. CASE l \in pinned
  <2>1. RemoveDeviceInstance \/ ReadLaneKey => pc \in InLane
    BY DEF RemoveDeviceInstance, ReadLaneKey, InLane
  <2>2. l \notin touched
    BY <1>1, <1>2, <1>6, <2>1, TouchedSteps
  <2>3. Keeps(l)
    BY <1>1, <1>2, <1>6, <2>1, KeepKey, Untouched
  <2>4. IsPinned(l)
    BY <1>6, <2>2 DEF PinnedInv
  <2>5. QED
    BY <1>4, <1>5, <2>3, <2>4 DEF Keeps, Installed, IsPinned
<1>7. CASE l \notin pinned
  <2>1. /\ l = lane
        /\ WritePrefix \/ (Decide /\ SeenInstalled /\ seen.prefix = PinnedPrefix(lane))
    BY <1>7, PinnedSteps
  <2>2. l \notin touched
    BY <1>2, <2>1, TouchedSteps DEF ReadLaneKey, WritePrefix, Decide
  <2>3. pc \in {"write", "decide"} /\ rootNamed /\ Installed(lane)
    BY <2>1, <2>2 DEF WritePrefix, Decide, SeenInv
  <2>4. CASE WritePrefix
    <3>1. \E k \in LaneKeys :
            /\ keys' = [keys EXCEPT ![LaneKeyName(lane)] = k]
            /\ Installed(lane) => k = Key(TRUE, lane)
      BY <1>0, <2>4, WriteFacts
    <3>2. keys' = [keys EXCEPT ![LaneKeyName(lane)] = Key(TRUE, lane)]
      BY <2>3, <3>1
    <3>3. keys'[LaneKeyName(lane)] = Key(TRUE, lane)
      BY <1>0, <3>2, SetKey
    <3>4. rootNamed' = rootNamed
      BY <2>4 DEF WritePrefix
    <3>5. QED
      BY <2>1, <2>3, <3>3, <3>4 DEF IsPinned, PinnedPrefix
  <2>5. CASE Decide
    <3>1. keys' = keys /\ rootNamed' = rootNamed
      BY <2>5, QuietFacts DEF QuietStep, device
    <3>2. SeenInstalled /\ seen.prefix = PinnedPrefix(lane)
      BY <2>1, <2>5 DEF WritePrefix, Decide
    <3>3. keys[LaneKeyName(lane)].prefix = lane
      BY <2>1, <2>2, <2>3, <3>2 DEF SeenInv, PinnedPrefix
    <3>4. QED
      BY <1>5, <2>1, <2>3, <3>1, <3>3 DEF Installed
  <2>6. QED
    BY <2>1, <2>4, <2>5
<1>8. QED
  BY <1>6, <1>7

-----------------------------------------------------------------------------
(* No step but PinLane's write, and another device, gives a key the prefix  *)
(* of a lane.                                                               *)

LEMMA NoNewPrefix ==
  ASSUME TypeOK, [Next]_vars, ~WritePrefix, ~NewRoot, ~ForeignStep,
         NEW m \in Lanes, NEW n \in KeyNames, SomePrefix(keys'[n]) = m
  PROVE  SomePrefix(keys[n]) = m
<1>0. DeviceOK /\ lane \in Lanes /\ m # NoPrefix /\ m # Generated
  BY KeyFacts DEF TypeOK, SetupOK
<1>1. CASE keys' = keys
  BY <1>1
<1>2. QuietStep \/ UNCHANGED vars \/ StartDevice \/ DestroyDevice \/ GoneTimeout \/ Crash
        => keys' = keys
  <2>1. QuietStep \/ UNCHANGED vars => keys' = keys
    BY QuietFacts DEF vars, device
  <2>2. StartDevice \/ DestroyDevice \/ GoneTimeout \/ Crash => keys' = keys
    BY DEF StartDevice, DestroyDevice, GoneTimeout, Crash
  <2>3. QED
    BY <2>1, <2>2
<1>3. ASSUME NEW l \in Lanes, Removed(l) PROVE SomePrefix(keys[n]) = m
  <2>1. keys' = [keys EXCEPT ![LaneKeyName(l)] = NoKey]
    BY <1>3 DEF Removed
  <2>2. keys'[LaneKeyName(l)] = NoKey
    BY <1>0, <2>1, SetKey
  <2>3. n # LaneKeyName(l)
    BY <1>0, <2>2 DEF SomePrefix
  <2>4. QED
    BY <1>0, <2>1, <2>3, SetKey
<1>4. CASE RemoveDeviceInstance
  BY <1>0, <1>1, <1>3, <1>4, RemoveFacts DEF device
<1>5. ASSUME NEW l \in Lanes, PnpArrives(l) \/ PnpFails(l), keys' # keys
      PROVE  SomePrefix(keys[n]) = m
  <2>1. PICK k \in LaneKeys :
          /\ keys' = [keys EXCEPT ![LaneKeyName(l)] = k]
          /\ k.prefix \in {SomePrefix(keys[LaneKeyName(l)]), Generated}
          /\ k # NoKey
    BY <1>5, ArriveKeys
  <2>2. keys'[LaneKeyName(l)] = k /\ (n # LaneKeyName(l) => keys'[n] = keys[n])
    BY <1>0, <2>1, SetKey
  <2>3. SomePrefix(k) = k.prefix
    BY <2>1 DEF SomePrefix
  <2>4. CASE n = LaneKeyName(l)
    BY <1>0, <2>1, <2>2, <2>3, <2>4
  <2>5. CASE n # LaneKeyName(l)
    BY <2>2, <2>5
  <2>6. QED
    BY <2>4, <2>5
<1>6. ASSUME NEW l \in Lanes, PnpDeparts(l) \/ KeyLost(l) PROVE SomePrefix(keys[n]) = m
  BY <1>1, <1>3, <1>6 DEF PnpDeparts, KeyLost
<1>7. ASSUME NEW l \in Lanes, AppTakes(l) \/ AppReleases(l) PROVE SomePrefix(keys[n]) = m
  BY <1>1, <1>7 DEF AppTakes, AppReleases
<1>8. QED
  BY StepKinds, <1>1, <1>2, <1>4, <1>5, <1>6, <1>7

LEMMA FreeStep == TypeOK /\ FreeInv /\ [Next]_vars => FreeInv'
<1> DEFINE Known(n) == n \in overlooked \/ (pc = "decide" /\ (n \in unread \/ collision))
<1> SUFFICES ASSUME TypeOK, FreeInv, [Next]_vars, pc' \in {"decide", "write"},
                    NEW n \in KeyNames, n \in Rivals(lane'), SomePrefix(keys'[n]) = lane'
             PROVE  Known(n)'
  BY DEF FreeInv, PinnedPrefix, Rivals, SomePrefix, KeyNames, LaneKeyName, IsLaneKeyOf
<1>0. lane \in Lanes /\ DeviceOK
  BY DEF TypeOK, SetupOK
<1>1. ASSUME pc \in {"decide", "write"}, lane' = lane, SomePrefix(keys[n]) = lane
      PROVE  Known(n)
  BY <1>1 DEF FreeInv, PinnedPrefix
<1>2. CASE ReadLaneKey
  <2>1. unread' = Rivals(lane) /\ pc' = "decide" /\ lane' = lane
    BY <1>2 DEF ReadLaneKey
  <2>2. QED
    BY <2>1
<1>3. CASE LookStep
  <2>1. pc = "decide" /\ pc' = "decide" /\ lane' = lane /\ keys' = keys
    BY <1>3, LookFacts DEF device
  <2>2. Known(n)
    BY <1>1, <2>1
  <2>3. CASE VhfKeysMissed
    BY <2>1, <2>2, <2>3 DEF VhfKeysMissed
  <2>4. ASSUME NEW m \in unread, ReadVhfKey(m) PROVE Known(n)'
    <3>1. CASE m = n
      BY <2>1, <2>4, <3>1 DEF ReadVhfKey, PinnedPrefix
    <3>2. CASE m # n
      BY <2>1, <2>2, <2>4, <3>2 DEF ReadVhfKey
    <3>3. QED
      BY <3>1, <3>2
  <2>5. QED
    BY <1>3, <2>3, <2>4 DEF LookStep
<1>4. CASE Decide
  <2>1. pc = "decide" /\ pc' = "write" /\ keys' = keys /\ overlooked' = overlooked
    BY <1>4, DecideFacts, LaneDoneFacts, QuietFacts DEF QuietStep, device
  <2>2. ~collision /\ lane' = lane /\ \A m \in unread : keys[m] = NoKey
    BY <1>4, <2>1, DecideFacts, LaneDoneFacts DEF UnchangedLane
  <2>3. Known(n)
    BY <1>1, <2>1, <2>2
  <2>4. keys[n] # NoKey
    BY <1>0, <2>1, <2>2, KeyFacts DEF SomePrefix
  <2>5. QED
    BY <2>1, <2>2, <2>3, <2>4
<1>5. CASE UNCHANGED vars
  <2>1. UNCHANGED <<pc, lane, keys, unread, collision, overlooked>>
    BY <1>5 DEF vars, device, setup, history
  <2>2. QED
    BY <1>1, <2>1
<1>6. CASE ForeignStep
  <2>1. PICK f \in Foreign, key \in ForeignKeys : ForeignTakes(f, key)
    BY <1>6 DEF ForeignStep
  <2>2. /\ keys' = [keys EXCEPT ![<<"other", f>>] = key]
        /\ UNCHANGED <<pc, lane, unread, collision>>
        /\ overlooked' = overlooked \cup {<<"other", f>>}
    BY <2>1 DEF ForeignTakes, setup
  <2>3. CASE n = <<"other", f>>
    BY <2>2, <2>3
  <2>4. CASE n # <<"other", f>>
    <3>1. keys'[n] = keys[n]
      BY <1>0, <2>2, <2>4 DEF DeviceOK
    <3>2. QED
      BY <1>1, <2>2, <3>1
  <2>5. QED
    BY <2>3, <2>4
<1>7. CASE OutsideStep /\ ~ForeignStep
  <2>1. UNCHANGED <<pc, lane, unread, collision, overlooked>>
    BY <1>7, OutsideFacts DEF Outside, look
  <2>2. ~NewRoot
    BY <2>1 DEF NewRoot
  <2>3. CASE WritePrefix
    BY <2>1, <2>3, LaneDoneFacts DEF WritePrefix
  <2>4. CASE ~WritePrefix
    BY <1>0, <1>1, <1>7, <2>1, <2>2, <2>4, NoNewPrefix
  <2>5. QED
    BY <2>3, <2>4
<1>8. WritePrefix \/ RemoveDeviceInstance => pc' \notin {"decide", "write"}
  BY RemoveFacts, LaneDoneFacts DEF WritePrefix
<1>9. StartDevice \/ DestroyDevice \/ GoneTimeout \/ Crash => pc' \notin {"decide", "write"}
  BY DriveTo
<1>10. QuietStep => Decide \/ ReadLaneKey \/ LookStep
  BY QuietTo DEF ReadRoot
<1>11. QED
  BY StepKinds, <1>2, <1>3, <1>4, <1>5, <1>6, <1>7, <1>8, <1>9, <1>10 DEF OutsideStep

LEMMA CollisionStep ==
  ASSUME TypeOK, FreeInv, [Next]_vars, NEW l \in Lanes,
         SomePrefix(keys'[LaneKeyName(l)]) = PinnedPrefix(l),
         SomePrefix(keys[LaneKeyName(l)]) # PinnedPrefix(l),
         NEW n \in KeyNames, ~IsLaneKeyOf(n, l), SomePrefix(keys'[n]) = PinnedPrefix(l)
  PROVE  n \in overlooked
<1>0. DeviceOK /\ lane \in Lanes /\ LaneKeyName(l) \in KeyNames
      /\ PinnedPrefix(l) = l /\ l # NoPrefix
  BY KeyFacts DEF TypeOK, SetupOK
<1>1. ~NewRoot
  <2>1. SUFFICES ASSUME NewRoot PROVE FALSE
    OBVIOUS
  <2>2. LaneKeyName(l)[1] = "live"
    BY DEF LaneKeyName
  <2>3. keys'[LaneKeyName(l)] = NoKey
    BY <1>0, <2>1, <2>2 DEF NewRoot
  <2>4. QED
    BY <1>0, <2>3 DEF SomePrefix
<1>2. ~ForeignStep
  BY <1>0, ForeignKeyFacts DEF SomePrefix
<1>3. WritePrefix
  BY <1>0, <1>1, <1>2, NoNewPrefix
<1>4. PICK k \in LaneKeys : keys' = [keys EXCEPT ![LaneKeyName(lane)] = k]
  BY <1>0, <1>3, WriteFacts
<1>5. l = lane
  BY <1>0, <1>4, SetKey DEF SomePrefix
<1>6. n # LaneKeyName(lane) /\ n \in Rivals(lane)
  BY <1>5 DEF Rivals, IsLaneKeyOf, LaneKeyName
<1>7. keys'[n] = keys[n]
  BY <1>0, <1>4, <1>6, SetKey
<1>8. pc = "write" /\ SomePrefix(keys[n]) = PinnedPrefix(lane)
  BY <1>3, <1>5, <1>7 DEF WritePrefix, SomePrefix
<1>9. QED
  BY <1>6, <1>8 DEF FreeInv

-----------------------------------------------------------------------------
(* The rounds of a lane. *)

LEMMA RoundStep ==
  TypeOK /\ NodeInv /\ MouseInv /\ RoundInv /\ [Next]_vars => RoundInv'
<1> SUFFICES ASSUME TypeOK, MouseInv, RoundInv, [Next]_vars PROVE RoundInv'
  OBVIOUS
<1>0. /\ lane \in Lanes /\ round \in 0 .. 3 /\ losses \in Nat /\ ok \in BOOLEAN
      /\ \A u \in unsettled : u >= 3
  BY DEF TypeOK, SetupOK, RoundInv, UnsettledMeansLost
\* A lane that starts, and a program that has ended.
<1>1. ASSUME round' = 0, losses' = 0, pc' \in {"idle", "driver", "root", "readRoot"},
             unsettled' = unsettled \/ unsettled' = {} \/ \E u \in Nat : u >= 3 /\ unsettled' = {u}
      PROVE  RoundInv'
  BY <1>0, <1>1 DEF RoundInv, UnsettledMeansLost
<1>2. CASE FinishWithPins \/ DriverRuns
  <2>1. /\ losses' = losses /\ pc' \in {"driver", "root"}
        /\ unsettled' = unsettled \/ unsettled' = {}
    BY <1>2 DEF FinishWithPins, DriverRuns
  <2>2. QED
    BY <1>0, <2>1 DEF RoundInv, UnsettledMeansLost
<1>3. CASE DriverUnavailable \/ NoLiveRoot \/ LiveRoot \/ Crash
  BY <1>1, <1>3 DEF DriverUnavailable, NoLiveRoot, LiveRoot, Crash, Exit
<1>4. ASSUME NEW b \in BOOLEAN, LaneDone(b), unsettled' = unsettled PROVE RoundInv'
  BY <1>1, <1>4, LaneDoneFacts
<1>5. CASE CallFails \/ WritePrefix
  BY <1>4, <1>5 DEF CallFails, WritePrefix
<1>6. CASE ReadRoot \/ ReadLaneKey
  <2>1. /\ pc \in {"readRoot", "readKey"} /\ UNCHANGED <<lane, round, losses, unsettled>>
        /\ rootNamed' = rootNamed /\ keys' = keys
        /\ \/ pc' = "readKey" /\ pc = "readRoot"
           \/ pc' = "create" /\ ~rootNamed
           \/ pc' = "decide" /\ seen' = keys[LaneKeyName(lane)]
    BY <1>6 DEF ReadRoot, ReadLaneKey, device
  <2>2. round = 0 \/ (Settled(lane) /\ losses >= round - 1) \/ losses >= round
    BY <2>1 DEF RoundInv
  <2>3. CASE pc' = "readKey"
    BY <1>0, <2>1, <2>2, <2>3 DEF RoundInv, UnsettledMeansLost, Settled, Installed
  <2>4. CASE pc' = "create" /\ ~rootNamed
    BY <1>0, <2>1, <2>2, <2>4 DEF RoundInv, UnsettledMeansLost, Settled
  <2>5. CASE pc' = "decide" /\ seen' = keys[LaneKeyName(lane)]
    BY <1>0, <2>1, <2>2, <2>5 DEF RoundInv, UnsettledMeansLost, Settled, Installed, SeenInstalled
  <2>6. QED
    BY <2>1, <2>3, <2>4, <2>5
<1>7. CASE Decide
  <2>1. round = 0 \/ (SeenInstalled /\ losses >= round - 1) \/ losses >= round
    BY <1>7 DEF Decide, RoundInv
  <2>2. CASE pc' = "write" /\ UnchangedLane
    BY <1>0, <2>2 DEF RoundInv, UnsettledMeansLost, UnchangedLane
  <2>3. CASE pc' \in {"create", "remove"} /\ ~SeenInstalled /\ UnchangedLane
    BY <1>0, <2>1, <2>3 DEF RoundInv, UnsettledMeansLost, UnchangedLane
  <2>4. QED
    BY <1>4, <1>7, <2>2, <2>3, DecideFacts
<1>8. CASE RemoveDeviceInstance
  <2>1. CASE pc' = "create" /\ UNCHANGED <<lane, round, losses, unsettled>>
    <3>1. losses >= round
      BY <1>8 DEF RemoveDeviceInstance, RoundInv
    <3>2. QED
      BY <1>0, <2>1, <3>1 DEF RoundInv, UnsettledMeansLost
  <2>2. QED
    BY <1>4, <1>8, <2>1, RemoveFacts
<1>9. CASE StartDevice \/ StartFails
  <2>1. /\ pc = "create" /\ UNCHANGED <<lane, round, losses, unsettled>>
        /\ pc' = "mouse" \/ (pc' = "destroy" /\ ~ok')
    BY <1>9 DEF StartDevice, StartFails, Goto
  <2>2. losses >= round
    BY <2>1 DEF RoundInv
  <2>3. QED
    BY <1>0, <2>1, <2>2 DEF RoundInv, UnsettledMeansLost
<1>10. CASE MouseStarts \/ MouseTimeout
  <2>1. /\ pc = "mouse" /\ pc' = "destroy" /\ UNCHANGED <<lane, round, losses, unsettled>>
        /\ keys' = keys /\ rootNamed' = rootNamed
        /\ ok' => mouse[lane] # NoPrefix
    BY <1>10 DEF MouseStarts, MouseTimeout, Goto, device
  <2>2. losses >= round /\ (ok' => Settled(lane))
    BY <1>0, <2>1 DEF RoundInv, MouseInv
  <2>3. QED
    BY <1>0, <2>1, <2>2 DEF RoundInv, UnsettledMeansLost, Settled, Installed
<1>11. CASE DestroyDevice
  <2>1. /\ pc = "destroy" /\ pc' = "gone" /\ UNCHANGED <<lane, round, losses, unsettled, ok>>
        /\ keys' = keys /\ rootNamed' = rootNamed
    BY <1>11 DEF DestroyDevice, Goto
  <2>2. QED
    BY <1>0, <2>1 DEF RoundInv, UnsettledMeansLost, Settled, Installed
<1>12. CASE DeviceGone \/ GoneTimeout
  <2>1. pc = "gone" /\ (Created(ok) \/ Created(FALSE))
        /\ keys' = keys /\ rootNamed' = rootNamed
    BY <1>12 DEF DeviceGone, GoneTimeout, device
  <2>2. ok => (Settled(lane) /\ losses >= round) \/ losses >= round + 1
    BY <2>1 DEF RoundInv
  <2>3. PICK b \in BOOLEAN : Created(b) /\ (b => ok)
    BY <1>0, <2>1
  <2>4. CASE round' = 0 /\ losses' = 0 /\ unsettled' = unsettled
    BY <1>1, <2>3, <2>4, CreatedFacts
  <2>5. CASE round' = 0 /\ losses' = 0 /\ b /\ round + 1 = MAX_ROUNDS /\ unsettled' = {losses}
    <3>1. losses >= 3
      BY <1>0, <2>2, <2>3, <2>5 DEF MAX_ROUNDS
    <3>2. QED
      BY <1>0, <1>1, <2>3, <2>5, <3>1, CreatedFacts
  <2>6. CASE b /\ round' = round + 1 /\ UNCHANGED <<lane, losses, unsettled>>
    <3>1. pc' \in {"idle", "readRoot"}
      BY <2>3, CreatedFacts
    <3>2. (Settled(lane) /\ losses' >= round' - 1) \/ losses' >= round'
      BY <1>0, <2>2, <2>3, <2>6
    <3>3. QED
      BY <1>0, <2>1, <2>6, <3>1, <3>2 DEF RoundInv, UnsettledMeansLost, Settled, Installed
  <2>7. QED
    BY <2>3, <2>4, <2>5, <2>6, CreatedFacts
<1>13. CASE LookStep \/ UNCHANGED vars
  <2>1. UNCHANGED <<pc, lane, round, losses, unsettled, ok, seen, keys, rootNamed>>
    BY <1>13, LookFacts DEF vars, device, setup, history
  <2>2. QED
    BY <2>1 DEF RoundInv, UnsettledMeansLost, Settled, Installed, SeenInstalled
\* Windows takes the key away, which counts, or leaves it installed.
<1>14. ASSUME Apart, losses' \in Nat, losses' >= losses,
              pc \notin {"idle", "driver", "root"} =>
                losses' >= losses + 1 \/ (Settled(lane) => Settled(lane)')
       PROVE  RoundInv'
  <2>1. UNCHANGED <<pc, lane, round, unsettled, ok, seen>>
    BY <1>14 DEF Apart
  <2>2. CASE pc \in {"readRoot", "readKey"}
    BY <1>0, <1>14, <2>1, <2>2 DEF RoundInv, UnsettledMeansLost, Settled, Installed
  <2>3. CASE pc = "decide"
    BY <1>0, <1>14, <2>1, <2>3 DEF RoundInv, UnsettledMeansLost, SeenInstalled
  <2>4. CASE pc \in {"remove", "create", "mouse"}
    BY <1>0, <1>14, <2>1, <2>4 DEF RoundInv, UnsettledMeansLost
  <2>5. CASE pc \in {"destroy", "gone"}
    BY <1>0, <1>14, <2>1, <2>5 DEF RoundInv, UnsettledMeansLost, Settled, Installed
  <2>6. CASE pc \notin {"readRoot", "readKey", "decide", "remove", "create", "mouse",
                        "destroy", "gone"}
    BY <1>0, <1>14, <2>1, <2>6 DEF RoundInv, UnsettledMeansLost
  <2>7. QED
    BY <2>2, <2>3, <2>4, <2>5, <2>6
<1>15. CASE OutsideStep
  <2>1. Apart
    BY <1>15, OutsideFacts
  <2>2. losses' = losses \/ losses' = losses + 1
    BY <1>15, ForeignFacts DEF OutsideStep, PnpArrives, PnpFails, PnpDeparts, KeyLost,
                 AppTakes, AppReleases, NewRoot, Meddle
  <2>3. ASSUME losses' = losses, pc \notin {"idle", "driver", "root"}, Settled(lane)
        PROVE  Settled(lane)'
    <3>1. lane' = lane
      BY <2>1 DEF Apart
    <3>2. rootNamed'
      BY <1>15, <2>3, RootKept DEF Settled
    <3>3. ~PnpFails(lane) /\ ~KeyLost(lane) /\ ~NewRoot
      <4>1. ~Meddle(lane)
        BY <1>0, <2>3 DEF Meddle
      <4>2. QED
        BY <2>3, <4>1 DEF PnpFails, KeyLost, NewRoot
    <3>4. ~RemoveDeviceInstance
      BY <2>1, RemoveFacts, LaneDoneFacts DEF Apart, RemoveDeviceInstance
    <3>5. Keeps(lane)
      BY <1>0, <3>3, <3>4, KeepKey
    <3>6. QED
      BY <2>3, <3>1, <3>2, <3>5 DEF Keeps, Settled, Installed
  <2>4. QED
    BY <1>0, <1>14, <2>1, <2>2, <2>3
<1>16. QED
  BY StepKinds, <1>2, <1>3, <1>5, <1>6, <1>7, <1>8, <1>9, <1>10, <1>11, <1>12, <1>13, <1>15
     DEF OutsideStep, QuietStep

-----------------------------------------------------------------------------
(* The theorems. *)

LEMMA InitInv == Init => PinInv
<1> SUFFICES ASSUME Init PROVE PinInv
  OBVIOUS
<1>1. DeviceOK
  <2>1. PICK taken \in [Foreign -> ForeignKeys] :
          keys = [n \in KeyNames |-> IF n[1] = "other" THEN taken[n[2]] ELSE NoKey]
    BY DEF Init
  <2>2. \A f \in Foreign : taken[f] \in LaneKeys \cup {NoKey}
    BY DEF ForeignKeys, LaneKeys, Prefixes
  <2>3. \A n \in KeyNames : n[1] = "other" => n[2] \in Foreign
    BY DEF KeyNames
  <2>4. keys \in [KeyNames -> LaneKeys \cup {NoKey}]
    BY <2>1, <2>2, <2>3
  <2>5. QED
    BY <2>4, KeyFacts DEF Init, DeviceOK
<1>2. SetupOK
  BY DEF Init, SetupOK, PinAssumption, STILL_ACTIVE
<1>3. CountInv /\ NodeInv /\ MouseInv
  BY DEF Init, CountInv, NodeInv, MouseInv, InLane, STILL_ACTIVE
<1>4. LookOK /\ SeenInv /\ PinnedInv /\ FreeInv /\ RoundInv
  BY DEF Init, LookOK, SeenInv, PinnedInv, FreeInv, RoundInv, UnsettledMeansLost
<1>5. QED
  BY <1>1, <1>2, <1>3, <1>4 DEF PinInv, TypeOK

(* Every step of the program, of Windows and of other programs keeps the    *)
(* invariant.                                                               *)
THEOREM PinInductive == Spec => []PinInv
<1>1. PinInv /\ [Next]_vars => PinInv'
  BY SetupStep, LookOKStep, DeviceStep, NodeStep, MouseStep, SeenStep, PinnedStep, FreeStep, RoundStep
     DEF PinInv, TypeOK
<1>2. QED
  BY <1>1, InitInv, PTL DEF Spec

(* For any number of lanes no more fail than there are, and none gets more  *)
(* than MAX_ROUNDS rounds.                                                  *)
THEOREM PinTypeCorrect == Spec => []TypeOK
<1>1. PinInv => TypeOK
  BY DEF PinInv
<1>2. QED
  BY <1>1, PinInductive, PTL

(* An exit code that is not a failure is true of every lane nobody meddled  *)
(* with: PinLane did not take a key that was on its way out, one that       *)
(* Windows had not installed, or one of another lane, for a pinned one.     *)
THEOREM SuccessPinned == Spec => []SuccessIsPinned
<1>1. PinInv => SuccessIsPinned
  BY DEF PinInv, CountInv, PinnedInv, SuccessIsPinned
<1>2. QED
  BY <1>1, PinInductive, PTL

(* Setup's own device is never in the way of a lane it called pinned.       *)
THEOREM PinnedFree == Spec => []PinnedLaneIsFree
<1>1. PinInv => PinnedLaneIsFree
  <2>1. SUFFICES ASSUME PinInv, NEW l \in pinned, node[l] = "setup" PROVE FALSE
    BY DEF PinnedLaneIsFree
  <2>2. l \in Lanes /\ lane \in Lanes
    BY <2>1 DEF PinInv, TypeOK, SetupOK
  <2>3. l = lane /\ pc \in InLane
    BY <2>1, <2>2 DEF PinInv, NodeInv, InLane
  <2>4. l < lane
    BY <2>1, <2>3 DEF PinInv, CountInv
  <2>5. QED
    BY <2>2, <2>3, <2>4
<1>2. QED
  BY <1>1, PinInductive, PTL

(* The four rounds are enough for whatever Windows does to a lane twice.    *)
THEOREM UnsettledLost == Spec => []UnsettledMeansLost
<1>1. PinInv => UnsettledMeansLost
  BY DEF PinInv, RoundInv
<1>2. QED
  BY <1>1, PinInductive, PTL

(* Whatever other devices do between the look and the write, and whatever   *)
(* call of the look fails, a key that holds the prefix while it is written  *)
(* is one ReadVhfKeys missed or one that changed since: PinLane forgets     *)
(* none it has read, in whatever order the keys come.                       *)
THEOREM CollisionFree == Spec => NoCollisionMade
<1> DEFINE Made == \A l \in Lanes :
         /\ SomePrefix(keys'[LaneKeyName(l)]) = PinnedPrefix(l)
         /\ SomePrefix(keys[LaneKeyName(l)]) # PinnedPrefix(l)
         => {n \in KeyNames : ~IsLaneKeyOf(n, l) /\ SomePrefix(keys'[n]) = PinnedPrefix(l)}
              \subseteq overlooked
<1>1. PinInv /\ [Next]_vars => [Made]_vars
  <2>1. SUFFICES ASSUME PinInv, [Next]_vars PROVE Made
    OBVIOUS
  <2>2. TypeOK /\ FreeInv
    BY <2>1 DEF PinInv
  <2>3. QED
    BY <2>1, <2>2, CollisionStep
<1>2. [][Made]_vars => NoCollisionMade
  BY PTL DEF NoCollisionMade
<1>3. QED
  BY <1>1, <1>2, PinInductive, PTL DEF Spec
=============================================================================
