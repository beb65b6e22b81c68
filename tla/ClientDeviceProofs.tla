------------------------- MODULE ClientDeviceProofs -------------------------
(***************************************************************************)
(* What module ClientDeviceProps says of the client library is proved here *)
(* for any number of polling and submitting threads, any events, failing   *)
(* calls or not, and a quiet client or not, but for StopLeavesNoWaiter,    *)
(* which a client that submits while it stops can break.  Only the three   *)
(* leads-to properties stay with TLC: they rest on fairness.               *)
(*                                                                         *)
(* The inductive invariant has five parts beside the type: what the life   *)
(* of the device implies for its threads (Life), which thread holds which  *)
(* pointer (HandsFull), what the driver keeps out (ReadyOut), the signal   *)
(* and its pointer (Signalling), and the throttling period (Pacing).       *)
(***************************************************************************)
EXTENDS ClientDeviceProps, FiniteSetTheorems, TLAPS

USE ClientDeviceAssumption

----------------------------------------------------------------------------
(* The inductive invariant. *)

(* Before it runs a device has nothing: a start that fails makes threads    *)
(* that find it not started, and takes them back.                           *)
Unstarted ==
    devState \in {"None", "Created"} =>
      /\ mainPc \in {"idle", "unwindEvent", "unwindRead"}
      /\ pending = NoEvent /\ ~signalled /\ elapsed
      /\ \A s \in Submitters : submitPc[s] = "idle"
      /\ readPc \in {"none", "top", "exited"}
      /\ pollPc["event"] \in {"none", "enter", "exited"}
      /\ mainPc # "unwindEvent" => pollPc["event"] = "none"
      /\ mainPc = "idle" => readPc = "none"
      /\ waiting = {} /\ shown = {} /\ user = {} /\ stranded = {}

(* Nothing is joined while it runs; a stop joins the event thread first. *)
Started == devState = "Started" => mainPc = "idle"

Stopped ==
    devState = "Stopped" =>
      /\ mainPc \in {"idle", "joinEvent", "signal", "kick", "joinRead"}
      /\ mainPc # "joinEvent" => pollPc["event"] = "none"
      /\ mainPc = "idle" => readPc = "none"

(* When it is freed, no thread runs and every event was completed, though   *)
(* the driver may not have heard of it.                                     *)
Gone ==
    devState = "Freed" =>
      /\ mainPc = "idle" /\ pollPc["event"] = "none" /\ readPc = "none"
      /\ \A p \in Pollers : pollPc[p] = "out"
      /\ \A s \in Submitters : submitPc[s] = "idle"
      /\ pending = NoEvent /\ user = {} /\ shown = stranded

NotMade ==
    devState = "None" => mainPc = "idle" /\ \A p \in Pollers : pollPc[p] = "out"

Life == Unstarted /\ Started /\ Stopped /\ Gone /\ NotMade

(* A thread has a pointer in its local exactly where its code says so. *)
HandsFull ==
    /\ hand["event"] # NoEvent <=> pollPc["event"] = "got"
    /\ hand["read"] # NoEvent <=> readPc = "deliver"
    /\ \A s \in Submitters : hand[s] # NoEvent <=> submitPc[s] = "complete"

(* The driver keeps one ready-for-read event out, and shows an event once. *)
ReadyOut ==
    /\ pending \in Ready \cup {NoEvent}
    /\ waiting \cap shown = {}
    /\ \A e, f \in Ready \cap (waiting \cup shown) : e = f

(* Nobody has the signal, or one does; it goes with the pointer. *)
NoSignal ==
    /\ ~signalled /\ readPc # "woken" /\ pollPc["event"] # "signal"
    /\ \A s \in Submitters : submitPc[s] # "own"

LoneSignal ==
    /\ signalled => readPc # "woken"
    /\ signalled \/ readPc = "woken" => pollPc["event"] # "signal"
    /\ signalled \/ readPc = "woken" \/ pollPc["event"] = "signal"
         => \A s \in Submitters : submitPc[s] # "own"
    /\ \A s, r \in Submitters : submitPc[s] = "own" /\ submitPc[r] = "own" => s = r

Signalling == devState = "Started" => LoneSignal /\ (NoSignal <=> pending = NoEvent)

(* From a hand-over until the period is over, the read thread is on its way *)
(* to the timer or waits for it, unless the device is stopped.              *)
Pacing ==
    ~elapsed =>
      \/ readPc \in {"arm", "exited", "none"}
      \/ readPc = "sleep" /\ (timer = "armed" \/ devState = "Stopped")
      \/ readPc = "top" /\ devState = "Stopped"

ClientInv == TypeOK /\ Life /\ HandsFull /\ EventInOneHand /\ ReadyOut /\ Signalling /\ Pacing

----------------------------------------------------------------------------
(* Types. *)

(* The library's own threads are none of the client's. *)
LEMMA EventsDistinct ==
    /\ "event" \in Threads /\ "event" \in Holders /\ "read" \in Holders
    /\ \A s \in Submitters : s \in Holders /\ s # "event" /\ s # "read"
    /\ \A p \in Pollers : p \in Threads /\ p # "event"
    /\ NoEvent \notin Events
BY DEF ClientDeviceAssumption, Threads, Holders

LEMMA InitTypes == Init => TypeOK
<1> SUFFICES ASSUME Init PROVE TypeOK
  OBVIOUS
<1> USE DEF Init
<1>1. pollPc \in [Threads -> {"none", "out"}] /\ buf \in [Threads -> Nat]
  OBVIOUS
<1>2. submitPc \in [Submitters -> {"idle"}] /\ hand \in [Holders -> {NoEvent}]
  OBVIOUS
<1>3. throttled \in BOOLEAN /\ callback \in BOOLEAN /\ signalled \in BOOLEAN /\ elapsed \in BOOLEAN
  BY Zenon
<1> QED
  BY <1>1, <1>2, <1>3 DEF TypeOK

(* SetEvent releases the read thread or leaves the event signalled. *)
LEMMA SetEventSets ==
    ASSUME SetEvent
    PROVE  \/ readPc = "blocked" /\ readPc' = "woken" /\ signalled' = signalled
           \/ readPc # "blocked" /\ readPc' = readPc /\ signalled'
BY Zenon DEF SetEvent

LEMMA SetEventTypes ==
    ASSUME TypeOK, SetEvent
    PROVE  /\ signalled' \in BOOLEAN
           /\ readPc' \in {"none", "top", "await", "blocked", "woken", "deliver", "arm",
                          "sleep", "exited"}
BY SetEventSets, Zenon DEF TypeOK, SetEvent

(* No step puts a NULL in the client's hands: HandsFull says so. *)
LEMMA NextTypes == ASSUME TypeOK, HandsFull, [Next]_vars PROVE TypeOK'
<1> USE DEF deviceVars, pollVars, throttleVars, eventVars, TypeOK
<1>0. CASE UNCHANGED vars
  BY <1>0 DEF vars
<1>1. CASE \E throttle, ok \in BOOLEAN : CreateDevice(throttle, ok)
  BY <1>1 DEF CreateDevice
<1>2. CASE \E withCallback \in BOOLEAN : StartDevice(withCallback)
  BY <1>2, EventsDistinct DEF StartDevice, StartThreads
<1>3. CASE \E withCallback \in BOOLEAN : StartFails(withCallback)
  BY <1>3, EventsDistinct DEF StartFails, StartThreads
<1>4. CASE StopDevice
  BY <1>4 DEF StopDevice, CancelPolls
<1>5. CASE MainStep
  <2>1. CASE StartUnwinds
    BY <2>1, EventsDistinct DEF StartUnwinds, JoinEvent, JoinRead
  <2>2. CASE StopJoinsEvent \/ StopJoinsRead
    BY <2>2, EventsDistinct DEF StopJoinsEvent, StopJoinsRead, JoinEvent, JoinRead
  <2>3. CASE StopSignals \/ StopKicks
    BY <2>3, SetEventTypes DEF StopSignals, StopKicks
  <2> QED BY <1>5, <2>1, <2>2, <2>3 DEF MainStep
<1>6. CASE DestroyDevice
  BY <1>6 DEF DestroyDevice, DropPending, Complete, Answered
<1>7. CASE \E p \in Pollers : PollBegin(p) \/ PollTimeout(p)
  BY <1>7, EventsDistinct DEF PollBegin, PollTimeout
<1>8. CASE \E t \in Threads : PollStep(t)
  <2> PICK t \in Threads : PollStep(t)
    BY <1>8
  <2>1. CASE PollIssue(t) \/ PollCancelled(t)
    BY <2>1 DEF PollIssue, PollCancelled, EndPoll
  <2>2. CASE PollGrow(t)
    <3>1. buf[t] \in Nat /\ hint \in Nat \ {0}
      OBVIOUS
    <3>2. Grown(buf[t]) \in Nat \ {0}
      BY <3>1 DEF Grown
    <3> QED BY <2>2, <3>2 DEF PollGrow
  <2>3. CASE \E e \in Events : PollSucceeds(t, e) \/ PollTooSmall(t, e)
    BY <2>3, EventsDistinct DEF PollSucceeds, PollTooSmall
  <2> QED BY <2>1, <2>2, <2>3 DEF PollStep
<1>9. CASE \E t \in Threads : PollFails(t)
  BY <1>9 DEF PollFails, EndPoll
<1>10. CASE EventTakes \/ EventSignals
  BY <1>10, EventsDistinct, SetEventTypes DEF EventTakes, EventSignals, HandsFull
<1>11. CASE ReadStep
  <2>1. CASE ReadTop \/ ReadArm \/ ReadSleep
    BY <2>1 DEF ReadTop, ReadArm, ReadSleep, ArmTimer
  <2>2. CASE ReadAwait
    <3>1. readPc' \in {"woken", "blocked"} /\ signalled' \in BOOLEAN
      BY <2>2, Zenon DEF ReadAwait
    <3> QED BY <2>2, <3>1 DEF ReadAwait
  <2>3. CASE ReadWoken
    BY <2>3, EventsDistinct DEF ReadWoken, TakePending
  <2>4. CASE ReadDeliver
    <3>1. elapsed' \in BOOLEAN
      BY <2>4, Zenon DEF ReadDeliver
    <3> QED BY <2>4, <3>1, EventsDistinct DEF ReadDeliver, HandsFull
  <2> QED BY <1>11, <2>1, <2>2, <2>3, <2>4 DEF ReadStep
<1>12. CASE TimerFires
  BY <1>12 DEF TimerFires
<1>13. CASE \E s \in Submitters : SubmitBegin(s)
  <2>1. signalled' \in BOOLEAN
    BY <1>13, Zenon DEF SubmitBegin
  <2> QED BY <1>13, <2>1 DEF SubmitBegin
<1>14. CASE \E s \in Submitters : SubmitStep(s)
  <2> PICK s \in Submitters : SubmitStep(s)
    BY <1>14
  <2>1. CASE SubmitOwns(s) \/ SubmitRearms(s)
    BY <2>1, EventsDistinct DEF SubmitOwns, SubmitRearms, TakePending, ArmTimer
  <2>2. CASE SubmitCompletes(s)
    <3>1. hand[s] \in Events
      BY <2>2, EventsDistinct DEF SubmitCompletes, HandsFull
    <3>2. waiting' \subseteq Events /\ shown' \subseteq Events /\ stranded' \subseteq Events
      <4>1. CASE \E ok \in BOOLEAN : Answered(hand[s], ok)
        BY <3>1, <4>1 DEF Answered
      <4>2. CASE UNCHANGED <<waiting, shown>> /\ stranded' = stranded \cup {hand[s]}
        BY <3>1, <4>2
      <4> QED BY <2>2, <4>1, <4>2, Zenon DEF SubmitCompletes, Complete
    <3>3. /\ UNCHANGED <<deviceVars, pollVars, readPc, throttleVars, user>>
          /\ hand' = [hand EXCEPT ![s] = NoEvent] /\ submitPc' = [submitPc EXCEPT ![s] = "rearm"]
      BY <2>2, Zenon DEF SubmitCompletes
    <3> QED BY <3>2, <3>3, EventsDistinct
  <2> QED BY <2>1, <2>2 DEF SubmitStep
<1>15. CASE \E e \in Events : Raise(e)
  BY <1>15 DEF Raise
<1>16. CASE \E e \in Events, ok \in BOOLEAN : CompleteEvent(e, ok)
  BY <1>16 DEF CompleteEvent, Complete, Answered
<1>17. CASE Terminated
  BY <1>17 DEF Terminated, vars
<1> QED
  BY <1>0, <1>1, <1>2, <1>3, <1>4, <1>5, <1>6, <1>7, <1>8, <1>9, <1>10, <1>11, <1>12,
     <1>13, <1>14, <1>15, <1>16, <1>17 DEF Next

----------------------------------------------------------------------------
(* The steps of the device, one disjunct each. *)
PollEnds(t) == PollIssue(t) \/ PollGrow(t) \/ PollCancelled(t) \/ PollFails(t)

LEMMA StepKinds ==
    ASSUME [Next]_vars
    PROVE
      \/ UNCHANGED vars
      \/ \E throttle, ok \in BOOLEAN : CreateDevice(throttle, ok)
      \/ \E withCallback \in BOOLEAN : StartDevice(withCallback)
      \/ \E withCallback \in BOOLEAN : StartFails(withCallback)
      \/ StartUnwinds
      \/ StopDevice
      \/ StopJoinsEvent
      \/ StopSignals
      \/ StopKicks
      \/ StopJoinsRead
      \/ DestroyDevice
      \/ \E p \in Pollers : PollBegin(p) \/ PollTimeout(p)
      \/ \E t \in Threads : PollEnds(t)
      \/ \E t \in Threads, e \in Events : PollSucceeds(t, e) \/ PollTooSmall(t, e)
      \/ EventTakes
      \/ EventSignals
      \/ ReadTop \/ ReadArm \/ ReadSleep
      \/ ReadAwait
      \/ ReadWoken
      \/ ReadDeliver
      \/ TimerFires
      \/ \E s \in Submitters : SubmitBegin(s)
      \/ \E s \in Submitters : SubmitOwns(s)
      \/ \E s \in Submitters : SubmitCompletes(s)
      \/ \E s \in Submitters : SubmitRearms(s)
      \/ \E e \in Events : Raise(e)
      \/ \E e \in Events, ok \in BOOLEAN : CompleteEvent(e, ok)
BY Zenon DEF Next, MainStep, PollStep, PollEnds, ReadStep, SubmitStep, Terminated

(* Threads are made by a start and taken back before it fails or stops. *)
LEMMA LifeKept == ASSUME TypeOK, Life, EventInOneHand, HandsFull, [Next]_vars PROVE Life'
<1> USE DEF deviceVars, pollVars, throttleVars, eventVars, TypeOK, Life, Unstarted, Started,
   Stopped, Gone, NotMade
<1>1. CASE UNCHANGED vars
  BY <1>1, EventsDistinct DEF vars
<1>2. CASE \E throttle, ok \in BOOLEAN : CreateDevice(throttle, ok)
  BY <1>2, EventsDistinct DEF CreateDevice
<1>3. CASE \E withCallback \in BOOLEAN : StartDevice(withCallback)
  BY <1>3, EventsDistinct DEF StartDevice, MayStart, StartThreads
<1>4. CASE \E withCallback \in BOOLEAN : StartFails(withCallback)
  BY <1>4, EventsDistinct DEF StartFails, MayStart, StartThreads
<1>5. CASE StartUnwinds
  BY <1>5, EventsDistinct DEF StartUnwinds, JoinEvent, JoinRead
<1>6. CASE StopDevice
  BY <1>6, EventsDistinct DEF StopDevice, CancelPolls
<1>7. CASE StopJoinsEvent
  BY <1>7, EventsDistinct DEF StopJoinsEvent, JoinEvent
<1>8. CASE StopSignals
  BY <1>8, EventsDistinct DEF StopSignals, SetEvent
<1>9. CASE StopKicks
  BY <1>9, EventsDistinct DEF StopKicks
<1>10. CASE StopJoinsRead
  BY <1>10, EventsDistinct DEF StopJoinsRead, JoinRead
<1>11. CASE DestroyDevice
  <2>1. \A h \in Holders : hand[h] = NoEvent
    BY <1>11, EventsDistinct DEF DestroyDevice, Holders, HandsFull
  <2>2. shown = stranded \cup ({pending} \ {NoEvent}) /\ pending \notin stranded
    BY <1>11, <2>1, EventsDistinct DEF DestroyDevice, EventInOneHand
  <2>3. shown' = stranded'
    BY <1>11, <2>2 DEF DestroyDevice, DropPending, Complete, Answered
  <2> QED BY <1>11, <2>3 DEF DestroyDevice
<1>12. CASE \E p \in Pollers : PollBegin(p) \/ PollTimeout(p)
  BY <1>12, EventsDistinct DEF PollBegin, PollTimeout
<1>13. CASE \E t \in Threads : PollEnds(t)
  BY <1>13, EventsDistinct DEF PollEnds, PollIssue, PollAllowed, PollGrow, PollCancelled,
     PollFails, EndPoll
<1>14. CASE \E t \in Threads, e \in Events : PollSucceeds(t, e) \/ PollTooSmall(t, e)
  <2> PICK t \in Threads, e \in Events : PollSucceeds(t, e) \/ PollTooSmall(t, e)
    BY <1>14
  <2>1. /\ UNCHANGED <<deviceVars, readPc, submitPc, throttleVars>>
        /\ pollPc[t] \in {"waiting", "cancelling"} /\ e \in waiting
        /\ \A u \in Threads : u # t => pollPc'[u] = pollPc[u]
    BY EventsDistinct DEF PollSucceeds, PollTooSmall
  <2>2. devState \in {"Started", "Stopped"}
    <3>1. devState \notin {"None", "Created"}
      BY <2>1
    <3>2. CASE devState = "Freed"
      BY <2>1, <3>2 DEF Threads
    <3> QED BY <3>1, <3>2
  <2>3. devState = "Stopped" /\ mainPc # "joinEvent" => pollPc'["event"] = "none"
    BY <2>1, EventsDistinct
  <2> QED BY <2>1, <2>2, <2>3
<1>15. CASE EventTakes
  BY <1>15, EventsDistinct DEF EventTakes
<1>16. CASE EventSignals
  BY <1>16, EventsDistinct DEF EventSignals, SetEvent
<1>17. CASE ReadTop \/ ReadArm \/ ReadSleep
  BY <1>17, EventsDistinct DEF ReadTop, ReadArm, ReadSleep, ArmTimer
<1>18. CASE ReadAwait
  BY <1>18, EventsDistinct DEF ReadAwait
<1>19. CASE ReadWoken
  BY <1>19, EventsDistinct DEF ReadWoken, TakePending
<1>20. CASE ReadDeliver
  BY <1>20, EventsDistinct DEF ReadDeliver
<1>21. CASE TimerFires
  BY <1>21, EventsDistinct DEF TimerFires
<1>22. CASE \E s \in Submitters : SubmitBegin(s)
  BY <1>22, EventsDistinct DEF SubmitBegin
<1>23. CASE \E s \in Submitters : SubmitOwns(s)
  BY <1>23, EventsDistinct DEF SubmitOwns, TakePending
<1>24. CASE \E s \in Submitters : SubmitCompletes(s)
  BY <1>24, EventsDistinct DEF SubmitCompletes, Complete, Answered
<1>25. CASE \E s \in Submitters : SubmitRearms(s)
  BY <1>25, EventsDistinct DEF SubmitRearms, ArmTimer
<1>26. CASE \E e \in Events : Raise(e)
  BY <1>26, EventsDistinct DEF Raise
<1>27. CASE \E e \in Events, ok \in BOOLEAN : CompleteEvent(e, ok)
  BY <1>27, EventsDistinct DEF CompleteEvent, Complete, Answered
<1> QED
  BY StepKinds, <1>1, <1>2, <1>3, <1>4, <1>5, <1>6, <1>7, <1>8, <1>9, <1>10, <1>11, <1>12,
     <1>13, <1>14, <1>15, <1>16, <1>17, <1>18, <1>19, <1>20, <1>21, <1>22, <1>23, <1>24,
     <1>25, <1>26, <1>27, Zenon

(* Every local is taken and given up with the step that says so. *)
LEMMA HandsFullKept == ASSUME TypeOK, Life, HandsFull, [Next]_vars PROVE HandsFull'
<1> USE DEF deviceVars, pollVars, throttleVars, eventVars, TypeOK, HandsFull
<1>1. CASE UNCHANGED vars
  BY <1>1, EventsDistinct DEF vars
<1>2. CASE \E throttle, ok \in BOOLEAN : CreateDevice(throttle, ok)
  BY <1>2, EventsDistinct DEF CreateDevice
<1>3. CASE \E withCallback \in BOOLEAN : StartDevice(withCallback)
  BY <1>3, EventsDistinct DEF StartDevice, MayStart, StartThreads, Life, Unstarted
<1>4. CASE \E withCallback \in BOOLEAN : StartFails(withCallback)
  BY <1>4, EventsDistinct DEF StartFails, MayStart, StartThreads, Life, Unstarted
<1>5. CASE StartUnwinds
  BY <1>5, EventsDistinct DEF StartUnwinds, JoinEvent, JoinRead
<1>6. CASE StopDevice
  BY <1>6, EventsDistinct DEF StopDevice, CancelPolls
<1>7. CASE StopJoinsEvent
  BY <1>7, EventsDistinct DEF StopJoinsEvent, JoinEvent
<1>8. CASE StopSignals
  BY <1>8, EventsDistinct DEF StopSignals, SetEvent
<1>9. CASE StopKicks
  BY <1>9, EventsDistinct DEF StopKicks
<1>10. CASE StopJoinsRead
  BY <1>10, EventsDistinct DEF StopJoinsRead, JoinRead
<1>11. CASE DestroyDevice
  BY <1>11, EventsDistinct DEF DestroyDevice, DropPending, Complete, Answered
<1>12. CASE \E p \in Pollers : PollBegin(p) \/ PollTimeout(p)
  BY <1>12, EventsDistinct DEF PollBegin, PollTimeout
<1>13. CASE \E t \in Threads : PollEnds(t)
  BY <1>13, EventsDistinct DEF PollEnds, PollIssue, PollAllowed, PollGrow, PollCancelled,
     PollFails, EndPoll
<1>14. CASE \E t \in Threads, e \in Events : PollSucceeds(t, e) \/ PollTooSmall(t, e)
  BY <1>14, EventsDistinct DEF PollSucceeds, PollTooSmall
<1>15. CASE EventTakes
  BY <1>15, EventsDistinct DEF EventTakes
<1>16. CASE EventSignals
  BY <1>16, EventsDistinct DEF EventSignals, SetEvent
<1>17. CASE ReadTop \/ ReadArm \/ ReadSleep
  BY <1>17, EventsDistinct DEF ReadTop, ReadArm, ReadSleep, ArmTimer
<1>18. CASE ReadAwait
  BY <1>18, EventsDistinct DEF ReadAwait
<1>19. CASE ReadWoken
  BY <1>19, EventsDistinct DEF ReadWoken, TakePending
<1>20. CASE ReadDeliver
  BY <1>20, EventsDistinct DEF ReadDeliver
<1>21. CASE TimerFires
  BY <1>21, EventsDistinct DEF TimerFires
<1>22. CASE \E s \in Submitters : SubmitBegin(s)
  BY <1>22, EventsDistinct DEF SubmitBegin
<1>23. CASE \E s \in Submitters : SubmitOwns(s)
  BY <1>23, EventsDistinct DEF SubmitOwns, TakePending
<1>24. CASE \E s \in Submitters : SubmitCompletes(s)
  BY <1>24, EventsDistinct DEF SubmitCompletes, Complete, Answered
<1>25. CASE \E s \in Submitters : SubmitRearms(s)
  BY <1>25, EventsDistinct DEF SubmitRearms, ArmTimer
<1>26. CASE \E e \in Events : Raise(e)
  BY <1>26, EventsDistinct DEF Raise
<1>27. CASE \E e \in Events, ok \in BOOLEAN : CompleteEvent(e, ok)
  BY <1>27, EventsDistinct DEF CompleteEvent, Complete, Answered
<1> QED
  BY StepKinds, <1>1, <1>2, <1>3, <1>4, <1>5, <1>6, <1>7, <1>8, <1>9, <1>10, <1>11, <1>12,
     <1>13, <1>14, <1>15, <1>16, <1>17, <1>18, <1>19, <1>20, <1>21, <1>22, <1>23, <1>24,
     <1>25, <1>26, <1>27, Zenon

(* A refused event goes back to the driver, and is still the only one. *)
LEMMA ReadyOutKept ==
    ASSUME TypeOK, Life, ReadyOut, HandsFull, EventInOneHand, [Next]_vars
    PROVE  ReadyOut'
<1> USE DEF deviceVars, pollVars, throttleVars, eventVars, TypeOK, ReadyOut
<1>1. CASE UNCHANGED vars
  BY <1>1, EventsDistinct DEF vars
<1>2. CASE \E throttle, ok \in BOOLEAN : CreateDevice(throttle, ok)
  BY <1>2, EventsDistinct DEF CreateDevice
<1>3. CASE \E withCallback \in BOOLEAN : StartDevice(withCallback)
  BY <1>3, EventsDistinct DEF StartDevice, MayStart, StartThreads
<1>4. CASE \E withCallback \in BOOLEAN : StartFails(withCallback)
  BY <1>4, EventsDistinct DEF StartFails, MayStart, StartThreads
<1>5. CASE StartUnwinds
  BY <1>5, EventsDistinct DEF StartUnwinds, JoinEvent, JoinRead
<1>6. CASE StopDevice
  BY <1>6, EventsDistinct DEF StopDevice, CancelPolls
<1>7. CASE StopJoinsEvent
  BY <1>7, EventsDistinct DEF StopJoinsEvent, JoinEvent
<1>8. CASE StopSignals
  BY <1>8, EventsDistinct DEF StopSignals, SetEvent
<1>9. CASE StopKicks
  BY <1>9, EventsDistinct DEF StopKicks
<1>10. CASE StopJoinsRead
  BY <1>10, EventsDistinct DEF StopJoinsRead, JoinRead
<1>11. CASE DestroyDevice
  <2>1. pending # NoEvent => pending \in shown
    BY DEF EventInOneHand
  <2> QED BY <1>11, <2>1, EventsDistinct DEF DestroyDevice, DropPending, Complete, Answered
<1>12. CASE \E p \in Pollers : PollBegin(p) \/ PollTimeout(p)
  BY <1>12, EventsDistinct DEF PollBegin, PollTimeout
<1>13. CASE \E t \in Threads : PollEnds(t)
  BY <1>13, EventsDistinct DEF PollEnds, PollIssue, PollAllowed, PollGrow, PollCancelled,
     PollFails, EndPoll
<1>14. CASE \E t \in Threads, e \in Events : PollSucceeds(t, e) \/ PollTooSmall(t, e)
  BY <1>14, EventsDistinct DEF PollSucceeds, PollTooSmall
<1>15. CASE EventTakes
  BY <1>15, EventsDistinct DEF EventTakes
<1>16. CASE EventSignals
  BY <1>16, EventsDistinct DEF EventSignals, SetEvent
<1>17. CASE ReadTop \/ ReadArm \/ ReadSleep
  BY <1>17, EventsDistinct DEF ReadTop, ReadArm, ReadSleep, ArmTimer
<1>18. CASE ReadAwait
  BY <1>18, EventsDistinct DEF ReadAwait
<1>19. CASE ReadWoken
  BY <1>19, EventsDistinct DEF ReadWoken, TakePending
<1>20. CASE ReadDeliver
  BY <1>20, EventsDistinct DEF ReadDeliver
<1>21. CASE TimerFires
  BY <1>21, EventsDistinct DEF TimerFires
<1>22. CASE \E s \in Submitters : SubmitBegin(s)
  BY <1>22, EventsDistinct DEF SubmitBegin
<1>23. CASE \E s \in Submitters : SubmitOwns(s)
  BY <1>23, EventsDistinct DEF SubmitOwns, TakePending
<1>24. CASE \E s \in Submitters : SubmitCompletes(s)
  <2> PICK s \in Submitters : SubmitCompletes(s)
    BY <1>24
  <2>1. hand[s] \in shown
    BY EventsDistinct DEF SubmitCompletes, HandsFull, EventInOneHand
  <2> QED BY <2>1 DEF SubmitCompletes, Complete, Answered
<1>25. CASE \E s \in Submitters : SubmitRearms(s)
  BY <1>25, EventsDistinct DEF SubmitRearms, ArmTimer
<1>26. CASE \E e \in Events : Raise(e)
  BY <1>26, EventsDistinct DEF Raise
<1>27. CASE \E e \in Events, ok \in BOOLEAN : CompleteEvent(e, ok)
  <2>1. user \subseteq shown
    BY DEF EventInOneHand
  <2> QED BY <1>27, <2>1, EventsDistinct DEF CompleteEvent, Complete, Answered
<1> QED
  BY StepKinds, <1>1, <1>2, <1>3, <1>4, <1>5, <1>6, <1>7, <1>8, <1>9, <1>10, <1>11, <1>12,
     <1>13, <1>14, <1>15, <1>16, <1>17, <1>18, <1>19, <1>20, <1>21, <1>22, <1>23, <1>24,
     <1>25, <1>26, <1>27, Zenon

(* When the event thread has a ready-for-read event, none is pending: the   *)
(* pointer EventThreadProc overwrites is NULL.                              *)
LEMMA TakesWhenNone ==
    ASSUME TypeOK, EventInOneHand, ReadyOut, hand["event"] \in Ready
    PROVE  pending = NoEvent
<1>1. hand["event"] # NoEvent /\ hand["event"] # pending /\ hand["event"] \in shown
  BY EventsDistinct DEF EventInOneHand, Events
<1>2. pending # NoEvent => pending \in shown
  BY DEF EventInOneHand
<1> QED
  BY <1>1, <1>2 DEF ReadyOut

(* An event moves from one place to another: out of the pending pointer,    *)
(* into the client's hands, into the pending pointer.                       *)
OneHand ==
    /\ shown = stranded \cup user
                  \cup (({pending} \cup {hand[h] : h \in Holders}) \ {NoEvent})
    /\ stranded \cap (user \cup {pending} \cup {hand[h] : h \in Holders}) = {}
    /\ \A h \in Holders : hand[h] # NoEvent => hand[h] \notin user \cup {pending}
    /\ \A h, g \in Holders : h # g /\ hand[h] # NoEvent => hand[h] # hand[g]
    /\ pending \notin user

(* What EventInOneHand says when the life of the device is known. *)
LEMMA OneHandIs ==
    ASSUME Life
    PROVE  EventInOneHand <=> OneHand
BY DEF EventInOneHand, OneHand, Life, Gone

LEMMA PendingTaken ==
    ASSUME TypeOK, OneHand, NEW h \in Holders, hand[h] = NoEvent, TakePending(h),
           shown' = shown, stranded' = stranded, user' = user
    PROVE  OneHand'
<1>1. \A g \in Holders : hand'[g] = IF g = h THEN pending ELSE hand[g]
  BY DEF TakePending, TypeOK
<1>2. pending' = NoEvent
  BY DEF TakePending
<1>3. {hand'[g] : g \in Holders} \ {NoEvent}
        = ({pending} \cup {hand[g] : g \in Holders}) \ {NoEvent}
  BY <1>1
<1>4. NoEvent \notin user
  BY EventsDistinct DEF TypeOK
<1> QED
  BY <1>1, <1>2, <1>3, <1>4 DEF OneHand

LEMMA HandGiven ==
    ASSUME TypeOK, OneHand, NEW h \in Holders, hand[h] # NoEvent,
           hand' = [hand EXCEPT ![h] = NoEvent], user' = user \cup {hand[h]},
           shown' = shown, stranded' = stranded, pending' = pending
    PROVE  OneHand'
<1>1. \A g \in Holders : hand'[g] = IF g = h THEN NoEvent ELSE hand[g]
  BY DEF TypeOK
<1>2. {hand'[g] : g \in Holders} \ {NoEvent} = {hand[g] : g \in Holders} \ {NoEvent, hand[h]}
  BY <1>1 DEF OneHand
<1> QED
  BY <1>1, <1>2, EventsDistinct DEF OneHand, TypeOK

LEMMA HandPends ==
    ASSUME TypeOK, OneHand, NEW h \in Holders, hand[h] # NoEvent, pending = NoEvent,
           hand' = [hand EXCEPT ![h] = NoEvent], pending' = hand[h],
           shown' = shown, stranded' = stranded, user' = user
    PROVE  OneHand'
<1>1. \A g \in Holders : hand'[g] = IF g = h THEN NoEvent ELSE hand[g]
  BY DEF TypeOK
<1>2. {hand'[g] : g \in Holders} \ {NoEvent} = {hand[g] : g \in Holders} \ {NoEvent, hand[h]}
  BY <1>1 DEF OneHand
<1> QED
  BY <1>1, <1>2 DEF OneHand

(* A new event goes to the event thread or to a client's thread. *)
LEMMA EventShown ==
    ASSUME TypeOK, OneHand, NEW e \in Events, e \notin shown, shown' = shown \cup {e},
           stranded' = stranded, pending' = pending,
           \/ hand["event"] = NoEvent /\ hand' = [hand EXCEPT !["event"] = e] /\ user' = user
           \/ hand' = hand /\ user' = user \cup {e}
    PROVE  OneHand'
<1>1. CASE hand' = hand /\ user' = user \cup {e}
  BY <1>1, EventsDistinct DEF OneHand
<1>2. CASE hand["event"] = NoEvent /\ hand' = [hand EXCEPT !["event"] = e] /\ user' = user
  <2>1. \A g \in Holders : hand'[g] = IF g = "event" THEN e ELSE hand[g]
    BY <1>2 DEF TypeOK
  <2>2. {hand'[g] : g \in Holders} \ {NoEvent} = ({hand[g] : g \in Holders} \ {NoEvent}) \cup {e}
    BY <1>2, <2>1, EventsDistinct
  <2>3. e # NoEvent /\ e # pending /\ e \notin user /\ \A g \in Holders : e # hand[g]
    BY EventsDistinct DEF OneHand
  <2> QED
    BY <1>2, <2>1, <2>2, <2>3 DEF OneHand
<1> QED
  BY <1>1, <1>2

(* A completion takes the event from the client or from a thread's local,   *)
(* whether or not the driver hears of it.                                   *)
LEMMA OneCompleted ==
    ASSUME TypeOK, OneHand, NEW e \in Events, NEW ok, Complete(e, ok), pending' = pending,
           \/ e \in user /\ user' = user \ {e} /\ hand' = hand
           \/ \E h \in Holders : /\ hand[h] = e /\ user' = user
                                 /\ hand' = [hand EXCEPT ![h] = NoEvent]
    PROVE  OneHand'
<1> DEFINE Held == ({pending} \cup {hand[g] : g \in Holders}) \ {NoEvent}
<1>1. /\ user' \cup Held' = (user \cup Held) \ {e}
      /\ user' \subseteq user /\ e \in user \cup Held /\ e \notin stranded
      /\ \A g \in Holders : hand'[g] \in {hand[g], NoEvent}
  <2>1. CASE e \in user /\ user' = user \ {e} /\ hand' = hand
    <3>1. e \notin Held
      BY <2>1 DEF OneHand
    <3> QED BY <2>1, <3>1 DEF OneHand
  <2>2. CASE \E h \in Holders : /\ hand[h] = e /\ user' = user
                               /\ hand' = [hand EXCEPT ![h] = NoEvent]
    <3> PICK h \in Holders : hand[h] = e /\ user' = user /\ hand' = [hand EXCEPT ![h] = NoEvent]
      BY <2>2
    <3>1. \A g \in Holders : hand'[g] = IF g = h THEN NoEvent ELSE hand[g]
      BY DEF TypeOK
    <3>2. {hand'[g] : g \in Holders} \ {NoEvent} = {hand[g] : g \in Holders} \ {NoEvent, e}
      BY <3>1, EventsDistinct DEF OneHand
    <3> QED BY <3>1, <3>2, EventsDistinct DEF OneHand
  <2> QED BY <2>1, <2>2
<1>2. shown' = stranded' \cup (shown \ {e}) /\ stranded' \in {stranded, stranded \cup {e}}
  BY <1>1 DEF Complete, Answered, OneHand
<1>3. shown' = stranded' \cup user' \cup Held'
  BY <1>1, <1>2 DEF OneHand
<1>4. stranded' \cap (user' \cup Held') = {}
  BY <1>1, <1>2 DEF OneHand
<1>5. NoEvent \notin stranded'
  BY <1>1, <1>2, EventsDistinct DEF TypeOK
<1>6. stranded' \cap (user' \cup {pending'} \cup {hand'[g] : g \in Holders}) = {}
  BY <1>4, <1>5
<1> QED
  BY <1>1, <1>3, <1>6 DEF OneHand

(* No step loses an event, completes it twice or has it in two places. *)
LEMMA OneHandKept ==
    ASSUME TypeOK, Life, Life', ReadyOut, HandsFull, EventInOneHand, [Next]_vars
    PROVE  EventInOneHand'
<1> USE DEF deviceVars, pollVars, throttleVars, eventVars, TypeOK, EventInOneHand
<1>1. CASE UNCHANGED vars
  BY <1>1, EventsDistinct DEF vars
<1>2. CASE \E throttle, ok \in BOOLEAN : CreateDevice(throttle, ok)
  BY <1>2, EventsDistinct DEF CreateDevice, Life, NotMade, Unstarted, Gone
<1>3. CASE \E withCallback \in BOOLEAN : StartDevice(withCallback)
  BY <1>3, EventsDistinct DEF StartDevice, MayStart, StartThreads
<1>4. CASE \E withCallback \in BOOLEAN : StartFails(withCallback)
  BY <1>4, EventsDistinct DEF StartFails, MayStart, StartThreads
<1>5. CASE StartUnwinds
  BY <1>5, EventsDistinct DEF StartUnwinds, JoinEvent, JoinRead
<1>6. CASE StopDevice
  BY <1>6, EventsDistinct DEF StopDevice, CancelPolls
<1>7. CASE StopJoinsEvent
  BY <1>7, EventsDistinct DEF StopJoinsEvent, JoinEvent
<1>8. CASE StopSignals
  BY <1>8, EventsDistinct DEF StopSignals, SetEvent
<1>9. CASE StopKicks
  BY <1>9, EventsDistinct DEF StopKicks
<1>10. CASE StopJoinsRead
  BY <1>10, EventsDistinct DEF StopJoinsRead, JoinRead
<1>11. CASE DestroyDevice
  <2>1. \A h \in Holders : hand[h] = NoEvent
    BY <1>11, EventsDistinct DEF DestroyDevice, Holders, HandsFull, Life, Unstarted, Stopped
  <2>2. stranded' \subseteq Events
    BY <1>11 DEF DestroyDevice, DropPending, Complete, Answered
  <2>3. /\ shown' = stranded' /\ user' = {} /\ pending' = NoEvent /\ hand' = hand
        /\ devState' = "Freed" /\ pollPc'["event"] = "none" /\ readPc' = "none"
    BY <1>11 DEF DestroyDevice, Life, Gone
  <2>4. stranded' \cap (user' \cup {pending'} \cup {hand'[h] : h \in Holders}) = {}
    BY <2>1, <2>2, <2>3, EventsDistinct
  <2>5. ({pending'} \cup {hand'[h] : h \in Holders}) \ {NoEvent} = {}
    BY <2>1, <2>3
  <2> QED BY <2>1, <2>3, <2>4, <2>5
<1>12. CASE \E p \in Pollers : PollBegin(p) \/ PollTimeout(p)
  <2> PICK p \in Pollers : PollBegin(p) \/ PollTimeout(p)
    BY <1>12
  <2>1. /\ UNCHANGED <<devState, readPc, hand, pending, eventVars>>
        /\ pollPc'["event"] = pollPc["event"]
    BY EventsDistinct DEF PollBegin, PollTimeout
  <2> QED BY <2>1
<1>13. CASE \E t \in Threads : PollEnds(t)
  BY <1>13, EventsDistinct DEF PollEnds, PollIssue, PollAllowed, PollGrow, PollCancelled,
     PollFails, EndPoll
<1>14. CASE \E t \in Threads, e \in Events : PollSucceeds(t, e) \/ PollTooSmall(t, e)
  <2> PICK t \in Threads, e \in Events : PollSucceeds(t, e) \/ PollTooSmall(t, e)
    BY <1>14
  <2>1. CASE PollSucceeds(t, e)
    <3>1. t = "event" => hand["event"] = NoEvent
      BY <2>1 DEF PollSucceeds, HandsFull
    <3>2. e \notin shown /\ shown' = shown \cup {e} /\ pending' = pending
      BY <2>1 DEF PollSucceeds, ReadyOut
    <3>3. OneHand'
      BY <2>1, <3>1, <3>2, OneHandIs, EventShown DEF PollSucceeds
    <3> QED BY <3>3 DEF OneHand, Life, Gone
  <2>2. CASE PollTooSmall(t, e)
    BY <2>2, EventsDistinct DEF PollTooSmall
  <2> QED BY <2>1, <2>2
<1>15. CASE EventTakes
  <2>1. hand["event"] # NoEvent
    BY <1>15 DEF EventTakes, HandsFull
  <2>2. OneHand'
    <3>1. CASE hand["event"] \in Ready /\ throttled
      BY <1>15, <2>1, <3>1, OneHandIs, HandPends, TakesWhenNone, EventsDistinct DEF EventTakes
    <3>2. CASE ~(hand["event"] \in Ready /\ throttled)
      BY <1>15, <2>1, <3>2, OneHandIs, HandGiven, EventsDistinct DEF EventTakes
    <3> QED BY <3>1, <3>2
  <2> QED BY <2>2 DEF OneHand, Life, Gone
<1>16. CASE EventSignals
  BY <1>16, EventsDistinct DEF EventSignals, SetEvent
<1>17. CASE ReadTop \/ ReadArm \/ ReadSleep
  BY <1>17, EventsDistinct DEF ReadTop, ReadArm, ReadSleep, ArmTimer
<1>18. CASE ReadAwait
  BY <1>18, EventsDistinct DEF ReadAwait
<1>19. CASE ReadWoken
  <2>1. CASE devState = "Started"
    <3>1. hand["read"] = NoEvent
      BY <1>19 DEF ReadWoken, HandsFull
    <3>2. OneHand'
      BY <1>19, <2>1, <3>1, OneHandIs, PendingTaken, EventsDistinct DEF ReadWoken
    <3> QED BY <3>2 DEF OneHand, Life, Gone
  <2>2. CASE devState # "Started"
    BY <1>19, <2>2, EventsDistinct DEF ReadWoken
  <2> QED BY <2>1, <2>2
<1>20. CASE ReadDeliver
  <2>1. hand["read"] # NoEvent
    BY <1>20 DEF ReadDeliver, HandsFull
  <2>2. OneHand'
    BY <1>20, <2>1, OneHandIs, HandGiven, EventsDistinct DEF ReadDeliver
  <2> QED BY <2>2 DEF OneHand, Life, Gone
<1>21. CASE TimerFires
  BY <1>21, EventsDistinct DEF TimerFires
<1>22. CASE \E s \in Submitters : SubmitBegin(s)
  BY <1>22, EventsDistinct DEF SubmitBegin
<1>23. CASE \E s \in Submitters : SubmitOwns(s)
  <2> PICK s \in Submitters : SubmitOwns(s)
    BY <1>23
  <2>1. hand[s] = NoEvent
    BY DEF SubmitOwns, HandsFull
  <2>2. OneHand'
    BY <2>1, OneHandIs, PendingTaken, EventsDistinct DEF SubmitOwns
  <2> QED BY <2>2 DEF OneHand, Life, Gone
<1>24. CASE \E s \in Submitters : SubmitCompletes(s)
  <2> PICK s \in Submitters : SubmitCompletes(s)
    BY <1>24
  <2>1. hand[s] \in Events /\ s \in Holders
    BY EventsDistinct DEF SubmitCompletes, HandsFull
  <2>2. OneHand'
    BY <2>1, OneHandIs, OneCompleted DEF SubmitCompletes
  <2> QED BY <2>2 DEF OneHand, Life, Gone
<1>25. CASE \E s \in Submitters : SubmitRearms(s)
  BY <1>25, EventsDistinct DEF SubmitRearms, ArmTimer
<1>26. CASE \E e \in Events : Raise(e)
  BY <1>26, EventsDistinct DEF Raise
<1>27. CASE \E e \in Events, ok \in BOOLEAN : CompleteEvent(e, ok)
  <2>1. OneHand'
    BY <1>27, OneHandIs, OneCompleted DEF CompleteEvent
  <2> QED BY <2>1 DEF OneHand, Life, Gone
<1> QED
  BY StepKinds, <1>1, <1>2, <1>3, <1>4, <1>5, <1>6, <1>7, <1>8, <1>9, <1>10, <1>11, <1>12,
     <1>13, <1>14, <1>15, <1>16, <1>17, <1>18, <1>19, <1>20, <1>21, <1>22, <1>23, <1>24,
     <1>25, <1>26, <1>27, Zenon

(* The signal is passed on, spent with the pointer, or set with it. *)
LEMMA SignallingKept ==
    ASSUME TypeOK, Life, EventInOneHand, ReadyOut, Signalling, [Next]_vars
    PROVE  Signalling'
<1> USE DEF deviceVars, pollVars, throttleVars, eventVars, TypeOK, Signalling, NoSignal,
   LoneSignal
<1>1. CASE UNCHANGED vars
  BY <1>1, EventsDistinct DEF vars
<1>2. CASE \E throttle, ok \in BOOLEAN : CreateDevice(throttle, ok)
  BY <1>2, EventsDistinct DEF CreateDevice
<1>3. CASE \E withCallback \in BOOLEAN : StartDevice(withCallback)
  BY <1>3, EventsDistinct DEF StartDevice, MayStart, StartThreads, Life, Unstarted
<1>4. CASE \E withCallback \in BOOLEAN : StartFails(withCallback)
  BY <1>4, EventsDistinct DEF StartFails, MayStart, StartThreads
<1>5. CASE StartUnwinds
  BY <1>5, EventsDistinct DEF StartUnwinds, JoinEvent, JoinRead
<1>6. CASE StopDevice
  BY <1>6, EventsDistinct DEF StopDevice, CancelPolls
<1>7. CASE StopJoinsEvent
  BY <1>7, EventsDistinct DEF StopJoinsEvent, JoinEvent
<1>8. CASE StopSignals
  <2>1. devState' # "Started"
    BY <1>8 DEF StopSignals, Life, Started
  <2> QED BY <2>1
<1>9. CASE StopKicks
  BY <1>9, EventsDistinct DEF StopKicks
<1>10. CASE StopJoinsRead
  BY <1>10, EventsDistinct DEF StopJoinsRead, JoinRead
<1>11. CASE DestroyDevice
  BY <1>11, EventsDistinct DEF DestroyDevice, DropPending, Complete, Answered
<1>12. CASE \E p \in Pollers : PollBegin(p) \/ PollTimeout(p)
  BY <1>12, EventsDistinct DEF PollBegin, PollTimeout
<1>13. CASE \E t \in Threads : PollEnds(t)
  BY <1>13, EventsDistinct DEF PollEnds, PollIssue, PollAllowed, PollGrow, PollCancelled,
     PollFails, EndPoll
<1>14. CASE \E t \in Threads, e \in Events : PollSucceeds(t, e) \/ PollTooSmall(t, e)
  BY <1>14, EventsDistinct DEF PollSucceeds, PollTooSmall
<1>15. CASE EventTakes
  <2>1. CASE hand["event"] \in Ready /\ throttled
    <3>1. pending = NoEvent
      BY <1>15, <2>1, TakesWhenNone DEF EventTakes
    <3> QED BY <1>15, <2>1, <3>1, EventsDistinct DEF EventTakes, Events
  <2>2. CASE ~(hand["event"] \in Ready /\ throttled)
    BY <1>15, <2>2, EventsDistinct DEF EventTakes
  <2> QED BY <2>1, <2>2
<1>16. CASE EventSignals
  BY <1>16, EventsDistinct DEF EventSignals, SetEvent
<1>17. CASE ReadTop \/ ReadArm \/ ReadSleep
  BY <1>17, EventsDistinct DEF ReadTop, ReadArm, ReadSleep, ArmTimer
<1>18. CASE ReadAwait
  BY <1>18, EventsDistinct DEF ReadAwait
<1>19. CASE ReadWoken
  BY <1>19, EventsDistinct DEF ReadWoken, TakePending
<1>20. CASE ReadDeliver
  BY <1>20, EventsDistinct DEF ReadDeliver
<1>21. CASE TimerFires
  BY <1>21, EventsDistinct DEF TimerFires
<1>22. CASE \E s \in Submitters : SubmitBegin(s)
  BY <1>22, EventsDistinct DEF SubmitBegin
<1>23. CASE \E s \in Submitters : SubmitOwns(s)
  BY <1>23, EventsDistinct DEF SubmitOwns, TakePending
<1>24. CASE \E s \in Submitters : SubmitCompletes(s)
  BY <1>24, EventsDistinct DEF SubmitCompletes, Complete, Answered
<1>25. CASE \E s \in Submitters : SubmitRearms(s)
  BY <1>25, EventsDistinct DEF SubmitRearms, ArmTimer
<1>26. CASE \E e \in Events : Raise(e)
  BY <1>26, EventsDistinct DEF Raise
<1>27. CASE \E e \in Events, ok \in BOOLEAN : CompleteEvent(e, ok)
  BY <1>27, EventsDistinct DEF CompleteEvent, Complete, Answered
<1> QED
  BY StepKinds, <1>1, <1>2, <1>3, <1>4, <1>5, <1>6, <1>7, <1>8, <1>9, <1>10, <1>11, <1>12,
     <1>13, <1>14, <1>15, <1>16, <1>17, <1>18, <1>19, <1>20, <1>21, <1>22, <1>23, <1>24,
     <1>25, <1>26, <1>27, Zenon

(* Only the timer, or a stop, lets the read thread go round. *)
LEMMA PacingKept == ASSUME TypeOK, Life, Pacing, [Next]_vars PROVE Pacing'
<1> USE DEF deviceVars, pollVars, throttleVars, eventVars, TypeOK, Pacing
<1>1. CASE UNCHANGED vars
  BY <1>1, EventsDistinct DEF vars
<1>2. CASE \E throttle, ok \in BOOLEAN : CreateDevice(throttle, ok)
  BY <1>2, EventsDistinct DEF CreateDevice
<1>3. CASE \E withCallback \in BOOLEAN : StartDevice(withCallback)
  BY <1>3, EventsDistinct DEF StartDevice, MayStart, StartThreads, Life, Unstarted
<1>4. CASE \E withCallback \in BOOLEAN : StartFails(withCallback)
  BY <1>4, EventsDistinct DEF StartFails, MayStart, StartThreads, Life, Unstarted
<1>5. CASE StartUnwinds
  BY <1>5, EventsDistinct DEF StartUnwinds, JoinEvent, JoinRead
<1>6. CASE StopDevice
  BY <1>6, EventsDistinct DEF StopDevice, CancelPolls
<1>7. CASE StopJoinsEvent
  BY <1>7, EventsDistinct DEF StopJoinsEvent, JoinEvent
<1>8. CASE StopSignals
  BY <1>8, EventsDistinct DEF StopSignals, SetEvent
<1>9. CASE StopKicks
  <2>1. devState = "Stopped"
    BY <1>9 DEF StopKicks, Life, Unstarted, Started, Gone, NotMade
  <2> QED BY <1>9, <2>1 DEF StopKicks
<1>10. CASE StopJoinsRead
  BY <1>10, EventsDistinct DEF StopJoinsRead, JoinRead
<1>11. CASE DestroyDevice
  BY <1>11, EventsDistinct DEF DestroyDevice, Life, Unstarted, Stopped
<1>12. CASE \E p \in Pollers : PollBegin(p) \/ PollTimeout(p)
  BY <1>12, EventsDistinct DEF PollBegin, PollTimeout
<1>13. CASE \E t \in Threads : PollEnds(t)
  BY <1>13, EventsDistinct DEF PollEnds, PollIssue, PollAllowed, PollGrow, PollCancelled,
     PollFails, EndPoll
<1>14. CASE \E t \in Threads, e \in Events : PollSucceeds(t, e) \/ PollTooSmall(t, e)
  BY <1>14, EventsDistinct DEF PollSucceeds, PollTooSmall
<1>15. CASE EventTakes
  BY <1>15, EventsDistinct DEF EventTakes
<1>16. CASE EventSignals
  BY <1>16, EventsDistinct DEF EventSignals, SetEvent
<1>17. CASE ReadTop \/ ReadArm \/ ReadSleep
  BY <1>17, EventsDistinct DEF ReadTop, ReadArm, ReadSleep, ArmTimer
<1>18. CASE ReadAwait
  BY <1>18, EventsDistinct DEF ReadAwait
<1>19. CASE ReadWoken
  BY <1>19, EventsDistinct DEF ReadWoken, TakePending
<1>20. CASE ReadDeliver
  BY <1>20, EventsDistinct DEF ReadDeliver
<1>21. CASE TimerFires
  BY <1>21, EventsDistinct DEF TimerFires
<1>22. CASE \E s \in Submitters : SubmitBegin(s)
  BY <1>22, EventsDistinct DEF SubmitBegin
<1>23. CASE \E s \in Submitters : SubmitOwns(s)
  BY <1>23, EventsDistinct DEF SubmitOwns, TakePending
<1>24. CASE \E s \in Submitters : SubmitCompletes(s)
  BY <1>24, EventsDistinct DEF SubmitCompletes, Complete, Answered
<1>25. CASE \E s \in Submitters : SubmitRearms(s)
  BY <1>25, EventsDistinct DEF SubmitRearms, ArmTimer
<1>26. CASE \E e \in Events : Raise(e)
  BY <1>26, EventsDistinct DEF Raise
<1>27. CASE \E e \in Events, ok \in BOOLEAN : CompleteEvent(e, ok)
  BY <1>27, EventsDistinct DEF CompleteEvent, Complete, Answered
<1> QED
  BY StepKinds, <1>1, <1>2, <1>3, <1>4, <1>5, <1>6, <1>7, <1>8, <1>9, <1>10, <1>11, <1>12,
     <1>13, <1>14, <1>15, <1>16, <1>17, <1>18, <1>19, <1>20, <1>21, <1>22, <1>23, <1>24,
     <1>25, <1>26, <1>27, Zenon

----------------------------------------------------------------------------
(* The theorems. *)

LEMMA InitHolds == Init => ClientInv
<1> SUFFICES ASSUME Init PROVE ClientInv
  OBVIOUS
<1>1. TypeOK
  BY InitTypes
<1>2. Life
  BY EventsDistinct DEF Init, Life, Unstarted, Started, Stopped, Gone, NotMade
<1>3. HandsFull
  BY EventsDistinct DEF Init, HandsFull
<1>4. EventInOneHand
  BY DEF Init, EventInOneHand
<1>5. ReadyOut /\ Signalling /\ Pacing
  BY DEF Init, ReadyOut, Signalling, Pacing
<1> QED
  BY <1>1, <1>2, <1>3, <1>4, <1>5 DEF ClientInv

LEMMA NextHolds == ClientInv /\ [Next]_vars => ClientInv'
<1> SUFFICES ASSUME ClientInv, [Next]_vars PROVE ClientInv'
  OBVIOUS
<1> USE DEF ClientInv
<1>1. TypeOK'
  BY NextTypes
<1>2. Life'
  BY LifeKept
<1>3. HandsFull' /\ ReadyOut'
  BY HandsFullKept, ReadyOutKept
<1>4. EventInOneHand'
  BY <1>2, OneHandKept
<1>5. Signalling' /\ Pacing'
  BY SignallingKept, PacingKept
<1> QED
  BY <1>1, <1>2, <1>3, <1>4, <1>5

LEMMA AlwaysHolds == Spec => []ClientInv
BY InitHolds, NextHolds, PTL DEF Spec, Safety

(* Every variable of the device record keeps its type, so that no NULL     *)
(* pointer is ever handed to the callback (WinUHid.cpp:296-343, 356-364).  *)
THEOREM ClientTypeCorrect == Spec => []TypeOK
<1>1. ClientInv => TypeOK
  BY DEF ClientInv
<1> QED
  BY <1>1, AlwaysHolds, PTL

(* Whatever threads submit, poll and stop, and whatever call fails, each    *)
(* event the driver has shown is in one place from which it will be         *)
(* completed, or its completion failed and nobody has it any more; when the *)
(* device is freed only such events are left (WinUHid.cpp:356-364, 600-649, *)
(* 726-757).                                                                *)
THEOREM EventsInOneHand == Spec => []EventInOneHand
<1>1. ClientInv => EventInOneHand
  BY DEF ClientInv
<1> QED
  BY <1>1, AlwaysHolds, PTL

(* The owners of the signal, counted. *)
LEMMA LoneSignalIs ==
    ASSUME LoneSignal
    PROVE  IF NoSignal THEN SignalOwners = {} ELSE \E w : SignalOwners = {w}
<1>1. CASE NoSignal
  BY <1>1 DEF NoSignal, SignalOwners
<1>2. CASE signalled
  BY <1>2 DEF LoneSignal, NoSignal, SignalOwners
<1>3. CASE readPc = "woken"
  BY <1>3 DEF LoneSignal, NoSignal, SignalOwners
<1>4. CASE pollPc["event"] = "signal"
  BY <1>4 DEF LoneSignal, NoSignal, SignalOwners
<1>5. CASE \E s \in Submitters : submitPc[s] = "own"
  <2> PICK s \in Submitters : submitPc[s] = "own"
    BY <1>5
  <2>1. SignalOwners = {s}
    BY DEF LoneSignal, SignalOwners
  <2> QED BY <2>1 DEF NoSignal
<1> QED
  BY <1>1, <1>2, <1>3, <1>4, <1>5 DEF NoSignal

(* While the device runs there is one signal for a pending ready-for-read   *)
(* event and none without: the NULLs at WinUHid.cpp:253 and 318 are         *)
(* impossible, for any number of submitting threads.                        *)
THEOREM SignalGoesWithPointer == Spec => []SignalMeansPending
<1>1. ClientInv => SignalMeansPending
  <2> SUFFICES ASSUME ClientInv, devState = "Started"
               PROVE  IF pending = NoEvent THEN SignalOwners = {}
                                           ELSE Cardinality(SignalOwners) = 1
    BY DEF SignalMeansPending
  <2>1. LoneSignal /\ (NoSignal <=> pending = NoEvent)
    BY DEF ClientInv, Signalling
  <2>2. CASE pending = NoEvent
    BY <2>1, <2>2, LoneSignalIs
  <2>3. CASE pending # NoEvent
    <3> PICK w : SignalOwners = {w}
      BY <2>1, <2>3, LoneSignalIs
    <3> QED BY <2>3, FS_Singleton
  <2> QED BY <2>2, <2>3
<1> QED
  BY <1>1, AlwaysHolds, PTL

(* Only a poll that found its buffer too small changes the hint. *)
LEMMA OnlyGrowHints ==
    ASSUME [Next]_vars
    PROVE  hint' = hint \/ \E t \in Threads : PollGrow(t)
<1> USE DEF deviceVars, pollVars, throttleVars, eventVars
<1>1. CASE \E t \in Threads : PollEnds(t)
  BY <1>1 DEF PollEnds, PollIssue, PollCancelled, PollFails, EndPoll
<1>2. CASE ~\E t \in Threads : PollEnds(t)
  BY <1>2, StepKinds DEF vars, CreateDevice, StartDevice, StartFails, StartUnwinds, StopDevice,
     StopJoinsEvent, StopSignals, StopKicks, StopJoinsRead, DestroyDevice, PollBegin,
     PollTimeout, PollSucceeds, PollTooSmall, EventTakes, EventSignals, ReadTop, ReadAwait,
     ReadWoken, ReadDeliver, ReadArm, ReadSleep, TimerFires, SubmitBegin, SubmitOwns,
     SubmitCompletes, SubmitRearms, Raise, CompleteEvent
<1> QED
  BY <1>1, <1>2

(* The buffer size all polls start from only grows (WinUHid.cpp:555-570).   *)
THEOREM HintGrows == Spec => HintOnlyGrows
<1>1. TypeOK /\ [Next]_vars => [hint' >= hint]_vars
  <2> SUFFICES ASSUME TypeOK, Next PROVE hint' >= hint
    OBVIOUS
  <2>1. hint \in Nat
    BY DEF TypeOK
  <2>2. CASE \E t \in Threads : PollGrow(t)
    <3> PICK t \in Threads : PollGrow(t)
      BY <2>2
    <3>1. buf[t] \in Nat /\ hint' = Grown(buf[t])
      BY DEF PollGrow, TypeOK
    <3> QED BY <2>1, <3>1 DEF Grown
  <2>3. hint' = hint \/ \E t \in Threads : PollGrow(t)
    BY OnlyGrowHints
  <2> QED BY <2>1, <2>2, <2>3
<1>2. ClientInv => TypeOK
  BY DEF ClientInv
<1> QED
  BY <1>1, <1>2, AlwaysHolds, PTL DEF HintOnlyGrows, Spec, Safety

(* Between two events the read thread hands over a whole throttling period  *)
(* passes, whatever a submit or a stop does to the timer (WinUHid.h,        *)
(* ReadReportPeriodUs).                                                     *)
THEOREM HandOversPaced == Spec => HandOversArePaced
<1>1. ClientInv /\ [Next]_vars => [readPc = "deliver" /\ readPc' # "deliver" => elapsed]_vars
  BY DEF ClientInv, Pacing
<1> QED
  BY <1>1, AlwaysHolds, PTL DEF HandOversArePaced, Spec, Safety

(* A stop is the last to signal: with the device stopped nothing polls      *)
(* anew, and a client that is quiet then takes no signal from the thread    *)
(* that is joined.                                                          *)
LEMMA NoWaiterKept ==
    ASSUME QuietStop, ClientInv, StopLeavesNoWaiter, [Next]_vars
    PROVE  StopLeavesNoWaiter'
<1> USE DEF deviceVars, pollVars, throttleVars, eventVars, StopLeavesNoWaiter
<1>0. TypeOK /\ (mainPc \in {"kick", "joinRead"} => devState = "Stopped")
  BY DEF ClientInv, Life, Unstarted, Started, Stopped, Gone, TypeOK
<1>1. CASE UNCHANGED vars
  BY <1>1 DEF vars
<1>2. CASE \E throttle, ok \in BOOLEAN : CreateDevice(throttle, ok)
  BY <1>0, <1>2 DEF CreateDevice
<1>3. CASE \E withCallback \in BOOLEAN : StartDevice(withCallback)
  BY <1>0, <1>3 DEF StartDevice, MayStart, StartThreads
<1>4. CASE \E withCallback \in BOOLEAN : StartFails(withCallback)
  BY <1>0, <1>4 DEF StartFails, MayStart, StartThreads
<1>5. CASE StartUnwinds
  BY <1>0, <1>5, EventsDistinct DEF StartUnwinds, JoinEvent, JoinRead, TypeOK
<1>6. CASE StopDevice
  BY <1>0, <1>6 DEF StopDevice, CancelPolls, TypeOK
<1>7. CASE StopJoinsEvent
  BY <1>0, <1>7, EventsDistinct DEF StopJoinsEvent, JoinEvent, TypeOK
<1>8. CASE StopSignals
  BY <1>0, <1>8, SetEventSets DEF StopSignals
<1>9. CASE StopKicks
  BY <1>0, <1>9 DEF StopKicks
<1>10. CASE StopJoinsRead
  BY <1>0, <1>10 DEF StopJoinsRead, JoinRead
<1>11. CASE DestroyDevice
  BY <1>0, <1>11 DEF DestroyDevice
<1>12. CASE \E p \in Pollers : PollBegin(p) \/ PollTimeout(p)
  BY <1>0, <1>12, EventsDistinct DEF PollBegin, PollTimeout, TypeOK
<1>13. CASE \E t \in Threads : PollEnds(t)
  BY <1>0, <1>13 DEF PollEnds, PollIssue, PollAllowed, PollGrow, PollCancelled, PollFails,
     EndPoll, TypeOK
<1>14. CASE \E t \in Threads, e \in Events : PollSucceeds(t, e) \/ PollTooSmall(t, e)
  BY <1>0, <1>14, EventsDistinct DEF PollSucceeds, PollTooSmall, TypeOK
<1>15. CASE EventTakes
  BY <1>0, <1>15, EventsDistinct DEF EventTakes, TypeOK
<1>16. CASE EventSignals
  BY <1>0, <1>16, EventsDistinct, SetEventSets DEF EventSignals, TypeOK
<1>17. CASE ReadTop \/ ReadArm \/ ReadSleep
  BY <1>0, <1>17 DEF ReadTop, ReadArm, ReadSleep, ArmTimer
<1>18. CASE ReadAwait
  BY <1>0, <1>18 DEF ReadAwait
<1>19. CASE ReadWoken
  BY <1>0, <1>19 DEF ReadWoken, TakePending
<1>20. CASE ReadDeliver
  BY <1>0, <1>20 DEF ReadDeliver
<1>21. CASE TimerFires
  BY <1>0, <1>21 DEF TimerFires
<1>22. CASE \E s \in Submitters : SubmitBegin(s)
  BY <1>0, <1>22 DEF SubmitBegin
<1>23. CASE \E s \in Submitters : SubmitOwns(s)
  BY <1>0, <1>23 DEF SubmitOwns, TakePending
<1>24. CASE \E s \in Submitters : SubmitCompletes(s)
  BY <1>0, <1>24 DEF SubmitCompletes
<1>25. CASE \E s \in Submitters : SubmitRearms(s)
  BY <1>0, <1>25 DEF SubmitRearms, ArmTimer
<1>26. CASE \E e \in Events : Raise(e)
  BY <1>0, <1>26 DEF Raise
<1>27. CASE \E e \in Events, ok \in BOOLEAN : CompleteEvent(e, ok)
  BY <1>0, <1>27 DEF CompleteEvent
<1> QED
  BY StepKinds, <1>1, <1>2, <1>3, <1>4, <1>5, <1>6, <1>7, <1>8, <1>9, <1>10, <1>11, <1>12,
     <1>13, <1>14, <1>15, <1>16, <1>17, <1>18, <1>19, <1>20, <1>21, <1>22, <1>23, <1>24,
     <1>25, <1>26, <1>27, Zenon

(* For a client that submits nothing once it stops the device, a stop       *)
(* leaves neither a poll in the driver uncancelled nor the read thread      *)
(* without its signal, whatever number of threads poll and submit until     *)
(* then (WinUHid.cpp:666-672, 705-711).                                     *)
THEOREM StopLeavesNone == QuietStop => (Spec => []StopLeavesNoWaiter)
<1> SUFFICES ASSUME QuietStop PROVE Spec => []StopLeavesNoWaiter
  OBVIOUS
<1>1. Init => StopLeavesNoWaiter
  BY DEF Init, StopLeavesNoWaiter
<1>2. ClientInv /\ StopLeavesNoWaiter /\ [Next]_vars => StopLeavesNoWaiter'
  BY NoWaiterKept
<1> QED
  BY <1>1, <1>2, AlwaysHolds, PTL DEF Spec, Safety
=============================================================================
