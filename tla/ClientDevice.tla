---------------------------- MODULE ClientDevice ----------------------------
(***************************************************************************)
(* One device of the client library, third_party/winuhid/WinUHid.cpp, from *)
(* WinUHidCreateDevice to WinUHidDestroyDevice: the WINUHID_DEVICE record, *)
(* its event thread and its read thread with the throttling timer, and the *)
(* client's own threads that poll, submit, complete events and stop.       *)
(*                                                                         *)
(* What is done under Device->Lock is one step.  StartDevice holds the     *)
(* lock while it makes its threads, which wait for it, so that it too is   *)
(* one step up to its release of the lock.  The driver is seen as the      *)
(* library sees it: events it keeps, polls it answers or cancels.          *)
(***************************************************************************)
EXTENDS Integers, FiniteSets

CONSTANTS
    Pollers,     \* client threads in WinUHidPollEvent, when there is no callback
    Submitters,  \* client threads in WinUHidSubmitInputReport
    Ready,       \* ready-for-read events: Read.DataLength = 0
    Other,       \* all other events
    EventSize,   \* how many units of 128 bytes each event takes
    NoEvent,     \* a NULL event pointer
    QuietStop,   \* the client submits nothing once it stops the device
    Faults       \* may calls to Windows and to the driver fail?

Events == Ready \cup Other
Threads == Pollers \cup {"event"}
Holders == Submitters \cup {"event", "read"}

ASSUME ClientDeviceAssumption ==
    /\ Ready \cap Other = {} /\ NoEvent \notin Events
    /\ {"event", "read"} \cap (Pollers \cup Submitters) = {}
    /\ EventSize \in [Events -> Nat \ {0}]
    /\ QuietStop \in BOOLEAN /\ Faults \in BOOLEAN

VARIABLES
    devState,  \* Device->State; "None" before it is created, "Freed" after
    throttled, \* ThrottlingTimer and ReadReportReadyEvent exist
    callback,  \* Device->EventCallback is not NULL
    hint,      \* EventBufferSizeHint, in units of 128 bytes
    mainPc,    \* the thread that starts, stops and destroys the device
    pollPc,    \* the threads that poll; "none" or "exited" for the event thread
    buf,       \* bufferSize of each
    readPc,    \* the read thread
    submitPc,  \* the threads that submit
    hand,      \* the event pointer a thread has in a local variable
    pending,   \* PendingReadReportEvent
    signalled, \* ReadReportReadyEvent, which resets when a wait succeeds
    timer,     \* ThrottlingTimer, which stays signalled until it is set again
    elapsed,   \* history: a throttling period has passed since a hand-over
    user,      \* events the client has and must complete
    waiting,   \* events the driver has not shown
    shown,     \* events it has shown and waits to have completed
    stranded   \* history: events given up although their completion failed

deviceVars == <<devState, throttled, callback, mainPc>>
pollVars == <<hint, pollPc, buf>>
throttleVars == <<pending, signalled, timer, elapsed>>
eventVars == <<user, waiting, shown, stranded>>
vars == <<deviceVars, pollVars, readPc, submitPc, hand, throttleVars, eventVars>>

TypeOK ==
    /\ devState \in {"None", "Created", "Started", "Stopped", "Freed"}
    /\ throttled \in BOOLEAN /\ callback \in BOOLEAN
    /\ hint \in Nat \ {0}
    /\ mainPc \in {"idle", "unwindEvent", "unwindRead",
                   "joinEvent", "signal", "kick", "joinRead"}
    /\ pollPc \in [Threads -> {"none", "out", "enter", "retry", "waiting", "cancelling",
                               "grow", "got", "signal", "exited"}]
    /\ buf \in [Threads -> Nat]
    /\ readPc \in {"none", "top", "await", "blocked", "woken", "deliver", "arm",
                   "sleep", "exited"}
    /\ submitPc \in [Submitters -> {"idle", "own", "complete", "rearm"}]
    /\ hand \in [Holders -> Events \cup {NoEvent}]
    /\ pending \in Events \cup {NoEvent} /\ signalled \in BOOLEAN
    /\ timer \in {"idle", "armed", "signalled"} /\ elapsed \in BOOLEAN
    /\ user \subseteq Events /\ waiting \subseteq Events
    /\ shown \subseteq Events /\ stranded \subseteq Events

Init ==
    /\ devState = "None" /\ throttled = FALSE /\ callback = FALSE
    /\ hint = 1 /\ mainPc = "idle"
    /\ pollPc = [t \in Threads |-> IF t = "event" THEN "none" ELSE "out"]
    /\ buf = [t \in Threads |-> 0]
    /\ readPc = "none" /\ submitPc = [s \in Submitters |-> "idle"]
    /\ hand = [h \in Holders |-> NoEvent]
    /\ pending = NoEvent /\ signalled = FALSE /\ timer = "idle" /\ elapsed = TRUE
    /\ user = {} /\ waiting = {} /\ shown = {} /\ stranded = {}

----------------------------------------------------------------------------
(* Synchronisation objects. *)

(* SetEvent on an auto-reset event: a thread already waiting is released    *)
(* and the event stays unsignalled; otherwise the next wait succeeds.       *)
SetEvent ==
    IF readPc = "blocked"
    THEN readPc' = "woken" /\ UNCHANGED signalled
    ELSE signalled' = TRUE /\ UNCHANGED readPc

(* SetWaitableTimer with the throttling period unsignals a manual-reset timer. *)
ArmTimer == timer' = "armed"

TimerFires ==
    /\ timer = "armed"
    /\ timer' = "signalled" /\ elapsed' = TRUE
    /\ UNCHANGED <<deviceVars, pollVars, readPc, submitPc, hand, pending, signalled,
                   eventVars>>

(* InterlockedExchangePointer(&PendingReadReportEvent, NULL) into a local. *)
TakePending(h) ==
    /\ hand' = [hand EXCEPT ![h] = pending]
    /\ pending' = NoEvent

----------------------------------------------------------------------------
(* The driver, as driver/WinUHid.c serves this file (module GunFile).  VHF  *)
(* keeps at most one ready-for-read event out.                              *)
Raise(e) ==
    /\ devState \in {"Started", "Stopped"}
    /\ e \notin waiting \cup shown
    /\ e \in Ready => Ready \cap (waiting \cup shown) = {}
    /\ waiting' = waiting \cup {e}
    /\ UNCHANGED <<deviceVars, pollVars, readPc, submitPc, hand, throttleVars, user, shown, stranded>>

(* A completion that arrives: a ready-for-read event refused is raised again. *)
Answered(e, ok) ==
    /\ shown' = shown \ {e}
    /\ waiting' = IF e \in Ready /\ ~ok THEN waiting \cup {e} ELSE waiting
    /\ UNCHANGED stranded

(* DeviceIoControlInSync may find no event object, or the driver may fail   *)
(* it: nobody looks at the result, the event is freed all the same, and the *)
(* driver goes on waiting for it.                                           *)
Complete(e, ok) ==
    \/ Answered(e, ok)
    \/ Faults /\ stranded' = stranded \cup {e} /\ UNCHANGED <<waiting, shown>>

----------------------------------------------------------------------------
(* WinUHidPollEvent, in a thread t. *)

(* What a poll that ends with NULL leads to in its thread. *)
EndPoll(t) ==
    /\ pollPc' = [pollPc EXCEPT ![t] = IF t = "event" THEN "exited" ELSE "out"]
    /\ buf' = [buf EXCEPT ![t] = 0]

PollBegin(p) ==
    /\ pollPc[p] = "out" /\ devState \notin {"None", "Freed"} /\ ~callback
    /\ pollPc' = [pollPc EXCEPT ![p] = "enter"]
    /\ UNCHANGED <<deviceVars, hint, buf, readPc, submitPc, hand, throttleVars, eventVars>>

(* Broken variant: the state is not looked at again when a poll is retried. *)
BadPollAllowed(t) == devState = "Started" \/ pollPc[t] = "retry"

PollAllowed(t) == devState = "Started"

(* Under the shared lock: check the state and issue GET_NEXT_EVENT. *)
PollIssue(t) ==
    /\ pollPc[t] \in {"enter", "retry"}
    /\ IF PollAllowed(t)
       THEN /\ buf' = [buf EXCEPT ![t] = IF pollPc[t] = "enter" THEN hint ELSE buf[t]]
            /\ pollPc' = [pollPc EXCEPT ![t] = "waiting"]
       ELSE EndPoll(t)
    /\ UNCHANGED <<deviceVars, hint, readPc, submitPc, hand, throttleVars, eventVars>>

(* The driver answers a poll, perhaps after it was told to cancel it: with  *)
(* an event, which the event thread takes on and a client's thread returns. *)
PollSucceeds(t, e) ==
    /\ pollPc[t] \in {"waiting", "cancelling"}
    /\ e \in waiting /\ EventSize[e] <= buf[t]
    /\ waiting' = waiting \ {e} /\ shown' = shown \cup {e}
    /\ IF t = "event"
       THEN /\ hand' = [hand EXCEPT !["event"] = e]
            /\ pollPc' = [pollPc EXCEPT !["event"] = "got"]
            /\ UNCHANGED user
       ELSE /\ user' = user \cup {e}
            /\ pollPc' = [pollPc EXCEPT ![t] = "out"]
            /\ UNCHANGED hand
    /\ buf' = [buf EXCEPT ![t] = 0]
    /\ UNCHANGED <<deviceVars, hint, readPc, submitPc, throttleVars, stranded>>

(* ... or with ERROR_INSUFFICIENT_BUFFER, the event staying where it is     *)
(* (a poll that has already timed out fails) ...                            *)
PollTooSmall(t, e) ==
    /\ pollPc[t] = "waiting"
    /\ e \in waiting /\ EventSize[e] > buf[t]
    /\ pollPc' = [pollPc EXCEPT ![t] = "grow"]
    /\ UNCHANGED <<deviceVars, hint, buf, readPc, submitPc, hand, throttleVars, eventVars>>

(* ... or as cancelled; and a call of the poll may fail. *)
PollCancelled(t) ==
    /\ pollPc[t] = "cancelling"
    /\ EndPoll(t)
    /\ UNCHANGED <<deviceVars, hint, readPc, submitPc, hand, throttleVars, eventVars>>

PollFails(t) ==
    /\ Faults /\ pollPc[t] \in {"enter", "waiting", "grow"}
    /\ EndPoll(t)
    /\ UNCHANGED <<deviceVars, hint, readPc, submitPc, hand, throttleVars, eventVars>>

(* The client's timeout: CancelIoEx for this request only. *)
PollTimeout(p) ==
    /\ pollPc[p] = "waiting"
    /\ pollPc' = [pollPc EXCEPT ![p] = "cancelling"]
    /\ UNCHANGED <<deviceVars, hint, buf, readPc, submitPc, hand, throttleVars, eventVars>>

(* Broken variant: the hint becomes this thread's size, whatever it was. *)
BadGrown(size) == 2 * size

(* Under the exclusive lock: the hint and the buffer after a failure at size. *)
Grown(size) == IF hint < 2 * size THEN 2 * size ELSE hint

PollGrow(t) ==
    /\ pollPc[t] = "grow"
    /\ hint' = Grown(buf[t]) /\ buf' = [buf EXCEPT ![t] = hint']
    /\ pollPc' = [pollPc EXCEPT ![t] = "retry"]
    /\ UNCHANGED <<deviceVars, readPc, submitPc, hand, throttleVars, eventVars>>

PollStep(t) ==
    \/ PollIssue(t) \/ PollGrow(t) \/ PollCancelled(t)
    \/ \E e \in Events : PollSucceeds(t, e) \/ PollTooSmall(t, e)

----------------------------------------------------------------------------
(* EventThreadProc, between two polls. *)

(* A ready-for-read event of a throttled device becomes the pending one,    *)
(* whatever was pending; any other goes to the callback.                    *)
EventTakes ==
    /\ pollPc["event"] = "got"
    /\ hand' = [hand EXCEPT !["event"] = NoEvent]
    /\ IF hand["event"] \in Ready /\ throttled
       THEN /\ pending' = hand["event"]
            /\ pollPc' = [pollPc EXCEPT !["event"] = "signal"]
            /\ UNCHANGED user
       ELSE /\ user' = user \cup {hand["event"]}
            /\ pollPc' = [pollPc EXCEPT !["event"] = "enter"]
            /\ UNCHANGED pending
    /\ UNCHANGED <<deviceVars, hint, buf, readPc, submitPc, signalled, timer, elapsed,
                   waiting, shown, stranded>>

EventSignals ==
    /\ pollPc["event"] = "signal"
    /\ SetEvent
    /\ pollPc' = [pollPc EXCEPT !["event"] = "enter"]
    /\ UNCHANGED <<deviceVars, hint, buf, submitPc, hand, pending, timer, elapsed, eventVars>>

----------------------------------------------------------------------------
(* ReadThreadProc. *)

ReadTop ==
    /\ readPc = "top"
    /\ readPc' = IF devState = "Started" THEN "await" ELSE "exited"
    /\ UNCHANGED <<deviceVars, pollVars, submitPc, hand, throttleVars, eventVars>>

(* Broken variant: a wait leaves the event signalled. *)
BadReadAwait ==
    /\ readPc = "await"
    /\ readPc' = IF signalled THEN "woken" ELSE "blocked"
    /\ UNCHANGED <<deviceVars, pollVars, submitPc, hand, throttleVars, eventVars>>

ReadAwait ==
    /\ readPc = "await"
    /\ readPc' = IF signalled THEN "woken" ELSE "blocked"
    /\ signalled' = FALSE
    /\ UNCHANGED <<deviceVars, pollVars, submitPc, hand, pending, timer, elapsed, eventVars>>

(* Broken variant: a thread that is woken takes the pointer and goes on. *)
BadReadWoken ==
    /\ readPc = "woken"
    /\ TakePending("read") /\ readPc' = "deliver"
    /\ UNCHANGED <<deviceVars, pollVars, submitPc, signalled, timer, elapsed, eventVars>>

(* Under the shared lock: the state is looked at before the pointer is taken. *)
ReadWoken ==
    /\ readPc = "woken"
    /\ IF devState # "Started"
       THEN readPc' = "exited" /\ UNCHANGED <<hand, pending>>
       ELSE /\ TakePending("read")
            /\ readPc' = IF pending = NoEvent THEN "await" ELSE "deliver"
    /\ UNCHANGED <<deviceVars, pollVars, submitPc, signalled, timer, elapsed, eventVars>>

ReadDeliver ==
    /\ readPc = "deliver"
    /\ user' = user \cup {hand["read"]} /\ hand' = [hand EXCEPT !["read"] = NoEvent]
    /\ elapsed' = FALSE
    /\ readPc' = "arm"
    /\ UNCHANGED <<deviceVars, pollVars, submitPc, pending, signalled, timer, waiting, shown,
                   stranded>>

(* Broken variant: a timer that has fired stays signalled. *)
BadReadArm ==
    /\ readPc = "arm"
    /\ readPc' = "sleep"
    /\ timer' = IF timer = "signalled" THEN timer ELSE "armed"
    /\ UNCHANGED <<deviceVars, pollVars, submitPc, hand, pending, signalled, elapsed,
                   eventVars>>

ReadArm ==
    /\ readPc = "arm"
    /\ ArmTimer
    /\ readPc' = "sleep"
    /\ UNCHANGED <<deviceVars, pollVars, submitPc, hand, pending, signalled, elapsed,
                   eventVars>>

ReadSleep ==
    /\ readPc = "sleep" /\ timer = "signalled"
    /\ readPc' = "top"
    /\ UNCHANGED <<deviceVars, pollVars, submitPc, hand, throttleVars, eventVars>>

ReadStep ==
    ReadTop \/ ReadAwait \/ ReadWoken \/ ReadDeliver \/ ReadArm \/ ReadSleep

----------------------------------------------------------------------------
(* WinUHidSubmitInputReport on a throttled device.  (On another, it writes  *)
(* to the file and touches nothing here.)                                   *)

(* WaitForSingleObject(ReadReportReadyEvent, 0); otherwise ERROR_NOT_READY. *)
SubmitBegin(s) ==
    /\ submitPc[s] = "idle" /\ throttled /\ devState # "Freed"
    /\ QuietStop => devState # "Stopped"
    /\ signalled /\ signalled' = FALSE
    /\ submitPc' = [submitPc EXCEPT ![s] = "own"]
    /\ UNCHANGED <<deviceVars, pollVars, readPc, hand, pending, timer, elapsed, eventVars>>

(* Broken variant: the signal is spent and the event left behind. *)
BadSubmitOwns(s) ==
    /\ submitPc[s] = "own"
    /\ submitPc' = [submitPc EXCEPT ![s] = "idle"]
    /\ UNCHANGED <<deviceVars, pollVars, readPc, hand, throttleVars, eventVars>>

SubmitOwns(s) ==
    /\ submitPc[s] = "own"
    /\ TakePending(s)
    /\ submitPc' = [submitPc EXCEPT ![s] = IF pending = NoEvent THEN "idle" ELSE "complete"]
    /\ UNCHANGED <<deviceVars, pollVars, readPc, signalled, timer, elapsed, eventVars>>

(* Without memory for the report the event is refused instead. *)
SubmitCompletes(s) ==
    /\ submitPc[s] = "complete"
    /\ \E ok \in BOOLEAN : (ok \/ Faults) /\ Complete(hand[s], ok)
    /\ hand' = [hand EXCEPT ![s] = NoEvent]
    /\ submitPc' = [submitPc EXCEPT ![s] = "rearm"]
    /\ UNCHANGED <<deviceVars, pollVars, readPc, throttleVars, user>>

SubmitRearms(s) ==
    /\ submitPc[s] = "rearm"
    /\ ArmTimer
    /\ submitPc' = [submitPc EXCEPT ![s] = "idle"]
    /\ UNCHANGED <<deviceVars, pollVars, readPc, hand, pending, signalled, elapsed, eventVars>>

SubmitStep(s) == SubmitOwns(s) \/ SubmitCompletes(s) \/ SubmitRearms(s)

(* The client completes an event, in the callback or at any later time. *)
CompleteEvent(e, ok) ==
    /\ e \in user /\ user' = user \ {e}
    /\ Complete(e, ok)
    /\ UNCHANGED <<deviceVars, pollVars, readPc, submitPc, hand, throttleVars>>

----------------------------------------------------------------------------
(* The device's life, in the client's main thread. *)

(* A creation that fails half way destroys what it made. *)
CreateDevice(throttle, ok) ==
    /\ devState = "None" /\ (ok \/ Faults)
    /\ throttled' = throttle
    /\ devState' = IF ok THEN "Created" ELSE "Freed"
    /\ UNCHANGED <<callback, mainPc, pollVars, readPc, submitPc, hand, throttleVars,
                   eventVars>>

(* WinUHidStartDevice up to the release of the lock.  The threads it has    *)
(* made by then find the device started, or still in the Created state.     *)
(* A client that registers a callback does not poll as well.                *)
StartThreads(event, read) ==
    /\ pollPc' = [pollPc EXCEPT !["event"] = IF event THEN "enter" ELSE "none"]
    /\ readPc' = IF read THEN "top" ELSE "none"

MayStart(withCallback) ==
    /\ devState = "Created" /\ mainPc = "idle"
    /\ withCallback => \A p \in Pollers : pollPc[p] = "out"

StartDevice(withCallback) ==
    /\ MayStart(withCallback)
    /\ callback' = withCallback
    /\ StartThreads(withCallback, throttled)
    /\ devState' = "Started"
    /\ UNCHANGED <<throttled, mainPc, hint, buf, submitPc, hand, throttleVars, eventVars>>

(* It fails for want of a thread, or because the driver refuses. *)
StartFails(withCallback) ==
    /\ Faults /\ MayStart(withCallback)
    /\ callback' = withCallback
    /\ \E event \in {FALSE, withCallback}, read \in {FALSE, throttled} :
          (read => event = withCallback) /\ StartThreads(event, read)
    /\ mainPc' = "unwindEvent"
    /\ UNCHANGED <<devState, throttled, hint, buf, submitPc, hand, throttleVars, eventVars>>

(* WaitForSingleObject and CloseHandle on a thread, if there is one. *)
JoinEvent ==
    /\ pollPc["event"] \in {"none", "exited"}
    /\ pollPc' = [pollPc EXCEPT !["event"] = "none"]

JoinRead == readPc \in {"none", "exited"} /\ readPc' = "none"

StartUnwinds ==
    \/ /\ mainPc = "unwindEvent" /\ JoinEvent /\ mainPc' = "unwindRead"
       /\ UNCHANGED <<devState, throttled, callback, hint, buf, readPc, submitPc, hand,
                      throttleVars, eventVars>>
    \/ /\ mainPc = "unwindRead" /\ JoinRead /\ mainPc' = "idle"
       /\ UNCHANGED <<devState, throttled, callback, pollVars, submitPc, hand,
                      throttleVars, eventVars>>

(* Broken variant: pending polls are left alone. *)
BadCancelPolls == UNCHANGED pollPc

(* CancelIoEx for every request of the device. *)
CancelPolls ==
    pollPc' = [t \in Threads |-> IF pollPc[t] = "waiting" THEN "cancelling" ELSE pollPc[t]]

(* WinUHidStopDevice, also as the first step of WinUHidDestroyDevice: under *)
(* the exclusive lock no poll is between its check and its request.         *)
StopDevice ==
    /\ devState = "Started" /\ mainPc = "idle"
    /\ devState' = "Stopped" /\ CancelPolls
    /\ mainPc' = "joinEvent"
    /\ UNCHANGED <<throttled, callback, hint, buf, readPc, submitPc, hand, throttleVars,
                   eventVars>>

StopJoinsEvent ==
    /\ mainPc = "joinEvent" /\ JoinEvent
    /\ mainPc' = IF readPc = "none" THEN "idle" ELSE "signal"
    /\ UNCHANGED <<devState, throttled, callback, hint, buf, readPc, submitPc, hand,
                   throttleVars, eventVars>>

(* Broken variant: only a thread that already waits is released. *)
BadStopSignals ==
    /\ mainPc = "signal" /\ mainPc' = "kick"
    /\ readPc' = IF readPc = "blocked" THEN "woken" ELSE readPc
    /\ UNCHANGED <<devState, throttled, callback, pollVars, submitPc, hand, throttleVars,
                   eventVars>>

(* Both are signalled: the read thread could be waiting on either. *)
StopSignals ==
    /\ mainPc = "signal" /\ SetEvent
    /\ mainPc' = "kick"
    /\ UNCHANGED <<devState, throttled, callback, pollVars, submitPc, hand, pending, timer,
                   elapsed, eventVars>>

StopKicks ==
    /\ mainPc = "kick" /\ timer' = "signalled"
    /\ mainPc' = "joinRead"
    /\ UNCHANGED <<devState, throttled, callback, pollVars, readPc, submitPc, hand, pending,
                   signalled, elapsed, eventVars>>

StopJoinsRead ==
    /\ mainPc = "joinRead" /\ JoinRead
    /\ mainPc' = "idle"
    /\ UNCHANGED <<devState, throttled, callback, pollVars, submitPc, hand, throttleVars,
                   eventVars>>

MainStep == StartUnwinds \/ StopJoinsEvent \/ StopSignals \/ StopKicks \/ StopJoinsRead

(* Broken variant: the pending event is forgotten. *)
BadDropPending == UNCHANGED <<waiting, shown, stranded>>

(* A ready-for-read event still pending is refused. *)
DropPending ==
    IF pending = NoEvent THEN UNCHANGED <<waiting, shown, stranded>>
                         ELSE Complete(pending, FALSE)

(* WinUHidDestroyDevice of a device that is not started.  Its client sees   *)
(* to it that nobody else uses it and that its events are completed.        *)
DestroyDevice ==
    /\ devState \in {"Created", "Stopped"} /\ mainPc = "idle"
    /\ \A p \in Pollers : pollPc[p] = "out"
    /\ \A s \in Submitters : submitPc[s] = "idle"
    /\ user = {}
    /\ DropPending /\ pending' = NoEvent
    /\ devState' = "Freed"
    /\ UNCHANGED <<throttled, callback, mainPc, pollVars, readPc, submitPc, hand, signalled,
                   timer, elapsed, user>>

Terminated == devState = "Freed" /\ UNCHANGED vars

----------------------------------------------------------------------------
Next ==
    \/ \E throttle, ok \in BOOLEAN : CreateDevice(throttle, ok)
    \/ \E withCallback \in BOOLEAN : StartDevice(withCallback)
    \/ \E withCallback \in BOOLEAN : StartFails(withCallback)
    \/ StopDevice
    \/ MainStep
    \/ DestroyDevice
    \/ \E p \in Pollers : PollBegin(p)
    \/ \E p \in Pollers : PollTimeout(p)
    \/ \E t \in Threads : PollStep(t)
    \/ \E t \in Threads : PollFails(t)
    \/ EventTakes
    \/ EventSignals
    \/ ReadStep
    \/ TimerFires
    \/ \E s \in Submitters : SubmitBegin(s)
    \/ \E s \in Submitters : SubmitStep(s)
    \/ \E e \in Events : Raise(e)
    \/ \E e \in Events, ok \in BOOLEAN : CompleteEvent(e, ok)
    \/ Terminated

(* The library's threads and calls run on, timers expire, and the driver    *)
(* answers a poll it can answer.  No call is bound to fail, and the client  *)
(* owes none.                                                               *)
Fairness ==
    /\ \A t \in Threads : WF_vars(PollStep(t))
    /\ \A s \in Submitters : WF_vars(SubmitStep(s))
    /\ WF_vars(EventTakes) /\ WF_vars(EventSignals)
    /\ WF_vars(ReadStep) /\ WF_vars(TimerFires)
    /\ WF_vars(MainStep)

Safety == Init /\ [][Next]_vars
Spec == Safety /\ Fairness
=============================================================================
