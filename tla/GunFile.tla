------------------------------ MODULE GunFile ------------------------------
(***************************************************************************)
(* One open handle to the driver, from the setup IOCTLs to the end of      *)
(* EvtDeviceFileClose: the FILE_CONTEXT of driver/Driver.h and every       *)
(* handler of driver/WinUHid.c that touches it.                            *)
(*                                                                         *)
(* Five kinds of thread interleave here.  The default queue is parallel,   *)
(* so the client's writes, event polls and completions run side by side;   *)
(* VHF runs its callbacks on threads of its own; and the framework runs    *)
(* EvtFileClose once the client has closed its handle (or died) and every  *)
(* request of the file has been completed.  A handler is one action when   *)
(* it runs under RequestLock or touches nothing that another thread can    *)
(* see, and is split where it releases the lock and goes on.               *)
(*                                                                         *)
(* VHF and the frameworks are not part of the repository: their state is   *)
(* the variables of vhfVars, and it changes as the driver's calls expect.  *)
(***************************************************************************)
EXTENDS Integers, Sequences, FiniteSets

CONSTANTS
    Writers,        \* client threads that write input reports
    Pollers,        \* GET_NEXT_EVENT requests that may pend at the same time
    InputOps,       \* GetInputReport operations VHF may raise, once each
    OtherOps,       \* feature and output operations, for which the gun has no report
    ReadyOps,       \* operation objects that may carry "ready for next read report"
    Buttons,        \* values of the button byte; 0 is "none pressed"
    Positions,      \* values of the four axis bytes
    Origin,         \* the position of a zeroed report
    OptionalConfig, \* which of "InstanceID", "HardwareIDs" a client may set
    IdSpace,        \* request ids that differ in the bits below the MSB (2^31)
    NoPoller,       \* "holds no poll request"
    Faults          \* may allocations, framework calls and VHF submits fail?

RealOps == InputOps \cup OtherOps
Ops == RealOps \cup ReadyOps
Report == [buttons : Buttons, at : Positions]
ZeroReport == [buttons |-> 0, at |-> Origin]
ConfigItems == {"DeviceInfo", "ReportDescriptor"} \cup OptionalConfig

ASSUME GunFileAssumption ==
    /\ InputOps \cap OtherOps = {} /\ RealOps \cap ReadyOps = {}
    /\ 0 \in Buttons /\ Origin \in Positions
    /\ NoPoller \notin Pollers
    /\ IdSpace \in Nat \ {0}
    /\ Faults \in BOOLEAN

VARIABLES
    config,              \* the setup IOCTLs that have succeeded
    vhfHandle,           \* FileContext->VhfHandle is not NULL
    lastReport,          \* FileContext->LastReport
    lastReportValid,     \* FileContext->LastReportValid
    recording,           \* writers between VhfReadReportSubmit and RequestLock
    writeBuffer,         \* the report each of them wrote
    nextRequestId,       \* FileContext->NextRequestId
    waitingRequests,     \* FileContext->WaitingRequests, oldest first
    outstandingRequests, \* FileContext->OutstandingRequests
    requestId,           \* OpContext->RequestId
    dispatch,            \* where DispatchAsyncOperation stands for an operation
    holding,             \* the poll request it has taken from the manual queue
    inline,              \* dispatches that run inside a COMPLETE_READ_EVENT
    poller,              \* where a GET_NEXT_EVENT request is
    cancelled,           \* requests cancelled while a handler owns them
    fileOpen,            \* the client still has its handle
    closePc,             \* where EvtDeviceFileClose stands
    release,             \* its local report
    releaseRefused,      \* history: VHF refused that report
    vhf,                 \* the virtual HID device
    gameReport,          \* the last report VHF passed on: what a game sees
    vhfReady,            \* VHF has said it is ready and got no report since
    raised,              \* history: real operations VHF has raised
    completions,         \* history: how often each was completed
    delivered            \* history: how often each was shown to the client

setupVars == <<config, vhfHandle>>
lastVars == <<lastReport, lastReportValid>>
writeVars == <<recording, writeBuffer>>
queueVars == <<waitingRequests, outstandingRequests>>
idVars == <<nextRequestId, requestId>>
dispatchVars == <<dispatch, holding, inline>>
pollVars == <<poller, cancelled>>
closeVars == <<fileOpen, closePc, release, releaseRefused>>
vhfVars == <<vhf, gameReport, vhfReady>>
opVars == <<raised, completions, delivered>>
vars == <<setupVars, lastVars, writeVars, queueVars, idVars, dispatchVars,
          pollVars, closeVars, vhfVars, opVars>>

TypeOK ==
    /\ config \subseteq ConfigItems
    /\ vhfHandle \in BOOLEAN
    /\ lastReport \in Report /\ lastReportValid \in BOOLEAN
    /\ recording \subseteq Writers /\ writeBuffer \in [Writers -> Report]
    /\ nextRequestId \in Nat
    /\ waitingRequests \in Seq(Ops) /\ outstandingRequests \subseteq Ops
    /\ requestId \in [Ops -> Nat]
    /\ dispatch \in [Ops -> {"idle", "queue", "offer", "try", "requeue"}]
    /\ holding \in [Ops -> Pollers \cup {NoPoller}]
    /\ inline \subseteq ReadyOps
    /\ poller \in [Pollers -> {"idle", "forward", "queued", "held"}]
    /\ cancelled \subseteq Pollers
    /\ fileOpen \in BOOLEAN
    /\ closePc \in {"open", "release", "delete", "gone"}
    /\ release \in Report /\ releaseRefused \in BOOLEAN
    /\ vhf \in {"absent", "created", "started", "deleted"}
    /\ gameReport \in Report /\ vhfReady \in BOOLEAN
    /\ raised \subseteq RealOps
    /\ completions \in [RealOps -> Nat] /\ delivered \in [RealOps -> Nat]

(* EvtDeviceFileCreate: the context is zeroed and its collections made. *)
Init ==
    /\ config = {} /\ vhfHandle = FALSE
    /\ lastReport = ZeroReport /\ lastReportValid = FALSE
    /\ recording = {} /\ writeBuffer = [t \in Writers |-> ZeroReport]
    /\ nextRequestId = 0
    /\ waitingRequests = << >> /\ outstandingRequests = {}
    /\ requestId = [o \in Ops |-> 0]
    /\ dispatch = [o \in Ops |-> "idle"]
    /\ holding = [o \in Ops |-> NoPoller]
    /\ inline = {}
    /\ poller = [r \in Pollers |-> "idle"] /\ cancelled = {}
    /\ fileOpen = TRUE /\ closePc = "open"
    /\ release = ZeroReport /\ releaseRefused = FALSE
    /\ vhf = "absent" /\ gameReport = ZeroReport /\ vhfReady = FALSE
    /\ raised = {}
    /\ completions = [o \in RealOps |-> 0] /\ delivered = [o \in RealOps |-> 0]

----------------------------------------------------------------------------
(* Setup.  The client library issues these one after the other, before any *)
(* other thread has the device.                                            *)

SetConfig(item) ==
    /\ fileOpen /\ ~vhfHandle /\ item \notin config
    /\ config' = config \cup {item}
    /\ UNCHANGED <<vhfHandle, lastVars, writeVars, queueVars, idVars, dispatchVars,
                   pollVars, closeVars, vhfVars, opVars>>

CreateDevice ==
    /\ fileOpen /\ ~vhfHandle /\ {"DeviceInfo", "ReportDescriptor"} \subseteq config
    /\ vhfHandle' = TRUE /\ vhf' = "created"
    /\ UNCHANGED <<config, lastVars, writeVars, queueVars, idVars, dispatchVars,
                   pollVars, closeVars, gameReport, vhfReady, opVars>>

StartDevice ==
    /\ fileOpen /\ vhfHandle /\ vhf = "created"
    /\ vhf' = "started"
    /\ UNCHANGED <<setupVars, lastVars, writeVars, queueVars, idVars, dispatchVars,
                   pollVars, closeVars, gameReport, vhfReady, opVars>>

----------------------------------------------------------------------------
(* Input reports. *)

(* VhfReadReportSubmit, when VHF takes the report. *)
VhfReadReportSubmit(rep) ==
    /\ vhf = "started"
    /\ gameReport' = rep /\ vhfReady' = FALSE
    /\ UNCHANGED vhf

(* EvtIoWrite up to the submit; a refused submit ends it and changes nothing. *)
IoWrite(t, rep) ==
    /\ fileOpen /\ vhfHandle /\ t \notin recording
    /\ VhfReadReportSubmit(rep)
    /\ recording' = recording \cup {t}
    /\ writeBuffer' = [writeBuffer EXCEPT ![t] = rep]
    /\ UNCHANGED <<setupVars, lastVars, queueVars, idVars, dispatchVars, pollVars,
                   closeVars, opVars>>

(* The rest of EvtIoWrite, under RequestLock: every report a client of this *)
(* device writes is VGUN_REPORT_BYTES long.                                 *)
IoWriteRecord(t) ==
    /\ t \in recording
    /\ lastReport' = writeBuffer[t] /\ lastReportValid' = TRUE
    /\ recording' = recording \ {t}
    /\ UNCHANGED <<setupVars, writeBuffer, queueVars, idVars, dispatchVars, pollVars,
                   closeVars, vhfVars, opVars>>

----------------------------------------------------------------------------
(* Event requests. *)

ShowOp(o) ==
    /\ outstandingRequests' = outstandingRequests \cup {o}
    /\ delivered' = [p \in RealOps |-> IF p = o THEN delivered[p] + 1 ELSE delivered[p]]

(* Broken variant: the operation becomes outstanding and stays in the queue. *)
BadShowAndKeep == ShowOp(Head(waitingRequests)) /\ UNCHANGED waitingRequests

(* The oldest waiting operation becomes outstanding: the client has its event. *)
ShowOldest ==
    ShowOp(Head(waitingRequests)) /\ waitingRequests' = Tail(waitingRequests)

(* TryCompleteGetNextEvent, run under RequestLock with poll request r when  *)
(* an operation waits: the oldest is shown to the client and becomes        *)
(* outstanding.  Should the event not fit its buffer or the move fail, the  *)
(* request fails and the operation keeps waiting.                           *)
TryCompleteGetNextEvent(r) ==
    /\ waitingRequests # << >>
    /\ poller' = [poller EXCEPT ![r] = "idle"] /\ cancelled' = cancelled \ {r}
    /\ ShowOldest \/ (Faults /\ UNCHANGED <<queueVars, delivered>>)

(* IOCTL_WINUHID_GET_NEXT_EVENT with an operation waiting ... *)
GetNextEvent(r) ==
    /\ fileOpen /\ vhfHandle /\ poller[r] = "idle"
    /\ TryCompleteGetNextEvent(r)
    /\ UNCHANGED <<setupVars, lastVars, writeVars, idVars, dispatchVars, closeVars,
                   vhfVars, raised, completions>>

(* Broken variant: a poll is queued without a look at what waits. *)
BadQueueBlindly(r) ==
    /\ fileOpen /\ vhfHandle /\ poller[r] = "idle"
    /\ poller' = [poller EXCEPT ![r] = "forward"]
    /\ UNCHANGED <<setupVars, lastVars, writeVars, queueVars, idVars, dispatchVars,
                   cancelled, closeVars, vhfVars, opVars>>

(* ... and with none: the lock is released before the request is queued. *)
GetNextEventNone(r) ==
    /\ fileOpen /\ vhfHandle /\ poller[r] = "idle" /\ waitingRequests = << >>
    /\ poller' = [poller EXCEPT ![r] = "forward"]
    /\ UNCHANGED <<setupVars, lastVars, writeVars, queueVars, idVars, dispatchVars,
                   cancelled, closeVars, vhfVars, opVars>>

(* Broken variant: a cancelled request pends like any other. *)
BadIgnoreCancel(r) ==
    /\ poller' = [poller EXCEPT ![r] = "queued"] /\ cancelled' = cancelled \ {r}

(* A request handed back to the manual queue pends there; the framework     *)
(* completes it at once if it was cancelled, the handler if that fails.     *)
PutInQueue(r) ==
    /\ \/ r \notin cancelled /\ poller' = [poller EXCEPT ![r] = "queued"]
       \/ (r \in cancelled \/ Faults) /\ poller' = [poller EXCEPT ![r] = "idle"]
    /\ cancelled' = cancelled \ {r}

ForwardToQueue(r) ==
    /\ poller[r] = "forward"
    /\ PutInQueue(r)
    /\ UNCHANGED <<setupVars, lastVars, writeVars, queueVars, idVars, dispatchVars,
                   closeVars, vhfVars, opVars>>

(* The client gives up on a poll (a timeout in WinUHidPollEvent, or the     *)
(* CancelIoEx of WinUHidStopDevice): at once in the queue, later elsewhere. *)
CancelPoll(r) ==
    /\ fileOpen /\ poller[r] # "idle" /\ r \notin cancelled
    /\ IF poller[r] = "queued"
       THEN poller' = [poller EXCEPT ![r] = "idle"] /\ UNCHANGED cancelled
       ELSE cancelled' = cancelled \cup {r} /\ UNCHANGED poller
    /\ UNCHANGED <<setupVars, lastVars, writeVars, queueVars, idVars, dispatchVars,
                   closeVars, vhfVars, opVars>>

----------------------------------------------------------------------------
(* Operations raised by VHF. *)

IsWaiting(o) == \E i \in 1..Len(waitingRequests) : waitingRequests[i] = o
IsFree(o) == dispatch[o] = "idle" /\ ~IsWaiting(o) /\ o \notin outstandingRequests

CompleteOps(S) ==
    completions' = [o \in RealOps |-> IF o \in S THEN completions[o] + 1 ELSE completions[o]]

(* Broken variants: the MSB is not set; the id keeps the sign of a LONG. *)
BadIdWithoutMSB(n) == n % IdSpace
BadSignedId(n) == (n % IdSpace) - IdSpace

(* InterlockedIncrement(&NextRequestId) | 0x80000000: never 0. *)
RequestIdOf(n) == IdSpace + (n % IdSpace)

(* DispatchAsyncOperation up to RequestLock, for a GetInputReport ... *)
RaiseInput(o) ==
    /\ vhf = "started" /\ o \notin raised
    /\ raised' = raised \cup {o}
    /\ nextRequestId' = nextRequestId + 1
    /\ requestId' = [requestId EXCEPT ![o] = RequestIdOf(nextRequestId')]
    /\ dispatch' = [dispatch EXCEPT ![o] = "queue"]
    /\ UNCHANGED <<setupVars, lastVars, writeVars, queueVars, holding, inline, pollVars,
                   closeVars, vhfVars, completions, delivered>>

(* ... for an operation on a report the gun's descriptor does not have,     *)
(* which is failed before it is queued ...                                  *)
RaiseOther(o) ==
    /\ vhf = "started" /\ o \notin raised
    /\ raised' = raised \cup {o} /\ CompleteOps({o})
    /\ nextRequestId' = nextRequestId + 1
    /\ UNCHANGED <<setupVars, lastVars, writeVars, queueVars, requestId, dispatchVars,
                   pollVars, closeVars, vhfVars, delivered>>

(* ... for either, when its object cannot be made ...                       *)
RaiseFails(o) ==
    /\ Faults /\ vhf = "started" /\ o \notin raised
    /\ raised' = raised \cup {o} /\ CompleteOps({o})
    /\ UNCHANGED <<setupVars, lastVars, writeVars, queueVars, idVars, dispatchVars,
                   pollVars, closeVars, vhfVars, delivered>>

(* ... and for "ready for next read report", a pseudo-operation with id 0   *)
(* and nothing to complete: it is lost when its object cannot be made.      *)
DispatchReady(o) ==
    \/ /\ dispatch' = [dispatch EXCEPT ![o] = "queue"]
       /\ requestId' = [requestId EXCEPT ![o] = 0]
    \/ Faults /\ UNCHANGED <<dispatch, requestId>>

RaiseReady(o) ==
    /\ vhf = "started" /\ ~vhfReady /\ IsFree(o)
    /\ vhfReady' = TRUE
    /\ DispatchReady(o)
    /\ UNCHANGED <<setupVars, lastVars, writeVars, queueVars, nextRequestId, holding,
                   inline, pollVars, closeVars, vhf, gameReport, opVars>>

(* A dispatch that ends: the thread that ran it is free. *)
EndDispatch(o) ==
    /\ dispatch' = [dispatch EXCEPT ![o] = "idle"]
    /\ holding' = [holding EXCEPT ![o] = NoPoller]
    /\ inline' = inline \ {o}

(* Under RequestLock: the operation waits for the client, unless the device *)
(* is being closed (STATUS_TOO_LATE) or the collection cannot grow.         *)
Enqueue(o) ==
    /\ dispatch[o] = "queue" /\ vhfHandle
    /\ waitingRequests' = Append(waitingRequests, o)
    /\ dispatch' = [dispatch EXCEPT ![o] = "offer"]
    /\ UNCHANGED <<setupVars, lastVars, writeVars, outstandingRequests, idVars, holding,
                   inline, pollVars, closeVars, vhfVars, opVars>>

TurnAway(o) ==
    /\ dispatch[o] = "queue" /\ (~vhfHandle \/ Faults)
    /\ CompleteOps({o}) /\ EndDispatch(o)
    /\ UNCHANGED <<setupVars, lastVars, writeVars, queueVars, idVars, pollVars,
                   closeVars, vhfVars, raised, delivered>>

(* WdfIoQueueRetrieveRequestByFileObject: take a queued poll, if there is one. *)
TakePoll(o, r) ==
    /\ dispatch[o] = "offer" /\ poller[r] = "queued"
    /\ poller' = [poller EXCEPT ![r] = "held"]
    /\ holding' = [holding EXCEPT ![o] = r]
    /\ dispatch' = [dispatch EXCEPT ![o] = "try"]
    /\ UNCHANGED <<setupVars, lastVars, writeVars, queueVars, idVars, inline, cancelled,
                   closeVars, vhfVars, opVars>>

TakeNoPoll(o) ==
    /\ dispatch[o] = "offer" /\ \A r \in Pollers : poller[r] # "queued"
    /\ EndDispatch(o)
    /\ UNCHANGED <<setupVars, lastVars, writeVars, queueVars, idVars, pollVars,
                   closeVars, vhfVars, opVars>>

(* Under RequestLock again: another poll may have taken the operation. *)
TryDispatch(o) ==
    /\ dispatch[o] = "try"
    /\ TryCompleteGetNextEvent(holding[o]) /\ EndDispatch(o)
    /\ UNCHANGED <<setupVars, lastVars, writeVars, idVars, closeVars, vhfVars, raised,
                   completions>>

TryDispatchNone(o) ==
    /\ dispatch[o] = "try" /\ waitingRequests = << >>
    /\ dispatch' = [dispatch EXCEPT ![o] = "requeue"]
    /\ UNCHANGED <<setupVars, lastVars, writeVars, queueVars, idVars, holding, inline,
                   pollVars, closeVars, vhfVars, opVars>>

Requeue(o) ==
    /\ dispatch[o] = "requeue"
    /\ PutInQueue(holding[o]) /\ EndDispatch(o)
    /\ UNCHANGED <<setupVars, lastVars, writeVars, queueVars, idVars, closeVars, vhfVars,
                   opVars>>

----------------------------------------------------------------------------
(* Completions sent by the client.  TakeOutstandingRequestById finds the    *)
(* operation under RequestLock; an id nobody has is refused and changes     *)
(* nothing.  What follows touches only that operation, so it is one step.   *)

TakeOutstandingRequestById(id, o) ==
    /\ fileOpen /\ vhfHandle
    /\ o \in outstandingRequests /\ requestId[o] = id
    /\ outstandingRequests' = outstandingRequests \ {o}
    /\ UNCHANGED waitingRequests

(* COMPLETE_READ_EVENT or COMPLETE_WRITE_EVENT for a real operation. *)
CompleteReal(o) ==
    /\ TakeOutstandingRequestById(requestId[o], o) /\ requestId[o] # 0
    /\ CompleteOps({o})
    /\ UNCHANGED <<setupVars, lastVars, writeVars, idVars, dispatchVars, pollVars,
                   closeVars, vhfVars, raised, delivered>>

(* COMPLETE_READ_EVENT for a pseudo-operation: with a report ... *)
CompleteReadyReport(o, rep) ==
    /\ TakeOutstandingRequestById(0, o)
    /\ \/ VhfReadReportSubmit(rep)
       \/ Faults /\ UNCHANGED vhfVars
    /\ UNCHANGED <<setupVars, lastVars, writeVars, idVars, dispatchVars, pollVars,
                   closeVars, opVars>>

(* ... with success and no data, a promise of a later write ... *)
AcknowledgeReady(o) ==
    /\ TakeOutstandingRequestById(0, o)
    /\ UNCHANGED <<setupVars, lastVars, writeVars, idVars, dispatchVars, pollVars,
                   closeVars, vhfVars, opVars>>

(* ... or with a failure, which raises the event again from this IOCTL. *)
RefuseReady(o, again) ==
    /\ TakeOutstandingRequestById(0, o)
    /\ dispatch[again] = "idle" /\ ~IsWaiting(again) /\ again \notin outstandingRequests'
    /\ DispatchReady(again)
    /\ inline' = inline \cup {p \in {again} : dispatch'[p] = "queue"}
    /\ UNCHANGED <<setupVars, lastVars, writeVars, nextRequestId, holding, pollVars,
                   closeVars, vhfVars, opVars>>

----------------------------------------------------------------------------
(* The end of the file. *)

(* The client closes its handle, exits or crashes, at any moment: its       *)
(* queued polls are cancelled, those a handler owns are marked.             *)
ClientClose ==
    /\ fileOpen
    /\ fileOpen' = FALSE
    /\ cancelled' = cancelled \cup {r \in Pollers : poller[r] \in {"forward", "held"}}
    /\ poller' = [r \in Pollers |-> IF poller[r] = "queued" THEN "idle" ELSE poller[r]]
    /\ UNCHANGED <<setupVars, lastVars, writeVars, queueVars, idVars, dispatchVars,
                   closePc, release, releaseRefused, vhfVars, opVars>>

(* The framework calls EvtDeviceFileClose after the file's last request. *)
IoDrained ==
    /\ recording = {} /\ inline = {}
    /\ \A r \in Pollers : poller[r] = "idle"

(* Broken variants: the buttons stay as they were; a zeroed report is sent;  *)
(* what the client was shown is left to the client.                         *)
BadKeepButtons(rep) == rep
BadZeroRelease(rep) == ZeroReport
BadRunDownWaiting == {o \in Ops : IsWaiting(o) /\ requestId[o] # 0}

(* The report that lifts the buttons, whether to send it, and what the      *)
(* rundown completes.                                                       *)
ReleaseOf(rep) == [rep EXCEPT !.buttons = 0]
MustRelease == lastReportValid /\ lastReport.buttons # 0
RunDown == {o \in Ops : (IsWaiting(o) \/ o \in outstandingRequests) /\ requestId[o] # 0}

(* EvtDeviceFileClose, under RequestLock. *)
FileClose ==
    /\ ~fileOpen /\ closePc = "open" /\ IoDrained
    /\ vhfHandle' = FALSE
    /\ release' = ReleaseOf(lastReport)
    /\ CompleteOps(RunDown)
    /\ waitingRequests' = << >> /\ outstandingRequests' = {}
    /\ closePc' = IF ~vhfHandle THEN "gone"
                  ELSE IF MustRelease THEN "release" ELSE "delete"
    /\ UNCHANGED <<config, lastVars, writeVars, idVars, dispatchVars, pollVars, fileOpen,
                   releaseRefused, vhfVars, raised, delivered>>

(* The release is best effort: its status is ignored. *)
SubmitRelease ==
    /\ closePc = "release"
    /\ closePc' = "delete"
    /\ \/ VhfReadReportSubmit(release) /\ UNCHANGED releaseRefused
       \/ Faults /\ releaseRefused' = TRUE /\ UNCHANGED vhfVars
    /\ UNCHANGED <<setupVars, lastVars, writeVars, queueVars, idVars, dispatchVars,
                   pollVars, fileOpen, release, opVars>>

(* VhfDelete(handle, TRUE) returns when no callback is running. *)
DeleteDevice ==
    /\ closePc = "delete" /\ \A o \in Ops : dispatch[o] = "idle"
    /\ closePc' = "gone" /\ vhf' = "deleted"
    /\ UNCHANGED <<setupVars, lastVars, writeVars, queueVars, idVars, dispatchVars,
                   pollVars, fileOpen, release, releaseRefused, gameReport, vhfReady,
                   opVars>>

Terminated == closePc = "gone" /\ UNCHANGED vars

----------------------------------------------------------------------------
Dispatch(o) ==
    \/ Enqueue(o) \/ TurnAway(o)
    \/ TakeNoPoll(o) \/ \E r \in Pollers : TakePoll(o, r)
    \/ TryDispatch(o) \/ TryDispatchNone(o) \/ Requeue(o)

Close == FileClose \/ SubmitRelease \/ DeleteDevice

Next ==
    \/ \E item \in ConfigItems : SetConfig(item)
    \/ CreateDevice
    \/ StartDevice
    \/ \E t \in Writers, rep \in Report : IoWrite(t, rep)
    \/ \E t \in Writers : IoWriteRecord(t)
    \/ \E r \in Pollers : GetNextEvent(r)
    \/ \E r \in Pollers : GetNextEventNone(r)
    \/ \E r \in Pollers : ForwardToQueue(r)
    \/ \E r \in Pollers : CancelPoll(r)
    \/ \E o \in InputOps : RaiseInput(o)
    \/ \E o \in OtherOps : RaiseOther(o)
    \/ \E o \in RealOps : RaiseFails(o)
    \/ \E o \in ReadyOps : RaiseReady(o)
    \/ \E o \in Ops : Dispatch(o)
    \/ \E o \in RealOps : CompleteReal(o)
    \/ \E o \in ReadyOps, rep \in Report : CompleteReadyReport(o, rep)
    \/ \E o \in ReadyOps : AcknowledgeReady(o)
    \/ \E o, again \in ReadyOps : RefuseReady(o, again)
    \/ ClientClose
    \/ Close
    \/ Terminated

(* What runs to its end by itself: a handler or a callback that has begun,  *)
(* and the close of a file whose requests are done.  The client owes nothing. *)
Fairness ==
    /\ \A t \in Writers : WF_vars(IoWriteRecord(t))
    /\ \A r \in Pollers : WF_vars(ForwardToQueue(r))
    /\ \A o \in Ops : WF_vars(Dispatch(o))
    /\ WF_vars(Close)

Safety == Init /\ [][Next]_vars
Spec == Safety /\ Fairness
=============================================================================
