---------------------------- MODULE GunFileProps ----------------------------
(* What one handle promises to the client that opened it, to the games that *)
(* read the virtual gun and to VHF.  Nothing here models code.              *)
EXTENDS GunFile

(* Once the device is gone, the last report games saw has no button down,   *)
(* whatever the client was doing when it closed its handle or died and      *)
(* unless VHF itself refused the release: "a crashed client never leaves a  *)
(* game holding fire" (driver/Driver.h:59-62, README.md:24).                *)
NoFireLeftHeld ==
    closePc = "gone" => gameReport.buttons = 0 \/ releaseRefused

(* The report the close sends lifts the buttons and moves nothing: a dying  *)
(* client never makes the crosshair jump (WinUHid.c:1281-1283).             *)
CloseOnlyReleases ==
    [][closePc # "open" /\ gameReport' # gameReport
         => gameReport' = [gameReport EXCEPT !.buttons = 0]]_vars

(* Every operation VHF raises and waits for is, until it is completed, in   *)
(* exactly one place from which some thread will complete it (a callback    *)
(* before the lock, WaitingRequests, OutstandingRequests); it is completed  *)
(* at most once, by the client, the callback or the rundown of the close,   *)
(* and none is left when the device goes (WinUHid.c:260-583, 1285-1309).    *)
OperationAccountedFor ==
    \A o \in RealOps :
        /\ completions[o] <= 1
        /\ o \in raised /\ completions[o] = 0
             <=> dispatch[o] = "queue" \/ IsWaiting(o) \/ o \in outstandingRequests
        /\ dispatch[o] = "queue" => ~IsWaiting(o) /\ o \notin outstandingRequests
        /\ IsWaiting(o) => o \notin outstandingRequests
        /\ closePc = "gone" /\ o \in raised => completions[o] = 1

(* No event is shown twice, and the client holds exactly the operations it  *)
(* was shown and has not completed: a cancelled, failed or requeued poll    *)
(* neither loses nor repeats one (WinUHid.c:295-421, 563-582).              *)
ShownOnce ==
    \A o \in RealOps :
        /\ delivered[o] <= 1
        /\ o \in outstandingRequests => delivered[o] = 1
        /\ IsWaiting(o) => delivered[o] = 0

(* An id names one operation among those the client may complete, and no    *)
(* operation VHF waits for has the id of a pseudo-operation, which the      *)
(* rundown of the close does not complete (WinUHid.c:463-469, 1292).        *)
UniqueLiveIds ==
    /\ \A o, p \in RealOps : {o, p} \subseteq outstandingRequests /\ o # p
                               => requestId[o] # requestId[p]
    /\ \A o \in RealOps : IsWaiting(o) \/ o \in outstandingRequests => requestId[o] # 0

(* With no handler or callback in progress, a poll never pends while an     *)
(* event is ready: GET_NEXT_EVENT "pends inside WinUHid until an event is   *)
(* ready" (driver/Public.h).                                                *)
NoMissedWakeup ==
    (/\ \A o \in Ops : dispatch[o] = "idle"
     /\ \A r \in Pollers : poller[r] \in {"idle", "queued"})
    => waitingRequests = << >> \/ \A r \in Pollers : poller[r] # "queued"

(* A file whose client is gone is always closed to the end: no callback, no *)
(* poll and no rundown waits for another (WinUHid.c:1255-1327).             *)
CloseEnds == ~fileOpen ~> closePc = "gone"

(* Every GetInputReport is answered or shown to the client, as long as the  *)
(* client polls with a finite timeout (WinUHidPollEvent, WinUHid.cpp:528).  *)
InputIsServed ==
    \A o \in InputOps :
        o \in raised ~> (delivered[o] = 1 \/ completions[o] = 1 \/ ~fileOpen)

(* The whole handle implements the gun that VirtualGun describes, for a     *)
(* client that writes from one thread and with every report of its own      *)
(* accord (ReadyOps = {}), even when calls fail: games, VHF and the owner   *)
(* cannot tell it from a gun with no threads, queues or locks.              *)
OpState(o) ==
    IF completions[o] > 0 THEN "answered"
    ELSE IF delivered[o] > 0 THEN "shown"
    ELSE IF o \in raised THEN "raised" ELSE "none"

Gun == INSTANCE VirtualGun WITH
         Ops <- RealOps, Reports <- Report,
         owned <- fileOpen,
         device <- CASE vhf = "absent" -> "absent"
                     [] vhf = "deleted" -> "removed"
                     [] OTHER -> "present",
         held <- gameReport,
         refused <- releaseRefused,
         op <- [o \in RealOps |-> OpState(o)]

RefinesVirtualGun == Gun!Spec

(* A client that polls in a loop for as long as it runs, and gives every    *)
(* poll a timeout that expires: WinUHidPollEvent with a finite TimeoutMillis. *)
PollingSpec ==
    Spec /\ \A r \in Pollers :
              /\ WF_vars(GetNextEvent(r) \/ GetNextEventNone(r))
              /\ WF_vars(CancelPoll(r))
=============================================================================
