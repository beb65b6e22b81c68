------------------------- MODULE ClientDeviceProps -------------------------
(* What the client library promises to the program that uses it.  Nothing   *)
(* here models code.                                                        *)
EXTENDS ClientDevice

(* The signal that a ready-for-read event is pending and the pointer to it  *)
(* go together: until the device is stopped, whoever has the signal (the    *)
(* event itself, the read thread it has woken, or a submit) finds the       *)
(* pointer, and a pointer has one signal on its way, so that the NULLs at   *)
(* WinUHid.cpp:253 and 318 are "impossible".                                *)
SignalOwners ==
    {s \in Submitters : submitPc[s] = "own"}
      \cup {w \in {"read"} : readPc = "woken"}
      \cup {w \in {"event"} : pollPc["event"] = "signal"}
      \cup {w \in {"flag"} : signalled}

SignalMeansPending ==
    devState = "Started"
      => IF pending = NoEvent THEN SignalOwners = {} ELSE Cardinality(SignalOwners) = 1

(* Every event the driver has shown is in exactly one place from which it   *)
(* will be completed: a local of one thread, PendingReadReportEvent, or the *)
(* client's hands.  The one exception is an event whose completion failed:  *)
(* the code ignores that (WinUHid.cpp:606, 637, 645) and frees the event    *)
(* (608, 648), so that the driver waits for it until the handle is closed;  *)
(* nobody has it in hand any more, to complete it, or free it, twice.  When *)
(* the device is freed no other is left, and no thread of the library runs  *)
(* any more (356-364, 726-757).                                             *)
EventInOneHand ==
    /\ shown = stranded \cup user
                  \cup (({pending} \cup {hand[h] : h \in Holders}) \ {NoEvent})
    /\ stranded \cap (user \cup {pending} \cup {hand[h] : h \in Holders}) = {}
    /\ \A h \in Holders : hand[h] # NoEvent => hand[h] \notin user \cup {pending}
    /\ \A h, g \in Holders : h # g /\ hand[h] # NoEvent => hand[h] # hand[g]
    /\ pending \notin user
    /\ devState = "Freed" => shown = stranded /\ pollPc["event"] = "none" /\ readPc = "none"

(* The buffer size all polls start from only grows, also when two of them   *)
(* find theirs too small at once (WinUHid.cpp:555-570).                     *)
HintOnlyGrows == [][hint' >= hint]_vars

(* ReadReportPeriodUs "throttles the rate at which WINUHID_EVENT_READ_REPORT *)
(* events are returned to the caller" (WinUHid.h): between two events the   *)
(* read thread hands over, a whole period passes, whatever a submit or a    *)
(* stop does to the timer.                                                  *)
HandOversArePaced ==
    [][readPc = "deliver" /\ readPc' # "deliver" => elapsed]_vars

(* A stop leaves nobody waiting for what no one will do: the driver has     *)
(* been told to cancel every poll it still has, and none is issued after;   *)
(* once the stop has set the event, the read thread has its signal or still *)
(* finds it set, however late it comes to wait; and it sleeps only on a     *)
(* timer that runs or has fired (WinUHid.cpp:666-672, 705-711).             *)
StopLeavesNoWaiter ==
    /\ devState = "Stopped" => \A t \in Threads : pollPc[t] # "waiting"
    /\ mainPc \in {"kick", "joinRead"}
         => readPc # "blocked" /\ (readPc = "await" => signalled)
    /\ readPc = "sleep" => timer # "idle"

(* A start that fails and a stop always return: none of the two threads     *)
(* they join is left waiting on the lock, the driver, the event or the      *)
(* timer ("The thread could be waiting on either", WinUHid.cpp:705).        *)
StartAndStopReturn == mainPc # "idle" ~> mainPc = "idle"

(* WinUHidStopDevice "interrupts any pending poll calls" (WinUHid.h): every *)
(* poll returns after it, although it may be between a failed request and   *)
(* its repetition.                                                          *)
StopEndsPolls == \A p \in Pollers : devState = "Stopped" ~> pollPc[p] = "out"

(* A pending ready-for-read event reaches the callback or a submit as long  *)
(* as the device runs: its signal is never lost (WinUHid.cpp:296-343).      *)
PendingIsHandedOver ==
    pending # NoEvent ~> (pending = NoEvent \/ devState # "Started")
=============================================================================
