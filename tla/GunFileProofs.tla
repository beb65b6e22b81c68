--------------------------- MODULE GunFileProofs ---------------------------
(* Proofs, for every number of threads, operations and report values, of    *)
(* what TLC checks in GunFileProps: types, the account of operations, what  *)
(* games see, the refinement of VirtualGun, and the request ids.            *)
EXTENDS GunFileProps, FiniteSetTheorems, TLAPS

----------------------------------------------------------------------------
(* Type correctness. *)

(* The initial state is well typed. *)
LEMMA InitTyped == Init => TypeOK
<1> SUFFICES ASSUME Init PROVE TypeOK
  OBVIOUS
<1>1. ZeroReport \in Report
  BY GunFileAssumption DEF ZeroReport, Report
<1>2. << >> \in Seq(Ops)
  OBVIOUS
<1>3. /\ writeBuffer \in [Writers -> Report] /\ requestId \in [Ops -> Nat]
      /\ completions \in [RealOps -> Nat] /\ delivered \in [RealOps -> Nat]
      /\ holding \in [Ops -> Pollers \cup {NoPoller}]
  BY <1>1 DEF Init
<1>4. /\ dispatch \in [Ops -> {"idle", "queue", "offer", "try", "requeue"}]
      /\ poller \in [Pollers -> {"idle", "forward", "queued", "held"}]
  BY DEF Init
<1> QED
  BY <1>1, <1>2, <1>3, <1>4 DEF Init, TypeOK

(* A request handed back to the queue keeps its types. *)
LEMMA PutInQueueTyped ==
    ASSUME TypeOK, NEW r, PutInQueue(r)
    PROVE  /\ poller' \in [Pollers -> {"idle", "forward", "queued", "held"}]
           /\ cancelled' \subseteq Pollers
BY DEF TypeOK, PutInQueue

(* Showing an operation to the client keeps the types of what it moves. *)
LEMMA TryCompleteTyped ==
    ASSUME TypeOK, NEW r, TryCompleteGetNextEvent(r)
    PROVE  /\ poller' \in [Pollers -> {"idle", "forward", "queued", "held"}]
           /\ cancelled' \subseteq Pollers
           /\ waitingRequests' \in Seq(Ops) /\ outstandingRequests' \subseteq Ops
           /\ delivered' \in [RealOps -> Nat]
<1>1. Head(waitingRequests) \in Ops /\ Tail(waitingRequests) \in Seq(Ops)
  BY DEF TypeOK, TryCompleteGetNextEvent
<1>2. CASE UNCHANGED <<queueVars, delivered>>
  BY <1>2 DEF TypeOK, TryCompleteGetNextEvent, queueVars
<1>3. CASE ShowOldest
  <2>1. delivered' \in [RealOps -> Nat]
    BY <1>3 DEF TypeOK, ShowOldest, ShowOp
  <2>2. waitingRequests' \in Seq(Ops) /\ outstandingRequests' \subseteq Ops
    BY <1>1, <1>3 DEF TypeOK, ShowOldest, ShowOp
  <2>3. /\ poller' \in [Pollers -> {"idle", "forward", "queued", "held"}]
        /\ cancelled' \subseteq Pollers
    BY DEF TypeOK, TryCompleteGetNextEvent
  <2> QED
    BY <2>1, <2>2, <2>3
<1> QED
  BY <1>2, <1>3 DEF TryCompleteGetNextEvent

(* An id is a natural number, and never the 0 of a pseudo-operation. *)
LEMMA RequestIdIsReal ==
    ASSUME NEW n \in Nat
    PROVE  RequestIdOf(n) \in Nat \ {0}
<1>1. n % IdSpace \in 0..(IdSpace - 1)
  BY GunFileAssumption
<1> QED
  BY <1>1, GunFileAssumption DEF RequestIdOf

(* Completing operations and raising a pseudo-operation keep the types. *)
LEMMA CompleteOpsTyped ==
    ASSUME TypeOK, NEW S, CompleteOps(S)
    PROVE  completions' \in [RealOps -> Nat]
BY DEF TypeOK, CompleteOps

LEMMA DispatchReadyTyped ==
    ASSUME TypeOK, NEW o \in ReadyOps, DispatchReady(o)
    PROVE  /\ dispatch' \in [Ops -> {"idle", "queue", "offer", "try", "requeue"}]
           /\ requestId' \in [Ops -> Nat]
<1>1. o \in Ops
  BY DEF Ops
<1>2. CASE UNCHANGED <<dispatch, requestId>>
  BY <1>2 DEF TypeOK
<1>3. CASE /\ dispatch' = [dispatch EXCEPT ![o] = "queue"]
           /\ requestId' = [requestId EXCEPT ![o] = 0]
  BY <1>1, <1>3 DEF TypeOK
<1> QED
  BY <1>2, <1>3 DEF DispatchReady

(* Every action keeps the types. *)
LEMMA NextTyped == TypeOK /\ [Next]_vars => TypeOK'
<1> SUFFICES ASSUME TypeOK, [Next]_vars PROVE TypeOK'
  OBVIOUS
<1> USE GunFileAssumption
<1> USE DEF TypeOK, setupVars, lastVars, writeVars, queueVars, idVars, dispatchVars,
            pollVars, closeVars, vhfVars, opVars
<1>1. CASE \E item \in ConfigItems : SetConfig(item)
  BY <1>1 DEF SetConfig
<1>2. CASE CreateDevice
  BY <1>2 DEF CreateDevice
<1>3. CASE StartDevice
  BY <1>3 DEF StartDevice
<1>4. CASE \E t \in Writers, rep \in Report : IoWrite(t, rep)
  <2> PICK t \in Writers, rep \in Report : IoWrite(t, rep)
    BY <1>4
  <2>1. gameReport' \in Report /\ writeBuffer' \in [Writers -> Report]
    BY DEF IoWrite, VhfReadReportSubmit
  <2> QED
    BY <2>1 DEF IoWrite, VhfReadReportSubmit
<1>5. CASE \E t \in Writers : IoWriteRecord(t)
  BY <1>5 DEF IoWriteRecord
<1>6. CASE \E r \in Pollers : GetNextEvent(r)
  BY <1>6, TryCompleteTyped DEF GetNextEvent
<1>7. CASE \E r \in Pollers : GetNextEventNone(r)
  BY <1>7 DEF GetNextEventNone
<1>8. CASE \E r \in Pollers : ForwardToQueue(r)
  BY <1>8, PutInQueueTyped DEF ForwardToQueue
<1>9. CASE \E r \in Pollers : CancelPoll(r)
  BY <1>9 DEF CancelPoll
<1>10. CASE \E o \in InputOps : RaiseInput(o)
  <2> PICK o \in InputOps : RaiseInput(o)
    BY <1>10
  <2>1. o \in RealOps /\ o \in Ops
    BY DEF RealOps, Ops
  <2>2. nextRequestId' \in Nat
    BY DEF RaiseInput
  <2>3. RequestIdOf(nextRequestId') \in Nat
    BY <2>2, RequestIdIsReal
  <2>4. requestId' \in [Ops -> Nat]
    BY <2>3 DEF RaiseInput
  <2> QED
    BY <2>1, <2>2, <2>4 DEF RaiseInput
<1>11. CASE \E o \in OtherOps : RaiseOther(o)
  BY <1>11, CompleteOpsTyped DEF RaiseOther, RealOps
<1>21. CASE \E o \in RealOps : RaiseFails(o)
  BY <1>21, CompleteOpsTyped DEF RaiseFails
<1>12. CASE \E o \in ReadyOps : RaiseReady(o)
  BY <1>12, DispatchReadyTyped DEF RaiseReady
<1>13. CASE \E o \in Ops : Dispatch(o)
  <2> SUFFICES ASSUME NEW o \in Ops, Dispatch(o) PROVE TypeOK'
    BY <1>13
  <2>1. CASE Enqueue(o)
    BY <2>1 DEF Enqueue
  <2>2. CASE TurnAway(o)
    BY <2>2, CompleteOpsTyped DEF TurnAway, EndDispatch
  <2>3. CASE TakeNoPoll(o)
    BY <2>3 DEF TakeNoPoll, EndDispatch
  <2>4. CASE \E r \in Pollers : TakePoll(o, r)
    BY <2>4 DEF TakePoll
  <2>5. CASE TryDispatch(o)
    BY <2>5, TryCompleteTyped DEF TryDispatch, EndDispatch
  <2>6. CASE TryDispatchNone(o)
    BY <2>6 DEF TryDispatchNone
  <2>7. CASE Requeue(o)
    BY <2>7, PutInQueueTyped DEF Requeue, EndDispatch
  <2> QED
    BY <2>1, <2>2, <2>3, <2>4, <2>5, <2>6, <2>7 DEF Dispatch
<1>14. CASE \E o \in RealOps : CompleteReal(o)
  BY <1>14 DEF CompleteReal, TakeOutstandingRequestById, CompleteOps
<1>15. CASE \E o \in ReadyOps, rep \in Report : CompleteReadyReport(o, rep)
  BY <1>15 DEF CompleteReadyReport, TakeOutstandingRequestById, VhfReadReportSubmit
<1>16. CASE \E o \in ReadyOps : AcknowledgeReady(o)
  BY <1>16 DEF AcknowledgeReady, TakeOutstandingRequestById
<1>17. CASE \E o, again \in ReadyOps : RefuseReady(o, again)
  BY <1>17, DispatchReadyTyped DEF RefuseReady, TakeOutstandingRequestById
<1>18. CASE ClientClose
  BY <1>18 DEF ClientClose
<1>19. CASE Close
  <2>1. CASE FileClose
    <3>1. release' \in Report
      BY <2>1, GunFileAssumption DEF FileClose, ReleaseOf, Report
    <3>2. completions' \in [RealOps -> Nat]
      BY <2>1 DEF FileClose, CompleteOps
    <3>3. waitingRequests' \in Seq(Ops)
      BY <2>1 DEF FileClose
    <3> QED
      BY <2>1, <3>1, <3>2, <3>3 DEF FileClose
  <2>2. CASE SubmitRelease
    BY <2>2 DEF SubmitRelease, VhfReadReportSubmit
  <2>3. CASE DeleteDevice
    BY <2>3 DEF DeleteDevice
  <2> QED
    BY <1>19, <2>1, <2>2, <2>3 DEF Close
<1>20. CASE UNCHANGED vars
  BY <1>20 DEF vars
<1> QED
  BY <1>1, <1>2, <1>3, <1>4, <1>5, <1>6, <1>7, <1>8, <1>9, <1>10, <1>11, <1>12, <1>13,
     <1>14, <1>15, <1>16, <1>17, <1>18, <1>19, <1>20, <1>21 DEF Next, Terminated

(* The types of FILE_CONTEXT hold in every reachable state of a handle. *)
THEOREM TypeCorrect == Spec => []TypeOK
<1>1. Safety => []TypeOK
  BY InitTyped, NextTyped, PTL DEF Safety
<1> QED
  BY <1>1 DEF Spec

----------------------------------------------------------------------------
(* Every operation is accounted for.  The invariant below says, for every   *)
(* stage of the close, where an operation may be and what is then known of  *)
(* its history; OperationAccountedFor and ShownOnce are part of it.         *)

Live(o) == dispatch[o] = "queue" \/ IsWaiting(o) \/ o \in outstandingRequests

OnePlace ==
    \A o \in Ops :
        /\ dispatch[o] = "queue" => ~IsWaiting(o) /\ o \notin outstandingRequests
        /\ IsWaiting(o) => o \notin outstandingRequests

NoRepeats ==
    \A i, j \in 1..Len(waitingRequests) :
        waitingRequests[i] = waitingRequests[j] => i = j

History(o) ==
    /\ o \in raised /\ completions[o] = 0 <=> Live(o)
    /\ o \notin raised => completions[o] = 0 /\ delivered[o] = 0
    /\ completions[o] <= 1 /\ delivered[o] <= 1
    /\ o \in outstandingRequests => delivered[o] = 1
    /\ dispatch[o] = "queue" \/ IsWaiting(o) => delivered[o] = 0
    /\ Live(o) => requestId[o] # 0

OpInv == OnePlace /\ NoRepeats /\ \A o \in RealOps : History(o)

(* The device exists from CREATE_DEVICE to VhfDelete; the rundown empties   *)
(* both collections and clears the handle for good.                         *)
CloseInv ==
    /\ closePc # "open" => /\ ~fileOpen /\ ~vhfHandle
                           /\ waitingRequests = << >> /\ outstandingRequests = {}
    /\ closePc = "open" => (vhfHandle <=> vhf \in {"created", "started"}) /\ vhf # "deleted"
    /\ closePc \in {"release", "delete"} => vhf \in {"created", "started"}
    /\ closePc = "gone" => /\ vhf \in {"absent", "deleted"}
                           /\ \A o \in RealOps : dispatch[o] # "queue"
    /\ vhf \in {"absent", "created"} => raised = {}

AccountInv == TypeOK /\ OpInv /\ CloseInv

(* What an append and a tail do to the members of a queue. *)
LEMMA AppendMembers ==
    ASSUME NEW S, NEW q \in Seq(S), NEW e \in S,
           \A i, j \in 1..Len(q) : q[i] = q[j] => i = j,
           \A i \in 1..Len(q) : q[i] # e
    PROVE  /\ \A i, j \in 1..Len(Append(q, e)) : Append(q, e)[i] = Append(q, e)[j] => i = j
           /\ \A x : (\E i \in 1..Len(Append(q, e)) : Append(q, e)[i] = x)
                       <=> x = e \/ \E i \in 1..Len(q) : q[i] = x
<1> DEFINE n == Len(q)
           a == Append(q, e)
<1>1. n \in Nat /\ Len(a) = n + 1 /\ a[n + 1] = e /\ \A i \in 1..n : a[i] = q[i]
  OBVIOUS
<1>2. \A i \in 1..(n + 1) : i = n + 1 \/ i \in 1..n
  BY <1>1
<1>3. ASSUME NEW i \in 1..(n + 1), NEW j \in 1..(n + 1), a[i] = a[j]
      PROVE  i = j
  BY <1>1, <1>2, <1>3
<1>4. ASSUME NEW x
      PROVE  (\E i \in 1..(n + 1) : a[i] = x) <=> x = e \/ \E i \in 1..n : q[i] = x
  <2>1. ASSUME NEW i \in 1..(n + 1), a[i] = x PROVE x = e \/ \E k \in 1..n : q[k] = x
    BY <1>1, <1>2, <2>1
  <2>2. CASE x = e
    <3>1. n + 1 \in 1..(n + 1)
      BY <1>1
    <3> QED
      BY <1>1, <2>2, <3>1
  <2>3. ASSUME NEW i \in 1..n, q[i] = x PROVE \E k \in 1..(n + 1) : a[k] = x
    <3>1. i \in 1..(n + 1)
      BY <1>1
    <3> QED
      BY <1>1, <2>3, <3>1
  <2> QED
    BY <2>1, <2>2, <2>3
<1> QED
  BY <1>1, <1>3, <1>4

LEMMA TailMembers ==
    ASSUME NEW S, NEW q \in Seq(S), q # << >>,
           \A i, j \in 1..Len(q) : q[i] = q[j] => i = j
    PROVE  /\ \A i, j \in 1..Len(Tail(q)) : Tail(q)[i] = Tail(q)[j] => i = j
           /\ \A x : (\E i \in 1..Len(Tail(q)) : Tail(q)[i] = x)
                       <=> x # Head(q) /\ \E i \in 1..Len(q) : q[i] = x
           /\ \E i \in 1..Len(q) : q[i] = Head(q)
<1> DEFINE n == Len(q)
           t == Tail(q)
<1>1. n \in Nat /\ n >= 1 /\ Len(t) = n - 1 /\ \A i \in 1..(n - 1) : t[i] = q[i + 1]
  BY q # << >>
<1>2. Head(q) = q[1] /\ 1 \in 1..n
  BY <1>1
<1>3. \A i \in 1..(n - 1) : i + 1 \in 1..n /\ i + 1 # 1
  BY <1>1
<1>4. ASSUME NEW i \in 1..(n - 1), NEW j \in 1..(n - 1), t[i] = t[j]
      PROVE  i = j
  <2>1. i + 1 = j + 1
    BY <1>1, <1>3, <1>4
  <2> QED
    BY <2>1
<1>5. ASSUME NEW x
      PROVE  (\E i \in 1..(n - 1) : t[i] = x) <=> x # Head(q) /\ \E i \in 1..n : q[i] = x
  <2>1. ASSUME NEW i \in 1..(n - 1), t[i] = x
        PROVE  x # Head(q) /\ \E k \in 1..n : q[k] = x
    <3>1. q[i + 1] = x /\ i + 1 \in 1..n /\ i + 1 # 1
      BY <1>1, <1>3, <2>1
    <3>2. q[1] # q[i + 1]
      BY <1>2, <3>1
    <3> QED
      BY <1>2, <3>1, <3>2
  <2>2. ASSUME NEW i \in 1..n, q[i] = x, x # Head(q)
        PROVE  \E k \in 1..(n - 1) : t[k] = x
    <3>1. i # 1
      BY <1>2, <2>2
    <3>2. i - 1 \in 1..(n - 1) /\ (i - 1) + 1 = i
      BY <1>1, <3>1
    <3>3. t[i - 1] = x
      BY <1>1, <2>2, <3>2
    <3> QED
      BY <3>2, <3>3
  <2> QED
    BY <2>1, <2>2
<1> QED
  BY <1>1, <1>2, <1>4, <1>5

(* A step that moves no operation keeps every operation's account. *)
LEMMA OpsKept ==
    ASSUME OpInv,
           UNCHANGED <<waitingRequests, outstandingRequests, raised, completions, delivered>>,
           \A o \in Ops : dispatch'[o] = "queue" <=> dispatch[o] = "queue",
           \A o \in RealOps : requestId'[o] = requestId[o]
    PROVE  OpInv'
<1>1. \A o \in RealOps : o \in Ops
  BY DEF Ops
<1>2. \A o : IsWaiting(o)' <=> IsWaiting(o)
  BY DEF IsWaiting
<1>3. OnePlace' /\ NoRepeats'
  BY <1>2 DEF OpInv, OnePlace, NoRepeats
<1>4. ASSUME NEW o \in RealOps PROVE History(o)'
  <2>1. Live(o)' <=> Live(o)
    BY <1>1, <1>2 DEF Live
  <2> QED
    BY <1>1, <1>2, <2>1 DEF OpInv, History
<1> QED
  BY <1>3, <1>4 DEF OpInv

(* The oldest operation goes from the queue to the client, and the others   *)
(* stay where they are.                                                     *)
LEMMA OldestShown ==
    ASSUME TypeOK, OpInv, waitingRequests # << >>, ShowOldest,
           UNCHANGED <<raised, completions>>,
           \A o \in Ops : dispatch'[o] = "queue" <=> dispatch[o] = "queue",
           \A o \in RealOps : requestId'[o] = requestId[o]
    PROVE  OpInv'
<1> DEFINE h == Head(waitingRequests)
<1>1. waitingRequests \in Seq(Ops) /\ h \in Ops
  BY DEF TypeOK
<1>2. /\ NoRepeats'
      /\ \A x : IsWaiting(x)' <=> x # h /\ IsWaiting(x)
      /\ IsWaiting(h)
  BY <1>1, TailMembers DEF OpInv, NoRepeats, IsWaiting, ShowOldest
<1>3. \A x : x \in outstandingRequests' <=> x = h \/ x \in outstandingRequests
  BY DEF ShowOldest, ShowOp
<1>4. OnePlace'
  <2> SUFFICES ASSUME NEW o \in Ops
               PROVE  /\ dispatch'[o] = "queue" => ~IsWaiting(o)' /\ o \notin outstandingRequests'
                      /\ IsWaiting(o)' => o \notin outstandingRequests'
    BY DEF OnePlace
  <2> QED
    BY <1>2, <1>3 DEF OpInv, OnePlace
<1>5. ASSUME NEW o \in RealOps PROVE History(o)'
  <2>1. o \in Ops
    BY DEF Ops
  <2>2. Live(o)' <=> Live(o)
    BY <1>2, <1>3, <2>1 DEF Live
  <2>3. delivered'[o] = IF o = h THEN delivered[o] + 1 ELSE delivered[o]
    BY DEF ShowOldest, ShowOp
  <2>4. History(o)
    BY DEF OpInv
  <2>5. CASE o = h
    <3>1. IsWaiting(o) /\ ~IsWaiting(o)' /\ o \in outstandingRequests'
      BY <1>2, <1>3, <2>5
    <3>2. dispatch'[o] # "queue"
      BY <1>4, <2>1, <3>1 DEF OnePlace
    <3>3. delivered[o] = 0 /\ delivered'[o] = 1
      BY <2>3, <2>4, <2>5, <3>1 DEF History
    <3>4. Live(o) /\ Live(o)'
      BY <2>2, <3>1 DEF Live
    <3>5. completions'[o] = completions[o] /\ raised' = raised /\ requestId'[o] = requestId[o]
      OBVIOUS
    <3> QED
      BY <2>4, <3>1, <3>2, <3>3, <3>4, <3>5 DEF History
  <2>6. CASE o # h
    BY <1>2, <1>3, <2>1, <2>2, <2>3, <2>4, <2>6 DEF History
  <2> QED
    BY <2>5, <2>6
<1> QED
  BY <1>2, <1>4, <1>5 DEF OpInv

(* What TryCompleteGetNextEvent does to the operations. *)
LEMMA TryCompleteKeepsOps ==
    ASSUME TypeOK, OpInv, NEW r, TryCompleteGetNextEvent(r),
           UNCHANGED <<raised, completions>>,
           \A o \in Ops : dispatch'[o] = "queue" <=> dispatch[o] = "queue",
           \A o \in RealOps : requestId'[o] = requestId[o]
    PROVE  OpInv'
<1>1. CASE ShowOldest
  BY <1>1, OldestShown DEF TryCompleteGetNextEvent
<1>2. CASE UNCHANGED <<queueVars, delivered>>
  BY <1>2, OpsKept DEF queueVars
<1> QED
  BY <1>1, <1>2 DEF TryCompleteGetNextEvent

(* A completed operation is one of those in S, which leave their place. *)
LEMMA OpsCompleted ==
    ASSUME TypeOK, OpInv, NEW S, CompleteOps(S),
           \A o \in S \cap RealOps : completions[o] = 0 /\ o \in raised' /\ ~Live(o)',
           \A o \in RealOps \ S : /\ dispatch'[o] = "queue" <=> dispatch[o] = "queue"
                                  /\ IsWaiting(o)' <=> IsWaiting(o)
                                  /\ o \in outstandingRequests' <=> o \in outstandingRequests
                                  /\ o \in raised' <=> o \in raised,
           raised \subseteq raised',
           UNCHANGED delivered,
           \A o \in RealOps : requestId'[o] = requestId[o]
    PROVE  \A o \in RealOps : History(o)'
<1> SUFFICES ASSUME NEW o \in RealOps PROVE History(o)'
  OBVIOUS
<1>1. History(o) /\ completions[o] \in Nat /\ delivered[o] \in Nat
  BY DEF OpInv, TypeOK
<1>2. completions'[o] = IF o \in S THEN completions[o] + 1 ELSE completions[o]
  BY DEF CompleteOps
<1>3. CASE o \in S
  BY <1>1, <1>2, <1>3 DEF History, Live
<1>4. CASE o \notin S
  <2>1. Live(o)' <=> Live(o)
    BY <1>4 DEF Live
  <2> QED
    BY <1>1, <1>2, <1>4, <2>1 DEF History
<1> QED
  BY <1>3, <1>4

(* A dispatch that ends anywhere but before the lock moves no operation. *)
LEMMA EndDispatchKeeps ==
    ASSUME TypeOK, NEW o \in Ops, EndDispatch(o), dispatch[o] # "queue"
    PROVE  \A p \in Ops : dispatch'[p] = "queue" <=> dispatch[p] = "queue"
BY DEF TypeOK, EndDispatch

(* A new or renewed pseudo-operation concerns no operation VHF waits for. *)
LEMMA DispatchReadyKeeps ==
    ASSUME TypeOK, NEW o \in ReadyOps, DispatchReady(o)
    PROVE  \A p \in RealOps : dispatch'[p] = dispatch[p] /\ requestId'[p] = requestId[p]
<1>1. \A p \in RealOps : p # o /\ p \in Ops
  BY GunFileAssumption DEF Ops
<1> QED
  BY <1>1 DEF TypeOK, DispatchReady

(* ... and makes at most that one operation wait for the lock. *)
LEMMA DispatchReadyPlace ==
    ASSUME TypeOK, NEW o \in ReadyOps, DispatchReady(o)
    PROVE  \A p \in Ops : dispatch'[p] = "queue" => p = o \/ dispatch[p] = "queue"
BY DEF TypeOK, DispatchReady

(* The initial state accounts for every operation: there is none. *)
LEMMA InitAccounts == Init => AccountInv
<1> SUFFICES ASSUME Init PROVE AccountInv
  OBVIOUS
<1>1. /\ waitingRequests = << >> /\ outstandingRequests = {} /\ raised = {}
      /\ \A o \in Ops : dispatch[o] = "idle"
      /\ \A o \in RealOps : o \in Ops /\ completions[o] = 0 /\ delivered[o] = 0
  BY DEF Init, Ops
<1>2. \A o : ~IsWaiting(o)
  BY <1>1 DEF IsWaiting
<1>3. OpInv
  BY <1>1, <1>2 DEF OpInv, OnePlace, NoRepeats, History, Live
<1>4. CloseInv
  BY <1>1 DEF Init, CloseInv
<1> QED
  BY <1>3, <1>4, InitTyped DEF AccountInv

(* A callback's steps keep the account. *)
LEMMA DispatchAccounts ==
    ASSUME AccountInv, NEW o \in Ops, Dispatch(o)
    PROVE  OpInv' /\ CloseInv'
<1> USE DEF AccountInv
<1> USE DEF setupVars, lastVars, writeVars, queueVars, idVars, dispatchVars, pollVars,
            closeVars, vhfVars, opVars
<1>1. CASE Enqueue(o)
  <2>1. /\ vhfHandle /\ closePc = "open" /\ dispatch[o] = "queue"
        /\ waitingRequests \in Seq(Ops) /\ ~IsWaiting(o) /\ o \notin outstandingRequests
    BY <1>1 DEF Enqueue, CloseInv, OpInv, OnePlace, TypeOK
  <2>2. /\ NoRepeats'
        /\ \A x : IsWaiting(x)' <=> x = o \/ IsWaiting(x)
    BY <1>1, <2>1, AppendMembers DEF Enqueue, IsWaiting, NoRepeats, OpInv
  <2>3. \A p \in Ops : dispatch'[p] = "queue" <=> p # o /\ dispatch[p] = "queue"
    BY <1>1 DEF Enqueue, TypeOK
  <2>4. OnePlace'
    <3> SUFFICES ASSUME NEW p \in Ops
                 PROVE  /\ dispatch'[p] = "queue"
                             => ~IsWaiting(p)' /\ p \notin outstandingRequests'
                        /\ IsWaiting(p)' => p \notin outstandingRequests'
      BY DEF OnePlace
    <3> QED
      BY <1>1, <2>1, <2>2, <2>3 DEF Enqueue, OpInv, OnePlace
  <2>5. ASSUME NEW p \in RealOps PROVE History(p)'
    <3>1. p \in Ops /\ History(p)
      BY DEF Ops, OpInv
    <3>2. Live(p)' <=> Live(p)
      BY <1>1, <2>1, <2>2, <2>3, <3>1 DEF Live, Enqueue
    <3>3. dispatch'[p] = "queue" \/ IsWaiting(p)' <=> dispatch[p] = "queue" \/ IsWaiting(p)
      BY <2>1, <2>2, <2>3, <3>1
    <3> QED
      BY <1>1, <3>1, <3>2, <3>3 DEF History, Enqueue
  <2>6. CloseInv'
    BY <1>1, <2>1 DEF Enqueue, CloseInv
  <2> QED
    BY <2>2, <2>4, <2>5, <2>6 DEF OpInv
<1>2. CASE TurnAway(o)
  <2>1. dispatch[o] = "queue" /\ ~IsWaiting(o) /\ o \notin outstandingRequests
    BY <1>2 DEF TurnAway, OpInv, OnePlace
  <2>2. \A p \in Ops : dispatch'[p] = "queue" <=> p # o /\ dispatch[p] = "queue"
    BY <1>2 DEF TurnAway, EndDispatch, TypeOK
  <2>3. \A x : IsWaiting(x)' <=> IsWaiting(x)
    BY <1>2 DEF TurnAway, IsWaiting
  <2>4. OnePlace' /\ NoRepeats'
    BY <1>2, <2>2, <2>3 DEF TurnAway, OpInv, OnePlace, NoRepeats
  <2>5. \A p \in RealOps : p \in Ops
    BY DEF Ops
  <2>6. o \in RealOps => completions[o] = 0 /\ o \in raised /\ ~Live(o)'
    BY <1>2, <2>1, <2>2, <2>3 DEF OpInv, History, Live, TurnAway
  <2>7. \A p \in RealOps : History(p)'
    BY <1>2, <2>2, <2>3, <2>5, <2>6, OpsCompleted DEF TurnAway
  <2>8. CloseInv'
    BY <1>2, <2>2, <2>5 DEF TurnAway, CloseInv
  <2> QED
    BY <2>4, <2>7, <2>8 DEF OpInv
<1>3. CASE TakeNoPoll(o)
  <2>1. OpInv'
    BY <1>3, EndDispatchKeeps, OpsKept DEF TakeNoPoll
  <2>2. CloseInv'
    BY <1>3, EndDispatchKeeps DEF TakeNoPoll, CloseInv, Ops
  <2> QED
    BY <2>1, <2>2
<1>4. CASE \E r \in Pollers : TakePoll(o, r)
  <2>1. \A p \in Ops : dispatch'[p] = "queue" <=> dispatch[p] = "queue"
    BY <1>4 DEF TakePoll, TypeOK
  <2>2. OpInv'
    BY <1>4, <2>1, OpsKept DEF TakePoll
  <2>3. CloseInv'
    BY <1>4, <2>1 DEF TakePoll, CloseInv, Ops
  <2> QED
    BY <2>2, <2>3
<1>5. CASE TryDispatch(o)
  <2>1. \A p \in Ops : dispatch'[p] = "queue" <=> dispatch[p] = "queue"
    BY <1>5, EndDispatchKeeps DEF TryDispatch
  <2>2. OpInv'
    BY <1>5, <2>1, TryCompleteKeepsOps DEF TryDispatch
  <2>3. waitingRequests # << >> /\ closePc = "open"
    BY <1>5 DEF TryDispatch, TryCompleteGetNextEvent, CloseInv, TypeOK
  <2>4. CloseInv'
    BY <1>5, <2>3 DEF TryDispatch, CloseInv
  <2> QED
    BY <2>2, <2>4
<1>6. CASE TryDispatchNone(o)
  <2>1. \A p \in Ops : dispatch'[p] = "queue" <=> dispatch[p] = "queue"
    BY <1>6 DEF TryDispatchNone, TypeOK
  <2>2. OpInv'
    BY <1>6, <2>1, OpsKept DEF TryDispatchNone
  <2>3. CloseInv'
    BY <1>6, <2>1 DEF TryDispatchNone, CloseInv, Ops
  <2> QED
    BY <2>2, <2>3
<1>7. CASE Requeue(o)
  <2>1. OpInv'
    BY <1>7, EndDispatchKeeps, OpsKept DEF Requeue
  <2>2. CloseInv'
    BY <1>7, EndDispatchKeeps DEF Requeue, CloseInv, Ops
  <2> QED
    BY <2>1, <2>2
<1> QED
  BY <1>1, <1>2, <1>3, <1>4, <1>5, <1>6, <1>7 DEF Dispatch

(* So does the raising of an operation. *)
LEMMA RaiseAccounts ==
    ASSUME AccountInv, NEW o \in RealOps,
           \/ o \in InputOps /\ RaiseInput(o)
           \/ RaiseOther(o)
           \/ RaiseFails(o)
    PROVE  OpInv' /\ CloseInv'
<1> USE DEF AccountInv
<1> USE DEF setupVars, lastVars, writeVars, queueVars, idVars, dispatchVars, pollVars,
            closeVars, vhfVars, opVars
<1>1. o \in Ops /\ o \notin raised /\ vhf = "started" /\ raised' = raised \cup {o}
  BY DEF RaiseInput, RaiseOther, RaiseFails, Ops
<1>2. ~Live(o) /\ completions[o] = 0 /\ delivered[o] = 0
  BY <1>1 DEF OpInv, History
<1>3. \A x : IsWaiting(x)' <=> IsWaiting(x)
  BY DEF RaiseInput, RaiseOther, RaiseFails, IsWaiting
<1>4. UNCHANGED <<waitingRequests, outstandingRequests, delivered>>
  BY DEF RaiseInput, RaiseOther, RaiseFails
<1>5. CASE RaiseInput(o)
  <2>1. \A p \in Ops : /\ dispatch'[p] = "queue" <=> p = o \/ dispatch[p] = "queue"
                       /\ p # o => requestId'[p] = requestId[p]
    BY <1>1, <1>5 DEF RaiseInput, TypeOK
  <2>2. nextRequestId' \in Nat /\ requestId'[o] = RequestIdOf(nextRequestId')
    BY <1>1, <1>5 DEF RaiseInput, TypeOK
  <2>3. requestId'[o] # 0
    BY <2>2, RequestIdIsReal
  <2>4. OnePlace' /\ NoRepeats'
    BY <1>2, <1>3, <1>4, <2>1 DEF OpInv, OnePlace, NoRepeats, Live
  <2>5. ASSUME NEW p \in RealOps PROVE History(p)'
    <3>1. p \in Ops /\ History(p)
      BY DEF Ops, OpInv
    <3>2. CASE p = o
      <4>1. dispatch'[o] = "queue" /\ Live(o)'
        BY <1>1, <2>1 DEF Live
      <4>2. o \notin outstandingRequests'
        BY <1>2, <1>4 DEF Live
      <4>3. completions'[o] = 0 /\ delivered'[o] = 0
        BY <1>2, <1>5 DEF RaiseInput
      <4> QED
        BY <1>1, <2>3, <3>2, <4>1, <4>2, <4>3 DEF History
    <3>3. CASE p # o
      <4>1. Live(p)' <=> Live(p)
        BY <1>3, <1>4, <2>1, <3>1, <3>3 DEF Live
      <4> QED
        BY <1>1, <1>3, <1>4, <1>5, <2>1, <3>1, <3>3, <4>1 DEF History, RaiseInput
    <3> QED
      BY <3>2, <3>3
  <2>6. CloseInv'
    BY <1>1, <1>5 DEF CloseInv, RaiseInput
  <2> QED
    BY <2>4, <2>5, <2>6 DEF OpInv
<1>6. CASE RaiseOther(o) \/ RaiseFails(o)
  <2>1. UNCHANGED <<dispatch, requestId>> /\ CompleteOps({o})
    BY <1>6 DEF RaiseOther, RaiseFails
  <2>2. OnePlace' /\ NoRepeats'
    BY <1>3, <1>4, <2>1 DEF OpInv, OnePlace, NoRepeats
  <2>3. ~Live(o)'
    BY <1>2, <1>3, <1>4, <2>1 DEF Live
  <2>4. \A p \in RealOps : History(p)'
    BY <1>1, <1>2, <1>3, <1>4, <2>1, <2>3, OpsCompleted
  <2>5. CloseInv'
    BY <1>1, <1>6 DEF CloseInv, RaiseOther, RaiseFails
  <2> QED
    BY <2>2, <2>4, <2>5 DEF OpInv
<1> QED
  BY <1>5, <1>6

(* An operation the client answers leaves OutstandingRequests for good. *)
LEMMA ClientAccounts ==
    ASSUME AccountInv,
           \/ \E o \in RealOps : CompleteReal(o)
           \/ \E o \in ReadyOps, rep \in Report : CompleteReadyReport(o, rep)
           \/ \E o \in ReadyOps : AcknowledgeReady(o)
           \/ \E o, again \in ReadyOps : RefuseReady(o, again)
    PROVE  OpInv' /\ CloseInv'
<1> USE DEF AccountInv
<1> USE DEF setupVars, lastVars, writeVars, queueVars, idVars, dispatchVars, pollVars,
            closeVars, vhfVars, opVars
<1>1. PICK o \in Ops : /\ \E id : TakeOutstandingRequestById(id, o)
                       /\ \/ o \in RealOps /\ CompleteReal(o)
                          \/ o \in ReadyOps /\ \E rep \in Report : CompleteReadyReport(o, rep)
                          \/ o \in ReadyOps /\ AcknowledgeReady(o)
                          \/ o \in ReadyOps /\ \E again \in ReadyOps : RefuseReady(o, again)
  BY DEF CompleteReal, CompleteReadyReport, AcknowledgeReady, RefuseReady, Ops
<1>2. /\ o \in outstandingRequests /\ outstandingRequests' = outstandingRequests \ {o}
      /\ waitingRequests' = waitingRequests /\ fileOpen /\ vhfHandle
  BY <1>1 DEF TakeOutstandingRequestById
<1>3. \A x : IsWaiting(x)' <=> IsWaiting(x)
  BY <1>2 DEF IsWaiting
<1>4. closePc = "open"
  BY <1>2 DEF CloseInv
<1>5. CASE o \in RealOps /\ CompleteReal(o)
  <2>1. UNCHANGED <<dispatch, requestId, raised, delivered>> /\ CompleteOps({o})
    BY <1>5 DEF CompleteReal
  <2>2. OnePlace' /\ NoRepeats'
    BY <1>2, <1>3, <2>1 DEF OpInv, OnePlace, NoRepeats
  <2>3. completions[o] = 0 /\ o \in raised
    BY <1>2, <1>5 DEF OpInv, History, Live
  <2>4. ~Live(o)'
    BY <1>2, <1>3, <2>1 DEF Live, OpInv, OnePlace
  <2>5. \A p \in RealOps : History(p)'
    BY <1>2, <1>3, <2>1, <2>3, <2>4, OpsCompleted
  <2>6. CloseInv'
    BY <1>4, <1>5 DEF CloseInv, CompleteReal
  <2> QED
    BY <2>2, <2>5, <2>6 DEF OpInv
<1>6. CASE o \in ReadyOps
  <2>0. /\ o \notin RealOps
        /\ \/ \E rep \in Report : CompleteReadyReport(o, rep)
           \/ AcknowledgeReady(o)
           \/ \E again \in ReadyOps : RefuseReady(o, again)
    BY <1>1, <1>6, GunFileAssumption
  <2>1. UNCHANGED <<raised, delivered, completions, closePc, vhfHandle, fileOpen>>
    BY <2>0 DEF CompleteReadyReport, AcknowledgeReady, RefuseReady
  <2>2. vhf' = vhf
    BY <2>0 DEF CompleteReadyReport, AcknowledgeReady, RefuseReady,
                       VhfReadReportSubmit
  <2>3. \A p \in RealOps : dispatch'[p] = dispatch[p] /\ requestId'[p] = requestId[p]
    BY <2>0, DispatchReadyKeeps DEF CompleteReadyReport, AcknowledgeReady, RefuseReady
  <2>4. \A p \in Ops : dispatch'[p] = "queue"
                         => dispatch[p] = "queue"
                              \/ (~IsWaiting(p) /\ p \notin outstandingRequests')
    <3>1. CASE UNCHANGED dispatch
      BY <1>2, <3>1 DEF OpInv, OnePlace
    <3>2. CASE \E again \in ReadyOps : RefuseReady(o, again)
      <4> PICK again \in ReadyOps : RefuseReady(o, again)
        BY <3>2
      <4>1. ~IsWaiting(again) /\ again \notin outstandingRequests' /\ DispatchReady(again)
        BY DEF RefuseReady
      <4>2. \A p \in Ops : dispatch'[p] = "queue" => p = again \/ dispatch[p] = "queue"
        BY <4>1, DispatchReadyPlace
      <4> QED
        BY <4>1, <4>2
    <3> QED
      BY <2>0, <3>1, <3>2 DEF CompleteReadyReport, AcknowledgeReady
  <2>5. OnePlace' /\ NoRepeats'
    BY <1>2, <1>3, <2>4 DEF OpInv, OnePlace, NoRepeats
  <2>6. \A p \in RealOps : p # o
    BY <2>0
  <2>7. ASSUME NEW p \in RealOps PROVE History(p)'
    <3>1. Live(p)' <=> Live(p)
      BY <1>2, <1>3, <2>3, <2>6 DEF Live
    <3>2. History(p)
      BY DEF OpInv
    <3> QED
      BY <1>2, <1>3, <2>1, <2>3, <2>6, <3>1, <3>2 DEF History
  <2>8. CloseInv'
    BY <1>4, <2>1, <2>2 DEF CloseInv
  <2> QED
    BY <2>5, <2>7, <2>8 DEF OpInv
<1> QED
  BY <1>1, <1>5, <1>6

(* The close: the rundown completes what has an owner nowhere else. *)
LEMMA CloseAccounts ==
    ASSUME AccountInv, Close
    PROVE  OpInv' /\ CloseInv'
<1> USE DEF AccountInv
<1> USE DEF setupVars, lastVars, writeVars, queueVars, idVars, dispatchVars, pollVars,
            closeVars, vhfVars, opVars
<1>0. \A o \in RealOps : o \in Ops /\ History(o)
  BY DEF Ops, OpInv
<1>1. CASE FileClose
  <2>1. /\ waitingRequests' = << >> /\ outstandingRequests' = {} /\ CompleteOps(RunDown)
        /\ UNCHANGED <<dispatch, requestId, raised, delivered>>
    BY <1>1 DEF FileClose
  <2>2. \A x : ~IsWaiting(x)'
    BY <2>1 DEF IsWaiting
  <2>3. OnePlace' /\ NoRepeats'
    BY <2>1, <2>2 DEF OnePlace, NoRepeats
  <2>4. \A o \in RealOps : o \in RunDown <=> IsWaiting(o) \/ o \in outstandingRequests
    BY <1>0 DEF RunDown, History, Live
  <2>5. ASSUME NEW o \in RunDown \cap RealOps
        PROVE  completions[o] = 0 /\ o \in raised /\ ~Live(o)'
    BY <1>0, <2>1, <2>2, <2>4 DEF History, Live, OpInv, OnePlace
  <2>6. \A o \in RealOps : History(o)'
    BY <2>1, <2>2, <2>4, <2>5, OpsCompleted
  <2>7. CASE vhfHandle
    <3>1. /\ closePc' \in {"release", "delete"} /\ ~fileOpen' /\ ~vhfHandle'
          /\ vhf' = vhf /\ vhf \in {"created", "started"}
      BY <1>1, <2>7 DEF FileClose, CloseInv
    <3>2. CloseInv'
      BY <2>1, <3>1 DEF CloseInv
    <3> QED
      BY <2>3, <2>6, <3>2 DEF OpInv
  <2>8. CASE ~vhfHandle
    <3>1. vhf = "absent" /\ raised = {}
      BY <1>1, <2>8 DEF FileClose, CloseInv, TypeOK
    <3>2. \A o \in RealOps : dispatch[o] # "queue"
      BY <1>0, <3>1 DEF History, Live
    <3>3. closePc' = "gone" /\ ~fileOpen' /\ ~vhfHandle' /\ vhf' = vhf
      BY <1>1, <2>8 DEF FileClose
    <3>4. CloseInv'
      BY <2>1, <3>1, <3>2, <3>3 DEF CloseInv
    <3> QED
      BY <2>3, <2>6, <3>4 DEF OpInv
  <2> QED
    BY <2>7, <2>8
<1>2. CASE SubmitRelease
  <2>1. OpInv'
    BY <1>2, OpsKept DEF SubmitRelease
  <2>2. vhf' = vhf
    BY <1>2 DEF SubmitRelease, VhfReadReportSubmit
  <2>3. CloseInv'
    BY <1>2, <2>2 DEF SubmitRelease, CloseInv
  <2> QED
    BY <2>1, <2>3
<1>3. CASE DeleteDevice
  <2>1. OpInv'
    BY <1>3, OpsKept DEF DeleteDevice
  <2>2. CloseInv'
    BY <1>0, <1>3 DEF DeleteDevice, CloseInv
  <2> QED
    BY <2>1, <2>2
<1> QED
  BY <1>1, <1>2, <1>3 DEF Close

(* A "ready for next read report" from VHF concerns no other operation. *)
LEMMA ReadyAccounts ==
    ASSUME AccountInv, NEW o \in ReadyOps, RaiseReady(o)
    PROVE  OpInv' /\ CloseInv'
<1> USE DEF AccountInv
<1> USE DEF setupVars, lastVars, writeVars, queueVars, idVars, dispatchVars, pollVars,
            closeVars, vhfVars, opVars
<1>1. /\ DispatchReady(o) /\ IsFree(o) /\ o \in Ops
      /\ UNCHANGED <<waitingRequests, outstandingRequests, opVars, vhf, vhfHandle,
                     closePc, fileOpen>>
  BY DEF RaiseReady, Ops
<1>2. \A p \in RealOps : dispatch'[p] = dispatch[p] /\ requestId'[p] = requestId[p]
  BY <1>1, DispatchReadyKeeps
<1>3. \A p \in Ops : dispatch'[p] = "queue" => p = o \/ dispatch[p] = "queue"
  BY <1>1, DispatchReadyPlace
<1>4. \A x : IsWaiting(x)' <=> IsWaiting(x)
  BY <1>1 DEF IsWaiting
<1>5. OnePlace' /\ NoRepeats'
  BY <1>1, <1>3, <1>4 DEF OpInv, OnePlace, NoRepeats, IsFree
<1>6. ASSUME NEW p \in RealOps PROVE History(p)'
  <2>1. (Live(p)' <=> Live(p)) /\ History(p)
    BY <1>1, <1>2, <1>4 DEF Live, OpInv
  <2> QED
    BY <1>1, <1>2, <1>4, <2>1 DEF History
<1>7. CloseInv'
  BY <1>1, <1>2 DEF CloseInv
<1> QED
  BY <1>5, <1>6, <1>7 DEF OpInv

(* Every step keeps the account. *)
LEMMA NextAccounts == AccountInv /\ [Next]_vars => AccountInv'
<1> SUFFICES ASSUME AccountInv, [Next]_vars PROVE OpInv' /\ CloseInv'
  BY NextTyped DEF AccountInv
<1> USE DEF AccountInv
<1> USE DEF setupVars, lastVars, writeVars, queueVars, idVars, dispatchVars, pollVars,
            closeVars, vhfVars, opVars
<1>1. CASE UNCHANGED <<queueVars, dispatch, requestId, opVars, fileOpen, closePc, vhfHandle, vhf>>
  BY <1>1, OpsKept DEF CloseInv
<1>2. ASSUME NEW item \in ConfigItems, SetConfig(item) PROVE OpInv' /\ CloseInv'
  BY <1>1, <1>2 DEF SetConfig
<1>3. CASE CreateDevice
  <2>1. closePc = "open" /\ vhf = "absent" /\ raised = {}
    BY <1>3 DEF CreateDevice, CloseInv, TypeOK
  <2>2. OpInv'
    BY <1>3, OpsKept DEF CreateDevice
  <2>3. CloseInv'
    BY <1>3, <2>1 DEF CreateDevice, CloseInv
  <2> QED
    BY <2>2, <2>3
<1>4. CASE StartDevice
  <2>1. OpInv'
    BY <1>4, OpsKept DEF StartDevice
  <2>2. CloseInv'
    BY <1>4 DEF StartDevice, CloseInv
  <2> QED
    BY <2>1, <2>2
<1>5. ASSUME NEW t \in Writers, NEW rep \in Report, IoWrite(t, rep) PROVE OpInv' /\ CloseInv'
  BY <1>1, <1>5 DEF IoWrite, VhfReadReportSubmit
<1>6. ASSUME NEW t \in Writers, IoWriteRecord(t) PROVE OpInv' /\ CloseInv'
  BY <1>1, <1>6 DEF IoWriteRecord
<1>7. ASSUME NEW r \in Pollers, GetNextEvent(r) PROVE OpInv' /\ CloseInv'
  <2>1. OpInv'
    BY <1>7, TryCompleteKeepsOps DEF GetNextEvent
  <2>2. closePc = "open"
    BY <1>7 DEF GetNextEvent, CloseInv
  <2>3. CloseInv'
    BY <1>7, <2>2 DEF GetNextEvent, CloseInv
  <2> QED
    BY <2>1, <2>3
<1>8. ASSUME NEW r \in Pollers, GetNextEventNone(r) \/ ForwardToQueue(r) \/ CancelPoll(r)
      PROVE  OpInv' /\ CloseInv'
  BY <1>1, <1>8 DEF GetNextEventNone, ForwardToQueue, CancelPoll
<1>9. CASE ClientClose
  <2>1. OpInv'
    BY <1>9, OpsKept DEF ClientClose
  <2>2. CloseInv'
    BY <1>9 DEF ClientClose, CloseInv
  <2> QED
    BY <2>1, <2>2
<1>10. CASE UNCHANGED vars
  BY <1>1, <1>10 DEF vars
<1>11. CASE \E o \in RealOps : \/ o \in InputOps /\ RaiseInput(o)
                               \/ RaiseOther(o)
                               \/ RaiseFails(o)
  BY <1>11, RaiseAccounts
<1>12. InputOps \subseteq RealOps /\ OtherOps \subseteq RealOps
  BY DEF RealOps
<1> QED
  BY <1>2, <1>3, <1>4, <1>5, <1>6, <1>7, <1>8, <1>9, <1>10, <1>11, <1>12, ReadyAccounts,
     DispatchAccounts, ClientAccounts, CloseAccounts DEF Next, Terminated

(* The account holds in every reachable state. *)
LEMMA AlwaysAccounted == Spec => []AccountInv
<1>1. Safety => []AccountInv
  BY InitAccounts, NextAccounts, PTL DEF Safety
<1> QED
  BY <1>1 DEF Spec

(* Whatever the client, VHF and the framework do, and however the close     *)
(* meets them, every operation VHF waits for is in one place, is completed  *)
(* at most once, and is completed when the device goes (WinUHid.c:260-583,  *)
(* 1285-1309).                                                              *)
THEOREM Accounted == Spec => []OperationAccountedFor
<1>1. AccountInv => OperationAccountedFor
  <2> SUFFICES ASSUME AccountInv, NEW o \in RealOps
               PROVE  /\ completions[o] <= 1
                      /\ o \in raised /\ completions[o] = 0
                           <=> dispatch[o] = "queue" \/ IsWaiting(o) \/ o \in outstandingRequests
                      /\ dispatch[o] = "queue" => ~IsWaiting(o) /\ o \notin outstandingRequests
                      /\ IsWaiting(o) => o \notin outstandingRequests
                      /\ closePc = "gone" /\ o \in raised => completions[o] = 1
    BY DEF OperationAccountedFor
  <2>1. History(o) /\ o \in Ops /\ OnePlace /\ completions[o] \in Nat
    BY DEF AccountInv, OpInv, Ops, TypeOK
  <2>2. closePc = "gone" => ~Live(o)
    BY DEF AccountInv, CloseInv, Live, IsWaiting
  <2>3. closePc = "gone" /\ o \in raised => completions[o] = 1
    BY <2>1, <2>2 DEF History
  <2> QED
    BY <2>1, <2>3 DEF OnePlace, History, Live
<1> QED
  BY <1>1, AlwaysAccounted, PTL

(* No event is shown to the client twice, and none is lost by a poll that   *)
(* is cancelled, fails or is handed back (WinUHid.c:295-421, 563-582).      *)
THEOREM Shown == Spec => []ShownOnce
<1>1. AccountInv => ShownOnce
  BY DEF AccountInv, OpInv, History, ShownOnce
<1> QED
  BY <1>1, AlwaysAccounted, PTL

----------------------------------------------------------------------------
(* The release of the close.  LastReport is trusted at the close, so it has *)
(* to be what games see as soon as no write is between its submit and its   *)
(* record.  That is so for a client that reports from one thread and only   *)
(* of its own accord, as vgun-cli and the tests do.                         *)

OneReporter == (\A s, t \in Writers : s = t) /\ ReadyOps = {}

RecordsWhatGamesSee ==
    /\ \A t \in recording : gameReport = writeBuffer[t]
    /\ recording = {} /\ closePc = "open"
         => gameReport = IF lastReportValid THEN lastReport ELSE ZeroReport

LiftsButtons ==
    /\ vhf = "absent" => gameReport = ZeroReport
    /\ closePc # "open" => recording = {}
    /\ closePc = "release" => release = ReleaseOf(gameReport)
    /\ closePc \in {"delete", "gone"} => gameReport.buttons = 0 \/ releaseRefused

FireInv == AccountInv /\ RecordsWhatGamesSee /\ LiftsButtons

(* A report without buttons has none. *)
LEMMA Released ==
    /\ ZeroReport \in Report /\ ZeroReport.buttons = 0
    /\ \A rep \in Report : ReleaseOf(rep) \in Report /\ ReleaseOf(rep).buttons = 0
BY GunFileAssumption DEF ZeroReport, Report, ReleaseOf

(* The write of the only reporter is what games see until it is recorded. *)
LEMMA WriteFires ==
    ASSUME OneReporter, FireInv, NEW t \in Writers,
           (\E rep \in Report : IoWrite(t, rep)) \/ IoWriteRecord(t)
    PROVE  RecordsWhatGamesSee' /\ LiftsButtons'
<1> USE DEF setupVars, lastVars, writeVars, queueVars, idVars, dispatchVars, pollVars,
            closeVars, vhfVars, opVars
<1>1. recording \subseteq {t} /\ writeBuffer \in [Writers -> Report]
  BY DEF OneReporter, FireInv, AccountInv, TypeOK
<1>2. CASE \E rep \in Report : IoWrite(t, rep)
  <2> PICK rep \in Report : IoWrite(t, rep)
    BY <1>2
  <2>1. recording' = {t} /\ gameReport' = rep /\ writeBuffer'[t] = rep
    BY <1>1 DEF IoWrite, VhfReadReportSubmit
  <2>2. closePc' = "open" /\ vhf' = "started"
    BY DEF IoWrite, VhfReadReportSubmit, FireInv, AccountInv, CloseInv
  <2> QED
    BY <2>1, <2>2 DEF RecordsWhatGamesSee, LiftsButtons
<1>3. CASE IoWriteRecord(t)
  <2>1. /\ recording = {t} /\ recording' = {} /\ closePc = "open"
        /\ lastReport' = gameReport /\ lastReportValid' = TRUE
        /\ UNCHANGED <<gameReport, closePc, vhf>>
    BY <1>1, <1>3 DEF IoWriteRecord, FireInv, RecordsWhatGamesSee, LiftsButtons
  <2> QED
    BY <2>1 DEF RecordsWhatGamesSee, LiftsButtons, FireInv
<1> QED
  BY <1>2, <1>3

(* The close lifts what games see, or finds nothing to lift. *)
LEMMA CloseFires ==
    ASSUME FireInv, Close
    PROVE  RecordsWhatGamesSee' /\ LiftsButtons'
<1> USE DEF setupVars, lastVars, writeVars, queueVars, idVars, dispatchVars, pollVars,
            closeVars, vhfVars, opVars
<1>1. CASE FileClose
  <2>1. /\ closePc = "open" /\ recording = {} /\ lastReport \in Report
        /\ closePc' \in {"release", "delete", "gone"}
        /\ closePc' = "gone" <=> ~vhfHandle
        /\ closePc' = "release" <=> vhfHandle /\ MustRelease
        /\ release' = ReleaseOf(lastReport)
        /\ UNCHANGED <<recording, gameReport, vhf>>
    BY <1>1 DEF FileClose, IoDrained, FireInv, AccountInv, TypeOK
  <2>2. gameReport = IF lastReportValid THEN lastReport ELSE ZeroReport
    BY <2>1 DEF FireInv, RecordsWhatGamesSee
  <2>3. ~vhfHandle => gameReport = ZeroReport
    BY <2>1 DEF FireInv, AccountInv, TypeOK, CloseInv, LiftsButtons
  <2>4. ~MustRelease => gameReport.buttons = 0
    BY <2>2, Released DEF MustRelease
  <2>5. MustRelease => gameReport = lastReport
    BY <2>2 DEF MustRelease
  <2> QED
    BY <2>1, <2>3, <2>4, <2>5, Released DEF RecordsWhatGamesSee, LiftsButtons, FireInv
<1>2. CASE SubmitRelease
  <2>1. /\ closePc = "release" /\ closePc' = "delete" /\ recording' = {}
        /\ vhf' = vhf /\ vhf # "absent"
        /\ gameReport' = ReleaseOf(gameReport) \/ releaseRefused'
    BY <1>2 DEF SubmitRelease, VhfReadReportSubmit, FireInv, AccountInv, CloseInv, LiftsButtons
  <2>2. ReleaseOf(gameReport).buttons = 0
    BY Released DEF FireInv, AccountInv, TypeOK
  <2> QED
    BY <2>1, <2>2 DEF RecordsWhatGamesSee, LiftsButtons
<1>3. CASE DeleteDevice
  BY <1>3 DEF DeleteDevice, FireInv, RecordsWhatGamesSee, LiftsButtons
<1> QED
  BY <1>1, <1>2, <1>3 DEF Close

(* No other step touches a report, and there is no pseudo-operation to answer. *)
LEMMA NextFires == OneReporter /\ FireInv /\ [Next]_vars => FireInv'
<1> SUFFICES ASSUME OneReporter, FireInv, [Next]_vars
             PROVE  RecordsWhatGamesSee' /\ LiftsButtons'
  BY NextAccounts DEF FireInv
<1> USE DEF setupVars, lastVars, writeVars, queueVars, idVars, dispatchVars, pollVars,
            closeVars, vhfVars, opVars
<1>1. CASE /\ UNCHANGED <<lastVars, writeVars, closePc, release, releaseRefused, gameReport>>
           /\ vhf' = vhf \/ vhf' \in {"created", "started"}
  BY <1>1 DEF FireInv, RecordsWhatGamesSee, LiftsButtons
<1>2. CASE UNCHANGED vars
  BY <1>1, <1>2 DEF vars
<1>3. ASSUME NEW o \in Ops, Dispatch(o) PROVE RecordsWhatGamesSee' /\ LiftsButtons'
  BY <1>1, <1>3 DEF Dispatch, Enqueue, TurnAway, TakeNoPoll, TakePoll, TryDispatch,
     TryDispatchNone, Requeue
<1>4. ASSUME NEW r \in Pollers, \/ GetNextEvent(r) \/ GetNextEventNone(r)
                                \/ ForwardToQueue(r) \/ CancelPoll(r)
      PROVE  RecordsWhatGamesSee' /\ LiftsButtons'
  BY <1>1, <1>4 DEF GetNextEvent, GetNextEventNone, ForwardToQueue, CancelPoll
<1>5. ASSUME NEW o, RaiseInput(o) \/ RaiseOther(o) \/ RaiseFails(o) \/ CompleteReal(o)
      PROVE  RecordsWhatGamesSee' /\ LiftsButtons'
  BY <1>1, <1>5 DEF RaiseInput, RaiseOther, RaiseFails, CompleteReal
<1>6. CASE (\E item \in ConfigItems : SetConfig(item)) \/ CreateDevice \/ StartDevice
  BY <1>1, <1>6 DEF SetConfig, CreateDevice, StartDevice
<1>7. CASE ClientClose
  BY <1>1, <1>7 DEF ClientClose
<1>8. ReadyOps = {}
  BY DEF OneReporter
<1> QED
  BY <1>2, <1>3, <1>4, <1>5, <1>6, <1>7, <1>8, WriteFires, CloseFires DEF Next, Terminated

(* A new handle has reported nothing. *)
LEMMA InitFires == Init => FireInv
<1>1. Init => RecordsWhatGamesSee /\ LiftsButtons
  BY DEF Init, RecordsWhatGamesSee, LiftsButtons
<1> QED
  BY <1>1, InitAccounts DEF FireInv

(* A client that reports from one thread never leaves a game holding fire,  *)
(* however it ends and whatever else is in progress then (Driver.h:59-62):  *)
(* the last report games saw has no button down, unless VHF refused it.     *)
THEOREM NeverHoldsFire == OneReporter => (Spec => []NoFireLeftHeld)
<1> SUFFICES ASSUME OneReporter PROVE Spec => []NoFireLeftHeld
  OBVIOUS
<1>1. FireInv /\ [Next]_vars => FireInv'
  BY NextFires
<1>2. Safety => []FireInv
  BY <1>1, InitFires, PTL DEF Safety
<1>3. FireInv => NoFireLeftHeld
  BY DEF FireInv, LiftsButtons, NoFireLeftHeld
<1> QED
  BY <1>2, <1>3, PTL DEF Spec

(* What the close sends to games lifts the buttons and moves nothing: the   *)
(* crosshair of a dying client stays where it was (WinUHid.c:1276-1283).    *)
THEOREM OnlyReleases == OneReporter => (Spec => CloseOnlyReleases)
<1> SUFFICES ASSUME OneReporter PROVE Spec => CloseOnlyReleases
  OBVIOUS
<1>1. FireInv /\ [Next]_vars => FireInv'
  BY NextFires
<1>2. Safety => []FireInv
  BY <1>1, InitFires, PTL DEF Safety
<1>3. FireInv /\ [Next]_vars
        => [closePc # "open" /\ gameReport' # gameReport
              => gameReport' = [gameReport EXCEPT !.buttons = 0]]_vars
  <2> SUFFICES ASSUME FireInv, [Next]_vars, closePc # "open", gameReport' # gameReport
               PROVE  gameReport' = [gameReport EXCEPT !.buttons = 0]
    OBVIOUS
  <2> USE DEF setupVars, lastVars, writeVars, queueVars, idVars, dispatchVars, pollVars,
              closeVars, vhfVars, opVars
  <2>1. ~fileOpen
    BY DEF FireInv, AccountInv, CloseInv
  <2>2. ASSUME NEW o \in Ops PROVE ~Dispatch(o)
    BY <2>2 DEF Dispatch, Enqueue, TurnAway, TakeNoPoll, TakePoll, TryDispatch,
       TryDispatchNone, Requeue
  <2>3. ASSUME NEW r \in Pollers PROVE ~ForwardToQueue(r)
    BY <2>3 DEF ForwardToQueue
  <2>4. ASSUME NEW o PROVE ~(RaiseInput(o) \/ RaiseOther(o) \/ RaiseFails(o))
    BY <2>4 DEF RaiseInput, RaiseOther, RaiseFails
  <2>5. ASSUME NEW t \in Writers PROVE ~IoWriteRecord(t)
    BY <2>5 DEF IoWriteRecord
  <2>6. ReadyOps = {}
    BY DEF OneReporter
  <2>7. Close
    BY <2>1, <2>2, <2>3, <2>4, <2>5, <2>6 DEF Next, Terminated, vars, SetConfig,
       CreateDevice, StartDevice, IoWrite, GetNextEvent, GetNextEventNone, CancelPoll,
       CompleteReal, TakeOutstandingRequestById, ClientClose
  <2>8. SubmitRelease
    BY <2>7 DEF Close, FileClose, DeleteDevice
  <2> QED
    BY <2>8 DEF SubmitRelease, VhfReadReportSubmit, FireInv, LiftsButtons, ReleaseOf
<1> QED
  BY <1>2, <1>3, PTL DEF Spec, Safety, CloseOnlyReleases

----------------------------------------------------------------------------
(* The handle implements the gun of VirtualGun, step by step.  What a gun   *)
(* looks like from outside, in terms of the account:                        *)

Device ==
    CASE vhf = "absent" -> "absent"
      [] vhf = "deleted" -> "removed"
      [] OTHER -> "present"

OpStates == [o \in RealOps |-> OpState(o)]

(* The device is there exactly while the driver can use it. *)
LEMMA DevicePresent ==
    ASSUME TypeOK
    PROVE  /\ Device = "present" <=> vhf \in {"created", "started"}
           /\ Device = "absent" <=> vhf = "absent"
           /\ Device = "removed" <=> vhf = "deleted"
BY DEF TypeOK, Device

(* Where an operation is decides how far it looks from outside. *)
LEMMA StateOfOp ==
    ASSUME AccountInv, NEW o \in RealOps
    PROVE  /\ OpStates[o] = OpState(o)
           /\ o \notin raised <=> OpState(o) = "none"
           /\ dispatch[o] = "queue" \/ IsWaiting(o) => OpState(o) = "raised"
           /\ o \in outstandingRequests => OpState(o) = "shown"
           /\ OpState(o) \in {"raised", "shown"} <=> Live(o)
<1>1. /\ History(o) /\ o \in Ops
      /\ completions[o] \in Nat /\ delivered[o] \in Nat
  BY DEF AccountInv, OpInv, TypeOK, Ops
<1>2. completions[o] > 0 => o \in raised
  BY <1>1 DEF History
<1>3. delivered[o] > 0 => o \in raised
  BY <1>1 DEF History
<1>4. OpState(o) = IF completions[o] > 0 THEN "answered"
                   ELSE IF delivered[o] > 0 THEN "shown"
                   ELSE IF o \in raised THEN "raised" ELSE "none"
  BY DEF OpState
<1>5. OpState(o) \in {"raised", "shown"} <=> o \in raised /\ completions[o] = 0
  BY <1>1, <1>2, <1>3, <1>4
<1>6. o \in raised /\ completions[o] = 0 <=> Live(o)
  BY <1>1 DEF History
<1>7. Live(o) <=> dispatch[o] = "queue" \/ IsWaiting(o) \/ o \in outstandingRequests
  BY DEF Live
<1>8. /\ dispatch[o] = "queue" \/ IsWaiting(o) => delivered[o] = 0
      /\ o \in outstandingRequests => delivered[o] = 1
  BY <1>1 DEF History
<1> QED
  BY <1>1, <1>2, <1>3, <1>4, <1>5, <1>6, <1>7, <1>8 DEF OpStates

(* An operation whose history a step leaves alone looks the same after it. *)
LEMMA SameOp ==
    ASSUME NEW o \in RealOps, completions'[o] = completions[o], delivered'[o] = delivered[o],
           o \in raised' <=> o \in raised
    PROVE  OpState(o)' = OpState(o)
BY DEF OpState

LEMMA SameOps ==
    ASSUME UNCHANGED opVars
    PROVE  OpStates' = OpStates
BY DEF OpStates, OpState, opVars

LEMMA SameDevice ==
    ASSUME vhf' = vhf
    PROVE  Device' = Device
BY DEF Device

(* A step that nobody outside sees. *)
LEMMA Unseen ==
    ASSUME UNCHANGED <<fileOpen, vhf, gameReport, releaseRefused, opVars>>
    PROVE  UNCHANGED Gun!vars
BY SameOps, SameDevice DEF Gun!vars, Device, OpStates

----------------------------------------------------------------------------
(* The steps of a handle, one disjunct of VirtualGun each. *)

LEMMA InitRefines == Init => Gun!Init
<1> SUFFICES ASSUME Init PROVE Gun!Init
  OBVIOUS
<1>1. \A o \in RealOps : OpState(o) = "none"
  BY DEF Init, OpState
<1>2. Device = "absent"
  BY DEF Init, Device
<1> QED
  BY <1>1, <1>2 DEF Gun!Init, Init, Device

LEMMA CreateRefines ==
    ASSUME FireInv, CreateDevice
    PROVE  Gun!Plug
<1> USE DEF vhfVars, closeVars, opVars
<1>1. fileOpen /\ vhf = "absent"
  BY DEF CreateDevice, FireInv, AccountInv, CloseInv, TypeOK
<1>2. /\ vhf' = "created"
      /\ UNCHANGED <<fileOpen, gameReport, releaseRefused, opVars>>
  BY DEF CreateDevice
<1>3. Device = "absent" /\ Device' = "present" /\ OpStates' = OpStates
  BY <1>1, <1>2, SameOps DEF Device
<1> QED
  BY <1>1, <1>2, <1>3 DEF Gun!Plug, Device, OpStates

(* StartDevice changes nothing a game or the owner sees. *)
LEMMA StartRefines ==
    ASSUME StartDevice
    PROVE  UNCHANGED Gun!vars
<1>1. Device = "present" /\ Device' = "present" /\ OpStates' = OpStates
  BY SameOps DEF StartDevice, Device, opVars
<1> QED
  BY <1>1 DEF StartDevice, Gun!vars, Device, OpStates, vhfVars, closeVars, opVars

LEMMA WriteRefines ==
    ASSUME NEW t \in Writers, NEW rep \in Report, IoWrite(t, rep)
    PROVE  Gun!Move(rep)
<1>1. /\ fileOpen /\ vhf = "started" /\ vhf' = vhf /\ gameReport' = rep
      /\ UNCHANGED <<fileOpen, releaseRefused, opVars>>
  BY DEF IoWrite, VhfReadReportSubmit, closeVars
<1>2. Device = "present" /\ Device' = "present" /\ OpStates' = OpStates
  BY <1>1, SameOps DEF Device
<1> QED
  BY <1>1, <1>2 DEF Gun!Move, Device, OpStates

(* The states of all operations after a step that moves one of them ...     *)
LEMMA OneMoves ==
    ASSUME NEW o \in RealOps, NEW st, OpState(o)' = st,
           \A p \in RealOps \ {o} : OpState(p)' = OpState(p)
    PROVE  OpStates' = [OpStates EXCEPT ![o] = st]
BY DEF OpStates

(* ... and after one that completes a set. *)
LEMMA ManyMove ==
    ASSUME AccountInv, NEW S, CompleteOps(S), UNCHANGED delivered,
           \A o \in RealOps \ S : o \in raised' <=> o \in raised
    PROVE  OpStates' = [o \in RealOps |-> IF o \in S THEN "answered" ELSE OpStates[o]]
<1>1. ASSUME NEW o \in RealOps
      PROVE  OpState(o)' = IF o \in S THEN "answered" ELSE OpState(o)
  <2>1. completions'[o] = IF o \in S THEN completions[o] + 1 ELSE completions[o]
    BY DEF CompleteOps
  <2>2. completions[o] \in Nat
    BY DEF AccountInv, TypeOK
  <2>3. CASE o \in S
    BY <2>1, <2>2, <2>3 DEF OpState
  <2>4. CASE o \notin S
    BY <2>1, <2>4, SameOp
  <2> QED
    BY <2>3, <2>4
<1> QED
  BY <1>1 DEF OpStates

LEMMA RaiseRefines ==
    ASSUME FireInv, NEW o \in InputOps, RaiseInput(o)
    PROVE  Gun!Raise(o)
<1> USE DEF vhfVars, closeVars
<1>1. o \in RealOps /\ o \notin raised /\ vhf = "started"
  BY DEF RaiseInput, RealOps
<1>2. /\ UNCHANGED <<fileOpen, vhf, gameReport, releaseRefused, completions, delivered>>
      /\ raised' = raised \cup {o}
  BY DEF RaiseInput
<1>3. completions[o] = 0 /\ delivered[o] = 0 /\ OpStates[o] = "none"
  BY <1>1, StateOfOp DEF FireInv, AccountInv, OpInv, History
<1>4. OpState(o)' = "raised"
  BY <1>2, <1>3 DEF OpState
<1>5. OpStates' = [OpStates EXCEPT ![o] = "raised"]
  BY <1>1, <1>2, <1>4, SameOp, OneMoves
<1>6. Device = "present" /\ Device' = "present"
  BY <1>1, <1>2 DEF Device
<1> QED
  BY <1>2, <1>3, <1>5, <1>6 DEF Gun!Raise, Device, OpStates

(* What is completed without having been shown, or after the owner is gone. *)
LEMMA RejectRefines ==
    ASSUME FireInv, NEW S \in SUBSET RealOps, CompleteOps(S), Device = "present",
           \A o \in S : OpState(o) # "answered" /\ (OpState(o) = "shown" => ~fileOpen),
           \A o \in RealOps \ S : o \in raised' <=> o \in raised,
           UNCHANGED <<fileOpen, vhf, gameReport, releaseRefused, delivered>>
    PROVE  Gun!Reject(S)
<1>1. OpStates' = [o \in RealOps |-> IF o \in S THEN "answered" ELSE OpStates[o]]
  BY ManyMove DEF FireInv
<1>2. \A o \in S : OpStates[o] = OpState(o)
  BY DEF OpStates
<1> QED
  BY <1>1, <1>2, SameDevice DEF Gun!Reject, Device, OpStates

LEMMA RaiseOtherRefines ==
    ASSUME FireInv, NEW o \in RealOps, RaiseOther(o) \/ RaiseFails(o)
    PROVE  Gun!Reject({o})
<1>1. o \notin raised /\ vhf = "started" /\ raised' = raised \cup {o} /\ CompleteOps({o})
  BY DEF RaiseOther, RaiseFails
<1>2. UNCHANGED <<fileOpen, vhf, gameReport, releaseRefused, delivered>>
  BY DEF RaiseOther, RaiseFails, closeVars, vhfVars
<1>3. OpState(o) = "none"
  BY <1>1, StateOfOp DEF FireInv
<1>4. Device = "present"
  BY <1>1 DEF Device
<1> QED
  BY <1>1, <1>2, <1>3, <1>4, RejectRefines

(* VHF has raised nothing before there is a device, and the device goes     *)
(* when nothing waits for the lock.                                         *)
LEMMA RaisedMeansPresent ==
    ASSUME AccountInv, NEW o \in RealOps, Live(o)
    PROVE  Device = "present"
<1>1. o \in raised
  BY DEF AccountInv, OpInv, History
<1>2. vhf \notin {"absent", "created"}
  BY <1>1 DEF AccountInv, CloseInv
<1>3. closePc # "gone"
  BY DEF AccountInv, CloseInv, Live, IsWaiting
<1>4. vhf # "deleted"
  BY <1>3 DEF AccountInv, CloseInv, TypeOK
<1> QED
  BY <1>2, <1>4 DEF Device

LEMMA TurnAwayRefines ==
    ASSUME FireInv, NEW o \in RealOps, TurnAway(o)
    PROVE  Gun!Reject({o})
<1>1. dispatch[o] = "queue" /\ CompleteOps({o})
  BY DEF TurnAway
<1>2. UNCHANGED <<fileOpen, vhf, gameReport, releaseRefused, raised, delivered>>
  BY DEF TurnAway, closeVars, vhfVars
<1>3. OpState(o) = "raised" /\ Device = "present"
  BY <1>1, StateOfOp, RaisedMeansPresent DEF FireInv, Live
<1> QED
  BY <1>1, <1>2, <1>3, RejectRefines

LEMMA ShowRefines ==
    ASSUME FireInv, ReadyOps = {}, NEW r, TryCompleteGetNextEvent(r),
           UNCHANGED <<fileOpen, vhf, gameReport, releaseRefused, raised, completions>>
    PROVE  UNCHANGED Gun!vars \/ \E o \in RealOps : Gun!Show(o)
<1>1. CASE UNCHANGED <<queueVars, delivered>>
  BY <1>1, Unseen DEF opVars
<1>2. CASE ShowOldest
  <2> PICK h : h = Head(waitingRequests)
    OBVIOUS
  <2>1. h \in RealOps /\ IsWaiting(h)
    BY TailMembers DEF FireInv, AccountInv, TypeOK, OpInv, NoRepeats, IsWaiting, Ops,
       TryCompleteGetNextEvent
  <2>2. OpStates[h] = "raised" /\ delivered[h] = 0 /\ completions[h] = 0
    BY <2>1, StateOfOp DEF FireInv, AccountInv, OpInv, History, Live
  <2>3. \A p \in RealOps : delivered'[p] = IF p = h THEN delivered[p] + 1 ELSE delivered[p]
    BY <1>2 DEF ShowOldest, ShowOp
  <2>4. OpState(h)' = "shown"
    <3>1. completions'[h] = 0 /\ delivered'[h] = 1
      BY <2>1, <2>2, <2>3
    <3> QED BY <3>1 DEF OpState
  <2>5. OpStates' = [OpStates EXCEPT ![h] = "shown"]
    <3>1. \A p \in RealOps \ {h} : OpState(p)' = OpState(p)
      BY <2>3, SameOp
    <3> QED BY <2>1, <2>4, <3>1, OneMoves
  <2>6. Gun!Show(h)
    BY <2>2, <2>5, SameDevice DEF Gun!Show, Device, OpStates
  <2> QED
    BY <2>1, <2>6
<1> QED
  BY <1>1, <1>2 DEF TryCompleteGetNextEvent

LEMMA CompleteRefines ==
    ASSUME FireInv, NEW o \in RealOps, CompleteReal(o)
    PROVE  Gun!Reply(o)
<1>1. fileOpen /\ o \in outstandingRequests /\ CompleteOps({o})
  BY DEF CompleteReal, TakeOutstandingRequestById
<1>2. UNCHANGED <<fileOpen, vhf, gameReport, releaseRefused, raised, delivered>>
  BY DEF CompleteReal, closeVars, vhfVars
<1>3. OpStates[o] = "shown"
  BY <1>1, StateOfOp DEF FireInv
<1>4. OpStates' = [p \in RealOps |-> IF p \in {o} THEN "answered" ELSE OpStates[p]]
  BY <1>1, <1>2, ManyMove DEF FireInv
<1>5. OpStates' = [OpStates EXCEPT ![o] = "answered"]
  BY <1>4 DEF OpStates
<1> QED
  BY <1>1, <1>2, <1>3, <1>5, SameDevice DEF Gun!Reply, Device, OpStates

LEMMA ClientCloseRefines ==
    ASSUME ClientClose
    PROVE  Gun!Abandon
<1>1. fileOpen /\ fileOpen' = FALSE /\ UNCHANGED <<vhf, gameReport, releaseRefused, opVars>>
  BY DEF ClientClose, vhfVars
<1> QED
  BY <1>1, SameDevice, SameOps DEF Gun!Abandon, Device, OpStates

(* The rundown completes what the client was shown and what waits, if there *)
(* is a device at all.                                                      *)
LEMMA FileCloseRefines ==
    ASSUME FireInv, ReadyOps = {}, FileClose
    PROVE  UNCHANGED Gun!vars \/ \E S \in SUBSET RealOps : Gun!Reject(S)
<1>1. ~fileOpen /\ CompleteOps(RunDown)
  BY DEF FileClose
<1>2. UNCHANGED <<fileOpen, vhf, gameReport, releaseRefused, raised, delivered>>
  BY DEF FileClose, vhfVars
<1>3. RunDown \subseteq RealOps /\ \A o \in RunDown : Live(o)
  BY DEF RunDown, Live, Ops
<1>4. \A o \in RunDown : OpState(o) # "answered"
  BY <1>3, StateOfOp DEF FireInv
<1>5. CASE RunDown = {}
  <2>1. completions' = completions
    BY <1>1, <1>5 DEF CompleteOps, FireInv, AccountInv, TypeOK
  <2> QED
    BY <1>2, <2>1, Unseen DEF opVars
<1>6. CASE RunDown # {}
  <2>1. Device = "present"
    BY <1>3, <1>6, RaisedMeansPresent DEF FireInv
  <2> QED
    BY <1>1, <1>2, <1>3, <1>4, <2>1, RejectRefines
<1> QED
  BY <1>5, <1>6

LEMMA SubmitReleaseRefines ==
    ASSUME FireInv, SubmitRelease
    PROVE  Gun!Release \/ Gun!RefuseRelease
<1>1. /\ closePc = "release" /\ ~fileOpen
      /\ vhf \in {"created", "started"} /\ release = ReleaseOf(gameReport)
  BY DEF SubmitRelease, FireInv, AccountInv, CloseInv, LiftsButtons
<1>2. UNCHANGED <<fileOpen, opVars, vhf>>
  BY DEF SubmitRelease, VhfReadReportSubmit, vhfVars
<1>3. Device = "present" /\ Device' = Device /\ OpStates' = OpStates
  BY <1>1, <1>2, SameDevice, SameOps DEF Device
<1>4. \/ gameReport' = release /\ UNCHANGED releaseRefused
      \/ releaseRefused' = TRUE /\ UNCHANGED gameReport
  BY DEF SubmitRelease, VhfReadReportSubmit, vhfVars
<1>5. CASE gameReport' = release /\ UNCHANGED releaseRefused
  BY <1>1, <1>2, <1>3, <1>5 DEF Gun!Release, Gun!Released, ReleaseOf, Device, OpStates
<1>6. CASE releaseRefused' = TRUE /\ UNCHANGED gameReport
  BY <1>1, <1>2, <1>3, <1>6 DEF Gun!RefuseRelease, Device, OpStates
<1> QED
  BY <1>4, <1>5, <1>6

LEMMA DeleteRefines ==
    ASSUME FireInv, DeleteDevice
    PROVE  Gun!Unplug
<1>1. closePc = "delete" /\ \A o \in Ops : dispatch[o] = "idle"
  BY DEF DeleteDevice
<1>2. /\ ~fileOpen /\ vhf \in {"created", "started"}
      /\ waitingRequests = << >> /\ outstandingRequests = {}
      /\ gameReport.buttons = 0 \/ releaseRefused
  BY <1>1 DEF FireInv, AccountInv, CloseInv, LiftsButtons
<1>3. \A o \in RealOps : OpStates[o] \notin {"raised", "shown"}
  BY <1>1, <1>2, StateOfOp DEF FireInv, Live, IsWaiting, Ops
<1>4. gameReport.buttons = 0 => gameReport = ReleaseOf(gameReport)
  BY DEF FireInv, AccountInv, TypeOK, Report, ReleaseOf
<1>5. /\ vhf' = "deleted"
      /\ UNCHANGED <<fileOpen, gameReport, releaseRefused, opVars>>
  BY DEF DeleteDevice
<1>6. Device = "present" /\ Device' = "removed" /\ OpStates' = OpStates
  BY <1>2, <1>5, SameOps DEF Device
<1>7. Gun!Pending = {}
  BY <1>3 DEF Gun!Pending, OpStates
<1> QED
  BY <1>2, <1>4, <1>5, <1>6, <1>7 DEF Gun!Unplug, Gun!Released, ReleaseOf, Device, OpStates

----------------------------------------------------------------------------
(* Every step of a handle is a step of the gun or changes nothing it shows. *)
LEMMA DispatchRefines ==
    ASSUME FireInv, ReadyOps = {}, NEW o \in Ops, Dispatch(o)
    PROVE  [Gun!Next]_(Gun!vars)
<1> USE DEF closeVars, vhfVars, opVars
<1>1. o \in RealOps
  BY DEF Ops
<1>2. CASE TurnAway(o)
  BY <1>1, <1>2, TurnAwayRefines DEF Gun!Next
<1>3. CASE TryDispatch(o)
  BY <1>3, ShowRefines DEF TryDispatch, Gun!Next
<1>4. CASE \/ Enqueue(o) \/ TakeNoPoll(o) \/ TryDispatchNone(o) \/ Requeue(o)
           \/ \E r \in Pollers : TakePoll(o, r)
  BY <1>4, Unseen DEF Enqueue, TakeNoPoll, TryDispatchNone, Requeue, TakePoll
<1> QED
  BY <1>2, <1>3, <1>4 DEF Dispatch

LEMMA NextRefines ==
    ASSUME OneReporter, FireInv, [Next]_vars
    PROVE  [Gun!Next]_(Gun!vars)
<1> USE DEF closeVars, vhfVars, opVars
<1>1. ReadyOps = {}
  BY DEF OneReporter
<1>2. CASE UNCHANGED vars
  BY <1>2, Unseen DEF vars
<1>3. CASE \E item \in ConfigItems : SetConfig(item)
  BY <1>3, Unseen DEF SetConfig
<1>4. CASE CreateDevice
  BY <1>4, CreateRefines DEF Gun!Next
<1>5. CASE StartDevice
  BY <1>5, StartRefines
<1>6. CASE \E t \in Writers, rep \in Report : IoWrite(t, rep)
  BY <1>6, WriteRefines DEF Gun!Next
<1>7. CASE \E t \in Writers : IoWriteRecord(t)
  BY <1>7, Unseen DEF IoWriteRecord
<1>8. CASE \E r \in Pollers : GetNextEvent(r)
  BY <1>1, <1>8, ShowRefines DEF GetNextEvent, Gun!Next
<1>9. CASE \E r \in Pollers : GetNextEventNone(r) \/ ForwardToQueue(r) \/ CancelPoll(r)
  BY <1>9, Unseen DEF GetNextEventNone, ForwardToQueue, CancelPoll
<1>10. CASE \E o \in InputOps : RaiseInput(o)
  BY <1>10, RaiseRefines DEF Gun!Next, RealOps
<1>11. CASE (\E o \in OtherOps : RaiseOther(o)) \/ (\E o \in RealOps : RaiseFails(o))
  BY <1>11, RaiseOtherRefines DEF Gun!Next, RealOps
<1>12. CASE \E o \in Ops : Dispatch(o)
  BY <1>1, <1>12, DispatchRefines
<1>13. CASE \E o \in RealOps : CompleteReal(o)
  BY <1>13, CompleteRefines DEF Gun!Next
<1>14. CASE ClientClose
  BY <1>14, ClientCloseRefines DEF Gun!Next
<1>15. CASE FileClose
  BY <1>1, <1>15, FileCloseRefines DEF Gun!Next
<1>16. CASE SubmitRelease
  BY <1>16, SubmitReleaseRefines DEF Gun!Next
<1>17. CASE DeleteDevice
  BY <1>17, DeleteRefines DEF Gun!Next
<1> QED
  BY <1>1, <1>2, <1>3, <1>4, <1>5, <1>6, <1>7, <1>8, <1>9, <1>10, <1>11, <1>12, <1>13, <1>14,
     <1>15, <1>16, <1>17 DEF Next, Close, Terminated

(* With its threads, queues, locks and ids a handle is, to games, to VHF    *)
(* and to its owner, the gun of VirtualGun: every step they can see is one  *)
(* that gun may take, also when calls fail and clients die.                 *)
THEOREM HandleIsGun == OneReporter => (Spec => RefinesVirtualGun)
<1> SUFFICES ASSUME OneReporter PROVE Spec => RefinesVirtualGun
  OBVIOUS
<1>1. FireInv /\ [Next]_vars => FireInv'
  BY NextFires
<1>2. FireInv /\ [Next]_vars => [Gun!Next]_(Gun!vars)
  BY NextRefines
<1>3. Safety => Gun!Spec
  BY <1>1, <1>2, InitFires, InitRefines, PTL DEF Safety, Gun!Spec
<1> QED
  BY <1>3 DEF Spec, RefinesVirtualGun

----------------------------------------------------------------------------
(* Request ids.  A counter gives them, of which the MSB is set, so that     *)
(* they repeat after IdSpace operations; with fewer in the life of a file   *)
(* none is given twice.                                                     *)

FewOperations == IsFiniteSet(RealOps) /\ Cardinality(RealOps) <= IdSpace

Given == {RequestIdOf(k) : k \in 1..nextRequestId}

IdInv ==
    /\ nextRequestId <= Cardinality(raised)
    /\ \A o \in RealOps : Live(o) => requestId[o] \in Given
    /\ \A o, p \in RealOps : Live(o) /\ Live(p) /\ o # p => requestId[o] # requestId[p]

(* IdSpace numbers in a row have different ids. *)
LEMMA IdsDiffer ==
    ASSUME NEW n \in Nat, NEW k \in 1..n, n + 1 <= IdSpace
    PROVE  RequestIdOf(k) # RequestIdOf(n + 1)
<1>1. k \in Nat /\ k < IdSpace /\ k > 0 /\ IdSpace \in Nat
  BY GunFileAssumption
<1>2. k % IdSpace = k
  BY <1>1
<1>3. (n + 1) % IdSpace = IF n + 1 = IdSpace THEN 0 ELSE n + 1
  BY <1>1
<1> QED
  BY <1>1, <1>2, <1>3 DEF RequestIdOf

(* A step that raises nothing makes no operation live and gives no id. *)
LEMMA IdsKept ==
    ASSUME AccountInv, AccountInv', IdInv, UNCHANGED <<nextRequestId, raised>>,
           completions' = completions \/ \E S : CompleteOps(S),
           \A o \in RealOps : requestId'[o] = requestId[o]
    PROVE  IdInv'
<1>1. ASSUME NEW o \in RealOps, Live(o)' PROVE Live(o)
  <2>1. completions[o] \in Nat /\ completions'[o] >= completions[o]
    <3>1. completions[o] \in Nat
      BY DEF AccountInv, TypeOK
    <3>2. completions'[o] \in {completions[o], completions[o] + 1}
      BY DEF CompleteOps
    <3> QED BY <3>1, <3>2
  <2>2. o \in raised' /\ completions'[o] = 0
    BY <1>1 DEF AccountInv, OpInv, History
  <2> QED
    BY <2>1, <2>2 DEF AccountInv, OpInv, History
<1> QED
  BY <1>1 DEF IdInv, Given

LEMMA RaiseGivesNewId ==
    ASSUME FewOperations, AccountInv, AccountInv', IdInv, NEW o \in InputOps, RaiseInput(o)
    PROVE  IdInv'
<1>1. o \in RealOps /\ o \in Ops /\ o \notin raised /\ raised' = raised \cup {o}
  BY DEF RaiseInput, RealOps, Ops
<1>2. nextRequestId \in Nat /\ nextRequestId' = nextRequestId + 1
  BY DEF RaiseInput, AccountInv, TypeOK
<1>3. /\ IsFiniteSet(raised) /\ Cardinality(raised') = Cardinality(raised) + 1
      /\ IsFiniteSet(raised') /\ Cardinality(raised') <= Cardinality(RealOps)
      /\ Cardinality(raised) \in Nat /\ Cardinality(RealOps) \in Nat
  <2>1. raised \subseteq RealOps /\ raised' \subseteq RealOps
    BY DEF AccountInv, TypeOK
  <2>2. IsFiniteSet(RealOps)
    BY DEF FewOperations
  <2>3. IsFiniteSet(raised) /\ IsFiniteSet(raised')
    BY <2>1, <2>2, FS_Subset
  <2> QED
    BY <1>1, <2>1, <2>2, <2>3, FS_Subset, FS_AddElement, FS_CardinalityType
<1>4. nextRequestId' <= Cardinality(raised')
  BY <1>2, <1>3 DEF IdInv
<1>5. nextRequestId + 1 <= IdSpace
  BY <1>2, <1>3, <1>4, GunFileAssumption DEF FewOperations
<1>6. /\ requestId'[o] = RequestIdOf(nextRequestId + 1)
      /\ \A p \in RealOps \ {o} : requestId'[p] = requestId[p] /\ (Live(p)' => Live(p))
  <2>1. \A p \in Ops \ {o} : requestId'[p] = requestId[p] /\ dispatch'[p] = dispatch[p]
    BY DEF RaiseInput, AccountInv, TypeOK
  <2>2. UNCHANGED <<waitingRequests, outstandingRequests>>
    BY DEF RaiseInput, queueVars
  <2>3. requestId'[o] = RequestIdOf(nextRequestId + 1)
    BY <1>1, <1>2 DEF RaiseInput, AccountInv, TypeOK
  <2> QED
    BY <2>1, <2>2, <2>3 DEF Live, IsWaiting, Ops
<1>7. Given' = Given \cup {RequestIdOf(nextRequestId + 1)}
  BY <1>2 DEF Given
<1>8. RequestIdOf(nextRequestId + 1) \notin Given
  BY <1>2, <1>5, IdsDiffer DEF Given
<1>9. \A p \in RealOps : Live(p)' => requestId'[p] \in Given'
  BY <1>6, <1>7 DEF IdInv
<1>10. ASSUME NEW p \in RealOps, NEW q \in RealOps, Live(p)', Live(q)', p # q
       PROVE  requestId'[p] # requestId'[q]
  BY <1>6, <1>8, <1>10 DEF IdInv
<1> QED
  BY <1>4, <1>9, <1>10 DEF IdInv

(* An operation that is failed as it is raised has no id of its own. *)
LEMMA RaiseWithoutId ==
    ASSUME FewOperations, AccountInv, AccountInv', IdInv, NEW o \in RealOps,
           RaiseOther(o) \/ RaiseFails(o)
    PROVE  IdInv'
<1>1. /\ o \notin raised /\ raised' = raised \cup {o}
      /\ nextRequestId' \in {nextRequestId, nextRequestId + 1} /\ nextRequestId \in Nat
  BY DEF RaiseOther, RaiseFails, idVars, AccountInv, TypeOK
<1>2. /\ Cardinality(raised') = Cardinality(raised) + 1
      /\ Cardinality(raised) \in Nat
  <2>1. IsFiniteSet(raised)
    BY FS_Subset DEF AccountInv, TypeOK, FewOperations
  <2> QED
    BY <1>1, <2>1, FS_AddElement, FS_CardinalityType
<1>3. nextRequestId' <= Cardinality(raised')
  BY <1>1, <1>2 DEF IdInv
<1>4. \A p \in RealOps : (Live(p)' <=> Live(p)) /\ requestId'[p] = requestId[p]
  BY DEF RaiseOther, RaiseFails, Live, IsWaiting, queueVars, dispatchVars, idVars
<1>5. Given \subseteq Given'
  BY <1>1 DEF Given
<1> QED
  BY <1>3, <1>4, <1>5 DEF IdInv

LEMMA NextIds ==
    ASSUME FewOperations, AccountInv, AccountInv', IdInv, [Next]_vars
    PROVE  IdInv'
<1> USE DEF setupVars, lastVars, writeVars, queueVars, idVars, dispatchVars, pollVars,
            closeVars, vhfVars, opVars
<1>1. CASE UNCHANGED <<idVars, raised, completions>>
  BY <1>1, IdsKept
<1>2. CASE UNCHANGED vars
  BY <1>1, <1>2 DEF vars
<1>3. ASSUME NEW o \in Ops, Dispatch(o) PROVE IdInv'
  <2>1. UNCHANGED <<idVars, raised>> /\ (completions' = completions \/ CompleteOps({o}))
    BY <1>3 DEF Dispatch, Enqueue, TurnAway, TakeNoPoll, TakePoll, TryDispatch,
       TryDispatchNone, Requeue
  <2> QED BY <2>1, IdsKept
<1>4. ASSUME NEW r \in Pollers, \/ GetNextEvent(r) \/ GetNextEventNone(r)
                                \/ ForwardToQueue(r) \/ CancelPoll(r)
      PROVE  IdInv'
  BY <1>1, <1>4 DEF GetNextEvent, GetNextEventNone, ForwardToQueue, CancelPoll
<1>5. ASSUME NEW t \in Writers, (\E rep \in Report : IoWrite(t, rep)) \/ IoWriteRecord(t)
      PROVE  IdInv'
  BY <1>1, <1>5 DEF IoWrite, IoWriteRecord
<1>6. CASE (\E item \in ConfigItems : SetConfig(item)) \/ CreateDevice \/ StartDevice
             \/ ClientClose
  BY <1>1, <1>6 DEF SetConfig, CreateDevice, StartDevice, ClientClose
<1>7. ASSUME NEW o \in RealOps, CompleteReal(o) PROVE IdInv'
  BY <1>7, IdsKept DEF CompleteReal
<1>8. CASE Close
  <2>1. UNCHANGED <<idVars, raised>> /\ (completions' = completions \/ CompleteOps(RunDown))
    BY <1>8 DEF Close, FileClose, SubmitRelease, DeleteDevice
  <2> QED BY <2>1, IdsKept
<1>9. CASE \/ \E o \in ReadyOps, rep \in Report : CompleteReadyReport(o, rep)
           \/ \E o \in ReadyOps : AcknowledgeReady(o)
  BY <1>1, <1>9 DEF CompleteReadyReport, AcknowledgeReady
<1>10. ASSUME NEW o \in ReadyOps, RaiseReady(o) \/ \E p \in ReadyOps : RefuseReady(p, o)
       PROVE  IdInv'
  <2>1. DispatchReady(o) /\ UNCHANGED <<nextRequestId, raised, completions>>
    BY <1>10 DEF RaiseReady, RefuseReady
  <2> QED BY <2>1, DispatchReadyKeeps, IdsKept DEF AccountInv
<1> QED
  BY <1>2, <1>3, <1>4, <1>5, <1>6, <1>7, <1>8, <1>9, <1>10, RaiseGivesNewId, RaiseWithoutId
     DEF Next, Terminated, RealOps

(* With no more operations in the life of a file than there are ids, an id  *)
(* the client sends back means the one operation it was shown with, and the *)
(* 0 of a pseudo-operation is never given to one VHF waits for, so that the *)
(* rundown of the close misses none (WinUHid.c:463-469, 1292).              *)
THEOREM IdsUnique == FewOperations => (Spec => []UniqueLiveIds)
<1> SUFFICES ASSUME FewOperations PROVE Spec => []UniqueLiveIds
  OBVIOUS
<1>1. Init => IdInv
  <2> SUFFICES ASSUME Init PROVE IdInv
    OBVIOUS
  <2>1. \A o \in RealOps : ~Live(o)
    BY DEF Init, Live, IsWaiting, Ops
  <2>2. nextRequestId <= Cardinality(raised)
    BY FS_EmptySet DEF Init
  <2> QED BY <2>1, <2>2 DEF IdInv
<1>2. AccountInv /\ AccountInv' /\ IdInv /\ [Next]_vars => IdInv'
  BY NextIds
<1>3. AccountInv /\ IdInv => UniqueLiveIds
  BY DEF AccountInv, OpInv, History, Live, IdInv, UniqueLiveIds
<1> QED
  BY <1>1, <1>2, <1>3, AlwaysAccounted, PTL DEF Spec, Safety
=============================================================================
