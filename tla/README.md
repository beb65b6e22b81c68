# VRLF virtual gun: specifications

TLA+ models, model-checking runs and machine-checked proofs for the VRLF
virtual gun: a Windows UMDF driver that turns a client's reports into a
5-button absolute mouse, the library that talks to it, and the installer that
puts it on a PC.

## The system

| Part | Where | State it keeps | What it does |
|---|---|---|---|
| Driver, one handle | `driver/WinUHid.c`, `driver/Driver.h` | `FILE_CONTEXT`: configuration, VHF handle, last report, two collections of operations, request counter | Setup IOCTLs, create and start of the HID device, input reports, dispatch of VHF's operations to the client, completions, rundown and button release at the close |
| Descriptor parser | `driver/WinUHid.c:12-255` | none | Report sizes from a HID report descriptor |
| Device add, driver entry | `driver/WinUHid.c:1392-1530` | the queues | A parallel default queue and a manual queue for polls |
| Client library | `third_party/winuhid/WinUHid.cpp` | device handle, two threads, a timer, an auto-reset event, a throttled report | Create, start, submit, poll, complete, stop, destroy |
| Gun report, lanes | `shared/gun_device.h`, `shared/lane_devnode.h` | none | Packing, clamping, names |
| Install flow | `setup/install_flow.cpp`, `install_mode.h` | the record in the registry, and the system it changes | Install, update in place, uninstall, and their undo |
| Certificates | `setup/cert_sign.cpp` | root and publisher stores, a key container | A throwaway signing key, trust, removal |
| Driver package | `setup/driver_install.cpp` | driver store, device nodes | Stage, update, install, remove |
| Payload | `setup/payload.cpp` | the install directory | Copy, rename aside, remove at reboot |
| Lock | `setup/setup_lock.h`, `setup/main.cpp` | a named mutex | One installer at a time |
| Lane pinning | `setup/lane_pin.cpp`, `lane_pin_rules.h` | `ParentIdPrefix` of each lane's node | Fixed Raw Input paths |
| Tools | `tools/` | none | A command line gun, a signature probe |
| Tests, build | `tests/`, `build.py` | none | |

How they interact: a client opens the driver's interface and gets a handle with
a `FILE_CONTEXT` of its own; it describes its device with setup IOCTLs, creates
and starts it, and from then on writes input reports while VHF, the virtual HID
framework, calls the driver back with operations of the HID class driver. The
driver shows an operation to the client as the result of a pending
`GET_NEXT_EVENT`, and the client completes it by its id. Closing the handle, by
any cause, takes the device down. The installer talks to none of these at run
time: it changes the machine (stores, driver store, device nodes, registry,
directory) so that the driver can load, and creates each lane once to pin its
path.

What is hard: the default queue is parallel and VHF has threads of its own, so
every handler of a handle interleaves with every other; a client can die at any
point of all of them; polls are cancelled by timeouts while the driver owns
them; the library's two threads, its timer and the client's own threads share
one auto-reset event and a pending pointer; the installer's steps are
irreversible one by one, can fail one by one and can be cut off by a crash or a
power failure; and pinning a lane reads and writes keys that Windows writes too.

## Modules

| Module | What it is |
|---|---|
| `GunFile` | one handle of the driver, from its first IOCTL to the end of `EvtDeviceFileClose` |
| `VirtualGun` | what a handle promises, with no collections, locks or threads |
| `GunFileProps` | the properties of `GunFile`, and its refinement mapping to `VirtualGun` |
| `GunFileProofs` | what is proved of `GunFile` for every instance, and that it implements `VirtualGun`, step by step |
| `ReportDescriptor` | the descriptor parser, a function over bytes |
| `ReportDescriptorProps` | a definition without a stack of what it computes |
| `ReportParser` | the parser's loop, a turn a step, and its bounds |
| `ReportParserProofs` | those bounds, for every descriptor |
| `ClientDevice`, `ClientDeviceProps` | one device of the client library, its threads and timer, and what it promises |
| `ClientDeviceProofs` | every safety property of it, for any threads and events |
| `InstallFlow`, `InstallFlowProps` | the setup program, call by call, and what it owes the machine it changes |
| `InstallFlowProofs` | its types, keys, node and record of certificates, for every number of releases, certificates and failures |
| `InstallUndoProofs` | what every run leaves of packages and signers where removals succeed: a driver that is trusted |
| `InstallEndProofs` | whatever is refused: a sufficient record, a complete uninstall; where removals succeed: a complete install, an update put back |
| `InstallDir`, `InstallDirProps` | the install folder file by file, across uninstalls and restarts |
| `InstallDirProofs` | what is proved of it for every number of files |
| `LanePin`, `LanePinProps` | the pinning of the lanes that ends an install, and what it owes the games |
| `LanePinProofs` | what is proved of `LanePin` for every number of lanes |
| `MCGunFile`, `MCReportParser`, `MCClientDevice`, `MCInstallFlow`, `MCFolder`, `MCLanePin` and the `.cfg` files | the instances TLC checks |

How they meet: `ClientDevice` sees the driver as what `GunFile` is shown to be
(events are kept until they are shown, shown once, and waited for until they are
completed; a poll is answered, cancelled or fails). `InstallFlow` ends where
`LanePin` begins: `FinishWithPins` is called with the exit code of a completed
install, and `InstallFlow.outcome` is that code. `InstallDir` refines the folder,
one value in `InstallFlow`, to its files; what decides which run comes next stays
in `InstallFlow`. `GunFile` needs of
`ReportDescriptor` only that the gun's descriptor has one report of five bytes
(`GunReportIsFiveBytes`): `WinUHid.c:787-791` refuses any other descriptor before it
is parsed, so the parser's stack, long items and overflows, which `ReportParser`
checks too, are out of a client's reach in this build. The parts share no state at run time and are not
composed into one state machine.

### GunFile

Each `FILE_CONTEXT` field is a variable of the same name (`vhfHandle`,
`lastReport`, `lastReportValid`, `nextRequestId`, `waitingRequests`,
`outstandingRequests`). A handler that runs under `RequestLock`, or touches
nothing another thread sees, is one action. Handlers that release the lock and
go on are split there, and where a thread stands is a variable:

| Code | Actions | Where it stands |
|---|---|---|
| `WinUHidEvtIoWrite` | `IoWrite` (submit), `IoWriteRecord` (under the lock) | `recording`, `writeBuffer` |
| `DispatchAsyncOperation` | `Raise...`, `Enqueue` or `TurnAway`, `TakePoll` or `TakeNoPoll`, `TryDispatch` or `TryDispatchNone`, `Requeue` | `dispatch`, `holding`, `inline` |
| `GET_NEXT_EVENT` | `GetNextEvent`, or `GetNextEventNone` and `ForwardToQueue` | `poller`, `cancelled` |
| `COMPLETE_*_EVENT` | `CompleteReal`, `CompleteReadyReport`, `AcknowledgeReady`, `RefuseReady` | one step |
| `WinUHidEvtDeviceFileClose` | `FileClose` (under the lock), `SubmitRelease`, `DeleteDevice` | `closePc`, `release` |

Abstractions, and why they lose nothing a property needs:

* The setup IOCTLs are atomic. The library issues them one after the other
  before it returns the device, so nothing runs beside them.
* A completion takes its operation out of `OutstandingRequests` under the lock
  and then touches only that operation; taking and completing are one step.
* A report is its button byte and a position; every report of a client is
  `VGUN_REPORT_BYTES` long, so the length test of `WinUHidEvtIoWrite` holds.
* A request id is a number below or above `IdSpace`, which stands for the MSB:
  `RequestIdOf` sets it and wraps below it. With `IdSpace` no larger than the
  number of operations the counter wraps in the run.
* Feature and output operations have no report in the gun's descriptor (the only
  one the driver accepts), so `OtherOps` are always failed before the queue.
* A real operation is raised once; the objects of ready-for-read
  pseudo-operations are reused, and VHF raises none while one is unanswered.
* `Faults` lets every allocation, collection, framework call and VHF submit fail.
* A client that answers a pseudo-operation with `COMPLETE_WRITE_EVENT`, which
  the library's types do not let it do, is left out.

What is outside the repository is modelled from how the driver uses it, and is
marked external: VHF passes a submitted report on (`gameReport`), waits in
`VhfDelete(..., TRUE)` for callbacks in progress and completes an operation once
told to; the framework cancels the requests of a dying file, hands polls out of
the manual queue in any order, and calls `EvtFileClose` after the file's last
request has been completed. That last point is why a handler's use of
`VhfHandle` cannot race the close.

### ReportDescriptor

`ParseItem` is one turn of the parser's loop; the parse is a recursive function
over its number of items. The frames of globals are a sequence, sizes a function
from report id and kind. Bytes are bytes; `ULONG_MAX` is a constant, so that a
check can let sums overflow (1023). `Agrees` compares the parser with a
definition that has no stack (a global is in force until it is set again or its
level is left), on every list of four items (pushes, pops, main items,
collections, long items, sizes, counts, ids) after a size and a count, and on 31
and 32 pushes.

`ReportParser` makes the same `ParseItem` a step (`Turn`), with `Finish`, the work
after the loop, in `Return`. Its states between two turns are the parser's locals,
so what must hold of each index and sum can be said of any string of bytes, not
only of lists of items: where the next byte is, how deep the stack is, how large
a sum. `GunReportIsFiveBytes` is what comes of the compiled-in descriptor, the
only one the driver accepts.

### ClientDevice

The variables are the fields of `WINUHID_DEVICE` and where each thread stands
(`pollPc` for `WinUHidPollEvent`, in the event thread or the client's; `readPc`
for `ReadThreadProc`; `submitPc` for a throttled `WinUHidSubmitInputReport`;
`mainPc` for start, stop and destroy). What the code does between two looks at
something another thread changes is one action: publishing the pending event and
setting `ReadReportReadyEvent` are two (`EventTakes`, `EventSignals`), and so
are a successful wait and the exchange of the pointer.

| Code | Actions |
|---|---|
| `WinUHidPollEvent` | `PollBegin`, `PollIssue`, `PollSucceeds`, `PollTooSmall`, `PollCancelled`, `PollGrow`, `PollFails`, `PollTimeout` |
| `EventThreadProc` | the same, with `EventTakes`, `EventSignals` |
| `ReadThreadProc` | `ReadTop`, `ReadAwait`, `ReadWoken`, `ReadDeliver`, `ReadArm`, `ReadSleep` |
| `WinUHidSubmitInputReport` | `SubmitBegin`, `SubmitOwns`, `SubmitCompletes`, `SubmitRearms` |
| `WinUHidComplete...Event` | `CompleteEvent` |
| `WinUHidStartDevice` | `StartDevice`, or `StartFails` and `StartUnwinds` |
| `WinUHidStopDevice` | `StopDevice` (under the lock), `StopJoinsEvent`, `StopSignals`, `StopKicks`, `StopJoinsRead` |
| `WinUHidCreateDevice`, `WinUHidDestroyDevice` | the same |

External: the driver's answers to polls and completions, the waitable timer and
the auto-reset event. Left out: the report an unthrottled submit writes (it has
no state in the library), `MultiSzWcsLen` and `WinUHidGetDriverInterfaceVersion`,
two threads that start or stop one device at once, and a `CancelIoEx` that hits
the completion another thread is sending. `MultiSzWcsLen` (`WinUHid.cpp:56-66`)
moves its pointer by the length of all strings so far and is right for one
string only; the gun and the tools pass none.

A completion may fail: `DeviceIoControlInSync` may find no event object
(`WinUHid.cpp:83-86`) and the driver may refuse. The library looks at the result
nowhere (606, 637, 645) and frees the event (608, 648). `Complete` has both
outcomes, wherever it is called (a refused start, a submit, a destroy, the
client); after the second one the event is `stranded`: the driver still has it
outstanding, nobody in the library has it, and the close of the handle ends it.
No more ready-for-read events come from the driver then, as it has only one out.

### InstallFlow

`machine` is what outlives a run: the registry record (`reg`, one field per
value), the stores that trust each certificate, the keys that still exist, the
driver store (each package with the certificate that signed its catalog), the
root node and the package on it, the packages a running driver has loaded, and
the install folder. `run` holds the locals of `RunInstall` and `RunUpdate`, and
is gone when the run ends or dies.

The control of `install_flow.cpp` is sequential: each path makes a fixed list of
calls, and a failure changes to another list. The lists are the `...Script`
definitions, in the order of the code; `script` and `at` are the position, and
`Finish` and `Fail` say which list follows. There is one action per function
called:

| Code | Actions |
|---|---|
| `RunInstall`, `ChooseInstallMode` | `RunInstall`, `ChooseInstallMode` |
| `RunUninstall` | `RunUninstall` and `UninstallScript` |
| `RunUpdate` | `UpdateScript`, then `SameScript` or `PromoteScript` |
| `RetirePrevious` | `RetireScript` and the end of `PromoteScript` |
| `Fail`, `FailUpdate` | `Fail`, `FailUpdateScript`, `UnwindScript` |
| `WriteValue`, `DeleteValue`, `DeleteState` | the same |
| `CreateSigningCert`, `SignFile`, `DestroySigningKey` | the same (`SignFiles` for the two files) |
| `TrustCertificate`, `RemoveTrustedCertificate` | the same, a step per store |
| `StagePackage`, `UnstagePackage`, `RemoveDevices`, `UpdateDevice` | the same; `InstallDriver` is in `FreshScript`, with `RegisterDevice` |
| `CopyPayload`, `RemoveInstallDir` | the same |
| `SetupLock` | a run starts only when none is under way; after `Crash` the next may |

Abstractions, and what they leave out:

* A package is named by its release. Staging an INF the store already holds
  hands back that package with the catalog it was staged with, as
  `install_flow.cpp:96-99` says of the driver store.
* A package can be deleted unless a running driver has it loaded
  (`driver_install.h:18-19`). A swap may need a restart, and then the old one
  stays loaded (`restart`); removing a node may leave its driver loaded (`unload`).
* What is to be taken away may stay: the node (`remove`), a package (`unstage`, or
  loaded), a certificate in either store (`untrust`), a value or the whole record
  (`forget`). The code logs it at most and goes on, and so does the model, which
  notes it in `refused` until a later removal succeeds. Properties about what is
  left except what is in `refused`, and nothing else.
* Every thumbprint is fresh (`Unused`); a certificate no longer anywhere may
  stand for a new one.
* A signing key Windows does not delete stays (`stuck`) and the run goes on, as
  the code does. A run without a lock (the mutex cannot be created), several
  nodes, a node that is not present, and an install folder other than the
  default one are left out. With one node at most, the removal with which
  `InstallDriver` begins a fresh install is taken to succeed: refused again, a
  node an uninstall had to leave would get a second one beside it. A crash
  within a copy is left out too: every path that uses the folder copies all of
  it again.
* An install may be started from the install folder itself (`payload = "dir"`);
  only `CopyPayload` refuses it.
* The folder is one value here. What an uninstall cannot delete at once, and
  leaves to a restart, is in `InstallDir`.
* Pinning the lanes follows a successful install and can only worsen the exit
  code (`PinExitCode`); `outcome` is the code it is given.

### InstallDir

`present` is what is in the folder, each payload file under its name or with
`.old` added, and `doomed` the paths Windows will delete at the next restart.
`image` is the file the running setup program was started from: its own copy in
the folder, if the user started that one. `run` is what the run is doing and
`todo` what it has collected (`directory_iterator`, before it deletes anything) or
has still to copy. `aside` is a file between its rename and the scheduling of its
new name. `stands` says whether the record tells of a complete install, of an
unfinished one, or is gone.

| Code | Actions |
|---|---|
| `RunUninstall`, `RunInstall`, `ChooseInstallMode` | `StartRun`: uninstall, a fresh install, an update, or a reinstall that removes first |
| `RemoveInstallDir` | `ClearOld` (the loop over `.old` files), then `RemoveFile` per file (delete, rename or schedule), `ScheduleAside` |
| `RunUninstall`, after the folder | `EndRemoval` |
| `CopyPayload` | `CopyFile`, in any order |
| `Fail`, `FailUpdate` | `InstallFails`; a fresh install is rolled back, an update keeps what it copied |
| the end of `RunInstall` | `InstallEnds` |

External: `Restart` deletes the scheduled paths, ends every program and any run;
`Hold` lets another program open or run a file of `Shared`, or let go of it. Such
a program may be a second setup that waits for the lock. A held file cannot be
deleted; it can be renamed if its holder shares deletion, which is left open; the
running program can always be renamed, unless its `.old` name is in use.
`DiesAside` says whether a run may die between renaming a file of `Shared` and
scheduling it. The directories themselves and failures of the scheduling call,
whose result the code does not look at, are left out, as is all of the install
that does not touch the folder.

### LanePin

`pc` is where `PinLanes` stands, with the locals of `PinLane` and `CreateOnce`:
`lane`, `round`, `seen` (the key it read) and `ok` (what `CreateOnce` will
return). Reading the root, reading the lane's key, reading each other key
(`unread` and `collision` are what `ReadVhfKeys` has still to come to and what it
has found), deciding, removing and writing are steps of their own, because Windows
may write the same keys between them. `Rivals` are the keys whose prefix
`IsCollision` compares. The enumeration goes by index and stops at the first call
that fails, so it may miss keys (`VhfKeysMissed`); a read of the lane's own key is
taken to succeed. `overlooked` is history: the keys that were missed, or changed
after the look began.

| Code | Actions |
|---|---|
| `FinishWithPins`, `PinLanes` | `FinishWithPins`, `DriverRuns` or `DriverUnavailable`, `LiveRoot` or `NoLiveRoot`, `LaneDone`, `Exit` |
| `PinLane` | `ReadRoot`, `ReadLaneKey`, `ReadVhfKey`, `VhfKeysMissed`, `Decide`, `WritePrefix`, `RemoveDeviceInstance`, `CallFails`, `NextRound` |
| `CreateOnce` | `StartDevice`, `StartFails`, `MouseStarts`, `MouseTimeout`, `DestroyDevice`, `DeviceGone`, `GoneTimeout` |
| `lane_pin_rules.h` | `DecidePin`, `Rivals`, `PinExitCode` |

External, from how the code uses it: plug and play brings a started lane's node
and mouse up, under the key it finds or a new one with a prefix of its own
(`PnpArrives`), or flags the key as not installed (`PnpFails`), and takes the
node down when nobody holds the lane (`PnpDeparts`). `RegSetKeyValueW` makes a
key that is not there. A removed node is gone for whoever held it. A program may
hold a lane (`AppTakes`), a key may be removed at any time (`KeyLost`), another
device under VHF may come, go, or take a prefix, a lane's too, at any time
(`ForeignTakes`), a reinstall makes a new root and orphans the keys of the old one
(`NewRoot`), and the setup program may die at every step (`Crash`). `disturbances` bounds what
others do and what fails in one behaviour; `touched`, `losses` and `unsettled`
are history. Paths are abstracted to the prefix in them.

### Runs

| Run | Instance | Checks |
|---|---|---|
| `reports` | 1 writer, 1 poll, 2 reads, 2 button bytes besides none, 2 positions, `IdSpace` 2, faults | `NoFireLeftHeld`, `CloseOnlyReleases`, `CloseEnds`, `RefinesVirtualGun`, `ParserAgrees` |
| `events` | 2 polls, 2 reads, 1 other, 1 ready-for-read, `IdSpace` 3, faults, symmetry over polls and operations | `TypeOK`, `OperationAccountedFor`, `ShownOnce`, `UniqueLiveIds` |
| `polling` | 2 polls, 2 reads, 1 ready-for-read, the client polls with timeouts | `InputIsServed` |
| `parser` | descriptors: every string of up to 4 of 9 bytes; an id, a size of 255 and a count, with 4 more bytes; 31 and 32 pushes, popped or not; long sizes; the gun's descriptor | `TypeOK`, `UnnumberedMeansZero`, `GunReportIsFiveBytes`, `TurnsAdvance` |
| `lost_wakeup` | 1 poll, 1 read | `NoMissedWakeup`, violated |
| `two_writers` | 2 writers | `NoFireLeftHeld`, violated |
| `client` | 2 polling threads or a callback, 2 submitting threads, 1 ready-for-read event and 1 other that needs a larger buffer, throttled or not, faults | `TypeOK`, `SignalMeansPending`, `EventInOneHand`, `HintOnlyGrows`, `HandOversArePaced`, `StopLeavesNoWaiter`, `StartAndStopReturn`, `StopEndsPolls`, `PendingIsHandedOver` |
| `submit_at_stop` | 1 submitting thread, 1 ready-for-read event | `StartAndStopReturn`, violated |
| `install` | 2 releases, 5 certificates, 3 faults of every kind, symmetry over releases and certificates | `TypeOK`, `Undoable`, `DriverTrusted`, `TrustedKeyGone`, `SuccessIsComplete`, `KeptIsAsBefore`, `UninstallLeavesNothing`, `NodeKept` |
| `unrecorded` | as `install`, 1 crash, also while a staged package is not recorded | `UninstallLeavesNothing`, violated |
| `folder` | the setup program, and another file other programs may use; no run dies between a rename of that one and its scheduling | `TypeOK`, `InstallOutlivesRestart`, `RestartEndsRemoval` |
| `lanes` | 2 lanes, 1 device of another kind, 3 disturbances | `TypeOK`, `SuccessIsPinned`, `PinnedLaneIsFree`, `UnsettledMeansLost`, `NoCollisionMade`, `RerunPins` |

Two of everything that contends is enough for each race the driver has: two
polls and two operations are the least for one dispatch to take the other's
operation and requeue (`TryDispatchNone`, `Requeue`), one callback and one close
for the late callback, and two operations with the id space exhausted for a
repeated id. The proofs cover every other number.

In the library the parties are the event thread, the read thread, a submit and a
stop; two submits are the least for two of them to want one signal, two polls
for two to grow the hint. A second ready-for-read event is never raised while
one is unanswered (`GunFile`), but the one event comes back as often as it is
completed or refused.

For the installer, runs follow each other without a bound, and a fault is a
failed call, a refused removal, a crash or a driver that waits for a restart. Two releases give every
relation of a new package to the one in use (the same, another, one staged
before): an update begins only when no older package is recorded, so no more
than two ever are. An interrupted update that is itself interrupted while it is
repaired or uninstalled needs two or three faults. Five certificates are what
three runs that lose their key, one installed and one new can hold at a time.

For the folder, the program that may run from it and one file that never runs are
the two kinds there are; files are removed and copied one by one and share
nothing. Runs, restarts and deaths have no bound.

The parser's strings hold each kind of item it looks at, an item that ends after
the string and a long item. With `ULONG_MAX` 1023 a size of 255 times a count of 5
does not fit, and two reports of 255 times 3 do not add up; 31 pushes fill the
stack and 32 are too many.

For the lanes, two are the least for one to hold the other's prefix and for one
to go wrong after another was counted; three disturbances let Windows take a key
away as often as it takes to use up the four rounds, and let a crash, a new root
and a foreign prefix meet, or a device come after its key was read and another
call fail. The proofs need neither bound.

The four violations are disagreements between the code and what it says:

* `lost_wakeup`: `GET_NEXT_EVENT` looks at `WaitingRequests` under the lock and
  queues the poll after releasing it. A callback in between finds no poll, the
  poll finds no event, and both wait. A client that polls with a finite timeout
  recovers (`polling` checks that); one that polls with `INFINITE` and no second
  operation does not.
* `two_writers`: the lock around `LastReport` does not cover the submit, so two
  concurrent writes can be recorded in the other order. `NoFireLeftHeld` is
  therefore checked and proved for a client that reports from one thread.
* `unrecorded`: the driver package is staged, and in a fresh install also put on
  the node, before its name is written to the registry, although the comments
  say that every value is written before the step it describes. A run that stops
  there leaves a package that no uninstall finds. `install` checks everything
  for runs that do not stop at that point.
* `submit_at_stop`: a submit waits for `ReadReportReadyEvent` too, with a timeout
  of zero, and may take the signal `WinUHidStopDevice` sets for the read thread.
  The thread then waits for ever and the stop with it. `client` checks
  everything for a client that submits nothing once it stops the device
  (`QuietStop`).

The other conditions under which something is checked and proved can be seen to
be needed by changing a constant of a passing run:

* No answered ready-for-read events (`reports`). A report given as the answer to
  one is not recorded in `LastReport`, so the close does not know of its buttons:
  with `ReadyOps = {n1}` TLC finds `NoFireLeftHeld` violated.
* No death between renaming a file others use and scheduling it (`folder`). The
  `.old` file it leaves is taken by the next uninstall, when it finds it in use,
  for one that is scheduled ("still pending; leaving it", `payload.cpp:73`). With
  `DiesAside = TRUE` TLC finds `RestartEndsRemoval` violated.

`InstallOutlivesRestart` speaks only of files no other program uses. One that a
program keeps without sharing deletion, or whose `.old` name is in use, can be
neither deleted nor renamed; its own path is scheduled (`payload.cpp:88`), and if
an install copies over it before the restart, the restart deletes the copy.

The installer's properties except what Windows refused to remove, because the code
has no answer to it; what follows from a refusal is worth knowing:

* An uninstall deletes the record also when it could not delete the package, for
  one because its driver was still loaded. Nothing names it any more
  (`PackagesRecorded` holds only through `refused`). A later install of the same
  release is handed that package, signed by a certificate no store trusts, and
  records, trusts and binds it with a new one: `DriverTrusted` and
  `SuccessIsComplete` except it.
* A node that stays keeps its driver, and with it the package; the certificate goes
  all the same, so the driver in use has no trusted signer any more.
* A value of the record that could not be deleted after an update is acted on by a
  later run: `RetirePrevious` takes the certificate and the package it names from
  the driver that now uses them.

`NoCollisionMade` says what the look for a collision is worth. The code does give
a prefix twice: another device that takes it between the reading of its key and the
write (`lane_pin.cpp:128`, `133`), or whose key the enumeration did not come to, is
not seen. The property says that these are the only ways. `PinnedLaneIsFree` speaks of
the device this run created; a node left by a run that died, or a program that
holds the lane, may be there beside a pinned key.

`KeptIsAsBefore` does not speak of the install folder: an update copies the new
payload over the old one before anything can fail, and `FailUpdate` does not
bring it back.

### Fairness

`Fairness` is weak fairness of the driver's and the framework's own steps: a
handler, callback or close that has begun goes on, because a thread runs it.
Nothing is required of the client or VHF: `CloseEnds` and the refinement need
none. `PollingSpec` adds, for `InputIsServed` only, a client that polls again
after every poll and gives each a timeout, as `WinUHidPollEvent` does with a
finite `TimeoutMillis`.

In `ClientDevice` the library's threads and calls run on, the timer expires once
it is set, and the driver answers a poll it has an event for (`PollStep`), which
`InputIsServed` justifies; no call has to fail, and the client owes none. In
`LanePin` the setup program runs on, its waits end (they have timeouts of 10 to
15 s), plug and play brings nodes up and takes them down, and, for `RerunPins`
only, the user runs the install again, as the log tells him to
(`install_flow.cpp:19`). `InstallFlow`,
`InstallDir` and `ReportParser` have no fairness: what they promise are states and
steps, not progress.

### Proofs

`GunFileProofs` has no assumption beyond `GunFileAssumption` (the kinds of
operations are disjoint, 0 is a button byte, the id space is not empty).

* `TypeCorrect`: `TypeOK` is inductive by itself. The one step that is not
  immediate is `TryCompleteTyped`, where the head of a nonempty queue moves.
* `Accounted` and `Shown`. Neither property is inductive: that a completed
  operation is nowhere needs the queue to hold no operation twice, and that none
  is left at the end needs to know that the collections are empty and callbacks
  refuse to queue from the moment the handle is cleared. The invariant
  `AccountInv` adds this: `OnePlace` (callback before the lock,
  `WaitingRequests` or `OutstandingRequests`), `NoRepeats`, `History` (what each
  place says about completions, showings and the id), and `CloseInv` (what holds
  at each stage of the close). There is a lemma per group of actions, and
  `AppendMembers`, `TailMembers` on the queue.
* `NeverHoldsFire` and `OnlyReleases`, for `OneReporter` clients (one writer, no
  answered ready-for-read events). `FireInv` adds to the account that the last
  report and what games see differ only while a write is between its two
  halves, and then by the report in its buffer.

`LanePinProofs` assumes `PinAssumption` only (there is a lane, the names for no
prefix and a generated one are not lanes, and no key is the name for none). Its
invariant `PinInv` has one part per thing the code relies on without looking
again:

* `CountInv`: `PinLanes` has counted every lane below the current one.
* `NodeInv`: setup's own device is the current lane's, within `CreateOnce` only.
* `MouseInv`: a mouse that has started has an installed key, which is why
  `CreateOnce` can wait for the mouse to learn that there is a key to pin.
* `SeenInv`: what the key read earlier still says, unless Windows meddled.
* `PinnedInv`: pinned lanes stay pinned.
* `FreeInv`: while `PinLane` looks, another key that holds the prefix has been read
  and remembered, is still to be read, or was overlooked; when it writes, only the
  last is left, and that is `CollisionFree`. Both parts rest on `KeepKey` and
  `NoNewPrefix`, lemmas on what any step leaves of a key.
* `RoundInv`: a lane has had at most one round more than Windows took its key
  away, place by place in the loop.

From it follow `PinTypeCorrect`, `SuccessPinned`, `PinnedFree`, `UnsettledLost`
and `CollisionFree`. The bound on disturbances plays no part.

`InstallFlowProofs` assumes `FlowAssumption` only (the empty value is none of the
names, every failure is one of `Failures`); in particular a run may die
unrecorded and a driver stay loaded. The position in the lists of calls carries
the argument: `CallSites` and `RecordCalls` say where each call is made,
`AdvanceFacts`, `FailFacts` and `Moves` where a run goes next.

* `FlowTypeCorrect`: the types are not inductive by themselves, because the
  locals of a run start empty. `RunOK` adds from which call on the certificate
  and the package have a name; there is a lemma per action.
* `KeyGone`: `KeySafe` adds that from the deletion of the key to the trust of the
  certificate (`Claimed`) the run's key is gone or cannot be deleted.
* `RegularKeepsNode`: the paths that remove the node (`Rebuilding`) are entered
  only from one another or by `ChooseInstallMode`, on a machine that is not
  regular (`ModeOK`).
* `TrustIsRecorded`, the half of `Undoable` about certificates, with no condition: `RecordFits` says
  for each place of each list how the three recorded certificates stand to the
  run's and to what is trusted, for instance that a promotion names the old
  certificate as the previous one before it overwrites it, and that the record
  is deleted only with nothing trusted but what Windows kept when asked. The
  invariant is `Recording`; `RefusedTyped` says what can be refused at all.

`InstallUndoProofs` and `InstallEndProofs` prove the rest of what `install`
checks. Both start from tables of what each call at each place changes of the
record, the stores, the node and the folder, and where it leads (`Leads`,
`FailLeads`, `Effects`). Calls may fail and runs may die, as often as they like.
Two theorems hold whatever is refused to be removed, if only no run dies between
staging a package and recording it (`~DiesUnrecorded`; the run `unrecorded` shows
that the code needs it):

* `RecordSuffices` (`Undoable`). `Shelf` is what the driver store holds and no run
  was refused to remove. `ShelfInv` says for each place of each list how the three
  recorded packages stand to the shelf and to the one the run was handed: a
  retirement forgets the previous package only once it is off the shelf, an
  update has its package pending before it binds it, an uninstall comes to the
  deletion of the record with an empty shelf.
* `UninstallIsComplete` (`UninstallLeavesNothing`). It combines three invariants
  at the end of the list: `Recording` and `ShelfInv`, by which the record named
  every certificate and package there was to ask for, and `UseInv`, by which a
  driver runs only from the store and the node is gone, or was refused, once it
  was asked for. `DirInv`: the folder is recorded before anything else, and
  nothing is recorded or on disk without it. That is also why `InstallMode` does
  not ask, as `install_flow.cpp:144` does, whether the recorded folder is the
  default one: in an update it always is.

Three have the condition `Gentle`: what Windows is asked to take away goes, a
driver with its node, and no run dies unrecorded. With refusals these properties
are model-checked only (`install`), with the exceptions they name. Their
invariants rest on `PackInv`: `PackagesRecorded` and, for each list, how the three
recorded packages stand to the one the run was handed, to the node and to what is
loaded; between runs, with nothing pending, the node runs the recorded package and
no other but the previous one is loaded.

* `DriverStaysTrusted` (`DriverTrusted`). `SignInv` adds which certificate signed
  what: with nothing pending the recorded one signed the recorded package and is
  not the previous one, so retiring the previous one is safe; an update handed the
  package in use drops its own certificate, which is not the recorded one; a
  promotion makes the run's certificate current before it retires the old one.
* `SuccessMeansComplete` (`SuccessIsComplete`). `Installs` says from which call on
  the new release is on disk, in the store and loaded, `Clears` from which call on
  the pending and previous values are gone, or why a previous package stays.
* `FailedUpdateKeepsAll` (`KeptIsAsBefore`). `KeptInv` is what an update may have
  changed of the machine it found until the device takes the new package: the
  pending values, the trust of its own certificate, which had none before, and a
  package that was not in the store, unless it is the one in use.

`ClientDeviceProofs` assumes `ClientDeviceAssumption` only (the threads and events
are distinct). None of the safety properties is inductive. `ClientInv` adds what
the device's state implies for its threads (`Life`: a stop joins the event thread
first, a free finds no thread and no event), which thread holds which pointer
(`HandsFull`), that the driver has one ready-for-read event out at a time
(`ReadyOut`), and that among the event, the read thread that was woken, the event
thread about to signal and the submits that won the wait there is exactly one
signal while an event is pending (`Signalling`). `Pacing` follows a period from
the hand-over that starts it. From it follow `ClientTypeCorrect`,
`EventsInOneHand`, `SignalGoesWithPointer`, `HintGrows` and `HandOversPaced`.
`StopLeavesNone` says why a stop can join its threads: a poll it did not cancel
will find the device stopped before it asks the driver again, and the signal it
set is there for a read thread that has yet to wait. It needs a client that
submits nothing once it stops the device (`QuietStop`); `submit_at_stop` shows
what becomes of the signal otherwise. Beyond the types it is inductive by itself
(`NoWaiterKept`).

The refinement `HandleIsGun`, also in `GunFileProofs`, needs no invariant of its
own: under the account and, for `OneReporter` clients, the report invariant,
each step of `GunFile` is a step of `VirtualGun` or changes nothing that can be
seen. The abstract gun has no fairness, so this is the whole refinement.
`IdsUnique` assumes `FewOperations` (no more real operations in the life of a file
than ids, `2^31` in the code): the counter never runs ahead of the operations
raised, and every live id is one it gave. Without that bound an operation kept
while `2^31` others are raised would share its id with a later one.

`InstallDirProofs` assumes `InstallDirAssumption` only. `FolderTyped` is inductive by
itself; the two properties are not, and `FolderInv` adds to them what is owed at
each point of a run:

* `RunInv`: a fresh install still has to copy what is not there; a rename stands
  open only within a removal, after the old `.old` files were looked at.
* `AloneInv`: of the files no other program uses only `.old` paths are ever
  scheduled, so nothing copied later is; this is `InstallOutlives`. It rests on
  the running program not standing in its own way: while it runs from its `.old`
  name that name is scheduled, and its old path is free.
* `RemovalInv`: within a removal every file is scheduled, still collected or just
  renamed. At its end nothing is collected, which is `RestartEnds`.
* `AsideInv`: every `.old` file another program may keep is scheduled or just
  renamed, so leaving it alone is right.

The last two, and `RestartEnds`, have the condition `~DiesAside`; the others have
none.

`ReportParserProofs` assumes that a `ULONG` holds a byte and that descriptors are
strings of bytes, of any length. The parse is an induction over the turns of the
loop, as steps of a specification, not over the bytes. Its invariant `Good` is the
shape of the parser's state with `NoIds`: while reports are not numbered no level
of the stack has an id, which is what makes `UnnumberedIsZero` inductive, as a pop
brings an older id back. There is a lemma per operator that it keeps `Good`, takes
no bits from a report (`Grows`) and leaves the position alone (`Handled`); reading
an item's data alone moves it. `ParserAdvances` follows from the same lemmas.
`GunReportSize` follows the gun's descriptor item by item: `GunTrace` lists the 27
places between two items with the count, the size and the bits found there, and
needs no more of a `ULONG` than that it holds a byte.

Model-checked only: liveness (`CloseEnds`, `InputIsServed`, `StartAndStopReturn`,
`StopEndsPolls`, `PendingIsHandedOver`, `RerunPins`), which rests on fairness and
is out of the prover's reach; and what the parser computes of any other descriptor
(`ParserAgrees`), a recursion over data: proved for all are its bounds and its
progress; and, for runs that are refused a removal, `DriverTrusted`,
`SuccessIsComplete` and `KeptIsAsBefore`. Every other property of a passing run is
a theorem.

## Plan

Done: `GunFile` with its abstract specification and proofs, `InstallFlow`,
`ClientDevice` and `LanePin` with proofs of all their safety properties,
`ReportDescriptor`.

Left: proofs of `DriverTrusted`, `SuccessIsComplete` and `KeptIsAsBefore` for runs
that are refused a removal; what holds of packages for runs that die before they
record one; and a run without the lock.

## Not modelled

* Device add and driver entry (`WinUHid.c:1392-1530`): they run once, before any
  handle exists. That the default queue is parallel and the event queue manual is
  built into `GunFile`.
* Packing and clamping of a report (`gun_device.h`): pure, and covered by
  `tests/gun_device_tests.cpp`.
* The wait for the setup lock and a run without it, several device nodes, an
  install folder moved by hand.
* Tracing, logging, strings, the IOCTLs' buffer checks beyond their outcome,
  cryptography and catalogue signing, the tools, the tests and the build.
