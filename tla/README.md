# A verification project for the USB 3 dual-role device

The repository is a SystemC/TLM model of a USB 3 dual-role device (DRD). This
directory holds TLA+ modules that model it, TLC configurations that check them
on small instances, and proofs of its central properties for every instance.

## 1. Inventory of the system

| Component | Source | State | Operations | Talks to |
|---|---|---|---|---|
| role manager | `usb3_role_manager` | `m_role`, two request flags | `role_detection_process` (thread), `apply_role`, `request_role` | reads the CC and VBUS signals; writes `current_role` and the `role_changed` pulse; is called by the register write |
| DRD controller | `usb3_drd_controller` | `m_intr_status`, `m_intr_enable`, shadow registers | `forward_inputs`, `interrupt_collector` (methods), `role_switch_monitor` (thread), `raise_irq`, `cfg_b_transport`, `upstream_b_transport` | owns all signals; enables the controllers; drives `irq` |
| protocol layer | `usb3_protocol_layer` | sequence counter | `route_tx`, `handle_rx`, `forward_to_active_controller` | passes packets by nested `b_transport` calls; routes by `current_role` |
| host controller | `usb3_host_controller` | next address, device info, transfer ring, response buffer, `m_rx_buf` | `host_main_process` (thread: `enumerate_device`, `process_transfer_ring`), `bulk_out`, `bulk_in`, `from_protocol_b_transport` | is enabled by a signal; pulses `transfer_done`, `enumeration_done` |
| device controller | `usb3_device_controller` | address, configured flag, EP1 and EP2 FIFO | `from_proto_b_transport` (all requests), `loopback_process` (thread) | is enabled by a signal; pulses `bulk_irq`; answers within the call |
| peer device | `sc_main.cpp` | address, configured flag, loopback buffer | `b_transport` | receives what the DRD sends, answers on `upstream` |
| test program | `sc_main.cpp` | its position | `run_scenarios` (thread) | ports, registers, `bulk_out`, `bulk_in` |
| interrupt-driven software | none in the repository | what it has read, whether it waits for a transfer | waits for `irq`, reads and writes `INTR_STATUS`, `bulk_out` | `irq`, registers |
| types | `usb3_types.h` | none | the packet extension | all |

What makes the behaviour hard:

* Six processes run in an order that SystemC leaves open. What one writes to a
  signal is seen by the others only after the next update phase.
* Threads wait in the middle of what they do: 10 ns in the role manager's
  pulse, 1 us in the role switch, microseconds to milliseconds in the host.
  They keep values that they have read before, and an `sc_event` that fires
  meanwhile is lost.
* Packets are nested calls, so that the answer of a peer arrives in the thread
  of the sender and is routed by the role at that instant.
* Software acknowledges interrupts while they are being raised.

What makes it correct: the two controllers are never enabled together and never
without a pause; the DRD ends up in the role that was asked for, with the right
controller enabled; `irq` is the level of the enabled pending interrupts; a host
enumerates its device consistently and always comes to an end; each response is
taken by its own request; queued transfers run; the loopback neither reorders
nor duplicates. `PROJECT.json` lists under `hazards` where each of these could
go wrong, with the properties that would notice.

## 2. Modules

```
Kernel            SystemC: signals, events, evaluation, update, time
 +- RoleManager   role_detection_process, apply_role, request_role
 |   +- DrdController      the top level's own processes and registers
 |       +- Stimuli        what a testbench does; two ghost variables
 +- ControllerPulses       host and device controller seen from outside
 +- ProtocolLayer          packets and routing
     +- HostController  +- DeviceController  +- PeerDevice

DrdCore   = Stimuli + ControllerPulses              role switch, interrupts
Drd       = Stimuli + Host + Device + Peer          the whole DRD
Scenario  = Drd driven by run_scenarios, with waits of its own
InterruptDriver = Drd driven by a driver that waits for irq
DualRole                                            what a role switch promises
LossyPipe                                           what the loopback promises
MCDrdCore, MCDrd, MCScenario, MCDriver              constants for TLC

StimuliProofs      Stimuli: lemmas for the part that DrdCore and Drd share
 +- DrdCoreProofs      DrdCore: types, exclusion, pause, irq; spaced stimuli;
 |                     DrdCore implements DualRole
 +- DrdProofs          Drd: types
     +- DrdReductionProofs Drd implements DrdCore, and has its properties
     +- ControllerProofs   Drd: host, peer, FIFOs; Drd implements LossyPipe
         +- DriverProofs   InterruptDriver
         +- ScenarioProofs Scenario implements Drd; the test program passes
                           (with DrdReductionProofs)
LossyPipeProofs    LossyPipe
```

**Processes.** Each action is one run of a process from a `wait` to the next. A
process in `ready` is runnable; `timer[p]` is what is left of its
`wait(sc_time)`; the variables `rm_pc`, `sw_pc`, `host_pc` and `loop_pc` say at
which `wait` of the source a thread stands. `Woken` lists, next to each other,
the sensitivities of all processes: a process wakes up when a signal that it is
waiting for changes in an update phase, or when an event fires, *and* it is in
the right `wait` at that moment.

**Signals.** `sig` is what `read()` returns, `nxt` what the writes have made of
it. `DeltaCycle` makes them equal. Two writes in one evaluation phase leave the
later one, as in SystemC; this is what merges two `transfer_done` pulses.

**Calls.** A nested `b_transport` is part of the action of the thread that makes
it. `HostProcess` in `Drd` shows the longest chain: the host sends, the peer
changes its state and answers, the answer goes to the host or to the device,
and the device answers in turn. The wait in `handle_set_address` holds the
caller, a peer that acts as host.

**The testbench.** `DriveInputs` and `AskForRole` in `Stimuli`, and `Enqueue` in
`Drd`, are the writes as such, which come at any time. `SetInputs`, `ForceRole`
and `QueueTransfer` are the same by a testbench that changes its inputs, waits
until its gap is over (`CallFor`), and leaves room in the ring; the environment
of `DrdCore` and `Drd` consists of these. The gap is `RoleGap` after a stimulus
that calls for another role than the one before, and `MinGap` after one that
calls for the same: `run_scenarios` writes CC and 600 ns later VBUS, which ask
for nothing yet and then for the host, and waits for 15 ms after that.

**The test program.** `Scenario` is `run_scenarios` statement by statement, each
with the wait that follows (`Step`). It writes (`DriveInputs`, `AskForRole`,
`Enqueue`) when its wait is over, and looks at no gap, no input and no ring
before. That it nevertheless does only what `Drd` expects of a testbench is
`IsTestbench`, checked and proved: its waits are long enough, it always changes
its inputs, and there is room for what it queues.

**The driver.** `InterruptDriver` is software of the kind for which the
interrupts are made: it waits for `irq`, reads `INTR_STATUS`
(`ReadInterrupts`), writes back what it has read (`Acknowledge`), and looks
after what these bits stand for (`Serve`). It may be late by any time, but once
it has begun it is done within one instant, in one delta cycle or in several;
the DRD runs in between. It queues one transfer at a time, in any role, and
waits for its `XFER_DONE`; `ReactTime` later it may queue the next. The peer
that acts as host in this module knows its role (`PeerActsAsHost`).

**The pipe.** `LossyPipe` says what a peer that sends and fetches bulk data may
rely on: a pipe with two places. `Put` takes a free place or that of the data
put before, `Lose` drops the older of two, `Get` fetches the oldest. In `Drd`
the pipe is what the two FIFOs hold of bulk data, EP1 before EP2: a `BULK_OUT`
packet is a `Put`, a `BULK_IN` packet that finds data a `Get`, and
`CopyToEp1` is a `Lose` when EP1 has not been read, or no step.

**Ghost variables.** `want` is the role that the last stimulus calls for, `idle`
how long both controllers have been off (counted up to `SettleTime`), `sent` and
`got` the bulk data that the device controller took and returned, `owed` (in
`InterruptDriver`) the interrupts whose source has risen since the driver last
looked after them. No guard of
the code's actions reads them (only the environment of `Drd` consults `sent`, to
send each payload once).

**Mutants.** Definitions marked `Mutant:` are wrong variants of the definition
after them. No action uses them. `PROJECT.json` says which property notices
which mutant, so that each property is known to depend on the code.

**Abstractions.** Payloads and descriptors are names (`"a"`,
`"device_descriptor"`), since the code looks at no more than the length of a
buffer; `AtLeast18Bytes` is that look. A descriptor of the device or of a
configuration passes it, and so do two of the three strings, from which the
others are not told apart; headers, status bytes and the bytes of a stall do
not. `AddrRange` is 128, the addresses that a device keeps in full (`wValue &
0x7F`), and `AddrModulus` 256, the values of the host's `uint8_t` counter. Time
is counted in units that keep the order of the durations of the code.
`INTR_STATUS` and `INTR_ENABLE` are sets of the four bits that the code defines.

## 3. Runs

All runs check deadlock except `RunScenarios`, whose program stops.

| Run | Shows |
|---|---|
| `AnyStimuli` | `TypeOK`, `ExclusiveControllers`, `DeadTime`, `IrqHasCause` for an input of each role and both requests, acknowledgements and changes of the mask, at any time, with no minimal gap |
| `SpacedStimuli` | all inputs and requests, `SettleTime` after one that calls for another role and at the next instant after any other, with all pulses and with acknowledgements of one bit or of all at any time: `ControllerMatchesRole`, `RoleMatchesStimulus`, `NoRequestLeft`, `NoStaleController`; `IrqLevel` while the mask keeps its reset value; and the same system implements `DualRole`, liveness included (`RoleSwitchSpec`) |
| `Interrupts` | the driver of `InterruptDriver` under role changes, enumerations, transfers and loopback copies: `EveryPulseServed` (no interrupt is lost), `TransferReported`, `ReportedHasRun` (none is reported before it has run), `DriverTypeOK` |
| `CoreReduction` | `TypeOK` of the whole DRD; `EnumeratedPeer`: host, peer and `DEV_ADDR` agree, while the address counter passes what a device keeps and wraps; and `CoreSpec`: each of its steps is a step of `DrdCore` or none |
| `HostSession` | the DRD as host of a peer that stalls, ignores or fails control transfers, and of a role that is lost in the middle of an enumeration: `KnownByDescriptor`, `ResponseTaken`, `EnumerationEnds`, `TransferRuns` |
| `DeviceLoopback` | a peer that configures the device, asks for its descriptors, and sends and fetches bulk data at any time: FIFOs and thread implement `LossyPipe` (`PipeSpec`), `LoopbackInOrder`, `LatestKept`, `DataMoved` (what wakes the thread is moved), `EachCopyPulses` |
| `RunScenarios` | `run_scenarios` passes in every interleaving: `LoopbackPassed`, `ReadbackSaysDevice`, `SwitchSettled`, `InterruptsCleared`, `Stops`; and it keeps to what `Drd` expects of a testbench (`IsTestbench`) |

Together they fire every action. The other five runs are expected to end in a
violation; each is a disagreement between the code and what it says of itself.

### Findings

| Run | The code says | The code does |
|---|---|---|
| `RoleChangeWhileSettling` | "enable the appropriate controller" (`usb3_drd_controller.cpp:59`) | enables that of the role 1 us ago, for good if the role changed meanwhile |
| `RoleChangeInRead` | "m_resp_* is valid after return" (`usb3_host_controller.cpp:171`) | not if the role changed since the enumeration began |
| `BackToBackTransfers` | "transfer_done pulses when it completes" (`usb3_host_controller.h:83`) | two queued transfers give one pulse |
| `LongAddress` | "usb device address (0-127)" (`usb3_types.h:153`) | gives out 128 |
| `SecondSession` | "enumerate a device, then walk a simple trb ring" (`usb3_host_controller.cpp:1`) | once only, unless a transfer is queued at the right time |

### Limits of the properties that hold

Some properties hold under a restriction that the code needs; without it the
model shows the following.

* `IrqLevel` is stated for software that leaves `INTR_ENABLE` at its reset value,
  in which no interrupt is masked, and fails for any other (`SpacedStimuli` with
  `Masks <- TwoMasks`). A write of the mask does not touch `irq`: a pending
  interrupt that gets unmasked does not assert it until the next one
  (`usb3_drd_controller.cpp:167`), and masking does not lower it. And where
  `raise_irq` looks at the enabled bits, a write of `INTR_STATUS` looks at all of
  them (`usb3_drd_controller.cpp:163`): with a masked interrupt pending, `irq`
  stays high after every enabled one has been acknowledged. What holds with any
  masks is `IrqHasCause`.
* The driver must let `ReactTime > XferPulseTime` pass before it queues the next
  transfer. With `ReactTime = 0` it takes the rest of one `transfer_done` pulse,
  which `interrupt_collector` raises again when something else wakes it, for the
  completion of the next transfer (`ReportedHasRun`); with `ReactTime = 1` the
  next transfer completes in the step in which the pulse ends, and is never
  reported (`TransferReported`). The second is the finding of
  `BackToBackTransfers`, seen by software.
* The driver acknowledges before it looks after an interrupt. It has to: what
  comes in between is then raised again, and not cleared unseen.
* `EnumeratedPeer` is checked with a peer that performs every request. The
  response status of a SETUP is not looked at (`usb3_host_controller.cpp:168`),
  so that a host counts a peer as enumerated that stalled or dropped
  `SET_CONFIGURATION` and then took the status stage. The faulty peer of
  `HostSession` does not perform what it refuses.
* A peer that acts as host while the DRD is host too has its packets kept as the
  response to the next transfer of the DRD. With `SET_CONFIGURATION` sent at that
  moment, the bytes of the SETUP packet end up in `m_rx_buf` as bulk data.
* `RoleMatchesStimulus` needs the testbench to leave `PulseTime` after a
  stimulus that calls for another role, and so does `NoRequestLeft`:
  `apply_role` does not see the inputs change during its pulse, and looks at
  them again at their next change only; a request in the pulse is left over
  until then, and acted on whatever the inputs say (`SpacedStimuli` with
  `RoleGap = 2`). Stimuli that call for the role that was wanted before may
  follow at the next instant, but not in the same one (`MinGap > 0`).
* `LatestKept` counts data that wait in EP2. A transfer that arrives during the
  `bulk_irq` pulse stays there until the next one, because `m_out_ep_event` is
  lost on a thread that waits for the end of the pulse.
* `LoopbackInOrder` is checked with a peer that has no data stage to send, and
  proved with control data of any kind (`LoopbackKeepsOrder`).
* A DRD that becomes device during an enumeration stores the peer's answers in
  EP2 (`usb3_device_controller.cpp:78`), where they are returned as bulk data.
  `LoopbackInOrder` looks at the bulk data alone, with which nothing worse
  happens than that some are lost: such an answer, or the data stage of a control
  transfer to the device, replaces bulk data in EP2 and is copied over those in
  EP1. `PipeSpec` and `LatestKept` are therefore stated for a DRD that is never
  host, with a peer that has no such transfer.

### Bounds, and why they are enough

* **Durations.** `PulseTime`, `SettleTime` and `RoleGap` are 3 in
  `SpacedStimuli`, the least gap with which its properties hold: a stimulus
  comes at the very end of the pulse, at the very end of the pause, and later,
  and none within either. (That one outlasts the other, as in the code, makes no
  difference to stimuli that come after both.) In `AnyStimuli` they are 1 and 2
  and stimuli come at any time. In the other runs they are 1 and 2, too, and the
  host's waits 1. `RunScenarios` uses 1, 2, 5, 6, 8, 12, 20, 120 for 1 ns, 10
  ns, 1 us, 2 us, 5 us, 200 us, 2 ms and 15 ms: a whole enumeration fits into
  the longest wait, and the write of `ROLE_CTRL` coincides with the end of the
  pause, as in the code.
* **The driver** runs with waits of 1, `ReactTime = 2`, one `bulk_out` at a time
  and one payload from the peer. A gap of 14 is about as long as it
  takes to switch the role and enumerate, and the testbench may wait for longer,
  so that the role changes at the end of an enumeration, in either pulse, in a
  transfer and after.
* **`MinGap` and `RoleGap`** are both 0 in `AnyStimuli`. `SpacedStimuli` has 1
  and `SettleTime`, the least with which the theorems hold; in
  `RoleChangeWhileSettling` `RoleGap` is one unit less than `SettleTime`, which is
  a violation. `RunScenarios` has the waits of the program, the least of them 4
  before VBUS and 5 before the request. Elsewhere both gaps are equal: 4 in
  `HostSession` and `CoreReduction`, shorter than an enumeration, so that the role
  is lost and regained within one; 2 in the other runs of `Drd` alone; 20, longer
  than an enumeration, in `LongAddress` and `SecondSession`.
* **`AddrModulus`, `AddrRange`** are 256 and 128 in the code, and in `LongAddress`
  and `RunScenarios`; 4 and 2 in `CoreReduction`, so that host and peer have
  different ideas of an address, and the counter wraps; 2 and 2 where no property
  is about addresses.
* **`RingDepth`** is 256 in the code; 1 or 2 here. The testbench queues whenever
  there is room, so that the ring is empty, full and in between.
* **Payloads**: three, each sent once, which is enough to tell a lost, a
  repeated and a reordered transfer apart in FIFOs of depth one.

### Fairness

`FairSpec` has weak fairness of `RunProcess`, of `Update` and of `Tick`. This is
what `sc_start()` does: it runs runnable processes until there are none, then
the update phase, then the next timeout, and it does not return before
`sc_stop()`. A single process needs no fairness of its own, because a process
that has run leaves `ready` and an evaluation phase is finite. The testbench and
the peer are under no obligation to do anything. `FairServiceSpec` adds weak
fairness of the driver's steps: it answers `irq` some time. It need not start a
transfer. `ScenarioSpec` has fairness of
the whole next-state relation, as the testbench is one of the simulator's
threads.

## 4. Proofs

The theorems hold for all values of the constants, from the named assumptions
(durations are positive, `MinGap`, `RoleGap` and `ReactTime` are natural numbers,
inputs, masks, transfers and packets are of their types, payloads are no control data)
and from the hypotheses in the last column. Each property below is also checked
by a run, on an instance that satisfies the hypotheses.

### Role switch and interrupts (`DrdCoreProofs`)

| Theorem | States | For |
|---|---|---|
| `TypeCorrect` | `[]TypeOK` | every testbench |
| `Exclusive` | `[]ExclusiveControllers` | every testbench |
| `PauseBetweenRoles` | `DeadTime` | every testbench |
| `IrqCause` | `[]IrqHasCause` | every testbench |
| `UnmaskedIrqLevel` | `[]IrqLevel` | a testbench that does not write `INTR_ENABLE` |

`ExclusiveControllers` is not inductive: it does not say that
`role_switch_monitor` finds both controllers off when its pause is over.
`SwitchInv` adds that
(1) no update phase hands over from one controller to the other (`NoHandover`);
(2) while the thread is in its pause it is either waiting with time left, or
runnable, and both enables are low, now or after the pending update
(`MonitorInv`);
(3) the time that is left and the time for which both have been idle make up the
whole pause, once the writes have taken effect (`PauseInv`).
`SwitchFrame` deals with the steps that touch none of this, `OtherProcess` shows
that most steps are of that kind. `DeadTime` follows because an enable rises
only in an update, from a value of `nxt` that was written at the end of a pause.

For the interrupt, `EveryIrqStep` reduces all actions to three kinds: bits are
raised, bits are cleared, or neither. Both invariants follow from that.

### Spaced stimuli (`DrdCoreProofs`)

| Theorem | States | For |
|---|---|---|
| `RoleFollowsStimulus` | `[]RoleMatchesStimulus` | `MinGap > 0`, `RoleGap >= PulseTime` |
| `RequestsCarriedOut` | `[]NoRequestLeft` | `MinGap > 0`, `RoleGap >= PulseTime` |
| `NoControllerStale` | `[]NoStaleController` | `MinGap > 0`, `RoleGap >= PulseTime`, `RoleGap >= SettleTime` |
| `ControllerFollowsRole` | `[]ControllerMatchesRole` | the same |
| `SwitchImplementsDualRole` | the safety half of `RoleSwitchSpec` | the same |

These properties speak of a DRD at rest, and a proof has to follow every
stimulus on its way there. `StimulusInv` has the stations of the first half of
the way. The stimulus is `Followed` (role, inputs and request flags agree); or
it is `Arriving` (it is in a port that `forward_inputs` has still to copy, or in
a notification, and the thread is `Listening`); or it is `Detecting` (the thread
is runnable and will select the role that is wanted). The hypotheses are what
keeps a stimulus from coming within the pulse. The thread pulses when it has
found another role; the stimulus that called for it has come at this very
instant, as the way to the thread takes update phases and no time, and its gap is
a `RoleGap` (`Granted`). So the rest of the pulse is never longer than the rest
of the gap (`DetectorInv`). A stimulus that calls for the role that is already
there makes no pulse, and needs no more than that the next one comes at a later
instant. Pulse and gap can end in the same instant, and then the thread still stands in its pulse when the stimulus
arrives, but is runnable, and listens before the next update phase
(`Listening`).

`FollowInv` has the stations of the second half: a role is `Served` (the enables
are its own), `Raised` (`role_changed` is about to rise), `Told` (the monitor is
runnable), or the monitor is `Starting` or `Settling`, with the role in its local
variable. At rest there is one possibility left in each half, which gives the
four invariants. Without `RoleGap >= SettleTime` the run `RoleChangeWhileSettling`
has a counterexample.

### The whole DRD (`DrdProofs`, `DrdReductionProofs`)

| Theorem | States | For |
|---|---|---|
| `DrdTypeCorrect` | `[]TypeOK` of `Drd` | everything |
| `DrdImplementsCore` | `CoreSpec` | everything |
| `DrdExclusive`, `DrdPauseBetweenRoles`, `DrdIrqCause` | the properties of `DrdCore`, of the whole DRD | everything |
| `DrdRoleFollowsStimulus` | the same | `MinGap > 0`, `RoleGap >= PulseTime` |
| `DrdNoStaleController`, `DrdControllerFollowsRole` | the same | `MinGap > 0`, `RoleGap >= PulseTime`, `RoleGap >= SettleTime` |

`DrdImplementsCore` makes `DrdCore` a proved reduction: host thread, device
controller and peer, with all the data that they exchange, are seen by the rest
as three pulses. The mapping hides the threads of the two controllers except in
their pulses, and their timers and events with them. It needs `ReductionInv`:
outside its pulses the host thread keeps both outputs low (or the end of a pulse
could not be told from another step), and `idle` is 0 while a controller is
enabled. `HostMoves` sorts the runs of the host thread: what `DrdCore` sees is
nothing (`HostQuiet`), the end of a pulse (`HostEnds`), a new pulse of
`transfer_done`, perhaps in the step that ends the one before (`HostTransfers`),
or one of `enumeration_done` (`HostEnumerates`). The other theorems follow by taking over those of `DrdCore`,
whose instance `Switch` with the mapping substituted satisfies its assumptions
(`SwitchAssumptions`).

### Host and peer (`ControllerProofs`)

| Theorem | States | For |
|---|---|---|
| `HostKnowsByDescriptor` | `[]KnownByDescriptor` | a peer that sends on its own no data of 18 bytes or more, unless they are its device descriptor |
| `HostTakesResponse` | `[]ResponseTaken` | a peer that sends no data on its own, but stalls |
| `EnumerationAgrees` | `[]EnumeratedPeer` | a peer that performs each request, whatever status it answers with (`PeerFaults \subseteq {"error"}`) |

`ResponseInv` says what can be in the one response buffer: between a SETUP with a
data stage and its status stage, the answer to that request, and otherwise no
more than what a stall leaves there. It needs to follow the answer into the
buffer of the read as well, from which `m_dev` is filled in the next step, and
that this buffer is empty when an enumeration begins (else the descriptor of the
last device could pass for that of this one).

`PeerInv` follows the address: from the SETUP of `SET_ADDRESS` on, the peer has
what `new_addr` will be (`NewAddrIsOld`: across the wrap of the counter, too);
from the wait after it on, `m_dev`, `DEV_ADDR` and the peer have the same; from
`SET_CONFIGURATION` on the peer is configured. It lets the host be interrupted,
fail or go back to the wait for `enable` at any point, with the flag
`enumerated` of its last session still set.

Each hypothesis is needed. A peer that sends data upstream while the DRD is host
has them kept as a response, and if they are long enough, those of a string
descriptor included, takes them for the device descriptor; a peer that stalls
`SET_CONFIGURATION` is counted as enumerated (section 3). The address counter is
the code's: `EnumeratedPeer` compares what a device keeps of an address, since
from 128 on the peer has another one than the host (`LongAddress`).

### The loopback (`ControllerProofs`, `LossyPipeProofs`)

| Theorem | States | For |
|---|---|---|
| `CopiesPulse` | `EachCopyPulses` | everything |
| `LoopbackKeepsOrder` | `[]LoopbackInOrder` | a peer whose control data are no payloads (`ControlDataApart`) |
| `LatestIsKept` | `[]LatestKept` | a DRD that is never host (`NoHostStimulus`) and a peer without control data (`NoControlData`) |
| `FifosImplementPipe` | `PipeSpec` | the same |
| `PipeInOrder` | `Spec => []InOrder` of `LossyPipe` | data of any kind |

`CopyInv` carries `CopiesPulse`: outside the pulse the thread keeps `bulk_irq`
low, and the signal has followed by the time the thread runs again.

`DataMoves` reduces all steps of the DRD to five: data arrive in EP2, are
overwritten there by control data, are moved to EP1, are fetched from EP1, or
nothing happens to them. `LoopbackInOrder` is inductive under these five with
types alone, in every role, so that the enumerations and answers of a host that
changes its role in the middle are covered. What has been fetched, followed by
what the FIFOs hold, can be found in what has been sent (`FoundIn`: a strictly
increasing map of positions); the work is in the lemmas on sequences:
`FoundInAppend` (both grow), `FoundInWithout` (an element is lost),
`FoundInParts`, and `WithoutInPipe` (losing the i-th element of the pipe is
losing an element of the whole).

`FifosImplementPipe` and `LatestIsKept` need `BulkInv` (EP1 holds bulk data only,
and EP2 the latest), which control data break. A DRD that gets no stimulus for
the role of host never has it (`NeverHost`: nor is it on its way in a port, a
flag, a local variable or a pending write), so that the host thread never leaves
its first wait and no answers to it go astray.

### The driver (`DriverProofs`)

| Theorem | States | For |
|---|---|---|
| `ServiceTypeCorrect` | `[]DriverTypeOK` | everything |
| `ReportsAreTrue` | `ReportedHasRun` | `ReactTime > XferPulseTime` |

The driver sees `XFER_DONE` and can not know from which transfer it is.
`ReportInv` says that it need not: while a transfer waits in the ring,
`transfer_done` is low, before and after the pending update, and the bit is
neither in `INTR_STATUS` nor in what the driver has read (`RingInv`). For this to
be so when the driver queues a transfer, it must find everything of the last
pulse gone, or `irq` up and so not queue at all (`RestInv`): its own wait began
within the pulse and is longer (`PulseInv` has what is left of the pulse), and a
bit that `interrupt_collector` has raised again shows in `irq` one update later
(`LineInv`). Without the hypothesis the property does not hold (section 3).

### The test program (`ScenarioProofs`)

| Theorem | States | For |
|---|---|---|
| `RunIsTestbench` | `IsTestbench` | everything |
| `ReadbackIsDevice` | `[]ReadbackSaysDevice` | `MinGap > 0`, `RoleGap >= PulseTime`, `RoleGap >= SettleTime` |
| `SwitchHasSettled` | `[]SwitchSettled` | the same |
| `LoopbackPasses` | `[]LoopbackPassed` | also `PeerFaults = {}`, `SettleRole > SettleTime + EnumerationTime`, `RunBulk > XferPulseTime` |
| `InterruptsStayCleared` | `[]InterruptsCleared` | the same |

The durations of the code satisfy the hypotheses. `ScenarioAssumption`
bounds the gaps by what the program waits for: 600 ns before VBUS (`MinGap`), and
1 us, which is also `SettleTime`, before the request (`RoleGap`). `SettleRole` is
15 ms, and `EnumerationTime`, the waits of the five control transfers, that for
the address and the pulse, is about 2 ms; `RunBulk` is 200 us and the pulse of
`transfer_done` 1 ns.

`RunIsTestbench` takes over all of the invariants that are proved of `Drd`.
No statement of the program looks whether its gap is over, whether its inputs are
new or whether there is room in the ring, and its proof has to say why it need
not (`RunInv`):

* `ScheduleInv`: at each statement `want` is the role that the statements before
  have called for (`Called`).
* `PacedInv`: the gap is never longer than the rest of the program's wait, which
  is where the bounds of `ScenarioAssumption` on its waits are needed; the inputs
  are those that it drove last (`Driven`); and the ring holds no more than what it
  has queued (`ProcessLeaves`: no process of the DRD adds to it). So its writes are
  those of a testbench (`RunMayWrite`, `RunStep`), and need not be with a shorter
  wait before one of them, or with a ring of depth 1.

What is left is to follow the program in time.

* `RoleInv`: the role switch keeps up. It takes its steps from `DrdCoreProofs`,
  through the mapping of `DrdImplementsCore`: a switch that is over stays so
  (`OverStays`), one that is in its pause has no more than `SettleTime` to go
  (`PauseStays`, `PauseBegins`), and one that is called for has begun by the end
  of the instant (`InstantSwitch`, `StartStays`). Since the waits are longer than
  that, it is over (`SwitchOver`) when the host is needed and when the program
  stops, after an update phase (`StopInv`). The request coincides with the end of the pause: in that
  instant the role is already the device's (`ReadbackIsDevice`) and the enable
  may be late by some update phases (`Ending`).
* `HostInv`: the host is first away; from the instant in which it is enabled
  (`EnableInv`) it enumerates, and its timer and what `Remaining` counts for the
  control transfers ahead fit into the rest of the program's wait
  (`EnumerationStep`, `EnumerationTimes`, `RemainingTimes`); then it rests
  (`HostRests`) until the transfer is queued, runs it in the same instant
  (`HostHas`, `HostRan`), and rests again when its pulse is over. What the peer
  keeps and what is in `m_rx_buf` is part of each station.
* `LoopInv`: the device controller gets no packet. While the host sends, the
  answers of the peer are its own (`HostKeepsToItself`), and by the time CC flips
  the ring is empty. `MethodInv` says which other processes wait for time.
* `RestInv`: within the first instant of the last wait everything comes to rest,
  and since no timer is left, stays so. The clearing finds no process runnable and
  no update pending, and nothing comes after it.

Before each of these was proved, TLC checked it as an invariant on the instance
of `RunScenarios`.

### Not proved

* Liveness, and with it the fairness half of `RoleSwitchSpec`, is beyond the
  prover: `EnumerationEnds`, `TransferRuns`, `DataMoved`, `EveryPulseServed`,
  `TransferReported` and `Stops` are model-checked only. `EveryPulseServed` and
  `TransferReported` are the promises of a driver that answers eventually.
* Every invariant and every other action property of the passing runs is a
  theorem.

## 5. Not modelled

* `m_regs`, the shadow registers: they are written in several places, but a read
  returns one of them only at 0x18, where it is what software stored there, and
  at `CTRL` and `ROLE_CTRL`, where it is always 0. `ReadRegister` has all the
  other reads. The rounding of addresses and the length check of
  `cfg_b_transport` change no state.
* The write of `CTRL`, which logs and does nothing else.
* The sequence number of the protocol layer: it is assigned and logged.
* The branch of `ctrl_transfer` that sends data to the device: every request
  that the host makes in that direction has length 0.
* Packets without an extension, transfers of length 0, the bytes of
  descriptors, `active_config`, endpoint numbers, completion codes, logging.
* The overflow assertion of the ring: the model queues only while there is room.

## 6. Plan

Done: the modules above, the runs, and theorems for every safety property of
`DrdCore`, `Drd`, `LossyPipe`, `InterruptDriver` and `Scenario` that a run checks.

What could follow is a model of more: a pipe that states exactly what control
data may do to the bulk data; an abstract transfer queue that the ring
implements, with which `ReportsAreTrue` could be stated of many transfers.
