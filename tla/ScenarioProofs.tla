--------------------------- MODULE ScenarioProofs ---------------------------
(***************************************************************************)
(* What run_scenarios looks for in the DRD is there whenever it looks,     *)
(* however long its waits and the pauses of the DRD are.                   *)
(***************************************************************************)
EXTENDS Scenario, ControllerProofs, DrdReductionProofs

USE PulseTimeAssumption, SettleTimeAssumption, GapAssumption, ScenarioAssumption

-----------------------------------------------------------------------------
(***************************************************************************)
(* Where run_scenarios stands, and what it has called for.                 *)
(***************************************************************************)
\* What run_scenarios has called for by the time it stands at pc.
Called(pc) ==
    CASE pc \in {"attach", "power"} -> "NONE"
      [] pc \in {"bulk_out", "bulk_in", "verify"} -> "HOST"
      [] OTHER -> "DEVICE"

ScheduleInv ==
    /\ tb_pc \in {"attach", "power", "bulk_out", "bulk_in", "verify", "request",
                  "readback", "clear", "stop", "stopped"}
    /\ tb_wait \in Nat
    /\ tb_pc \in {"attach", "stop", "stopped"} => tb_wait = 0
    /\ want = Called(tb_pc)

-----------------------------------------------------------------------------
\* The steps of run_scenarios, by what they do to the role that is called for.
LEMMA RunRole ==
    ASSUME ScheduleInv, RunScenarios
    PROVE  \/ tb_pc \in {"power", "verify"} /\ sw_pc' = sw_pc
           \/ tb_pc \notin {"power", "verify"} /\ want' = want
<1> USE DEF ScheduleInv, Called, Detected
<1>1. CASE AttachDevice \/ PowerDevice \/ FlipToDevice
  BY <1>1 DEF AttachDevice, PowerDevice, FlipToDevice, Step, Drive, DriveInputs,
     CallFor, drdControllerVars
<1>2. CASE BulkOut \/ BulkIn
  BY <1>2 DEF BulkOut, BulkIn, Step, Enqueue
<1>3. CASE RequestDevice
  BY <1>3 DEF RequestDevice, Step, AskForRole, CallFor
<1>4. CASE ReadStatus \/ ClearAndStop
  BY <1>4 DEF ReadStatus, ClearAndStop, Step, ClearInterrupts, vars, ghosts
<1> QED
  BY <1>1, <1>2, <1>3, <1>4 DEF RunScenarios

\* The order of the steps of run_scenarios, and its waits.
LEMMA RunOrder ==
    ASSUME RunScenarios
    PROVE  /\ tb_wait = 0
           /\ \/ tb_pc = "attach" /\ tb_pc' = "power" /\ tb_wait' = BeforeVbus
              \/ tb_pc = "power" /\ tb_pc' = "bulk_out" /\ tb_wait' = SettleRole
              \/ tb_pc = "bulk_out" /\ tb_pc' = "bulk_in" /\ tb_wait' = RunBulk
              \/ tb_pc = "bulk_in" /\ tb_pc' = "verify" /\ tb_wait' = RunBulk
              \/ tb_pc = "verify" /\ tb_pc' = "request" /\ tb_wait' = BeforeRequest
              \/ tb_pc = "request" /\ tb_pc' = "readback" /\ tb_wait' = BeforeReadback
              \/ tb_pc = "readback" /\ tb_pc' = "clear" /\ tb_wait' = SettleRole
              \/ tb_pc = "clear" /\ tb_pc' = "stop" /\ tb_wait' = 0
BY DEF RunScenarios, AttachDevice, PowerDevice, BulkOut, BulkIn, FlipToDevice,
       RequestDevice, ReadStatus, ClearAndStop, Step

\* All other steps leave the schedule alone.
LEMMA OtherSteps ==
    ASSUME [ScenarioNext]_scenarioVars
    PROVE  \/ RunScenarios
           \/ /\ want' = want
              /\ \/ UNCHANGED <<tb_pc, tb_wait>> /\ (~Tick \/ UNCHANGED vars)
                 \/ Tick /\ tb_wait > 0 /\ tb_wait' = tb_wait - 1 /\ tb_pc' = tb_pc
                 \/ /\ tb_pc = "stop" /\ tb_pc' = "stopped" /\ tb_wait' = tb_wait
                    /\ Update \/ UNCHANGED vars
<1>1. CASE ScenarioRun
  <2>1. want' = want
    BY <1>1 DEF ScenarioRun, RunProcess, ghosts
  <2>2. ready # {}
    BY <1>1 DEF ScenarioRun, RunProcess, RoleDetection, RoleDetectionStart, DetectRole,
       EndRolePulse, ForwardInputs, RoleSwitch, RoleSwitchStart, DisableControllers,
       EnableController, InterruptCollector, HostProcess, HostMain, HostStart,
       BeginEnumeration, SendStatus, ContinueEnumeration, SettleAddress,
       ReadConfiguration, FinishEnumeration, LeaveRing, AwaitTrb, RunTrb, HostRuns,
       Loopback, LoopbackStart, SkipLoopback, CopyToEp1, EndLoopbackPulse, LoopbackRuns
  <2> QED
    BY <1>1, <2>1, <2>2 DEF ScenarioRun, Tick, AdvanceTime
<1>2. CASE ScenarioUpdate
  BY <1>2 DEF ScenarioUpdate, Update, DeltaCycle, Tick, AdvanceTime
<1>3. CASE LastUpdate
  BY <1>3 DEF LastUpdate, Update, vars, ghosts
<1>4. CASE ScenarioTick
  BY <1>4 DEF ScenarioTick, Tick
<1>5. CASE UNCHANGED scenarioVars
  BY <1>5 DEF scenarioVars, vars, ghosts
<1> QED
  BY <1>1, <1>2, <1>3, <1>4, <1>5 DEF ScenarioNext

LEMMA ScheduleInvStep ==
    ASSUME ScheduleInv, [ScenarioNext]_scenarioVars
    PROVE  ScheduleInv'
<1> USE DEF ScheduleInv, Called
<1>1. CASE AttachDevice \/ PowerDevice \/ FlipToDevice
  BY <1>1, RunOrder DEF RunScenarios, AttachDevice, PowerDevice, FlipToDevice, Step,
     Drive, DriveInputs, CallFor, Detected
<1>2. CASE RequestDevice
  BY <1>2 DEF RequestDevice, Step, AskForRole, CallFor
<1>3. CASE RunScenarios /\ want' = want
  <2>1. tb_pc \notin {"power", "verify"}
    BY <1>3 DEF RunScenarios, AttachDevice, PowerDevice, BulkOut, BulkIn, FlipToDevice,
       RequestDevice, ReadStatus, ClearAndStop, Step, Drive, DriveInputs, CallFor,
       Detected
  <2> QED
    BY <1>3, <2>1, RunOrder
<1>4. CASE RunScenarios
  BY <1>1, <1>2, <1>3, <1>4 DEF RunScenarios, BulkOut, BulkIn, Enqueue, ReadStatus,
     ClearAndStop, ClearInterrupts, vars, ghosts
<1>5. CASE ~RunScenarios
  BY <1>5, OtherSteps
<1> QED
  BY <1>4, <1>5

-----------------------------------------------------------------------------
(***************************************************************************)
(* run_scenarios is a testbench.                                           *)
(***************************************************************************)
\* Where it still has something to write.
Stimulating == {"attach", "power", "bulk_out", "bulk_in", "verify", "request"}

\* The inputs that it has driven by the time it stands at pc.
Driven(pc) ==
    CASE pc = "attach" -> <<"CC_DISCONNECTED", FALSE>>
      [] pc = "power" -> <<"CC_UFP_ATTACHED", FALSE>>
      [] OTHER -> <<"CC_UFP_ATTACHED", TRUE>>

\* Its wait lasts as long as the gap that a testbench leaves, it changes its
\* inputs, and the ring holds at most what it has queued.
PacedInv ==
    /\ tb_pc \in Stimulating => timer[Testbench] <= tb_wait
    /\ tb_pc \in Stimulating \ {"request"} =>
          nxt.cc = Driven(tb_pc)[1] /\ nxt.vbus = Driven(tb_pc)[2]
    /\ tb_pc \in {"attach", "power", "bulk_out"} => m_transfer_ring = <<>>
    /\ tb_pc = "bulk_in" => Len(m_transfer_ring) <= 1

\* When its wait is over it may write, and there is room for what it queues.
LEMMA RunMayWrite ==
    ASSUME TypeOK, ScheduleInv, PacedInv
    PROVE  /\ AttachDevice => SetInputs("CC_UFP_ATTACHED", FALSE)
           /\ PowerDevice => SetInputs("CC_UFP_ATTACHED", TRUE)
           /\ FlipToDevice => SetInputs("CC_DFP_ATTACHED", TRUE)
           /\ RequestDevice => ForceRole("DEVICE")
           /\ BulkOut => QueueTransfer("OUT", TxData)
           /\ BulkIn => QueueTransfer("IN", NoData)
<1>1. timer[Testbench] \in Nat
  BY DEF TypeOK, KernelTypeOK, Thread
<1>2. ASSUME NEW to, NEW d, NEW from \in Stimulating, Step(from, to, d)
      PROVE  tb_pc = from /\ timer[Testbench] = 0
  BY <1>1, <1>2 DEF Step, PacedInv
<1>3. AttachDevice => SetInputs("CC_UFP_ATTACHED", FALSE)
  BY <1>2 DEF AttachDevice, Drive, SetInputs, PacedInv, Driven, Stimulating
<1>4. PowerDevice => SetInputs("CC_UFP_ATTACHED", TRUE)
  BY <1>2 DEF PowerDevice, Drive, SetInputs, PacedInv, Driven, Stimulating
<1>5. FlipToDevice => SetInputs("CC_DFP_ATTACHED", TRUE)
  BY <1>2 DEF FlipToDevice, Drive, SetInputs, PacedInv, Driven, Stimulating
<1>6. RequestDevice => ForceRole("DEVICE")
  BY <1>2 DEF RequestDevice, ForceRole, Stimulating
<1>7. BulkOut => QueueTransfer("OUT", TxData)
  BY HostSizesAssumption DEF BulkOut, Step, QueueTransfer, PacedInv
<1>8. BulkIn => QueueTransfer("IN", NoData)
  BY HostSizesAssumption DEF BulkIn, Step, QueueTransfer, PacedInv
<1> QED
  BY <1>3, <1>4, <1>5, <1>6, <1>7, <1>8

\* Apart from its transfers, it only stimulates, clears and looks.
LEMMA RunWrites ==
    ASSUME TypeOK, ScheduleInv, PacedInv, RunScenarios, ~BulkOut, ~BulkIn
    PROVE  \/ (Stimulate \/ Software) /\ UNCHANGED controllerVars
           \/ UNCHANGED vars
<1>1. ASSUME NEW cc, NEW vbus, <<cc, vbus>> \in Inputs, SetInputs(cc, vbus)
      PROVE  Stimulate
  BY <1>1 DEF Stimulate
<1>2. CASE AttachDevice \/ PowerDevice \/ FlipToDevice
  BY <1>1, <1>2, RunMayWrite DEF AttachDevice, PowerDevice, FlipToDevice, Drive
<1>3. CASE RequestDevice
  BY <1>3, RunMayWrite DEF RequestDevice, Stimulate
<1>4. CASE ReadStatus \/ ClearAndStop
  BY <1>4 DEF ReadStatus, ClearAndStop, Software
<1> QED
  BY <1>2, <1>3, <1>4 DEF RunScenarios

\* So everything it does to the DRD is something that Drd expects of a testbench.
LEMMA RunStep ==
    ASSUME TypeOK, ScheduleInv, PacedInv, [ScenarioNext]_scenarioVars
    PROVE  [Next]_vars
<1>1. CASE RunScenarios
  <2>1. UNCHANGED idle
    BY <1>1 DEF RunScenarios
  <2>2. ASSUME NEW dir, NEW data, <<dir, data>> \in Transfers, QueueTransfer(dir, data)
        PROVE  Next
    BY <2>1, <2>2 DEF Environment, Next
  <2>3. CASE BulkOut \/ BulkIn
    BY <2>2, <2>3, RunMayWrite
  <2>4. CASE ~BulkOut /\ ~BulkIn
    BY <1>1, <2>1, <2>4, RunWrites DEF Environment, Next
  <2> QED
    BY <2>3, <2>4
<1>2. CASE ScenarioRun \/ ScenarioUpdate \/ LastUpdate \/ ScenarioTick
  BY <1>2 DEF ScenarioRun, ScenarioUpdate, LastUpdate, ScenarioTick, Next
<1>3. CASE UNCHANGED scenarioVars
  BY <1>3 DEF scenarioVars
<1> QED
  BY <1>1, <1>2, <1>3 DEF ScenarioNext

\* What makes the processes run and how long they wait.
LEMMA ProcessWaits ==
    ASSUME RunProcess
    PROVE  \E p \in Process, d \in Nat :
              /\ p \in ready /\ Wait(p, d)
              /\ p \in {"forward_inputs", "interrupt_collector"} => d = 0
              /\ p = "role_detection_process" => d = 0 \/ m_role' # m_role
<1> USE ProcessNames
<1>1. CASE RoleDetection
  BY <1>1 DEF RoleDetection, RoleDetectionStart, DetectRole, ApplyRole, KeepRole,
     EndRolePulse
<1>2. CASE ForwardInputs \/ InterruptCollector
  BY <1>2 DEF ForwardInputs, InterruptCollector
<1>3. CASE RoleSwitch
  BY <1>3 DEF RoleSwitch, RoleSwitchStart, DisableControllers, EnableController, Settle
<1>4. CASE HostProcess
  BY <1>4, HostTimesAssumption DEF HostProcess, HostMain, HostStart, BeginEnumeration,
     SendStatus, ContinueEnumeration, SettleAddress, ReadConfiguration,
     FinishEnumeration, LeaveRing, AwaitTrb, RunTrb, SendSetup, HostRuns, HostWaits
<1>5. CASE Loopback
  BY <1>5, BulkPulseAssumption DEF Loopback, LoopbackStart, SkipLoopback, CopyToEp1,
     EndLoopbackPulse, LoopbackRuns, LoopbackWaits
<1> QED
  BY <1>1, <1>2, <1>3, <1>4, <1>5 DEF RunProcess

\* They do not touch what the testbench waits for and drives, and only take from
\* the ring.
LEMMA ProcessLeaves ==
    ASSUME TypeOK, RunProcess
    PROVE  /\ timer'[Testbench] = timer[Testbench]
           /\ nxt'.cc = nxt.cc /\ nxt'.vbus = nxt.vbus
           /\ m_transfer_ring' = m_transfer_ring
                \/ (m_transfer_ring # <<>> /\ m_transfer_ring' = Tail(m_transfer_ring))
<1>1. nxt \in Signals /\ timer \in [Thread -> Nat]
  BY DEF TypeOK, KernelTypeOK
<1>2. timer'[Testbench] = timer[Testbench]
  BY <1>1, ProcessWaits DEF Wait, Thread, Process, Testbench
<1>3. CASE /\ RoleDetection \/ ForwardInputs \/ RoleSwitch \/ InterruptCollector
           /\ UNCHANGED controllerVars
  <2>1. nxt'.cc = nxt.cc /\ nxt'.vbus = nxt.vbus
    BY <1>1, <1>3 DEF RoleDetection, RoleDetectionStart, DetectRole, ApplyRole, KeepRole,
       EndRolePulse, ForwardInputs, RoleSwitch, RoleSwitchStart, DisableControllers,
       EnableController, ControllersOff, InterruptCollector, RaiseIrq, Signals
  <2> QED
    BY <1>2, <1>3, <2>1 DEF controllerVars, hostVars
<1>4. CASE HostProcess
  <2>1. PICK reply, ok : HostMain(reply, ok)
    BY <1>4 DEF HostProcess
  <2>2. nxt'.cc = nxt.cc /\ nxt'.vbus = nxt.vbus
    BY <1>1, <2>1 DEF HostMain, HostStart, BeginEnumeration, SendStatus,
       ContinueEnumeration, SettleAddress, ReadConfiguration, FinishEnumeration,
       LeaveRing, AwaitTrb, RunTrb, PulsesEnded, Signals
  <2>3. m_transfer_ring' = m_transfer_ring
          \/ (m_transfer_ring # <<>> /\ m_transfer_ring' = Tail(m_transfer_ring))
    BY <2>1 DEF HostMain, HostStart, BeginEnumeration, SendStatus, ContinueEnumeration,
       SettleAddress, ReadConfiguration, FinishEnumeration, LeaveRing, AwaitTrb, RunTrb
  <2> QED
    BY <1>2, <2>2, <2>3
<1>5. CASE Loopback /\ UNCHANGED hostVars
  BY <1>1, <1>2, <1>5 DEF Loopback, LoopbackStart, SkipLoopback, CopyToEp1,
     EndLoopbackPulse, Signals, hostVars
<1> QED
  BY <1>3, <1>4, <1>5 DEF RunProcess

\* A gap is over before the wait that begins with it, and only run_scenarios
\* drives the inputs and fills the ring.
LEMMA PacedInvStep ==
    ASSUME TypeOK, ScheduleInv, PacedInv, [ScenarioNext]_scenarioVars
    PROVE  PacedInv'
<1>1. /\ nxt \in Signals /\ timer \in [Thread -> Nat] /\ Testbench \in Thread
      /\ timer[Testbench] \in Nat /\ tb_wait \in Nat /\ m_transfer_ring \in Seq(Trb)
  BY DEF TypeOK, KernelTypeOK, HostTypeOK, ScheduleInv, Thread
<1> USE DEF PacedInv, Stimulating, Driven
<1>2. CASE AttachDevice \/ PowerDevice \/ FlipToDevice
  <2>1. UNCHANGED m_transfer_ring
    BY <1>2 DEF AttachDevice, PowerDevice, FlipToDevice, Drive, controllerVars, hostVars
  <2>2. CASE AttachDevice
    BY <1>1, <2>1, <2>2 DEF AttachDevice, Step, Drive, DriveInputs, CallFor, Detected,
       ScheduleInv, Called, Signals
  <2>3. CASE PowerDevice
    BY <1>1, <2>1, <2>3 DEF PowerDevice, Step, Drive, DriveInputs, CallFor, Detected,
       ScheduleInv, Called, Signals
  <2>4. CASE FlipToDevice
    BY <1>1, <2>1, <2>4 DEF FlipToDevice, Step, Drive, DriveInputs, CallFor, Detected,
       ScheduleInv, Called, Signals
  <2> QED
    BY <1>2, <2>2, <2>3, <2>4
<1>3. CASE BulkOut \/ BulkIn
  <2>1. UNCHANGED <<nxt, timer>>
    BY <1>3 DEF BulkOut, BulkIn, Enqueue, EnqueueTrb
  <2>2. BulkOut => Len(m_transfer_ring') <= 1
    BY DEF BulkOut, Step, Enqueue, EnqueueTrb
  <2>3. timer'[Testbench] <= tb_wait'
    BY <1>1, <1>3, <2>1 DEF BulkOut, BulkIn, Step
  <2>4. CASE BulkOut
    BY <2>1, <2>2, <2>3, <2>4 DEF BulkOut, Step
  <2>5. CASE BulkIn
    BY <2>1, <2>3, <2>5 DEF BulkIn, Step
  <2> QED
    BY <1>3, <2>4, <2>5
<1>4. CASE RequestDevice \/ ReadStatus \/ ClearAndStop
  BY <1>4 DEF RequestDevice, ReadStatus, ClearAndStop, Step
<1>5. CASE ScenarioRun
  <2>1. RunProcess /\ UNCHANGED <<tb_pc, tb_wait>>
    BY <1>5 DEF ScenarioRun
  <2>2. Len(m_transfer_ring') <= Len(m_transfer_ring)
        /\ (m_transfer_ring = <<>> => m_transfer_ring' = <<>>)
    BY <1>1, <2>1, ProcessLeaves
  <2> QED
    <3>1. /\ timer'[Testbench] = timer[Testbench]
          /\ nxt'.cc = nxt.cc /\ nxt'.vbus = nxt.vbus
      BY <2>1, ProcessLeaves
    <3>2. Len(m_transfer_ring) \in Nat /\ Len(m_transfer_ring') \in Nat
      BY <1>1, <2>1, ProcessLeaves
    <3> HIDE DEF Driven
    <3> QED
      BY <2>1, <2>2, <3>1, <3>2
<1>6. CASE ScenarioUpdate
  BY <1>6 DEF ScenarioUpdate, Update, DeltaCycle, controllerVars, hostVars
<1>7. CASE LastUpdate
  BY <1>7 DEF LastUpdate
<1>8. CASE ScenarioTick
  <2>1. timer'[Testbench] = IF timer[Testbench] = 0 THEN 0 ELSE timer[Testbench] - 1
    BY <1>1, <1>8 DEF ScenarioTick, Tick, AdvanceTime
  <2>2. UNCHANGED <<nxt, m_transfer_ring, tb_pc>> /\ tb_wait > 0 /\ tb_wait' = tb_wait - 1
    BY <1>8 DEF ScenarioTick, Tick, AdvanceTime, controllerVars, hostVars
  <2>3. timer'[Testbench] <= timer[Testbench] /\ timer'[Testbench] \in Nat
        /\ (timer[Testbench] > 0 => timer'[Testbench] = timer[Testbench] - 1)
    BY <1>1, <2>1
  <2> HIDE DEF Driven
  <2> QED
    BY <1>1, <2>2, <2>3
<1>9. CASE UNCHANGED scenarioVars
  BY <1>9 DEF scenarioVars, vars, kernelVars, controllerVars, hostVars
<1> QED
  BY <1>2, <1>3, <1>4, <1>5, <1>6, <1>7, <1>8, <1>9 DEF ScenarioNext, RunScenarios

\* What keeps run_scenarios within the steps of Drd, and the types with it.
RunInv == TypeOK /\ ScheduleInv /\ PacedInv

LEMMA RunInvariant == ScenarioSpec => []RunInv
<1>1. ScenarioInit => RunInv
  BY DrdTypeInit DEF ScenarioInit, Init, KernelInit, InitSignals, StimuliInit, HostInit,
     RunInv, ScheduleInv, Called, PacedInv, Stimulating, Driven, Thread
<1>2. RunInv /\ [ScenarioNext]_scenarioVars => RunInv'
  BY RunStep, DrdTypeStep, ScheduleInvStep, PacedInvStep DEF RunInv
<1> QED
  BY <1>1, <1>2, PTL DEF ScenarioSpec

\* run_scenarios looks at nothing and only waits; its waits are as long as the
\* gaps that Drd expects of a testbench, it always changes its inputs, and the
\* ring has room for its transfers.  So what is proved of the DRD under every such
\* testbench holds of it in run_scenarios.
THEOREM RunIsTestbench == ScenarioSpec => IsTestbench
<1>1. ScenarioInit => Init
  BY DEF ScenarioInit
<1>2. RunInv /\ [ScenarioNext]_scenarioVars => [Next]_vars
  BY RunStep DEF RunInv
<1> QED
  BY <1>1, <1>2, RunInvariant, PTL DEF ScenarioSpec, IsTestbench, Spec

-----------------------------------------------------------------------------
(***************************************************************************)
(* How far the role switch has come since the last stimulus.               *)
(***************************************************************************)
\* What is left of the pause of role_switch_monitor.
Pause == CoreTimer[Switch!Monitor]

\* A switch that was called for at the beginning of a wait of d units.
Switching(d) ==
    \/ Switch!SwitchPaused /\ Pause + d <= tb_wait + SettleTime
    \/ sw_pc # "settle" /\ tb_wait = d

\* One that is over when the first instant of a wait of d units is.
Ending(d) == Switch!SwitchPaused /\ Pause = 0 /\ tb_wait = d

\* The role switch and run_scenarios, which does not look whether the switch is
\* over: its waits are long enough.
RoleInv ==
    CASE tb_pc \in {"attach", "power"} ->
            Switch!SwitchOver \/ (Switch!Starting /\ m_role = want)
      [] tb_pc = "bulk_out" -> Switch!SwitchOver \/ Switching(SettleRole)
      [] tb_pc = "bulk_in" -> Switch!SwitchOver \/ Ending(RunBulk)
      [] tb_pc = "request" -> Switch!SwitchOver \/ Switching(BeforeRequest)
      [] tb_pc = "readback" -> Switch!SwitchOver \/ Ending(BeforeReadback)
      [] OTHER -> Switch!SwitchOver

\* After sc_stop() there is no step, and the last one was an update phase.
StopInv == tb_pc = "stopped" => sig = nxt

-----------------------------------------------------------------------------
\* What DrdCoreProofs says of the role switch when the testbench leaves it
\* enough time.
SwitchState ==
    Switch!TypeOK /\ Switch!SwitchInv /\ Switch!StimulusInv /\ Switch!FollowInv

LEMMA SwitchMoves ==
    ASSUME MinGap > 0, RoleGap >= PulseTime, RoleGap >= SettleTime,
           SwitchState, [Switch!Next]_(Switch!vars), want' = want
    PROVE  /\ Switch!SwitchOver => Switch!SwitchOver'
           /\ Switch!SwitchPaused =>
                 Switch!SwitchOver' \/ (Switch!SwitchPaused' /\ Pause' <= Pause)
           /\ Switch!Starting /\ m_role = want =>
                 Switch!SwitchOver' \/ (Switch!Starting' /\ m_role' = want')
           /\ sw_pc # "settle" =>
                 sw_pc' # "settle" \/ (Switch!SwitchPaused' /\ Pause' = SettleTime)
<1>1. Switch!SwitchOver => Switch!SwitchOver'
  BY SwitchAssumptions, Switch!OverStays DEF SwitchState
<1>2. Switch!SwitchPaused =>
          Switch!SwitchOver' \/ (Switch!SwitchPaused' /\ Pause' <= Pause)
  BY SwitchAssumptions, Switch!PauseStays DEF SwitchState, Pause
<1>3. Switch!Starting /\ m_role = want =>
          Switch!SwitchOver' \/ (Switch!Starting' /\ m_role' = want')
  BY SwitchAssumptions, Switch!StartStays DEF SwitchState
<1>4. sw_pc # "settle" =>
          sw_pc' # "settle" \/ (Switch!SwitchPaused' /\ Pause' = SettleTime)
  BY SwitchAssumptions, Switch!PauseBegins DEF SwitchState, Pause
<1> QED
  BY <1>1, <1>2, <1>3, <1>4

\* Time advances when the switch is over or while the pause lasts.
LEMMA SwitchTicks ==
    ASSUME TypeOK, SwitchState, Tick
    PROVE  Switch!SwitchOver \/ (Switch!SwitchPaused /\ Pause > 0 /\ Pause' = Pause - 1)
<1>1. Switch!InstantOver
  BY DEF Tick, AdvanceTime, UpdatePending, Switch!InstantOver, Switch!UpdatePending,
         CoreReady, CoreNotified
<1>2. Switch!SwitchOver \/ (Switch!SwitchPaused /\ Pause > 0)
  BY <1>1, SwitchAssumptions, Switch!InstantSwitch DEF SwitchState, Pause
<1>3. Pause = timer["role_switch_monitor"] /\ Pause' = timer["role_switch_monitor"]'
  BY CoreNames DEF Pause, CoreTimer, Switch!Monitor, Thread, Process
<1>4. Pause > 0 => Pause' = Pause - 1
  BY <1>3 DEF Tick, AdvanceTime, Thread, Process, TypeOK, KernelTypeOK
<1> QED
  BY <1>2, <1>4

LEMMA PauseType ==
    /\ TypeOK => Pause \in Nat
    /\ TypeOK' => Pause' \in Nat
BY CoreNames DEF Pause, CoreTimer, Switch!Monitor, Thread, Process, TypeOK, KernelTypeOK

\* The waits of run_scenarios are long enough for the role switch.
LEMMA RoleInvStep ==
    ASSUME MinGap > 0, RoleGap >= PulseTime, RoleGap >= SettleTime,
           TypeOK, TypeOK', SwitchState, [Switch!Next]_(Switch!vars),
           ScheduleInv, RoleInv, [ScenarioNext]_scenarioVars
    PROVE  RoleInv'
<1> DEFINE over == Switch!SwitchOver
           paused == Switch!SwitchPaused
           starting == Switch!Starting /\ m_role = want
           left == Pause
<1>1. left \in Nat /\ left' \in Nat /\ tb_wait \in Nat
  BY PauseType DEF ScheduleInv
<1>2. over => sw_pc # "settle"
  BY DEF Switch!SwitchOver, Switch!Served
<1>3. starting => sw_pc # "settle"
  BY DEF Switch!Starting
<1>4. ASSUME want' = want
      PROVE  /\ over => over'
             /\ paused => over' \/ (paused' /\ left' <= left)
             /\ starting => over' \/ starting'
             /\ sw_pc # "settle" => sw_pc' # "settle" \/ (paused' /\ left' = SettleTime)
  BY <1>4, SwitchMoves
<1>5. Tick => over \/ (paused /\ left > 0 /\ left' = left - 1)
  BY SwitchTicks
<1>6. Tick /\ paused => sw_pc = "settle"
  BY DEF Switch!SwitchPaused, Switch!Settling
<1>7. paused => ~over
  BY DEF Switch!SwitchPaused, Switch!Settling, Switch!SwitchOver, Switch!Served
<1> USE DEF RoleInv, Switching, Ending
<1> HIDE DEF over, paused, starting, left
<1>8. CASE RunScenarios /\ tb_pc \in {"power", "verify"} /\ sw_pc' = sw_pc
  BY <1>1, <1>2, <1>3, <1>8, RunOrder DEF over, paused, starting, left
<1>9. CASE RunScenarios /\ tb_pc \notin {"power", "verify"} /\ want' = want
  BY <1>1, <1>4, <1>9, RunOrder DEF over, paused, starting, left
<1>10. CASE /\ want' = want /\ UNCHANGED <<tb_pc, tb_wait>>
  BY <1>1, <1>4, <1>10 DEF over, paused, starting, left
<1>11. CASE Tick /\ want' = want /\ tb_wait > 0 /\ tb_wait' = tb_wait - 1 /\ tb_pc' = tb_pc
  BY <1>1, <1>4, <1>5, <1>6, <1>7, <1>11 DEF over, paused, starting, left
<1>12. CASE want' = want /\ tb_pc = "stop" /\ tb_pc' = "stopped"
  BY <1>4, <1>12 DEF over, paused, starting, left
<1> QED
  BY <1>8, <1>9, <1>10, <1>11, <1>12, OtherSteps, RunRole

\* After sc_stop() nothing runs any more.
LEMMA StopInvStep ==
    ASSUME ScheduleInv, StopInv, [ScenarioNext]_scenarioVars
    PROVE  StopInv'
<1>1. ASSUME tb_pc = "stopped" PROVE UNCHANGED scenarioVars
  BY <1>1, RunOrder DEF ScheduleInv, ScenarioNext, ScenarioRun, ScenarioUpdate,
     EvaluationOver, LastUpdate, ScenarioTick
<1>2. ASSUME tb_pc # "stopped", tb_pc' = "stopped" PROVE sig' = nxt'
  <2>1. LastUpdate
    BY <1>2, RunOrder DEF ScenarioNext, ScenarioRun, ScenarioUpdate, ScenarioTick,
       scenarioVars
  <2> QED
    BY <2>1 DEF LastUpdate, Update, DeltaCycle, UpdatePending, vars, kernelVars
<1> QED
  BY <1>1, <1>2 DEF StopInv, scenarioVars, vars, kernelVars

-----------------------------------------------------------------------------
(***************************************************************************)
(* What run_scenarios sees of the role switch.                             *)
(***************************************************************************)
LEMMA ReductionInvariant == Spec => []ReductionInv
<1>1. Init => ReductionInv
  BY ReductionInit
<1>2. ReductionInv /\ [Next]_vars => ReductionInv'
  BY ReductionStep
<1> QED
  BY <1>1, <1>2, PTL DEF Spec

LEMMA SwitchStates ==
    ASSUME MinGap > 0, RoleGap >= PulseTime, RoleGap >= SettleTime
    PROVE  Spec => []SwitchState
<1>1. Switch!Spec => []Switch!TypeOK
  BY SwitchAssumptions, Switch!TypeCorrect
<1>2. Switch!Spec => []Switch!SwitchInv
  BY SwitchAssumptions, Switch!SwitchInvariant
<1>3. Switch!Spec => []Switch!StimulusInv
  BY SwitchAssumptions, Switch!StimulusInvariant
<1>4. Switch!Spec => []Switch!FollowInv
  BY SwitchAssumptions, Switch!FollowInvariant
<1> QED
  BY <1>1, <1>2, <1>3, <1>4, SwitchSpec, PTL DEF SwitchState

LEMMA ScheduleInvariant == ScenarioSpec => [](ScheduleInv /\ StopInv)
<1>1. ScenarioInit => ScheduleInv /\ StopInv
  BY DEF ScenarioInit, Init, KernelInit, StimuliInit, ScheduleInv, StopInv, Called
<1>2. ScheduleInv /\ StopInv /\ [ScenarioNext]_scenarioVars => (ScheduleInv /\ StopInv)'
  BY ScheduleInvStep, StopInvStep
<1> QED
  BY <1>1, <1>2, PTL DEF ScenarioSpec

LEMMA RoleInvariant ==
    ASSUME MinGap > 0, RoleGap >= PulseTime, RoleGap >= SettleTime
    PROVE  ScenarioSpec => []RoleInv
<1>1. ScenarioInit => RoleInv
  <2> SUFFICES ASSUME ScenarioInit PROVE Switch!Starting /\ m_role = want
    BY DEF ScenarioInit, RoleInv
  <2>1. Init
    BY DEF ScenarioInit
  <2>2. "role_switch_monitor" \in CoreReady
    BY <2>1, CoreNames DEF Init, KernelInit, CoreReady, Process
  <2>3. CoreSignals(sig) = CoreSignals(nxt) /\ CoreSignals(nxt).role_changed = FALSE
    BY <2>1 DEF Init, KernelInit, CoreSignals, InitSignals
  <2> QED
    BY <2>1, <2>2, <2>3 DEF Init, RoleManagerInit, DrdControllerInit, StimuliInit,
       Switch!Starting, Switch!RoleSteady, Switch!Monitor
<1>2. /\ ReductionInv /\ ReductionInv' /\ SwitchState /\ RunInv /\ RoleInv
      /\ [ScenarioNext]_scenarioVars
      => RoleInv'
  <2> SUFFICES ASSUME ReductionInv, ReductionInv', SwitchState, RunInv, RoleInv,
                      [ScenarioNext]_scenarioVars
               PROVE  RoleInv'
    OBVIOUS
  <2>1. TypeOK /\ TypeOK' /\ ScheduleInv /\ PacedInv
    BY DEF ReductionInv, RunInv
  <2>2. [Switch!Next]_(Switch!vars)
    BY <2>1, RunStep, ReductionStep, SameCore
  <2> QED
    BY <2>1, <2>2, RoleInvStep
<1>3. ScenarioSpec => Spec
  BY RunIsTestbench DEF IsTestbench
<1> QED
  BY <1>1, <1>2, <1>3, ReductionInvariant, SwitchStates, RunInvariant, PTL
  DEF ScenarioSpec

\* Where the switch is over, the role is read and its controller is the one that
\* is written.
LEMMA OverMeans ==
    ASSUME TypeOK, SwitchState, Switch!SwitchOver
    PROVE  /\ sig.role = want
           /\ nxt.host_enable = (want = "HOST")
           /\ nxt.dev_enable = (want = "DEVICE")
<1>1. /\ CoreSignals(sig).role = CoreSignals(nxt).role /\ CoreSignals(nxt).role = want
      /\ CoreSignals(nxt).host_enable = (want = "HOST")
      /\ CoreSignals(nxt).dev_enable = (want = "DEVICE")
  BY DEF Switch!SwitchOver, Switch!Served, Switch!RoleSteady, Switch!Enabling,
         SwitchState, Switch!StimulusInv, Switch!DetectorInv
<1> QED
  BY <1>1, CoreFields DEF TypeOK, KernelTypeOK

\* Software that requests the device role reads it back from STATUS: the request
\* has gone through the role manager by then (run_scenarios; ROLE_CTRL and STATUS
\* of cfg_b_transport).
THEOREM ReadbackIsDevice ==
    ASSUME MinGap > 0, RoleGap >= PulseTime, RoleGap >= SettleTime
    PROVE  ScenarioSpec => []ReadbackSaysDevice
<1>1. TypeOK /\ SwitchState /\ ScheduleInv /\ RoleInv => ReadbackSaysDevice
  BY OverMeans DEF ReadbackSaysDevice, ReadRegister, ScheduleInv, Called, RoleInv, Ending
<1>2. ScenarioSpec => Spec
  BY RunIsTestbench DEF IsTestbench
<1> QED
  BY <1>1, <1>2, DrdTypeCorrect, SwitchStates, ScheduleInvariant, RoleInvariant, PTL

\* When the simulation stops the DRD is a device: the request in the middle of a
\* switch that was still settling has neither undone it nor begun another one
\* (run_scenarios, "wait for role switch to settle"; role_switch_monitor).
THEOREM SwitchHasSettled ==
    ASSUME MinGap > 0, RoleGap >= PulseTime, RoleGap >= SettleTime
    PROVE  ScenarioSpec => []SwitchSettled
<1>1. TypeOK /\ SwitchState /\ ScheduleInv /\ StopInv /\ RoleInv => SwitchSettled
  BY OverMeans DEF SwitchSettled, ScheduleInv, Called, StopInv, RoleInv
<1>2. ScenarioSpec => Spec
  BY RunIsTestbench DEF IsTestbench
<1> QED
  BY <1>1, <1>2, DrdTypeCorrect, SwitchStates, ScheduleInvariant, RoleInvariant, PTL

-----------------------------------------------------------------------------
(***************************************************************************)
(* The host thread.  run_scenarios does not look whether the enumeration   *)
(* or a transfer is over either: in a wait that is long enough they are.   *)
(***************************************************************************)
Host == "host_main_process"

\* The two waits of a control transfer.
Control == SetupTime + StatusTime

\* The control transfers of an enumeration.
Enumeration == {"get_device", "set_address", "get_config", "get_bos", "set_config"}

\* How long an enumeration still takes after each of them.
After(request) ==
    CASE request = "get_device" -> 4 * Control + AddressTime + EnumPulseTime
      [] request = "set_address" -> 3 * Control + AddressTime + EnumPulseTime
      [] request = "get_config" -> 2 * Control + EnumPulseTime
      [] request = "get_bos" -> Control + EnumPulseTime
      [] request = "set_config" -> EnumPulseTime

EnumerationTime == 5 * Control + AddressTime + EnumPulseTime

\* How long it takes after the wait in which the thread stands.
Remaining ==
    CASE host_pc = "disabled" -> EnumerationTime
      [] host_pc = "setup" -> StatusTime + After(host_request)
      [] host_pc = "status" -> After(host_request)
      [] host_pc = "settle" -> Control + After("get_config")
      [] OTHER -> 0

Rung == "m_trb_complete_event" \in notified

\* The thread waits for enable, which may be about to rise.
HostAway ==
    /\ HostAsleep /\ host_ok = TRUE
    /\ host_pc = "start" => Host \in ready
    /\ sig.host_enable = FALSE
    /\ nxt.host_enable => tb_wait > EnumerationTime

\* It enumerates, and will have done so before the end of the wait.
Enumerating ==
    /\ host_pc \in {"disabled", "setup", "status", "settle", "enum_pulse"}
    /\ host_pc \in {"setup", "status"} => host_request \in Enumeration
    /\ host_pc = "enum_pulse" => m_dev.enumerated
    /\ host_ok = TRUE
    /\ Host \in ready \/ timer[Host] > 0
    /\ timer[Host] + Remaining < tb_wait

\* It waits for a transfer.
HostRests == host_pc = "idle" /\ Host \notin ready /\ timer[Host] = 0

\* A transfer has been queued and is about to run.
HostHas(dir, data) ==
    /\ host_pc = "idle" /\ timer[Host] = 0
    /\ Rung <=> Host \notin ready
    /\ Len(m_transfer_ring) = 1
    /\ Head(m_transfer_ring).dir = dir /\ Head(m_transfer_ring).data = data
    /\ tb_wait = RunBulk

\* It has run.
HostRan ==
    /\ m_transfer_ring = <<>> /\ ~Rung
    /\ \/ HostRests
       \/ /\ host_pc = "xfer_pulse"
          /\ Host \in ready \/ timer[Host] > 0
          /\ timer[Host] < tb_wait

\* The host controller is enabled and will stay so.
HostOn == Switch!SwitchOver /\ sig.host_enable = TRUE

NothingQueued == m_transfer_ring = <<>> /\ ~Rung

HostInv ==
    CASE tb_pc \in {"attach", "power"} -> HostAway /\ NothingQueued
      [] tb_pc = "bulk_out" ->
            /\ NothingQueued
            /\ \/ HostAway
               \/ HostOn /\ Enumerating
               \/ HostOn /\ HostRests /\ m_dev.enumerated
      [] tb_pc = "bulk_in" ->
            /\ HostOn /\ m_dev.enumerated
            /\ \/ HostHas("OUT", TxData)
               \/ HostRan /\ m_loopback_buf = TxData
      [] tb_pc = "verify" ->
            /\ HostOn /\ m_dev.enumerated
            /\ \/ HostHas("IN", NoData) /\ m_loopback_buf = TxData
               \/ HostRan /\ m_rx_buf = TxData
      [] OTHER -> HostRests /\ NothingQueued

-----------------------------------------------------------------------------
\* A step that leaves the host thread, the peer and all they look at alone.
HostLeft ==
    /\ UNCHANGED <<hostVars, peerVars, sig>>
    /\ timer'[Host] = timer[Host]
    /\ Host \in ready' <=> Host \in ready
    /\ Rung' <=> Rung

LEMMA HostBystanders ==
    ASSUME TypeOK,
           \/ ControlProcess /\ UNCHANGED controllerVars
           \/ (Stimulate \/ Software) /\ UNCHANGED controllerVars
           \/ Loopback /\ UNCHANGED <<hostVars, peerVars>>
           \/ UNCHANGED vars
    PROVE  HostLeft
<1>1. CASE ControlProcess \/ Stimulate \/ Software
  <2>1. /\ UNCHANGED sig /\ timer'[Host] = timer[Host]
        /\ Host \in ready' <=> Host \in ready
    BY <1>1, ControlWrites, TypeParts DEF Host
  <2>2. Rung' <=> Rung
    BY <1>1 DEF ControlProcess, Stimulate, Software, RoleDetection, RoleDetectionStart,
       DetectRole, EndRolePulse, ForwardInputs, RoleSwitch, RoleSwitchStart,
       DisableControllers, EnableController, InterruptCollector, SetInputs, DriveInputs,
       ForceRole, AskForRole, WriteRoleCtrl, RequestRole, ClearInterrupts,
       WriteIntrStatus, MaskInterrupts, WriteIntrEnable, Rung
  <2>3. UNCHANGED <<hostVars, peerVars>>
    BY <1>1 DEF controllerVars, vars
  <2> QED
    BY <2>1, <2>2, <2>3 DEF HostLeft
<1>2. CASE Loopback /\ UNCHANGED <<hostVars, peerVars>>
  <2>1. /\ UNCHANGED <<sig, notified>>
        /\ \E d \in Nat : Wait("loopback_process", d)
    BY <1>2, BulkPulseAssumption DEF Loopback, LoopbackStart, SkipLoopback, CopyToEp1,
       EndLoopbackPulse, LoopbackWaits
  <2> QED
    BY <1>2, <2>1 DEF HostLeft, Rung, Wait, Host, Thread, Process, TypeOK, KernelTypeOK
<1>3. CASE UNCHANGED vars
  BY <1>3 DEF vars, kernelVars, controllerVars, HostLeft, Rung
<1> QED
  BY <1>1, <1>2, <1>3

\* The host thread and a peer without faults, which answers as peer_device_t does.
LEMMA HostTalks ==
    ASSUME PeerFaults = {}, HostProcess
    PROVE  \/ /\ HostSends = NoPacket
              /\ HostMain(NoData, TRUE)
              /\ UNCHANGED <<deviceVars, peerVars, notified>>
           \/ LET answer == PeerAnswer(HostSends)
              IN  /\ HostSends # NoPacket
                  /\ HostMain(IF Recipient(answer) = "HOST" THEN answer.data ELSE NoData,
                              TRUE)
                  /\ DeviceSees(answer)
                  /\ PeerReceive(HostSends)
<1>1. CASE HostSends = NoPacket
  BY <1>1 DEF HostProcess
<1>2. CASE HostSends # NoPacket
  <2>1. PICK outcome \in PeerOutcomes(HostSends), ok \in PeerResponses :
            LET answer == outcome.answer
            IN  /\ HostMain(IF Recipient(answer) = "HOST" THEN answer.data ELSE NoData, ok)
                /\ DeviceSees(answer)
                /\ IF outcome.performs THEN PeerReceive(HostSends)
                                       ELSE UNCHANGED peerVars
    BY <1>2 DEF HostProcess
  <2>2. outcome = [answer |-> PeerAnswer(HostSends), performs |-> TRUE]
    BY DEF PeerOutcomes, Refusals
  <2>3. ok = TRUE
    BY DEF PeerResponses
  <2>4. outcome.answer = PeerAnswer(HostSends) /\ outcome.performs
    BY <2>2
  <2> QED
    BY <1>2, <2>1, <2>3, <2>4
<1> QED
  BY <1>1, <1>2

\* The thread runs only when it is runnable, and only it.
LEMMA HostRunsItself ==
    ASSUME TypeOK, HostProcess
    PROVE  /\ Host \in ready /\ Host \notin ready'
           /\ sig' = sig
           /\ Rung' <=> Rung
<1>1. PICK reply, ok : HostMain(reply, ok)
  BY DEF HostProcess
<1>2. Host \in ready
  BY <1>1 DEF HostMain, HostStart, BeginEnumeration, SendStatus, ContinueEnumeration,
     SettleAddress, ReadConfiguration, FinishEnumeration, LeaveRing, AwaitTrb, RunTrb,
     HostRuns, Host
<1>3. sig' = sig /\ Host \notin ready'
  BY <1>1, HostWrites DEF TypeOK, KernelTypeOK, Host
<1>4. notified' = notified \/ notified' = notified \cup {"m_out_ep_event"}
  BY DEF HostProcess, DeviceSees, DeviceReceive
<1> QED
  BY <1>2, <1>3, <1>4 DEF Rung

\* An enumeration is one control transfer after another.
LEMMA EnumerationTimes ==
    /\ Control \in Nat /\ EnumerationTime \in Nat
    /\ \A request \in Enumeration : After(request) \in Nat
    /\ After("get_device") \in Nat /\ After("set_address") \in Nat
    /\ After("get_config") \in Nat /\ After("get_bos") \in Nat
    /\ After("set_config") \in Nat
    /\ EnumerationTime = Control + After("get_device")
    /\ After("get_device") = Control + After("set_address")
    /\ After("set_address") = AddressTime + Control + After("get_config")
    /\ After("get_config") = Control + After("get_bos")
    /\ After("get_bos") = Control + After("set_config")
    /\ After("set_config") = EnumPulseTime
<1>1. /\ SetupTime \in Nat /\ StatusTime \in Nat /\ AddressTime \in Nat
      /\ EnumPulseTime \in Nat
  BY HostTimesAssumption
<1>2. Control \in Nat
  BY <1>1 DEF Control
<1>3. /\ After("get_device") = 4 * Control + AddressTime + EnumPulseTime
      /\ After("set_address") = 3 * Control + AddressTime + EnumPulseTime
      /\ After("get_config") = 2 * Control + EnumPulseTime
      /\ After("get_bos") = Control + EnumPulseTime
      /\ After("set_config") = EnumPulseTime
  BY DEF After
<1>4. EnumerationTime = 5 * Control + AddressTime + EnumPulseTime
  BY DEF EnumerationTime
<1> HIDE DEF After, EnumerationTime, Control
<1> QED
  BY <1>1, <1>2, <1>3, <1>4 DEF Enumeration

LEMMA RemainingTimes ==
    /\ host_pc = "disabled" => Remaining = EnumerationTime
    /\ host_pc = "setup" => Remaining = StatusTime + After(host_request)
    /\ host_pc = "status" => Remaining = After(host_request)
    /\ host_pc = "settle" => Remaining = Control + After("get_config")
    /\ host_pc = "enum_pulse" => Remaining = 0
    /\ host_pc' = "setup" => Remaining' = StatusTime + After(host_request')
    /\ host_pc' = "status" => Remaining' = After(host_request')
    /\ host_pc' = "settle" => Remaining' = Control + After("get_config")
    /\ host_pc' = "enum_pulse" => Remaining' = 0
<1> HIDE DEF After, EnumerationTime, Control
<1> QED
  BY DEF Remaining

LEMMA RemainingType ==
    ASSUME Enumerating
    PROVE  Remaining \in Nat
<1>1. StatusTime \in Nat
  BY HostTimesAssumption
<1>2. CASE host_pc = "disabled"
  BY <1>2, EnumerationTimes, RemainingTimes
<1>3. CASE host_pc = "setup"
  <2>1. host_request \in Enumeration
    BY <1>3 DEF Enumerating
  <2>2. After(host_request) \in Nat
    BY <2>1, EnumerationTimes
  <2> QED
    BY <1>1, <1>3, <2>2, RemainingTimes
<1> QED
  BY <1>2, <1>3, EnumerationTimes, RemainingTimes DEF Enumerating

\* An enumeration goes on in time, and ends with a device.
LEMMA EnumerationStep ==
    ASSUME TypeOK, PeerFaults = {}, HostProcess, Enumerating, m_transfer_ring = <<>>,
           sig.host_enable = TRUE, tb_wait' = tb_wait, tb_wait \in Nat
    PROVE  /\ m_transfer_ring' = <<>>
           /\ Enumerating' \/ (HostRests' /\ m_dev'.enumerated)
<1>1. PICK reply : HostMain(reply, TRUE)
  BY HostTalks
<1>2. Host \in ready /\ timer[Host] \in Nat /\ m_dev \in [addr : 0 .. AddrModulus - 1,
                                         ids : Data \cup {NoData}, enumerated : BOOLEAN]
  BY HostRunsItself DEF TypeOK, KernelTypeOK, HostTypeOK, Host, Thread, Process
<1>3. Control \in Nat /\ SetupTime \in Nat \ {0} /\ StatusTime \in Nat \ {0}
      /\ AddressTime \in Nat \ {0} /\ EnumPulseTime \in Nat \ {0}
      /\ Control = SetupTime + StatusTime
  BY HostTimesAssumption DEF Control
<1>4. ~Failed /\ host_ok = TRUE
  BY DEF Failed, Enumerating
<1>5. Remaining < tb_wait
  BY <1>2, RemainingType DEF Enumerating
<1> DEFINE Goal == /\ m_transfer_ring' = <<>>
                   /\ Enumerating' \/ (HostRests' /\ m_dev'.enumerated)
<1>6. ASSUME NEW pc, NEW d \in Nat \ {0}, HostWaits(pc, d)
      PROVE  host_pc' = pc /\ timer'[Host] = d
  BY <1>6 DEF HostWaits, Wait, Host, TypeOK, KernelTypeOK, Thread, Process
<1> DEFINE Goes(d) == timer'[Host] = d /\ d \in Nat \ {0} /\ d + Remaining' < tb_wait
<1>7. ASSUME NEW d, Goes(d), host_ok' = TRUE, m_transfer_ring' = <<>>,
             \/ host_pc' = "setup" /\ host_request' \in Enumeration
             \/ host_pc' = "status" /\ host_request' \in Enumeration
             \/ host_pc' = "settle"
             \/ host_pc' = "enum_pulse" /\ m_dev'.enumerated
      PROVE  Goal
  BY <1>7 DEF Enumerating
<1>8. ASSUME BeginEnumeration(reply) PROVE Goal
  <2>1. /\ host_pc' = "setup" /\ timer'[Host] = SetupTime /\ host_request' = "get_device"
        /\ host_ok' = TRUE /\ m_transfer_ring' = <<>> /\ host_pc = "disabled"
    BY <1>3, <1>4, <1>6, <1>8 DEF BeginEnumeration, SendSetup, HostRuns
  <2>2. Remaining = EnumerationTime /\ Remaining' = StatusTime + After("get_device")
    BY <2>1, RemainingTimes
  <2>3. EnumerationTime = Control + After("get_device") /\ After("get_device") \in Nat
    BY EnumerationTimes
  <2>4. SetupTime + Remaining' < tb_wait
    BY <1>3, <1>5, <2>2, <2>3
  <2> QED
    BY <1>3, <1>7, <2>1, <2>4 DEF Enumeration
<1>9. ASSUME SendStatus(reply, TRUE) PROVE Goal
  <2>1. /\ host_pc' = "status" /\ timer'[Host] = StatusTime /\ host_pc = "setup"
        /\ host_request' = host_request /\ host_ok' = TRUE /\ m_transfer_ring' = <<>>
        /\ host_request \in Enumeration
    BY <1>3, <1>6, <1>9 DEF SendStatus, HostRuns, Enumerating
  <2>2. Remaining = StatusTime + Remaining' /\ Remaining' = After(host_request)
    BY <2>1, RemainingTimes
  <2>3. StatusTime + Remaining' < tb_wait
    BY <1>5, <2>2
  <2> QED
    BY <1>3, <1>7, <2>1, <2>3
<1>10. ASSUME ContinueEnumeration(reply) PROVE Goal
  <2>1. /\ host_request \in {"get_device", "get_config", "get_bos"}
        /\ host_pc' = "setup" /\ timer'[Host] = SetupTime
        /\ host_request' = Following[host_request] /\ host_ok' = TRUE
        /\ m_transfer_ring' = <<>> /\ host_pc = "status"
    BY <1>3, <1>4, <1>6, <1>10 DEF ContinueEnumeration, SendSetup, HostRuns, Following
  <2>2. /\ host_request = "get_device" => host_request' = "set_address"
        /\ host_request = "get_config" => host_request' = "get_bos"
        /\ host_request = "get_bos" => host_request' = "set_config"
    BY <2>1 DEF Following
  <2>3. Remaining = After(host_request) /\ Remaining' = StatusTime + After(host_request')
    BY <2>1, RemainingTimes
  <2>4. After(host_request) = Control + After(host_request') /\ After(host_request') \in Nat
    BY <2>1, <2>2, EnumerationTimes
  <2>5. SetupTime + Remaining' < tb_wait
    BY <1>3, <1>5, <2>3, <2>4
  <2> QED
    BY <1>3, <1>7, <2>1, <2>2, <2>5 DEF Enumeration
<1>11. ASSUME SettleAddress PROVE Goal
  <2>1. /\ host_pc' = "settle" /\ timer'[Host] = AddressTime /\ host_ok' = TRUE
        /\ m_transfer_ring' = <<>> /\ host_pc = "status" /\ host_request = "set_address"
    BY <1>3, <1>4, <1>6, <1>11 DEF SettleAddress, HostRuns
  <2>2. Remaining = After("set_address") /\ Remaining' = Control + After("get_config")
    BY <2>1, RemainingTimes
  <2>3. /\ After("set_address") = AddressTime + Control + After("get_config")
        /\ After("get_config") \in Nat
    BY EnumerationTimes
  <2>4. AddressTime + Remaining' < tb_wait
    BY <1>3, <1>5, <2>2, <2>3
  <2> QED
    BY <1>3, <1>7, <2>1, <2>4
<1>12. ASSUME ReadConfiguration(reply) PROVE Goal
  <2>1. /\ host_pc' = "setup" /\ timer'[Host] = SetupTime /\ host_request' = "get_config"
        /\ host_ok' = TRUE /\ m_transfer_ring' = <<>> /\ host_pc = "settle"
    BY <1>3, <1>4, <1>6, <1>12 DEF ReadConfiguration, SendSetup, HostRuns
  <2>2. /\ Remaining = Control + After("get_config")
        /\ Remaining' = StatusTime + After("get_config")
    BY <2>1, RemainingTimes
  <2>3. After("get_config") \in Nat
    BY EnumerationTimes
  <2>4. SetupTime + Remaining' < tb_wait
    BY <1>3, <1>5, <2>2, <2>3
  <2> QED
    BY <1>3, <1>7, <2>1, <2>4 DEF Enumeration
<1>13. ASSUME FinishEnumeration PROVE Goal
  <2>1. /\ host_pc' = "enum_pulse" /\ timer'[Host] = EnumPulseTime /\ host_ok' = TRUE
        /\ m_dev'.enumerated = TRUE /\ m_transfer_ring' = <<>>
        /\ host_pc = "status" /\ host_request = "set_config"
    BY <1>2, <1>3, <1>6, <1>13 DEF FinishEnumeration, LocalsEnd, HostRuns
  <2>2. Remaining = After("set_config") /\ Remaining' = 0
    BY <2>1, RemainingTimes
  <2>3. EnumPulseTime + Remaining' < tb_wait
    BY <1>3, <1>5, <2>2, EnumerationTimes
  <2> QED
    BY <1>3, <1>7, <2>1, <2>3
<1>14. ASSUME AwaitTrb PROVE Goal
  <2>1. host_pc' = "idle" /\ Host \notin ready' /\ timer'[Host] = 0
    BY <1>14 DEF AwaitTrb, HostWaits, Wait, Host, TypeOK, KernelTypeOK, Thread, Process
  <2>2. m_dev.enumerated /\ m_dev' = m_dev
    BY <1>4, <1>14 DEF AwaitTrb, InRing, Enumerating
  <2> QED
    BY <1>14, <2>1, <2>2 DEF AwaitTrb, HostRests
<1>15. ~HostStart /\ ~LeaveRing /\ ~RunTrb(reply)
  BY DEF HostStart, HostRuns, LeaveRing, RunTrb, Enumerating
<1> QED
  BY <1>1, <1>8, <1>9, <1>10, <1>11, <1>12, <1>13, <1>14, <1>15 DEF HostMain

-----------------------------------------------------------------------------
\* When the host controller is enabled.
EnableInv ==
    /\ Switch!SwitchOver => sig.role = want /\ nxt.host_enable = (want = "HOST")
    /\ want = "HOST" /\ nxt.host_enable = TRUE /\ sig.host_enable = FALSE =>
          Switch!SwitchOver
    /\ tb_pc \in {"attach", "power"} => nxt.host_enable = FALSE
    /\ tb_pc = "bulk_out" => Switch!SwitchOver \/ tb_wait > EnumerationTime

LEMMA EnableFacts ==
    ASSUME SettleRole > SettleTime + EnumerationTime,
           TypeOK, SwitchState, ScheduleInv, RoleInv
    PROVE  EnableInv
<1>1. /\ CoreSignals(sig).host_enable = sig.host_enable
      /\ CoreSignals(nxt).host_enable = nxt.host_enable
      /\ CoreSignals(nxt).dev_enable = nxt.dev_enable
      /\ nxt.host_enable \in BOOLEAN
  BY CoreFields DEF TypeOK, KernelTypeOK, Signals
<1>2. Switch!SwitchOver => sig.role = want /\ nxt.host_enable = (want = "HOST")
  BY OverMeans
<1>3. ASSUME want = "HOST", nxt.host_enable = TRUE, sig.host_enable = FALSE
      PROVE  Switch!SwitchOver
  <2>1. ~Switch!Raised /\ ~Switch!Told
    BY <1>1, <1>3 DEF Switch!Raised, Switch!Told, Switch!ControllersSteady
  <2>2. ~Switch!Starting
    BY <1>1, <1>3 DEF Switch!Starting, SwitchState, Switch!SwitchInv, Switch!MonitorInv,
       Switch!Enabled
  <2>3. ~Switch!Settling
    BY <1>1, <1>3 DEF Switch!Settling, Switch!Enabling
  <2>4. Switch!Served
    BY <2>1, <2>2, <2>3 DEF SwitchState, Switch!FollowInv
  <2> QED
    BY <1>1, <1>3, <2>4 DEF Switch!SwitchOver, Switch!Served, Switch!Enabling
<1>4. ASSUME tb_pc \in {"attach", "power"} PROVE nxt.host_enable = FALSE
  <2>1. want = "NONE"
    BY <1>4 DEF ScheduleInv, Called
  <2>2. CASE Switch!Starting
    BY <1>1, <2>2 DEF Switch!Starting, SwitchState, Switch!SwitchInv, Switch!MonitorInv,
       Switch!Enabled
  <2> QED
    BY <1>2, <1>4, <2>1, <2>2 DEF RoleInv
<1>5. ASSUME tb_pc = "bulk_out" PROVE Switch!SwitchOver \/ tb_wait > EnumerationTime
  <2>1. Pause \in Nat /\ tb_wait \in Nat /\ SettleTime \in Nat /\ SettleRole \in Nat
        /\ EnumerationTime \in Nat
    BY PauseType, EnumerationTimes DEF ScheduleInv
  <2> QED
    BY <1>5, <2>1 DEF RoleInv, Switching
<1> QED
  BY <1>2, <1>3, <1>4, <1>5 DEF EnableInv

\* Signals change in update phases only.
LEMMA SignalsMove ==
    ASSUME TypeOK, [Next]_vars
    PROVE  sig' = sig \/ (Update /\ sig' = nxt)
<1>1. CASE HostProcess
  BY <1>1, HostRunsItself
<1>2. CASE Loopback
  BY <1>2 DEF Loopback, LoopbackStart, SkipLoopback, CopyToEp1, EndLoopbackPulse
<1>3. CASE ControlProcess \/ Stimulate \/ Software
  BY <1>3, ControlWrites, TypeParts
<1> QED
  BY <1>1, <1>2, <1>3, DrdSteps DEF QueueTransfer, Enqueue, EnqueueTrb, UpstreamCall,
     Update, DeltaCycle, Tick, AdvanceTime, vars, kernelVars

LEMMA HostOnStays ==
    ASSUME MinGap > 0, RoleGap >= PulseTime, RoleGap >= SettleTime,
           TypeOK, SwitchState, EnableInv, [Switch!Next]_(Switch!vars), [Next]_vars,
           want' = want, want = "HOST", Switch!SwitchOver
    PROVE  Switch!SwitchOver' /\ (HostOn => HostOn')
<1>1. Switch!SwitchOver'
  BY SwitchMoves
<1>2. nxt.host_enable = TRUE
  BY DEF EnableInv
<1> QED
  BY <1>1, <1>2, SignalsMove DEF HostOn

\* While the host controller is off, it has still the time of an enumeration.
LEMMA AwayEarly ==
    ASSUME ScheduleInv, EnableInv, HostAway, tb_pc = "bulk_out"
    PROVE  tb_wait > EnumerationTime
BY DEF ScheduleInv, Called, EnableInv, HostAway

-----------------------------------------------------------------------------
\* HostInv is kept by a step that leaves the host thread alone.
LEMMA HostInvFrame ==
    ASSUME TypeOK, ScheduleInv, EnableInv, EnableInv', HostInv, HostLeft,
           UNCHANGED <<tb_pc, tb_wait>>, want = "HOST" /\ HostOn => HostOn'
    PROVE  HostInv'
<1>1. UNCHANGED <<host_pc, host_request, host_ok, m_dev, m_transfer_ring, m_rx_buf,
                  m_loopback_buf, sig>>
      /\ timer'[Host] = timer[Host] /\ (Host \in ready' <=> Host \in ready)
      /\ (Rung' <=> Rung)
  BY DEF HostLeft, hostVars, peerVars
<1>2. HostAway /\ tb_pc \in {"attach", "power", "bulk_out"} => HostAway'
  <2> SUFFICES ASSUME HostAway, tb_pc \in {"attach", "power", "bulk_out"} PROVE HostAway'
    OBVIOUS
  <2>1. nxt'.host_enable => tb_wait' > EnumerationTime
    BY AwayEarly DEF EnableInv
  <2> QED
    BY <1>1, <2>1 DEF HostAway, HostAsleep, Host
<1>3. Enumerating => Enumerating'
  <2>1. Remaining' = Remaining
    BY <1>1 DEF Remaining
  <2> QED
    BY <1>1, <2>1 DEF Enumerating
<1>4. HostRests => HostRests'
  BY <1>1 DEF HostRests
<1>5. \A dir, data : HostHas(dir, data) => HostHas(dir, data)'
  BY <1>1 DEF HostHas
<1>6. HostRan => HostRan'
  BY <1>1, <1>4 DEF HostRan
<1>7. NothingQueued => NothingQueued'
  BY <1>1 DEF NothingQueued
<1>8. tb_pc \in {"bulk_out", "bulk_in", "verify"} => want = "HOST"
  BY DEF ScheduleInv, Called
<1> HIDE DEF HostHas
<1>9. CASE tb_pc \in {"attach", "power"}
  BY <1>2, <1>7, <1>9 DEF HostInv
<1>10. CASE tb_pc = "bulk_out"
  BY <1>1, <1>2, <1>3, <1>4, <1>7, <1>8, <1>10 DEF HostInv
<1>11. CASE tb_pc \in {"bulk_in", "verify"}
  BY <1>1, <1>5, <1>6, <1>8, <1>11 DEF HostInv
<1>12. CASE tb_pc \notin {"attach", "power", "bulk_out", "bulk_in", "verify"}
  BY <1>4, <1>7, <1>12 DEF HostInv
<1> QED
  BY <1>9, <1>10, <1>11, <1>12

\* The peer takes what is sent OUT, and what it has goes back IN.
LEMMA TransferRun ==
    ASSUME TypeOK, PeerFaults = {}, HostProcess, sig.role = "HOST",
           sig.host_enable = TRUE, NEW dir \in Direction, NEW data, HostHas(dir, data)
    PROVE  /\ m_transfer_ring' = <<>> /\ m_dev' = m_dev
           /\ host_pc' = "xfer_pulse" /\ timer'[Host] = XferPulseTime
           /\ dir = "OUT" => m_loopback_buf' = data
           /\ dir = "IN" /\ m_loopback_buf \in Payload => m_rx_buf' = m_loopback_buf
<1>1. /\ host_pc = "idle" /\ m_transfer_ring # <<>> /\ Len(m_transfer_ring) = 1
      /\ m_transfer_ring \in Seq(Trb)
      /\ Head(m_transfer_ring).dir = dir /\ Head(m_transfer_ring).data = data
  <2>1. m_transfer_ring \in Seq(Trb)
    BY DEF TypeOK, HostTypeOK
  <2>2. /\ host_pc = "idle" /\ Len(m_transfer_ring) = 1
        /\ Head(m_transfer_ring).dir = dir /\ Head(m_transfer_ring).data = data
    BY DEF HostHas
  <2>3. Len(<<>>) = 0
    OBVIOUS
  <2>4. m_transfer_ring # <<>>
    <3> SUFFICES ASSUME m_transfer_ring = <<>> PROVE FALSE
      OBVIOUS
    <3>1. Len(m_transfer_ring) = 0
      BY <2>3, Zenon
    <3> QED
      BY <2>2, <3>1
  <2> QED
    BY <2>1, <2>2, <2>4
<1>2. HostSends = Packet(IF dir = "OUT" THEN "BULK_OUT" ELSE "BULK_IN",
                         Head(m_transfer_ring).addr, data)
  BY <1>1 DEF HostSends, InRing
<1>3. HostSends.type = (IF dir = "OUT" THEN "BULK_OUT" ELSE "BULK_IN") /\ HostSends.data = data
  BY <1>2 DEF Packet
<1>4. HostSends # NoPacket
  BY <1>3, NoPacketIsPacket
<1> DEFINE answer == PeerAnswer(HostSends)
           reply == IF Recipient(answer) = "HOST" THEN answer.data ELSE NoData
<1>5. HostMain(reply, TRUE) /\ PeerReceive(HostSends)
  BY <1>4, HostTalks
<1>6. RunTrb(reply)
  BY <1>1, <1>5 DEF HostMain, HostStart, BeginEnumeration, SendStatus, ContinueEnumeration,
     SettleAddress, ReadConfiguration, FinishEnumeration, LeaveRing, AwaitTrb, HostRuns
<1>7. /\ host_pc' = "xfer_pulse" /\ timer'[Host] = XferPulseTime /\ m_dev' = m_dev
      /\ m_transfer_ring' = Tail(m_transfer_ring)
  BY <1>6 DEF RunTrb, HostWaits, Wait, Host, TypeOK, KernelTypeOK, Thread, Process
<1>8. m_transfer_ring' = <<>>
  BY <1>1, <1>7
<1>9. dir = "OUT" => m_loopback_buf' = data
  BY <1>3, <1>5 DEF PeerReceive
<1>10. ASSUME dir = "IN", m_loopback_buf \in Payload
       PROVE  m_rx_buf' = m_loopback_buf
  <2>1. HostSends.type = "BULK_IN" /\ m_loopback_buf # NoData
    BY <1>3, <1>10, PayloadAssumption
  <2>2. answer = Packet("BULK_IN", peer_addr, m_loopback_buf)
    BY <2>1 DEF PeerAnswer
  <2>3. answer.type = "BULK_IN" /\ answer.data = m_loopback_buf
    BY <2>2 DEF Packet
  <2>4. reply = m_loopback_buf
    BY <2>3 DEF Recipient
  <2> HIDE DEF reply
  <2> QED
    BY <1>1, <1>6, <1>10, <2>1, <2>4 DEF RunTrb, Received
<1> QED
  BY <1>7, <1>8, <1>9, <1>10

\* HostInv is kept by the host thread.
LEMMA HostInvProcess ==
    ASSUME PeerFaults = {}, RunBulk > XferPulseTime,
           TypeOK, ScheduleInv, EnableInv, EnableInv', HostInv, HostProcess,
           UNCHANGED <<tb_pc, tb_wait>>,
           want = "HOST" /\ HostOn => HostOn'
    PROVE  HostInv'
<1>1. /\ Host \in ready /\ Host \notin ready' /\ sig' = sig /\ (Rung' <=> Rung)
  BY HostRunsItself
<1>2. tb_pc \in {"bulk_out", "bulk_in", "verify"} => want = "HOST"
  BY DEF ScheduleInv, Called
<1>3. ~HostRests
  BY <1>1 DEF HostRests
<1>4. ASSUME HostAway, NothingQueued, tb_pc \in {"attach", "power", "bulk_out"}
      PROVE  HostAway' /\ NothingQueued'
  <2>1. HostStart
    BY <1>4, HostOnlyStarts DEF HostAway
  <2>2. /\ host_pc' = "disabled" /\ timer'[Host] = 0
        /\ UNCHANGED <<m_transfer_ring, host_ok>>
    BY <2>1 DEF HostStart, HostWaits, Wait, Host, TypeOK, KernelTypeOK, Thread, Process
  <2>3. nxt'.host_enable => tb_wait' > EnumerationTime
    BY <1>4, AwayEarly DEF EnableInv
  <2> QED
    BY <1>1, <1>4, <2>2, <2>3 DEF HostAway, HostAsleep, Host, NothingQueued
<1>5. ASSUME HostOn, Enumerating, NothingQueued, tb_pc = "bulk_out"
      PROVE  HostInv'
  <2>1. Enumerating' \/ (HostRests' /\ m_dev'.enumerated)
    BY <1>5, EnumerationStep DEF HostOn, NothingQueued, ScheduleInv
  <2>2. NothingQueued'
    BY <1>1, <1>5, EnumerationStep DEF HostOn, NothingQueued, ScheduleInv
  <2>3. HostOn'
    BY <1>2, <1>5
  <2> QED
    BY <1>5, <2>1, <2>2, <2>3 DEF HostInv
<1>6. ASSUME NEW dir \in Direction, NEW data, HostHas(dir, data), HostOn, want = "HOST",
             m_dev.enumerated
      PROVE  /\ HostRan' /\ m_dev'.enumerated
             /\ dir = "OUT" => m_loopback_buf' = data
             /\ dir = "IN" /\ m_loopback_buf \in Payload => m_rx_buf' = m_loopback_buf
  <2>1. sig.role = "HOST" /\ sig.host_enable = TRUE
    BY <1>6 DEF HostOn, EnableInv
  <2>2. /\ m_transfer_ring' = <<>> /\ m_dev' = m_dev
        /\ host_pc' = "xfer_pulse" /\ timer'[Host] = XferPulseTime
        /\ dir = "OUT" => m_loopback_buf' = data
        /\ dir = "IN" /\ m_loopback_buf \in Payload => m_rx_buf' = m_loopback_buf
    BY <1>6, <2>1, TransferRun
  <2>3. ~Rung' /\ tb_wait' = RunBulk
    BY <1>1, <1>6 DEF HostHas
  <2>4. XferPulseTime \in Nat \ {0}
    BY HostTimesAssumption
  <2>5. HostRan'
    BY <2>2, <2>3, <2>4 DEF HostRan
  <2> QED
    BY <1>6, <2>2, <2>5
<1>7. ASSUME HostRan, HostOn, want = "HOST"
      PROVE  HostRan' /\ UNCHANGED <<m_dev, m_rx_buf, m_loopback_buf>>
  <2>1. host_pc = "xfer_pulse" /\ m_transfer_ring = <<>> /\ sig.host_enable = TRUE
        /\ ~Rung
    BY <1>3, <1>7 DEF HostRan, HostOn
  <2>2. HostSends = NoPacket
    BY <2>1 DEF HostSends, InRing
  <2>3. HostMain(NoData, TRUE) /\ UNCHANGED peerVars
    BY <2>2, HostTalks
  <2>4. AwaitTrb
    BY <2>1, <2>3 DEF HostMain, HostStart, BeginEnumeration, SendStatus,
       ContinueEnumeration, SettleAddress, ReadConfiguration, FinishEnumeration,
       LeaveRing, RunTrb, HostRuns
  <2>5. host_pc' = "idle" /\ timer'[Host] = 0 /\ UNCHANGED <<m_transfer_ring, m_dev, m_rx_buf>>
    BY <2>4 DEF AwaitTrb, HostWaits, Wait, Host, TypeOK, KernelTypeOK, Thread, Process
  <2> QED
    BY <1>1, <2>1, <2>3, <2>5 DEF HostRan, HostRests, peerVars
<1> HIDE DEF HostHas
<1>8. CASE tb_pc \in {"attach", "power"}
  BY <1>4, <1>8 DEF HostInv
<1>9. CASE tb_pc = "bulk_out"
  BY <1>3, <1>4, <1>5, <1>9 DEF HostInv
<1>10. CASE tb_pc = "bulk_in"
  BY <1>2, <1>6, <1>7, <1>10 DEF HostInv, Direction
<1>11. CASE tb_pc = "verify"
  BY <1>2, <1>6, <1>7, <1>11 DEF HostInv, Direction
<1>12. CASE tb_pc \notin {"attach", "power", "bulk_out", "bulk_in", "verify"}
  BY <1>3, <1>12 DEF HostInv
<1> QED
  BY <1>8, <1>9, <1>10, <1>11, <1>12

\* It is kept by an update phase, in which the host thread may wake up.
LEMMA HostInvUpdate ==
    ASSUME TypeOK, ScheduleInv, EnableInv, HostInv, Update,
           \/ UNCHANGED <<tb_pc, tb_wait>>
           \/ tb_pc = "stop" /\ tb_pc' = "stopped" /\ tb_wait' = tb_wait,
           want = "HOST" /\ Switch!SwitchOver =>
               Switch!SwitchOver' /\ (HostOn => HostOn')
    PROVE  HostInv'
<1>1. /\ ready = {} /\ sig' = nxt /\ nxt' = nxt /\ notified' = {} /\ timer' = timer
      /\ UNCHANGED <<host_pc, host_request, host_ok, m_dev, m_transfer_ring, m_rx_buf,
                     m_loopback_buf>>
      /\ tb_wait' = tb_wait
  BY DEF Update, DeltaCycle, controllerVars, hostVars, peerVars
<1>2. /\ Host \in ready' <=> HostMainWoken
      /\ Host \notin ready /\ ~Rung'
  BY <1>1 DEF Update, DeltaCycle, Woken, Host, Process, Rung
<1>3. tb_pc \in {"bulk_out", "bulk_in", "verify"} => want = "HOST"
  BY DEF ScheduleInv, Called
<1>4. /\ sig.host_enable \in BOOLEAN /\ nxt.host_enable \in BOOLEAN
  BY DEF TypeOK, KernelTypeOK, Signals
<1>5. ASSUME HostAway, tb_pc \in {"attach", "power", "bulk_out"}
      PROVE  \/ HostAway'
             \/ tb_pc = "bulk_out" /\ HostOn' /\ Enumerating'
  <2>1. /\ host_pc = "disabled" /\ timer[Host] = 0 /\ host_ok = TRUE
        /\ sig.host_enable = FALSE
    BY <1>2, <1>5 DEF HostAway, HostAsleep, Host
  <2>2. CASE nxt.host_enable = FALSE
    BY <1>1, <1>2, <2>1, <2>2 DEF HostAway, HostAsleep, HostMainWoken, Host
  <2>3. CASE nxt.host_enable = TRUE
    <3>1. tb_pc = "bulk_out"
      BY <1>5, <2>3 DEF EnableInv
    <3>2. Switch!SwitchOver
      BY <1>3, <2>1, <2>3, <3>1 DEF EnableInv
    <3>3. HostOn'
      BY <1>1, <1>3, <2>3, <3>1, <3>2 DEF HostOn
    <3>4. Host \in ready'
      BY <1>2, <2>1, <2>3 DEF HostMainWoken
    <3>5. Remaining' = EnumerationTime
      BY <1>1, <2>1 DEF Remaining
    <3>6. timer'[Host] + Remaining' < tb_wait'
      BY <1>1, <1>5, <2>1, <3>1, <3>5, AwayEarly, EnumerationTimes DEF ScheduleInv
    <3> QED
      BY <1>1, <2>1, <3>1, <3>3, <3>4, <3>6 DEF Enumerating
  <2> QED
    BY <1>4, <2>2, <2>3
<1>6. ASSUME Enumerating PROVE Enumerating'
  <2>1. Remaining' = Remaining
    BY <1>1 DEF Remaining
  <2> QED
    BY <1>1, <1>2, <1>6, <2>1 DEF Enumerating
<1>7. HostRests /\ ~Rung => HostRests'
  BY <1>1, <1>2 DEF HostRests, HostMainWoken, Rung
<1>8. \A dir, data : HostHas(dir, data) => HostHas(dir, data)'
  BY <1>1, <1>2 DEF HostHas, HostMainWoken, Rung
<1>9. HostRan => HostRan'
  BY <1>1, <1>2, <1>7 DEF HostRan
<1>10. NothingQueued => NothingQueued'
  BY <1>1, <1>2 DEF NothingQueued
<1> HIDE DEF HostHas
<1>11. CASE tb_pc \in {"attach", "power"}
  BY <1>5, <1>10, <1>11 DEF HostInv
<1>12. CASE tb_pc = "bulk_out"
  BY <1>1, <1>3, <1>5, <1>6, <1>7, <1>10, <1>12 DEF HostInv, NothingQueued, HostOn
<1>13. CASE tb_pc \in {"bulk_in", "verify"}
  BY <1>1, <1>3, <1>8, <1>9, <1>13 DEF HostInv, HostOn
<1>14. CASE tb_pc \notin {"attach", "power", "bulk_out", "bulk_in", "verify"}
  BY <1>7, <1>10, <1>14 DEF HostInv, NothingQueued
<1> QED
  BY <1>11, <1>12, <1>13, <1>14

\* It is kept as time advances.
LEMMA HostInvTick ==
    ASSUME TypeOK, ScheduleInv, HostInv, Tick, tb_pc' = tb_pc,
           tb_wait > 0, tb_wait' = tb_wait - 1,
           want = "HOST" /\ HostOn => HostOn'
    PROVE  HostInv'
<1>1. /\ ready = {} /\ nxt = sig /\ notified = {}
      /\ UNCHANGED <<sig, nxt, notified, host_pc, host_request, host_ok, m_dev,
                     m_transfer_ring, m_rx_buf, m_loopback_buf>>
  BY DEF Tick, AdvanceTime, UpdatePending, controllerVars, hostVars, peerVars
<1>2. /\ timer[Host] \in Nat /\ tb_wait \in Nat
      /\ timer'[Host] = IF timer[Host] = 0 THEN 0 ELSE timer[Host] - 1
      /\ Host \in ready' <=> timer[Host] = 1
  BY DEF Tick, AdvanceTime, TypeOK, KernelTypeOK, ScheduleInv, Host, Thread, Process
<1>3. ~Rung /\ ~Rung' /\ Host \notin ready
  BY <1>1 DEF Rung
<1>4. tb_pc \in {"bulk_out", "bulk_in", "verify"} => want = "HOST"
  BY DEF ScheduleInv, Called
<1>5. HostAway => HostAway'
  BY <1>1, <1>2, <1>3 DEF HostAway, HostAsleep, Host
<1>6. ASSUME Enumerating PROVE Enumerating'
  <2>1. Remaining' = Remaining /\ Remaining \in Nat
    BY <1>1, <1>6, RemainingType DEF Remaining
  <2>2. timer[Host] > 0 /\ timer[Host] + Remaining < tb_wait
    BY <1>2, <1>3, <1>6 DEF Enumerating
  <2>3. timer'[Host] + Remaining' < tb_wait'
    BY <1>2, <2>1, <2>2
  <2>4. Host \in ready' \/ timer'[Host] > 0
    BY <1>2, <2>2
  <2> QED
    BY <1>1, <1>6, <2>3, <2>4 DEF Enumerating
<1>7. HostRests => HostRests'
  BY <1>1, <1>2 DEF HostRests
<1>8. \A dir, data : ~HostHas(dir, data)
  BY <1>3 DEF HostHas
<1>9. ASSUME HostRan PROVE HostRan'
  <2>1. CASE HostRests
    BY <1>1, <1>3, <1>7, <1>9, <2>1 DEF HostRan
  <2>2. CASE ~HostRests
    BY <1>1, <1>2, <1>3, <1>9, <2>2 DEF HostRan
  <2> QED
    BY <2>1, <2>2
<1>10. NothingQueued => NothingQueued'
  BY <1>1, <1>3 DEF NothingQueued
<1>11. CASE tb_pc \in {"attach", "power"}
  BY <1>5, <1>10, <1>11 DEF HostInv
<1>12. CASE tb_pc = "bulk_out"
  BY <1>1, <1>4, <1>5, <1>6, <1>7, <1>10, <1>12 DEF HostInv
<1>13. CASE tb_pc \in {"bulk_in", "verify"}
  BY <1>1, <1>4, <1>8, <1>9, <1>13 DEF HostInv
<1>14. CASE tb_pc \notin {"attach", "power", "bulk_out", "bulk_in", "verify"}
  BY <1>7, <1>10, <1>14 DEF HostInv
<1> QED
  BY <1>11, <1>12, <1>13, <1>14

\* And by run_scenarios itself, which has waited long enough.
LEMMA HostInvRun ==
    ASSUME SettleRole > SettleTime + EnumerationTime,
           TypeOK, ScheduleInv, PacedInv, EnableInv, EnableInv', HostInv, RunScenarios,
           want = "HOST" /\ want' = want /\ HostOn => HostOn'
    PROVE  HostInv'
<1>1. tb_wait = 0 /\ EnumerationTime \in Nat /\ ~(tb_wait > EnumerationTime)
  BY RunOrder, EnumerationTimes
<1>2. timer[Host] \in Nat
  BY DEF TypeOK, KernelTypeOK, Host, Thread, Process
<1>3. ~Enumerating
  <2> SUFFICES ASSUME Enumerating PROVE FALSE
    OBVIOUS
  <2>1. Remaining \in Nat
    BY RemainingType
  <2>2. timer[Host] + Remaining < tb_wait
    BY DEF Enumerating
  <2> QED
    BY <1>1, <1>2, <2>1, <2>2
<1>4. HostRan => HostRests
  BY <1>1, <1>2 DEF HostRan
<1>5. \A dir, data : ~HostHas(dir, data)
  BY <1>1 DEF HostHas
<1>6. ASSUME tb_pc \notin {"bulk_out", "bulk_in"} PROVE HostLeft
  <2>1. ~BulkOut /\ ~BulkIn
    BY <1>6 DEF BulkOut, BulkIn, Step
  <2> QED
    BY <2>1, RunWrites, HostBystanders
<1>7. ASSUME HostLeft
      PROVE  /\ HostRests /\ NothingQueued => HostRests' /\ NothingQueued'
             /\ HostAway /\ (nxt'.host_enable => tb_wait' > EnumerationTime)
                => HostAway'
             /\ NothingQueued => NothingQueued'
  BY <1>7 DEF HostLeft, hostVars, peerVars, HostRests, NothingQueued, HostAway,
     HostAsleep, Host
<1>8. CASE AttachDevice
  <2>1. HostLeft /\ tb_pc = "attach" /\ tb_pc' = "power"
    BY <1>6, <1>8 DEF AttachDevice, Step
  <2>2. nxt'.host_enable = FALSE
    BY <2>1 DEF EnableInv
  <2> QED
    BY <1>7, <2>1, <2>2 DEF HostInv
<1>9. CASE PowerDevice
  <2>1. HostLeft /\ tb_pc = "power" /\ tb_pc' = "bulk_out" /\ tb_wait' = SettleRole
    BY <1>6, <1>9 DEF PowerDevice, Step
  <2>2. tb_wait' > EnumerationTime
    BY <1>1, <2>1
  <2> QED
    BY <1>7, <2>1, <2>2 DEF HostInv
<1>10. ASSUME NEW dir, NEW data, QueueTransfer(dir, data), HostRests, NothingQueued,
              tb_wait' = RunBulk
       PROVE  HostHas(dir, data)' /\ UNCHANGED <<m_dev, m_loopback_buf, m_rx_buf, want>>
  <2>1. /\ m_transfer_ring' = <<[dir |-> dir, addr |-> m_dev.addr, data |-> data]>>
        /\ UNCHANGED <<ready, timer, host_pc, m_dev, m_rx_buf, m_loopback_buf, want>>
        /\ Rung'
    BY <1>10 DEF QueueTransfer, Enqueue, EnqueueTrb, NothingQueued, peerVars, Rung
  <2>2. Len(m_transfer_ring') = 1
        /\ Head(m_transfer_ring') = [dir |-> dir, addr |-> m_dev.addr, data |-> data]
    BY <2>1
  <2> QED
    BY <1>10, <2>1, <2>2 DEF HostRests, HostHas
<1>11. CASE BulkOut
  <2>1. /\ QueueTransfer("OUT", TxData) /\ tb_pc = "bulk_out" /\ tb_pc' = "bulk_in"
        /\ tb_wait' = RunBulk /\ want = "HOST"
    BY <1>11, RunMayWrite DEF BulkOut, Step, ScheduleInv, Called
  <2>2. HostOn /\ HostRests /\ m_dev.enumerated /\ NothingQueued
    BY <1>1, <1>3, <2>1, AwayEarly DEF HostInv
  <2>3. HostHas("OUT", TxData)' /\ UNCHANGED <<m_dev, want>>
    BY <1>10, <2>1, <2>2
  <2> QED
    BY <2>1, <2>2, <2>3 DEF HostInv
<1>12. CASE BulkIn
  <2>1. /\ QueueTransfer("IN", NoData) /\ tb_pc = "bulk_in" /\ tb_pc' = "verify"
        /\ tb_wait' = RunBulk /\ want = "HOST"
    BY <1>12, RunMayWrite DEF BulkIn, Step, ScheduleInv, Called
  <2>2. /\ HostOn /\ HostRests /\ m_dev.enumerated /\ NothingQueued
        /\ m_loopback_buf = TxData
    BY <1>4, <1>5, <2>1 DEF HostInv, HostRan, NothingQueued
  <2>3. HostHas("IN", NoData)' /\ UNCHANGED <<m_dev, m_loopback_buf, want>>
    BY <1>10, <2>1, <2>2
  <2> QED
    BY <2>1, <2>2, <2>3 DEF HostInv
<1>13. CASE FlipToDevice
  <2>1. HostLeft /\ tb_pc = "verify" /\ tb_pc' = "request"
    BY <1>6, <1>13 DEF FlipToDevice, Step
  <2>2. HostRests /\ NothingQueued
    BY <1>4, <1>5, <2>1 DEF HostInv, HostRan, NothingQueued
  <2> QED
    BY <1>7, <2>1, <2>2 DEF HostInv
<1>14. CASE RequestDevice \/ ReadStatus \/ ClearAndStop
  <2>1. /\ HostLeft /\ tb_pc \in {"request", "readback", "clear"}
        /\ tb_pc' \in {"readback", "clear", "stop"}
    BY <1>6, <1>14 DEF RequestDevice, ReadStatus, ClearAndStop, Step
  <2> QED
    BY <1>7, <2>1 DEF HostInv
<1> QED
  BY <1>8, <1>9, <1>11, <1>12, <1>13, <1>14 DEF RunScenarios

LEMMA HostInvStep ==
    ASSUME MinGap > 0, RoleGap >= PulseTime, RoleGap >= SettleTime, PeerFaults = {},
           SettleRole > SettleTime + EnumerationTime, RunBulk > XferPulseTime,
           TypeOK, SwitchState, [Switch!Next]_(Switch!vars),
           ScheduleInv, PacedInv, EnableInv, EnableInv', HostInv,
           [ScenarioNext]_scenarioVars
    PROVE  HostInv'
<1>1. [Next]_vars
  BY RunStep
<1>2. want = "HOST" /\ want' = want /\ Switch!SwitchOver =>
          Switch!SwitchOver' /\ (HostOn => HostOn')
  BY <1>1, HostOnStays
<1>3. CASE RunScenarios
  BY <1>2, <1>3, HostInvRun DEF HostOn
<1>5. CASE ScenarioRun
  <2>1. UNCHANGED <<tb_pc, tb_wait>> /\ want' = want
    BY <1>5 DEF ScenarioRun, RunProcess, ghosts
  <2>2. CASE HostProcess
    BY <1>2, <2>1, <2>2, HostInvProcess DEF HostOn
  <2>3. CASE ~HostProcess
    <3>1. \/ ControlProcess /\ UNCHANGED controllerVars
          \/ Loopback /\ UNCHANGED <<hostVars, peerVars>>
      BY <1>5, <2>3 DEF ScenarioRun, RunProcess, ControlProcess
    <3> QED
      BY <1>2, <2>1, <3>1, HostBystanders, HostInvFrame DEF HostOn
  <2> QED
    BY <2>2, <2>3
<1>6. CASE ScenarioUpdate
  BY <1>2, <1>6, HostInvUpdate DEF ScenarioUpdate, Update
<1>7. CASE LastUpdate
  <2>1. /\ tb_pc = "stop" /\ tb_pc' = "stopped" /\ tb_wait' = tb_wait
        /\ Update \/ UNCHANGED vars
    BY <1>7 DEF LastUpdate
  <2>2. CASE Update
    BY <1>2, <2>1, <2>2, HostInvUpdate DEF Update
  <2>3. CASE UNCHANGED vars
    BY <2>1, <2>3 DEF HostInv, HostRests, NothingQueued, Rung, vars, kernelVars,
       controllerVars, hostVars
  <2> QED
    BY <2>1, <2>2, <2>3
<1>8. CASE ScenarioTick
  BY <1>2, <1>8, HostInvTick DEF ScenarioTick, Tick, HostOn
<1>9. CASE UNCHANGED scenarioVars
  <2>1. UNCHANGED vars /\ UNCHANGED <<tb_pc, tb_wait>> /\ want' = want
    BY <1>9 DEF scenarioVars, vars, ghosts
  <2> QED
    BY <1>2, <2>1, HostBystanders, HostInvFrame DEF HostOn
<1> QED
  BY <1>3, <1>5, <1>6, <1>7, <1>8, <1>9 DEF ScenarioNext

LEMMA HostInvariant ==
    ASSUME MinGap > 0, RoleGap >= PulseTime, RoleGap >= SettleTime, PeerFaults = {},
           SettleRole > SettleTime + EnumerationTime, RunBulk > XferPulseTime
    PROVE  ScenarioSpec => [](EnableInv /\ HostInv)
<1>1. ScenarioInit => HostInv
  BY DEF ScenarioInit, Init, KernelInit, HostInit, InitSignals, HostInv, HostAway,
     HostAsleep, NothingQueued, Rung, Host, Process, Thread
<1>2. TypeOK /\ SwitchState /\ ScheduleInv /\ RoleInv => EnableInv
  BY EnableFacts
<1>3. /\ ReductionInv /\ ReductionInv' /\ SwitchState /\ RunInv
      /\ EnableInv /\ EnableInv' /\ HostInv /\ [ScenarioNext]_scenarioVars
      => HostInv'
  <2> SUFFICES ASSUME ReductionInv, ReductionInv', SwitchState, RunInv, EnableInv,
                      EnableInv', HostInv, [ScenarioNext]_scenarioVars
               PROVE  HostInv'
    OBVIOUS
  <2>1. TypeOK /\ ScheduleInv /\ PacedInv
    BY DEF RunInv
  <2>2. [Switch!Next]_(Switch!vars)
    BY <2>1, RunStep, ReductionStep, SameCore
  <2> QED
    BY <2>1, <2>2, HostInvStep
<1>4. ScenarioSpec => Spec
  BY RunIsTestbench DEF IsTestbench
<1>5. RunInv => TypeOK /\ ScheduleInv
  BY DEF RunInv
<1> QED
  BY <1>1, <1>2, <1>3, <1>4, <1>5, ReductionInvariant, SwitchStates, RunInvariant,
     RoleInvariant, PTL DEF ScenarioSpec

\* "loopback passed": a peer without faults is enumerated when the first transfer
\* is queued, and has got and returned the data when the testbench looks, if the
\* testbench allows SettleTime and an enumeration for the one and a pulse of
\* transfer_done for each transfer (run_scenarios; host_main_process).
THEOREM LoopbackPasses ==
    ASSUME MinGap > 0, RoleGap >= PulseTime, RoleGap >= SettleTime, PeerFaults = {},
           SettleRole > SettleTime + EnumerationTime, RunBulk > XferPulseTime
    PROVE  ScenarioSpec => []LoopbackPassed
<1>1. HostInv => LoopbackPassed
  <2> SUFFICES ASSUME HostInv, tb_pc = "verify", tb_wait = 0
               PROVE  m_dev.enumerated /\ m_rx_buf = TxData
    BY DEF LoopbackPassed
  <2>1. ~HostHas("IN", NoData)
    BY DEF HostHas
  <2> QED
    BY <2>1 DEF HostInv
<1> QED
  BY <1>1, HostInvariant, PTL

-----------------------------------------------------------------------------
(***************************************************************************)
(* The end.  Long before the interrupts are cleared the DRD has come to    *)
(* rest: no process waits for time, so that nothing comes after them.      *)
(***************************************************************************)
Loop == "loopback_process"

\* The device gets no packet, and its loopback thread waits in vain.
LoopInv ==
    /\ loop_pc = "start" \/ (loop_pc = "wait" /\ Loop \notin ready)
    /\ loop_pc = "start" => Loop \in ready
    /\ timer[Loop] = 0
    /\ "m_out_ep_event" \notin notified

\* The two methods never wait for time, and the role manager is out of its pulse
\* when it gets the request for a role that it has taken already.
MethodInv ==
    /\ timer["forward_inputs"] = 0 /\ timer["interrupt_collector"] = 0
    /\ tb_pc \in {"readback", "clear", "stop"} => timer["role_detection_process"] = 0

\* Long before the interrupts are cleared the DRD has come to rest.
RestInv ==
    /\ tb_pc = "clear" /\ tb_wait < SettleRole =>
          ready = {} /\ nxt = sig /\ notified = {}
    /\ tb_pc = "stop" => ready = {} /\ m_intr_status = {} /\ nxt.irq = FALSE
    /\ tb_pc = "stopped" => m_intr_status = {} /\ sig.irq = FALSE

\* run_scenarios leaves the processes, their timers and the update phase to the
\* scheduler, and does not notify the loopback thread.
LEMMA RunLeaves ==
    ASSUME TypeOK, RunScenarios
    PROVE  /\ UNCHANGED <<ready, loop_pc>>
           /\ \A p \in Process : timer'[p] = timer[p]
           /\ "m_out_ep_event" \in notified' <=> "m_out_ep_event" \in notified
<1>1. Testbench \notin Process /\ Process \subseteq Thread /\ timer \in [Thread -> Nat]
  BY DEF Testbench, Thread, Process, TypeOK, KernelTypeOK
<1>2. CASE AttachDevice \/ PowerDevice \/ FlipToDevice \/ RequestDevice
  BY <1>1, <1>2 DEF AttachDevice, PowerDevice, FlipToDevice, RequestDevice, Drive,
     DriveInputs, AskForRole, WriteRoleCtrl, RequestRole, CallFor,
     controllerVars, deviceVars
<1>3. CASE BulkOut \/ BulkIn
  BY <1>3 DEF BulkOut, BulkIn, Enqueue, EnqueueTrb, deviceVars
<1>4. CASE ReadStatus \/ ClearAndStop
  BY <1>4 DEF ReadStatus, ClearAndStop, ClearInterrupts, WriteIntrStatus, vars,
     kernelVars, controllerVars, deviceVars
<1> QED
  BY <1>2, <1>3, <1>4 DEF RunScenarios

\* The steps of the test program, by what they do to the timers.
LEMMA ScenarioMoves ==
    ASSUME [ScenarioNext]_scenarioVars
    PROVE  \/ RunScenarios
           \/ RunProcess /\ UNCHANGED <<tb_pc, tb_wait>>
           \/ Update /\ (EvaluationOver \/ tb_pc = "stop")
           \/ Tick /\ tb_pc' = tb_pc
           \/ UNCHANGED vars
BY DEF ScenarioNext, ScenarioRun, ScenarioUpdate, LastUpdate, ScenarioTick, scenarioVars

\* The host sends to its peer while it has the role, so that no answer reaches
\* the device controller.
LEMMA HostKeepsToItself ==
    ASSUME TypeOK, PeerFaults = {}, ScheduleInv, EnableInv, HostInv, HostProcess
    PROVE  UNCHANGED <<deviceVars, notified>>
<1>1. ~HostRests
  BY HostRunsItself DEF HostRests
<1>2. CASE HostAway
  BY <1>2, HostOnlyStarts DEF HostAway
<1>3. CASE HostOn /\ tb_pc \in {"bulk_out", "bulk_in", "verify"}
  <2>1. sig.role = "HOST"
    BY <1>3 DEF HostOn, EnableInv, ScheduleInv, Called
  <2>2. \A p : Recipient(p) # "DEVICE"
    BY <2>1 DEF Recipient
  <2> QED
    BY <2>2, HostTalks DEF DeviceSees
<1> QED
  BY <1>1, <1>2, <1>3 DEF HostInv

LEMMA LoopInvStep ==
    ASSUME PeerFaults = {}, TypeOK, ScheduleInv, EnableInv, HostInv, LoopInv,
           [ScenarioNext]_scenarioVars
    PROVE  LoopInv'
<1> USE DEF LoopInv
<1>1. timer \in [Thread -> Nat] /\ Loop \in Process /\ Process \subseteq Thread
  BY DEF TypeOK, KernelTypeOK, Loop, Process, Thread
<1>2. CASE RunScenarios
  BY <1>1, <1>2, RunLeaves
<1>3. CASE RunProcess
  <2>1. CASE HostProcess
    <3>1. UNCHANGED <<loop_pc, notified>>
      BY <2>1, HostKeepsToItself DEF deviceVars
    <3>2. \E d \in Nat : Wait(Host, d)
      BY <2>1, HostTimesAssumption DEF HostProcess, HostMain, HostStart, BeginEnumeration,
         SendStatus, ContinueEnumeration, SettleAddress, ReadConfiguration,
         FinishEnumeration, LeaveRing, AwaitTrb, RunTrb, SendSetup, HostWaits, Host
    <3> QED
      BY <1>1, <3>1, <3>2 DEF Wait, Host, Loop
  <2>2. CASE Loopback
    BY <1>1, <2>2 DEF Loopback, LoopbackStart, SkipLoopback, CopyToEp1, EndLoopbackPulse,
       LoopbackRuns, LoopbackWaits, Wait, Loop
  <2>3. CASE ControlProcess /\ UNCHANGED controllerVars
    <3>1. timer'[Loop] = timer[Loop] /\ (Loop \in ready' <=> Loop \in ready)
      BY <2>3, ControlWrites, TypeParts DEF Loop
    <3>2. UNCHANGED <<loop_pc, notified>>
      BY <2>3 DEF controllerVars, deviceVars, ControlProcess, RoleDetection,
         RoleDetectionStart, DetectRole, EndRolePulse, ForwardInputs, RoleSwitch,
         RoleSwitchStart, DisableControllers, EnableController, InterruptCollector
    <3> QED
      BY <3>1, <3>2
  <2> QED
    BY <1>3, <2>1, <2>2, <2>3 DEF RunProcess, ControlProcess
<1>4. CASE Update
  BY <1>1, <1>4 DEF Update, DeltaCycle, Woken, LoopbackWoken, Loop, controllerVars,
     deviceVars
<1>5. CASE Tick
  BY <1>1, <1>5 DEF Tick, AdvanceTime, Loop, controllerVars, deviceVars
<1>6. CASE UNCHANGED vars
  BY <1>6 DEF vars, kernelVars, controllerVars, deviceVars
<1> QED
  BY <1>2, <1>3, <1>4, <1>5, <1>6, ScenarioMoves

LEMMA MethodInvStep ==
    ASSUME TypeOK, SwitchState, [Switch!Next]_(Switch!vars), ScheduleInv, PacedInv,
           RoleInv, MethodInv, [ScenarioNext]_scenarioVars
    PROVE  MethodInv'
<1> DEFINE detector == "role_detection_process"
           late(pc) == pc \in {"readback", "clear", "stop"}
<1>1. timer \in [Thread -> Nat] /\ Process \subseteq Thread
      /\ {"forward_inputs", "interrupt_collector", detector} \subseteq Process
  BY DEF TypeOK, KernelTypeOK, Process, Thread
<1>2. CASE RunScenarios
  <2>1. ASSUME late(tb_pc'), ~late(tb_pc)
        PROVE  timer[detector] = 0
    <3>1. RequestDevice
      BY <1>2, <2>1, RunOrder DEF RunScenarios, AttachDevice, PowerDevice, BulkOut,
         BulkIn, FlipToDevice, ReadStatus, ClearAndStop, Step
    <3>2. timer[Testbench] = 0
      BY <3>1, RunMayWrite DEF ForceRole
    <3>3. CoreTimer[Switch!Testbench] = timer[Testbench]
          /\ CoreTimer[Switch!Detector] = timer[detector]
      BY CoreNames DEF CoreTimer, Switch!Testbench, Testbench, Switch!Detector, Thread,
         Process
    <3>4. timer[detector] <= 0
      BY <3>2, <3>3 DEF SwitchState, Switch!StimulusInv, Switch!DetectorInv, Switch!Gap
    <3> QED
      BY <1>1, <3>4
  <2> QED
    BY <1>1, <1>2, <2>1, RunLeaves DEF MethodInv
<1>3. CASE RunProcess /\ UNCHANGED <<tb_pc, tb_wait>>
  <2>1. late(tb_pc) => m_role' = m_role
    <3> SUFFICES ASSUME late(tb_pc) PROVE m_role' = m_role
      OBVIOUS
    <3>1. want' = want
      BY <1>3 DEF RunProcess, ghosts
    <3>2. m_role = want
      BY DEF RoleInv, Ending, Switch!SwitchOver, Switch!SwitchPaused
    <3> QED
      BY <3>1, <3>2, SwitchAssumptions, Switch!RoleStays DEF SwitchState
  <2>2. PICK p \in Process, d \in Nat :
            /\ p \in ready /\ Wait(p, d)
            /\ p \in {"forward_inputs", "interrupt_collector"} => d = 0
            /\ p = "role_detection_process" => d = 0 \/ m_role' # m_role
    BY <1>3, ProcessWaits
  <2>3. timer' = [timer EXCEPT ![p] = d]
    BY <2>2 DEF Wait
  <2> QED
    BY <1>1, <1>3, <2>1, <2>2, <2>3 DEF MethodInv
<1>4. CASE Update /\ (EvaluationOver \/ tb_pc = "stop")
  <2>1. timer' = timer
    BY <1>4 DEF Update, DeltaCycle
  <2>2. late(tb_pc') => late(tb_pc)
    BY <1>4, OtherSteps, RunOrder DEF EvaluationOver, ScheduleInv
  <2> QED
    BY <2>1, <2>2 DEF MethodInv
<1>5. CASE Tick /\ tb_pc' = tb_pc
  BY <1>1, <1>5 DEF MethodInv, Tick, AdvanceTime
<1>6. CASE UNCHANGED vars
  <2>1. timer' = timer
    BY <1>6 DEF vars, kernelVars
  <2>2. CASE RunScenarios
    BY <1>2, <2>2
  <2>3. CASE ~RunScenarios
    BY <2>1, <2>3, OtherSteps DEF MethodInv
  <2> QED
    BY <2>2, <2>3
<1> QED
  BY <1>2, <1>3, <1>4, <1>5, <1>6, ScenarioMoves

\* At the end nobody waits for time.
LEMMA AtRest ==
    ASSUME TypeOK, SwitchState, RoleInv, HostInv, LoopInv, MethodInv, tb_pc = "clear"
    PROVE  \A p \in Process : timer[p] = 0
<1>1. timer["role_switch_monitor"] = 0
  <2>1. CoreTimer[Switch!Monitor] = timer["role_switch_monitor"]
    BY CoreNames DEF CoreTimer, Switch!Monitor, Thread, Process
  <2>2. sw_pc = "wait"
    BY DEF RoleInv, Switch!SwitchOver, Switch!Served
  <2> QED
    BY <2>1, <2>2 DEF SwitchState, Switch!SwitchInv, Switch!MonitorInv
<1>2. timer[Host] = 0
  BY DEF HostInv, HostRests
<1> QED
  BY <1>1, <1>2 DEF LoopInv, MethodInv, Process, Host, Loop

LEMMA RestInvStep ==
    ASSUME TypeOK, SwitchState, ScheduleInv, RoleInv, HostInv, LoopInv, MethodInv,
           RestInv, [ScenarioNext]_scenarioVars
    PROVE  RestInv'
<1>1. /\ tb_wait \in Nat /\ SettleRole \in Nat \ {0}
      /\ tb_pc \in {"stop", "stopped"} => tb_wait = 0
  BY DEF ScheduleInv
<1>2. ASSUME ready = {} PROVE ~RunProcess
  BY <1>2, ProcessWaits
<1>3. CASE RunScenarios
  <2>1. CASE ClearAndStop
    <3>1. /\ tb_pc = "clear" /\ tb_pc' = "stop" /\ tb_wait = 0
          /\ m_intr_status' = m_intr_status \ IntrBit
          /\ nxt' = [nxt EXCEPT !.irq = @ /\ m_intr_status \ IntrBit # {}]
          /\ ready' = ready
      BY <2>1 DEF ClearAndStop, Step, ClearInterrupts, WriteIntrStatus
    <3>2. m_intr_status \ IntrBit = {} /\ nxt \in Signals
      BY DEF TypeOK, DrdControllerTypeOK, KernelTypeOK
    <3>3. nxt'.irq = FALSE
      BY <3>1, <3>2 DEF Signals
    <3> QED
      BY <1>1, <3>1, <3>2, <3>3 DEF RestInv
  <2>2. CASE ~ClearAndStop
    <3>1. tb_pc' # "stop" /\ tb_pc' # "stopped" /\ (tb_pc' = "clear" => tb_wait' = SettleRole)
      BY <1>3, <2>2, RunOrder DEF RunScenarios, AttachDevice, PowerDevice, BulkOut, BulkIn,
         FlipToDevice, RequestDevice, ReadStatus, Step
    <3> QED
      BY <1>1, <3>1 DEF RestInv
  <2> QED
    BY <2>1, <2>2
<1>4. CASE ScenarioRun
  BY <1>1, <1>2, <1>4 DEF RestInv, ScenarioRun
<1>5. CASE ScenarioUpdate
  BY <1>1, <1>5 DEF RestInv, ScenarioUpdate, EvaluationOver, Update, DeltaCycle,
     UpdatePending
<1>6. CASE LastUpdate
  <2>1. tb_pc = "stop" /\ tb_pc' = "stopped"
    BY <1>6 DEF LastUpdate
  <2>2. m_intr_status' = m_intr_status /\ sig' = nxt
    BY <1>6 DEF LastUpdate, Update, DeltaCycle, UpdatePending, drdControllerVars, vars,
       kernelVars
  <2> QED
    BY <2>1, <2>2 DEF RestInv
<1>7. CASE ScenarioTick
  <2>1. /\ ready = {} /\ ~UpdatePending /\ UNCHANGED <<sig, nxt, notified, tb_pc>>
        /\ ready' = {p \in Process : timer[p] = 1} /\ tb_wait > 0
    BY <1>7 DEF ScenarioTick, Tick, AdvanceTime
  <2>2. tb_pc = "clear" => ready' = {}
    BY <2>1, AtRest
  <2> QED
    BY <1>1, <2>1, <2>2 DEF RestInv, UpdatePending
<1>8. CASE UNCHANGED scenarioVars
  BY <1>8 DEF RestInv, scenarioVars, vars, kernelVars, drdControllerVars
<1> QED
  BY <1>3, <1>4, <1>5, <1>6, <1>7, <1>8 DEF ScenarioNext

\* When the simulation stops, INTR_STATUS is empty and irq is low: the DRD is at
\* rest when the testbench clears the interrupts, so that none comes after
\* (run_scenarios, "clear interrupts"; raise_irq).
THEOREM InterruptsStayCleared ==
    ASSUME MinGap > 0, RoleGap >= PulseTime, RoleGap >= SettleTime, PeerFaults = {},
           SettleRole > SettleTime + EnumerationTime, RunBulk > XferPulseTime
    PROVE  ScenarioSpec => []InterruptsCleared
<1>1. ScenarioInit => LoopInv /\ MethodInv /\ RestInv
  BY DEF ScenarioInit, Init, KernelInit, DeviceInit, LoopInv, MethodInv, RestInv, Loop,
     Process, Thread
<1>2. /\ ReductionInv /\ ReductionInv' /\ SwitchState /\ RunInv /\ RoleInv
      /\ EnableInv /\ HostInv /\ LoopInv /\ MethodInv /\ RestInv
      /\ [ScenarioNext]_scenarioVars
      => (LoopInv /\ MethodInv /\ RestInv)'
  <2> SUFFICES ASSUME ReductionInv, ReductionInv', SwitchState, RunInv, RoleInv,
                      EnableInv, HostInv, LoopInv, MethodInv, RestInv,
                      [ScenarioNext]_scenarioVars
               PROVE  LoopInv' /\ MethodInv' /\ RestInv'
    OBVIOUS
  <2>1. TypeOK /\ ScheduleInv /\ PacedInv
    BY DEF RunInv
  <2>2. [Switch!Next]_(Switch!vars)
    BY <2>1, RunStep, ReductionStep, SameCore
  <2> QED
    BY <2>1, <2>2, LoopInvStep, MethodInvStep, RestInvStep
<1>3. ScenarioSpec => Spec
  BY RunIsTestbench DEF IsTestbench
<1>4. RestInv => InterruptsCleared
  BY DEF RestInv, InterruptsCleared
<1> QED
  BY <1>1, <1>2, <1>3, <1>4, ReductionInvariant, SwitchStates, RunInvariant,
     RoleInvariant, HostInvariant, PTL DEF ScenarioSpec
=============================================================================
