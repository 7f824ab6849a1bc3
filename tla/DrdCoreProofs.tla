--------------------------- MODULE DrdCoreProofs ---------------------------
(***************************************************************************)
(* Theorems about DrdCore, for every value of its constants.               *)
(***************************************************************************)
EXTENDS DrdCore, StimuliProofs

USE PulseTimeAssumption, SettleTimeAssumption, PulseTimesAssumption,
    GapAssumption, StimuliAssumption, PulsesAssumption

-----------------------------------------------------------------------------
\* The parts of TypeOK are those of the part shared with the whole DRD.
LEMMA TypeParts == TypeOK <=> ControlTypeOK
BY DEF TypeOK, ControlTypeOK

\* Every variable keeps its type, under any testbench.
THEOREM TypeCorrect == Spec => []TypeOK
<1>1. Init => TypeOK
  <2> {"forward_inputs", "role_detection_process", "role_switch_monitor"}
         \in SUBSET Process
    BY DEF Process
  <2> QED
    BY ControlInitType, TypeParts DEF Init
<1>2. TypeOK /\ [Next]_vars => TypeOK'
  <2> SUFFICES ASSUME TypeOK, [Next]_vars PROVE TypeOK'
    OBVIOUS
  <2> USE ProcessNames DEF TypeOK, ControlTypeOK, StimuliTypeOK
  <2>1. CASE (ControlProcess \/ Stimulate \/ Software) /\ UNCHANGED idle
    BY <2>1, ControlStepType
  <2>2. ASSUME HostPulseEnd \/ NextTransferDone \/ BulkPulseEnd \/ TransferDone
                 \/ EnumerationDone \/ BulkIrq,
               UNCHANGED <<roleManagerVars, drdControllerVars, want, idle>>
        PROVE  TypeOK'
    <3>1. ASSUME HostPulseEnd PROVE  KernelTypeOK'
      <4>1. nxt' \in Signals
        BY <3>1 DEF HostPulseEnd, KernelTypeOK, Signals
      <4> QED
        BY <3>1, <4>1, WaitType DEF HostPulseEnd, KernelTypeOK
    <3>2. ASSUME NextTransferDone PROVE  KernelTypeOK'
      <4>1. nxt' \in Signals
        BY <3>2 DEF NextTransferDone, KernelTypeOK, Signals
      <4> QED
        BY <3>2, <4>1, WaitType DEF NextTransferDone, KernelTypeOK
    <3>3. ASSUME BulkPulseEnd PROVE  KernelTypeOK'
      <4>1. nxt' \in Signals
        BY <3>3 DEF BulkPulseEnd, KernelTypeOK, Signals
      <4> QED
        BY <3>3, <4>1, WaitType DEF BulkPulseEnd, KernelTypeOK
    <3>4. ASSUME TransferDone PROVE  KernelTypeOK'
      <4>1. nxt' \in Signals
        BY <3>4 DEF TransferDone, KernelTypeOK, Signals
      <4> QED
        BY <3>4, <4>1, WaitType DEF TransferDone, KernelTypeOK
    <3>5. ASSUME EnumerationDone PROVE  KernelTypeOK'
      <4>1. nxt' \in Signals
        BY <3>5 DEF EnumerationDone, KernelTypeOK, Signals
      <4> QED
        BY <3>5, <4>1, WaitType DEF EnumerationDone, KernelTypeOK
    <3>6. ASSUME BulkIrq PROVE  KernelTypeOK'
      <4>1. nxt' \in Signals
        BY <3>6 DEF BulkIrq, KernelTypeOK, Signals
      <4> QED
        BY <3>6, <4>1, WaitType DEF BulkIrq, KernelTypeOK
    <3>7. KernelTypeOK'
      BY <2>2, <3>1, <3>2, <3>3, <3>4, <3>5, <3>6
    <3> QED
      BY <2>2, <3>7 DEF RoleManagerTypeOK, DrdControllerTypeOK,
         roleManagerVars, drdControllerVars
  <2>3. CASE Update
    <3>1. Woken \in SUBSET Process
      BY DEF Woken
    <3> QED
      BY <2>3, <3>1, UpdateType DEF Update
  <2>4. CASE Tick
    BY <2>4, TickType DEF Tick
  <2>5. CASE UNCHANGED vars
    BY <2>5, ControlStutterType DEF vars
  <2> QED
    BY <2>1, <2>2, <2>3, <2>4, <2>5
    DEF Next, Environment, StartPulse, RunProcess, ControlProcess, ghosts
<1> QED
  BY <1>1, <1>2, PTL DEF Spec

-----------------------------------------------------------------------------
(***************************************************************************)
(* The role switch.  Why the controllers are never enabled together, and   *)
(* never without a pause, is a fact about role_switch_monitor alone: it is *)
(* the only writer of the two enables and it settles between any two of    *)
(* its decisions.                                                          *)
(***************************************************************************)
Monitor == "role_switch_monitor"

Enabled(signals) == signals.host_enable \/ signals.dev_enable

\* An enable that is high stays high or goes low in the next update phase;
\* the other one does not rise in its place.
NoHandover ==
    /\ ~(sig.host_enable /\ nxt.dev_enable)
    /\ ~(sig.dev_enable /\ nxt.host_enable)

\* Where role_switch_monitor stands, what it has last written and how long it
\* still waits belong together.
MonitorInv ==
    /\ sw_pc = "start" => ~Enabled(sig) /\ ~Enabled(nxt)
    /\ sw_pc = "settle" => ~Enabled(nxt)
    /\ sw_pc = "settle" /\ Monitor \in ready => ~Enabled(sig)
    /\ sw_pc # "settle" => timer[Monitor] = 0
    /\ Monitor \in ready => timer[Monitor] = 0

\* The pause so far and the rest of the wait make up SettleTime, and no enable
\* is about to rise before the pause is over.
PauseInv ==
    /\ sw_pc = "settle" => idle + timer[Monitor] >= SettleTime
    /\ Enabled(nxt) /\ ~Enabled(sig) => idle = SettleTime

SwitchInv == ExclusiveControllers /\ NoHandover /\ MonitorInv /\ PauseInv

\* The other processes and the testbench touch nothing that SwitchInv is about.
SwitchUntouched ==
    /\ sig' = sig
    /\ nxt'.host_enable = nxt.host_enable
    /\ nxt'.dev_enable = nxt.dev_enable
    /\ UNCHANGED <<sw_pc, idle>>
    /\ timer'[Monitor] = timer[Monitor]
    /\ Monitor \in ready' => Monitor \in ready

\* A step that touches none of what SwitchInv is about keeps it.
LEMMA SwitchFrame ==
    ASSUME SwitchInv, SwitchUntouched
    PROVE  SwitchInv'
BY DEF SwitchUntouched, SwitchInv, ExclusiveControllers, NoHandover, MonitorInv,
       PauseInv, Enabled

\* When another process reaches its wait, role_switch_monitor stays as it is.
LEMMA OtherProcess ==
    ASSUME KernelTypeOK, NEW p \in Process \ {Monitor}, NEW d \in Nat, Wait(p, d)
    PROVE  /\ timer'[Monitor] = timer[Monitor]
           /\ Monitor \in ready' => Monitor \in ready
BY DEF KernelTypeOK, Wait, Thread, Process, Monitor

\* Every step of the DRD keeps SwitchInv; its cases are the actions of Next.
LEMMA SwitchInvInductive ==
    ASSUME TypeOK, SwitchInv, [Next]_vars
    PROVE  SwitchInv'
<1> USE ProcessNames DEF TypeOK, StimuliTypeOK
<1>1. ASSUME RoleDetection, UNCHANGED <<drdControllerVars, want, idle>>
      PROVE  SwitchUntouched
  <2>1. PICK d \in Nat : Wait("role_detection_process", d)
    BY <1>1 DEF RoleDetection, RoleDetectionStart, DetectRole, ApplyRole,
                KeepRole, EndRolePulse
  <2>2. timer'[Monitor] = timer[Monitor] /\ (Monitor \in ready' => Monitor \in ready)
    BY <2>1, OtherProcess DEF Monitor
  <2>3. /\ sig' = sig
        /\ nxt'.host_enable = nxt.host_enable
        /\ nxt'.dev_enable = nxt.dev_enable
    BY <1>1 DEF RoleDetection, RoleDetectionStart, DetectRole, ApplyRole,
                KeepRole, EndRolePulse, KernelTypeOK, Signals
  <2> QED
    BY <1>1, <2>2, <2>3 DEF SwitchUntouched, drdControllerVars
<1>2. ASSUME ForwardInputs, UNCHANGED <<want, idle>>
      PROVE  SwitchUntouched
  <2>1. timer'[Monitor] = timer[Monitor] /\ (Monitor \in ready' => Monitor \in ready)
    BY <1>2, OtherProcess DEF ForwardInputs, Monitor
  <2> QED
    BY <1>2, <2>1 DEF ForwardInputs, SwitchUntouched, drdControllerVars,
                      KernelTypeOK, Signals
<1>3. ASSUME RoleSwitchStart, UNCHANGED <<want, idle>>
      PROVE  SwitchInv'
  BY <1>3 DEF RoleSwitchStart, ControllersOff, Wait, SwitchInv,
     ExclusiveControllers, NoHandover,
              MonitorInv, PauseInv, Enabled, Monitor, KernelTypeOK, Signals, Thread
<1>4. ASSUME DisableControllers, UNCHANGED <<want, idle>>
      PROVE  SwitchInv'
  BY <1>4 DEF DisableControllers, ControllersOff, Settle, Wait, SwitchInv,
     ExclusiveControllers,
              NoHandover, MonitorInv, PauseInv, Enabled, Monitor, KernelTypeOK,
              Signals, Thread
<1>5. ASSUME EnableController, UNCHANGED <<want, idle>>
      PROVE  SwitchInv'
  BY <1>5 DEF EnableController, RaiseIrq, Wait, SwitchInv, ExclusiveControllers,
              NoHandover, MonitorInv, PauseInv, Enabled, Monitor, KernelTypeOK,
              Signals, Thread
<1>6. ASSUME InterruptCollector, UNCHANGED <<want, idle>>
      PROVE  SwitchUntouched
  <2>1. timer'[Monitor] = timer[Monitor] /\ (Monitor \in ready' => Monitor \in ready)
    BY <1>6, OtherProcess DEF InterruptCollector, Monitor
  <2>2. nxt'.host_enable = nxt.host_enable /\ nxt'.dev_enable = nxt.dev_enable
    BY <1>6 DEF InterruptCollector, RaiseIrq, KernelTypeOK, Signals
  <2> QED
    BY <1>6, <2>1, <2>2 DEF InterruptCollector, SwitchUntouched
<1>7. ASSUME HostPulseEnd \/ NextTransferDone \/ BulkPulseEnd \/ TransferDone
               \/ EnumerationDone \/ BulkIrq,
             UNCHANGED <<roleManagerVars, drdControllerVars, want, idle>>
      PROVE  SwitchUntouched
  <2>1. PICK p \in {"host_main_process", "loopback_process"}, d \in Nat : Wait(p, d)
    BY <1>7 DEF HostPulseEnd, NextTransferDone, BulkPulseEnd, TransferDone,
                EnumerationDone, BulkIrq
  <2>2. timer'[Monitor] = timer[Monitor] /\ (Monitor \in ready' => Monitor \in ready)
    BY <2>1, OtherProcess DEF Monitor
  <2>3. /\ sig' = sig
        /\ nxt'.host_enable = nxt.host_enable
        /\ nxt'.dev_enable = nxt.dev_enable
    BY <1>7 DEF HostPulseEnd, NextTransferDone, BulkPulseEnd, TransferDone,
                EnumerationDone, BulkIrq, KernelTypeOK, Signals
  <2> QED
    BY <1>7, <2>2, <2>3 DEF SwitchUntouched, drdControllerVars
<1>8. ASSUME Stimulate \/ Software, UNCHANGED idle
      PROVE  SwitchUntouched
  <2>1. timer'[Monitor] = timer[Monitor] /\ UNCHANGED <<sig, ready, sw_pc>>
    BY <1>8 DEF Stimulate, SetInputs, DriveInputs, ForceRole, AskForRole, CallFor,
       WriteRoleCtrl, RequestRole, Software, ClearInterrupts, WriteIntrStatus,
       MaskInterrupts, WriteIntrEnable, drdControllerVars, Monitor, Testbench,
       KernelTypeOK, Thread
  <2>2. nxt'.host_enable = nxt.host_enable /\ nxt'.dev_enable = nxt.dev_enable
    BY <1>8 DEF Stimulate, SetInputs, DriveInputs, ForceRole, AskForRole, WriteRoleCtrl,
       RequestRole, Software, ClearInterrupts, WriteIntrStatus, MaskInterrupts,
       WriteIntrEnable, KernelTypeOK, Signals
  <2> QED
    BY <1>8, <2>1, <2>2 DEF SwitchUntouched
<1>9. CASE Update
  BY <1>9 DEF Update, DeltaCycle, IdleAfterUpdate, Woken, RoleSwitchWoken,
     drdControllerVars,
              SwitchInv, ExclusiveControllers, NoHandover, MonitorInv, PauseInv,
              Enabled, Monitor, KernelTypeOK, Signals
<1>10. CASE Tick
  BY <1>10 DEF Tick, AdvanceTime, IdleAfterTick, UpdatePending,
     drdControllerVars, SwitchInv,
               ExclusiveControllers, NoHandover, MonitorInv, PauseInv, Enabled,
               Monitor, KernelTypeOK, Signals, Thread
<1>11. CASE UNCHANGED vars
  BY <1>11, SwitchFrame DEF vars, kernelVars, ghosts, drdControllerVars,
     SwitchUntouched
<1> QED
  BY <1>1, <1>2, <1>3, <1>4, <1>5, <1>6, <1>7, <1>8, <1>9, <1>10, <1>11,
     SwitchFrame
  DEF Next, Environment, StartPulse, RunProcess, RoleSwitch, roleManagerVars,
      drdControllerVars, ghosts

\* SwitchInv holds in every reachable state.
LEMMA SwitchInvariant == Spec => []SwitchInv
<1>1. Init => SwitchInv
  BY DEF Init, KernelInit, InitSignals, DrdControllerInit, StimuliInit, SwitchInv,
         ExclusiveControllers, NoHandover, MonitorInv, PauseInv, Enabled,
         Monitor, Thread, Process
<1> QED
  BY <1>1, TypeCorrect, SwitchInvInductive, PTL DEF Spec

\* The two controllers are never enabled together, whatever the stimuli and the
\* durations (role_switch_monitor).
THEOREM Exclusive == Spec => []ExclusiveControllers
BY SwitchInvariant, PTL DEF SwitchInv

\* No controller is enabled before both have been disabled for SettleTime
\* (role_switch_monitor, "disable both controllers first").
THEOREM PauseBetweenRoles == Spec => DeadTime
<1> DEFINE Step == ActiveRole' \notin {ActiveRole, "NONE"} =>
                       ActiveRole = "NONE" /\ idle = SettleTime
<1>1. TypeOK /\ SwitchInv /\ [Next]_vars => [Step]_vars
  <2> SUFFICES ASSUME TypeOK, SwitchInv, [Next]_vars PROVE Step
    OBVIOUS
  <2>1. CASE Update
    BY <2>1 DEF Update, DeltaCycle, IdleAfterUpdate, ActiveRole, SwitchInv,
       ExclusiveControllers,
                NoHandover, PauseInv, Enabled, TypeOK, KernelTypeOK, Signals
  <2>2. CASE sig' = sig
    BY <2>2 DEF ActiveRole
  <2>3. Update \/ sig' = sig
    BY DEF Next, Environment, Stimulate, SetInputs, DriveInputs, ForceRole, AskForRole,
       WriteRoleCtrl, RequestRole, Software, ClearInterrupts, WriteIntrStatus,
       MaskInterrupts, WriteIntrEnable, StartPulse, TransferDone, EnumerationDone,
       BulkIrq, RunProcess, RoleDetection, RoleDetectionStart, DetectRole, EndRolePulse,
       ForwardInputs, RoleSwitch, RoleSwitchStart, DisableControllers, EnableController,
       InterruptCollector, HostPulseEnd, NextTransferDone, BulkPulseEnd, Tick,
       AdvanceTime, vars, kernelVars
  <2> QED
    BY <2>1, <2>2, <2>3
<1> QED
  BY <1>1, TypeCorrect, SwitchInvariant, PTL DEF Spec, DeadTime

-----------------------------------------------------------------------------
(***************************************************************************)
(* The interrupt.  irq and m_intr_status are written together, by          *)
(* raise_irq in two processes and by the write of INTR_STATUS.            *)
(***************************************************************************)

\* What a step may do to irq and to the pending interrupts: raise_irq, the
\* clearing of some bits, or nothing.
IrqRaised ==
    \E bits \in SUBSET IntrBit :
        /\ m_intr_status' = m_intr_status \cup bits
        /\ nxt'.irq = (nxt.irq \/ (m_intr_status \cup bits) \cap m_intr_enable # {})

IrqCleared ==
    \E ones \in SUBSET IntrBit :
        /\ m_intr_status' = m_intr_status \ ones
        /\ nxt'.irq = (nxt.irq /\ m_intr_status \ ones # {})

IrqStep ==
    IrqRaised \/ IrqCleared \/ (m_intr_status' = m_intr_status /\ nxt'.irq = nxt.irq)

\* There is no other way to change irq or INTR_STATUS, and INTR_ENABLE only
\* takes the values that software writes.
LEMMA EveryIrqStep ==
    ASSUME TypeOK, [Next]_vars
    PROVE  IrqStep /\ (m_intr_enable' = m_intr_enable \/ m_intr_enable' \in Masks)
<1> USE DEF TypeOK
<1>1. ASSUME RoleDetection, UNCHANGED <<drdControllerVars, want, idle>>
      PROVE  IrqStep /\ m_intr_enable' = m_intr_enable
  <2>1. nxt'.irq = nxt.irq
    BY <1>1 DEF RoleDetection, RoleDetectionStart, DetectRole, ApplyRole,
                KeepRole, EndRolePulse, KernelTypeOK, Signals
  <2> QED
    BY <1>1, <2>1 DEF IrqStep, drdControllerVars
<1>2. ASSUME ForwardInputs \/ RoleSwitchStart \/ DisableControllers
      PROVE  IrqStep /\ m_intr_enable' = m_intr_enable
  <2>1. nxt'.irq = nxt.irq
    BY <1>2 DEF ForwardInputs, RoleSwitchStart, DisableControllers,
       ControllersOff, KernelTypeOK,
                Signals
  <2> QED
    BY <1>2, <2>1 DEF ForwardInputs, RoleSwitchStart, DisableControllers, IrqStep,
                      drdControllerVars
<1>3. ASSUME EnableController
      PROVE  IrqStep /\ m_intr_enable' = m_intr_enable
  <2>1. {"ROLE_CHANGED"} \in SUBSET IntrBit
    BY DEF IntrBit
  <2> QED
    BY <1>3, <2>1 DEF EnableController, RaiseIrq, IrqStep, IrqRaised, KernelTypeOK,
                Signals
<1>4. ASSUME InterruptCollector
      PROVE  IrqStep /\ m_intr_enable' = m_intr_enable
  <2>1. HighSources \in SUBSET IntrBit
    BY DEF HighSources
  <2>2. CASE RaiseIrq(HighSources, nxt)
    BY <1>4, <2>1, <2>2 DEF InterruptCollector, RaiseIrq, IrqStep, IrqRaised,
                            KernelTypeOK, Signals
  <2>3. CASE UNCHANGED <<nxt, m_intr_status>>
    BY <1>4, <2>3 DEF InterruptCollector, IrqStep
  <2> QED
    BY <1>4, <2>2, <2>3 DEF InterruptCollector
<1>5. ASSUME HostPulseEnd \/ NextTransferDone \/ BulkPulseEnd \/ TransferDone
               \/ EnumerationDone \/ BulkIrq,
             UNCHANGED drdControllerVars
      PROVE  IrqStep /\ m_intr_enable' = m_intr_enable
  <2>1. nxt'.irq = nxt.irq
    BY <1>5 DEF HostPulseEnd, NextTransferDone, BulkPulseEnd, TransferDone,
                EnumerationDone, BulkIrq, KernelTypeOK, Signals
  <2> QED
    BY <1>5, <2>1 DEF IrqStep, drdControllerVars
<1>6. ASSUME Stimulate
      PROVE  IrqStep /\ m_intr_enable' = m_intr_enable
  <2>1. nxt'.irq = nxt.irq
    BY <1>6 DEF Stimulate, SetInputs, DriveInputs, ForceRole, AskForRole, WriteRoleCtrl,
       RequestRole, KernelTypeOK, Signals
  <2> QED
    BY <1>6, <2>1 DEF Stimulate, SetInputs, DriveInputs, ForceRole, AskForRole,
       WriteRoleCtrl, IrqStep, drdControllerVars
<1>7. ASSUME NEW ones \in Clears, ClearInterrupts(ones)
      PROVE  IrqStep /\ m_intr_enable' = m_intr_enable
  <2>1. ones \in SUBSET IntrBit
    OBVIOUS
  <2> QED
    BY <1>7, <2>1 DEF ClearInterrupts, WriteIntrStatus, IrqStep, IrqCleared,
                      KernelTypeOK, Signals
<1>8. ASSUME NEW mask \in Masks, MaskInterrupts(mask)
      PROVE  IrqStep /\ m_intr_enable' \in Masks
  BY <1>8 DEF MaskInterrupts, WriteIntrEnable, IrqStep
<1>9. CASE Update \/ Tick \/ UNCHANGED vars
  BY <1>9 DEF Update, DeltaCycle, IdleAfterUpdate, Tick, AdvanceTime, vars,
     kernelVars, IrqStep, drdControllerVars
<1> QED
  BY <1>1, <1>2, <1>3, <1>4, <1>5, <1>6, <1>7, <1>8, <1>9
  DEF Next, Environment, Software, StartPulse, RunProcess, RoleSwitch, ghosts

\* irq is never left asserted after the last pending interrupt was cleared,
\* whatever raises an interrupt in the same evaluation phase (raise_irq and
\* the write of INTR_STATUS in cfg_b_transport).
THEOREM IrqCause == Spec => []IrqHasCause
<1>1. Init => IrqHasCause
  BY DEF Init, KernelInit, InitSignals, IrqHasCause
<1>2. TypeOK /\ IrqHasCause /\ [Next]_vars => IrqHasCause'
  <2> SUFFICES ASSUME TypeOK, IrqHasCause, [Next]_vars PROVE IrqHasCause'
    OBVIOUS
  <2>1. IrqStep
    BY EveryIrqStep
  <2> QED
    BY <2>1 DEF IrqStep, IrqRaised, IrqCleared, IrqHasCause
<1> QED
  BY <1>1, <1>2, TypeCorrect, PTL DEF Spec

\* While software leaves INTR_ENABLE as it is after reset, irq is exactly the
\* level of the pending interrupts.
THEOREM UnmaskedIrqLevel ==
    ASSUME Masks = {}
    PROVE  Spec => []IrqLevel
<1> DEFINE Inv == m_intr_enable = IntrBit /\ IrqLevel
<1>1. Init => Inv
  BY DEF Init, KernelInit, InitSignals, DrdControllerInit, IrqLevel
<1>2. TypeOK /\ Inv /\ [Next]_vars => Inv'
  <2> SUFFICES ASSUME TypeOK, Inv, [Next]_vars PROVE Inv'
    OBVIOUS
  <2>1. IrqStep /\ m_intr_enable' = IntrBit
    BY EveryIrqStep
  <2>2. m_intr_status \subseteq IntrBit /\ (nxt.irq <=> m_intr_status # {})
    BY DEF IrqLevel, TypeOK, DrdControllerTypeOK
  <2>3. m_intr_status' \subseteq IntrBit /\ (nxt'.irq <=> m_intr_status' # {})
    <3>1. CASE IrqRaised
      BY <2>2, <3>1 DEF IrqRaised
    <3>2. CASE IrqCleared
      BY <2>2, <3>2 DEF IrqCleared
    <3> QED
      BY <2>1, <2>2, <3>1, <3>2 DEF IrqStep
  <2> QED
    BY <2>1, <2>3 DEF IrqLevel
<1> QED
  BY <1>1, <1>2, TypeCorrect, PTL DEF Spec

-----------------------------------------------------------------------------
(***************************************************************************)
(* A testbench that leaves some time between any two stimuli, and enough   *)
(* after one that calls for another role: PulseTime for the role manager   *)
(* to follow, and SettleTime as well for the controllers to follow the     *)
(* role.                                                                   *)
(***************************************************************************)
Detector == "role_detection_process"

\* The time left until the testbench may act again.
Gap == timer[Testbench]

Ports(signals) == <<signals.cc, signals.vbus>>

Inner(signals) == <<signals.cc_int, signals.vbus_int>>

-----------------------------------------------------------------------------
(***************************************************************************)
(* The way of one stimulus through the role manager.  All of it happens in *)
(* the instant of the stimulus, delta cycle after delta cycle; at the end  *)
(* of the instant the role is the one that the stimulus calls for.         *)
(***************************************************************************)
NoRequest ==
    /\ ~m_host_requested /\ ~m_device_requested
    /\ "m_role_request_event" \notin notified

InputsSettled ==
    /\ Ports(nxt) = Ports(sig)
    /\ Inner(nxt) = Ports(sig)
    /\ Inner(sig) = Ports(sig)

\* The testbench has written the ports.
Written ==
    /\ NoRequest
    /\ want = Detected(nxt.cc, nxt.vbus)
    /\ Ports(nxt) # Ports(sig)
    /\ Inner(nxt) = Ports(sig)
    /\ Inner(sig) = Ports(sig)

\* They have changed, and forward_inputs is about to copy them.
Forwarding ==
    /\ NoRequest
    /\ want = Detected(nxt.cc, nxt.vbus)
    /\ Ports(nxt) = Ports(sig)
    /\ "forward_inputs" \in ready
    /\ Inner(nxt) = Inner(sig)
    /\ Inner(sig) # Ports(sig)

\* It has written the copies.
Forwarded ==
    /\ NoRequest
    /\ want = Detected(nxt.cc, nxt.vbus)
    /\ Ports(nxt) = Ports(sig)
    /\ Inner(nxt) = Ports(sig)
    /\ Inner(sig) # Ports(sig)

\* Software has requested a role.
Requested ==
    /\ InputsSettled
    /\ "m_role_request_event" \in notified
    /\ want # "NONE"
    /\ m_host_requested = (want = "HOST")
    /\ m_device_requested = (want = "DEVICE")

\* The role manager is about to compute the role.
Detecting ==
    /\ InputsSettled
    /\ "m_role_request_event" \notin notified
    /\ Detector \in ready
    /\ rm_pc = "wait"
    /\ Selected = want

\* The role manager has followed.
Followed ==
    /\ InputsSettled
    /\ NoRequest
    /\ m_role = want

Arriving == Written \/ Forwarding \/ Forwarded \/ Requested

\* Until the role manager runs, it waits for the stimulus: a pulse that is
\* still high ends before the next update phase.
Listening ==
    /\ rm_pc = "wait" => Detector \notin ready
    /\ rm_pc = "pulse" => Detector \in ready

\* A stimulus that calls for another role is given the longer gap.
Granted == Gap > 0 /\ (want # m_role => Gap = RoleGap)

\* What role_detection_process has written and how long it still waits.
DetectorInv ==
    /\ m_role = nxt.role
    /\ rm_pc = "start" => Detector \in ready /\ m_role = "NONE"
    /\ rm_pc # "pulse" => timer[Detector] = 0
    /\ rm_pc = "pulse" =>
          /\ timer[Detector] <= Gap
          /\ Detector \in ready \/ timer[Detector] > 0

StimulusInv ==
    /\ DetectorInv
    /\ \/ Followed /\ (rm_pc = "wait" => Detector \notin ready)
       \/ Arriving /\ Listening /\ Granted
       \/ Detecting /\ Granted

-----------------------------------------------------------------------------
(***************************************************************************)
(* The way of a new role through role_switch_monitor.                      *)
(***************************************************************************)
\* The two enables as they are or are about to be.
Enabling(r) ==
    /\ nxt.host_enable = (r = "HOST")
    /\ nxt.dev_enable = (r = "DEVICE")

RoleSteady ==
    /\ sig.role = nxt.role
    /\ nxt.role_changed => sig.role_changed

ControllersSteady ==
    /\ sig.host_enable = nxt.host_enable
    /\ sig.dev_enable = nxt.dev_enable

\* The controller of the new role is still off.
NotYetEnabled ==
    /\ sig.host_enable => m_role # "HOST"
    /\ sig.dev_enable => m_role # "DEVICE"

\* The role manager has written a new role and raised role_changed.
Raised ==
    /\ sw_pc = "wait" /\ Monitor \notin ready
    /\ Detector \notin ready
    /\ nxt.role_changed /\ ~sig.role_changed
    /\ ControllersSteady /\ NotYetEnabled
    /\ Followed /\ Gap = RoleGap

\* role_switch_monitor is about to disable both controllers.
Told ==
    /\ sw_pc = "wait" /\ Monitor \in ready
    /\ RoleSteady
    /\ ControllersSteady /\ NotYetEnabled
    /\ Followed /\ Gap = RoleGap

\* It keeps them disabled, or is about to enable the one of the new role.
Settling ==
    /\ sw_pc = "settle"
    /\ RoleSteady
    /\ sw_role = m_role
    /\ timer[Monitor] <= Gap
    /\ Monitor \in ready \/ timer[Monitor] > 0
    /\ Enabling("NONE") /\ NotYetEnabled

\* It has not begun.
Starting ==
    /\ sw_pc = "start" /\ Monitor \in ready
    /\ RoleSteady
    /\ m_role = "NONE"

\* It has done its work for the current role.
Served ==
    /\ sw_pc = "wait" /\ Monitor \notin ready
    /\ RoleSteady
    /\ Enabling(m_role)
    /\ sig.host_enable => nxt.host_enable
    /\ sig.dev_enable => nxt.dev_enable

FollowInv ==
    /\ nxt.role_changed <=> rm_pc = "pulse"
    /\ Detecting => Served /\ ControllersSteady /\ ~sig.role_changed
    /\ \/ Served \/ Raised \/ Told
       \/ (Starting \/ Settling) /\ (Arriving => Monitor \in ready)
-----------------------------------------------------------------------------
\* When a process reaches its wait, all other threads stay as they are.
LEMMA OthersStay ==
    ASSUME KernelTypeOK, NEW p \in Process, NEW d \in Nat, Wait(p, d),
           NEW t \in Thread \ {p}
    PROVE  timer'[t] = timer[t] /\ (t \in ready' <=> t \in ready)
BY DEF KernelTypeOK, Wait, Thread

\* The fields of the pending signals that the invariants speak of stay.
SwitchFieldsStay ==
    /\ Ports(nxt') = Ports(nxt)
    /\ Inner(nxt') = Inner(nxt)
    /\ nxt'.role = nxt.role
    /\ nxt'.role_changed = nxt.role_changed
    /\ nxt'.host_enable = nxt.host_enable
    /\ nxt'.dev_enable = nxt.dev_enable

\* Threads that the invariants speak of.
Watched == {Detector, Monitor, Testbench, "forward_inputs"}

\* What a step that has no part in the role switch leaves alone.
Untouched ==
    /\ UNCHANGED <<sig, notified, roleManagerVars, want, sw_pc, sw_role>>
    /\ SwitchFieldsStay
    /\ \A t \in Watched : timer'[t] = timer[t] /\ (t \in ready' <=> t \in ready)

\* The pulses of the two controllers do not concern them.
LEMMA PulsesElsewhere ==
    ASSUME KernelTypeOK,
           HostPulseEnd \/ NextTransferDone \/ BulkPulseEnd \/ TransferDone
              \/ EnumerationDone \/ BulkIrq
    PROVE  SwitchFieldsStay
<1> USE DEF KernelTypeOK, Signals, Ports, Inner, SwitchFieldsStay
<1>1. CASE HostPulseEnd
  BY <1>1 DEF HostPulseEnd
<1>2. CASE NextTransferDone
  BY <1>2 DEF NextTransferDone
<1>3. CASE BulkPulseEnd
  BY <1>3 DEF BulkPulseEnd
<1>4. CASE TransferDone
  BY <1>4 DEF TransferDone
<1>5. CASE EnumerationDone
  BY <1>5 DEF EnumerationDone
<1>6. CASE BulkIrq
  BY <1>6 DEF BulkIrq
<1> QED
  BY <1>1, <1>2, <1>3, <1>4, <1>5, <1>6

\* role_switch_monitor writes the enables and irq only.
LEMMA MonitorWrites ==
    ASSUME KernelTypeOK, RoleSwitch
    PROVE  /\ Ports(nxt') = Ports(nxt)
           /\ Inner(nxt') = Inner(nxt)
           /\ nxt'.cc = nxt.cc /\ nxt'.vbus = nxt.vbus
           /\ nxt'.role = nxt.role
           /\ nxt'.role_changed = nxt.role_changed
<1> USE DEF KernelTypeOK, Signals, Ports, Inner
<1>1. CASE RoleSwitchStart
  BY <1>1 DEF RoleSwitchStart, ControllersOff
<1>2. CASE DisableControllers
  BY <1>2 DEF DisableControllers, ControllersOff
<1>3. CASE EnableController
  BY <1>3 DEF EnableController, RaiseIrq
<1> QED
  BY <1>1, <1>2, <1>3 DEF RoleSwitch

\* Interrupts, the pulses of the controllers and the writes of INTR_STATUS and
\* INTR_ENABLE have no part in the role switch.
LEMMA Bystanders ==
    ASSUME TypeOK,
           \/ InterruptCollector /\ UNCHANGED want
           \/ /\ HostPulseEnd \/ NextTransferDone \/ BulkPulseEnd \/ TransferDone
                    \/ EnumerationDone \/ BulkIrq
              /\ UNCHANGED <<roleManagerVars, drdControllerVars, want>>
           \/ Software
           \/ UNCHANGED vars
    PROVE  Untouched
<1> USE ProcessNames DEF TypeOK
<1> Watched \subseteq Thread /\ Watched \cap {"interrupt_collector",
       "host_main_process", "loopback_process"} = {}
  BY DEF Watched, Detector, Monitor, Testbench, Thread, Process
<1>1. ASSUME InterruptCollector, UNCHANGED want
      PROVE  Untouched
  <2>1. \A t \in Watched : timer'[t] = timer[t] /\ (t \in ready' <=> t \in ready)
    BY <1>1, OthersStay DEF InterruptCollector
  <2>2. SwitchFieldsStay
    BY <1>1 DEF InterruptCollector, RaiseIrq, KernelTypeOK, Signals, Ports, Inner,
                SwitchFieldsStay
  <2> QED
    BY <1>1, <2>1, <2>2 DEF InterruptCollector, Untouched
<1>2. ASSUME HostPulseEnd \/ NextTransferDone \/ BulkPulseEnd \/ TransferDone
                \/ EnumerationDone \/ BulkIrq,
             UNCHANGED <<roleManagerVars, drdControllerVars, want>>
      PROVE  Untouched
  <2>1. PICK p \in {"host_main_process", "loopback_process"}, d \in Nat : Wait(p, d)
    BY <1>2 DEF HostPulseEnd, NextTransferDone, BulkPulseEnd, TransferDone,
                EnumerationDone, BulkIrq
  <2>2. \A t \in Watched : timer'[t] = timer[t] /\ (t \in ready' <=> t \in ready)
    BY <2>1, OthersStay
  <2>3. UNCHANGED <<sig, notified>>
    BY <1>2 DEF HostPulseEnd, NextTransferDone, BulkPulseEnd, TransferDone,
                EnumerationDone, BulkIrq
  <2>4. SwitchFieldsStay
    BY <1>2, PulsesElsewhere
  <2> QED
    BY <1>2, <2>2, <2>3, <2>4 DEF Untouched, drdControllerVars
<1>3. ASSUME Software
      PROVE  Untouched
  BY <1>3 DEF Software, ClearInterrupts, WriteIntrStatus, MaskInterrupts,
              WriteIntrEnable, KernelTypeOK, Signals, Ports, Inner, SwitchFieldsStay,
              Untouched
<1>4. CASE UNCHANGED vars
  BY <1>4 DEF vars, kernelVars, ghosts, drdControllerVars, SwitchFieldsStay, Ports,
              Inner, Untouched
<1> QED
  BY <1>1, <1>2, <1>3, <1>4

\* Such a step keeps both invariants.
LEMMA RoleSwitchFrame ==
    ASSUME Untouched
    PROVE  /\ StimulusInv => StimulusInv'
           /\ FollowInv => FollowInv'
<1>1. /\ Followed' <=> Followed
      /\ Written' <=> Written
      /\ Forwarding' <=> Forwarding
      /\ Forwarded' <=> Forwarded
      /\ Requested' <=> Requested
      /\ Detecting' <=> Detecting
      /\ Listening' <=> Listening
      /\ Granted' <=> Granted
      /\ DetectorInv' <=> DetectorInv
      /\ Gap' = Gap
  BY DEF Untouched, SwitchFieldsStay, Watched, roleManagerVars, Followed, Written,
         Forwarding, Forwarded, Requested, Detecting, Listening, Granted, DetectorInv, Gap, Ports,
         Inner, InputsSettled, NoRequest, Selected
<1>2. StimulusInv => StimulusInv'
  BY <1>1 DEF Untouched, SwitchFieldsStay, Watched, roleManagerVars, StimulusInv, Arriving
<1>3. /\ Served' <=> Served
      /\ Raised' <=> Raised
      /\ Told' <=> Told
      /\ Starting' <=> Starting
      /\ Settling' <=> Settling
  BY <1>1 DEF Untouched, SwitchFieldsStay, Watched, roleManagerVars, Served, Raised, Told,
              Starting, Settling, RoleSteady, ControllersSteady, NotYetEnabled, Enabling
<1>4. FollowInv => FollowInv'
  BY <1>1, <1>3 DEF Untouched, SwitchFieldsStay, Watched, roleManagerVars, FollowInv,
                    Arriving, ControllersSteady
<1> QED
  BY <1>2, <1>4
-----------------------------------------------------------------------------
\* Every step keeps StimulusInv, if the testbench gives the pulse of
\* role_changed the time to end.
LEMMA StimulusInvInductive ==
    ASSUME RoleGap >= PulseTime, MinGap > 0, TypeOK, StimulusInv, [Next]_vars
    PROVE  StimulusInv'
<1> USE ProcessNames DEF TypeOK, Gap, Granted
<1> DEFINE Same(t) == timer'[t] = timer[t] /\ (t \in ready' <=> t \in ready)
<1> {Detector, "forward_inputs", Testbench} \subseteq Thread
       /\ Detector # "forward_inputs" /\ Detector # Testbench
       /\ Testbench \notin Process
  BY DEF Detector, Testbench, Thread, Process
<1>1. ASSUME RoleDetection, UNCHANGED <<drdControllerVars, want, idle>>
      PROVE  StimulusInv'
  <2>1. Same("forward_inputs") /\ Same(Testbench)
    <3>1. PICK d \in Nat : Wait(Detector, d)
      BY <1>1 DEF RoleDetection, RoleDetectionStart, DetectRole, ApplyRole,
                  KeepRole, EndRolePulse, Detector
    <3> QED
      BY <3>1, OthersStay DEF Detector
  <2>2. CASE RoleDetectionStart
    <3>1. /\ nxt'.role = m_role /\ nxt.role = m_role
          /\ Ports(nxt') = Ports(nxt) /\ Inner(nxt') = Inner(nxt)
      BY <2>2 DEF RoleDetectionStart, StimulusInv, DetectorInv, KernelTypeOK,
                  Signals, Ports, Inner
    <3>2. Detector \notin ready' /\ timer'[Detector] = 0 /\ rm_pc' = "wait"
      BY <2>2 DEF RoleDetectionStart, Wait, KernelTypeOK, Detector
    <3>3. DetectorInv' /\ Listening'
      BY <2>2, <3>1, <3>2 DEF RoleDetectionStart, StimulusInv, DetectorInv, Listening
    <3>4. ~Detecting
      BY <2>2 DEF RoleDetectionStart, Detecting
    <3>5. (Followed => Followed') /\ (Arriving => Arriving')
      BY <1>1, <2>1, <2>2, <3>1 DEF RoleDetectionStart, Followed, Arriving, Written,
         Forwarding, Forwarded, Requested, InputsSettled, NoRequest
    <3>6. UNCHANGED <<m_role, want>>
      BY <1>1, <2>2 DEF RoleDetectionStart
    <3> QED
      BY <2>1, <3>2, <3>3, <3>4, <3>5, <3>6 DEF StimulusInv
  <2>3. CASE DetectRole
    <3>1. Detecting /\ Granted
      BY <2>3 DEF DetectRole, StimulusInv, Listening, Detector
    <3>2. Followed'
      <4>1. m_role' = want
        BY <2>3, <3>1 DEF DetectRole, ApplyRole, KeepRole, Detecting
      <4>2. Ports(nxt') = Ports(nxt) /\ Inner(nxt') = Inner(nxt)
        BY <2>3 DEF DetectRole, ApplyRole, KeepRole, KernelTypeOK, Signals, Ports,
                    Inner
      <4> QED
        BY <1>1, <2>3, <3>1, <4>1, <4>2 DEF DetectRole, Detecting, Followed,
           InputsSettled, NoRequest
    <3>3. Detector \notin ready'
      BY <2>3 DEF DetectRole, ApplyRole, KeepRole, Wait, Detector
    <3>4. DetectorInv'
      <4>1. CASE ApplyRole(Selected)
        <5>1. nxt'.role = m_role' /\ rm_pc' = "pulse"
          BY <4>1 DEF ApplyRole, KernelTypeOK, Signals
        <5>2. timer'[Detector] = PulseTime
          BY <4>1 DEF ApplyRole, Wait, KernelTypeOK, Detector
        <5> QED
          BY <2>1, <2>3, <3>1, <4>1, <5>1, <5>2 DEF DetectorInv, ApplyRole, Detecting
      <4>2. CASE KeepRole(Selected)
        <5>1. nxt'.role = m_role' /\ rm_pc' = "wait"
          BY <3>1, <4>2 DEF KeepRole, Detecting, StimulusInv, DetectorInv
        <5>2. timer'[Detector] = 0
          BY <4>2 DEF KeepRole, Wait, KernelTypeOK, Detector
        <5> QED
          BY <5>1, <5>2 DEF DetectorInv
      <4> QED
        BY <2>3, <4>1, <4>2 DEF DetectRole
    <3> QED
      BY <3>2, <3>3, <3>4 DEF StimulusInv
  <2>4. CASE EndRolePulse
    <3>1. /\ nxt'.role = nxt.role
          /\ Ports(nxt') = Ports(nxt) /\ Inner(nxt') = Inner(nxt)
      BY <2>4 DEF EndRolePulse, KernelTypeOK, Signals, Ports, Inner
    <3>2. Detector \notin ready' /\ timer'[Detector] = 0 /\ rm_pc' = "wait"
      BY <2>4 DEF EndRolePulse, Wait, KernelTypeOK, Detector
    <3>3. DetectorInv' /\ Listening'
      BY <2>4, <3>1, <3>2 DEF EndRolePulse, StimulusInv, DetectorInv, Listening
    <3>4. ~Detecting
      BY <2>4 DEF EndRolePulse, Detecting
    <3>5. (Followed => Followed') /\ (Arriving => Arriving')
      BY <1>1, <2>1, <2>4, <3>1 DEF EndRolePulse, Followed, Arriving, Written,
         Forwarding, Forwarded, Requested, InputsSettled, NoRequest
    <3>6. UNCHANGED <<m_role, want>>
      BY <1>1, <2>4 DEF EndRolePulse
    <3> QED
      BY <2>1, <3>2, <3>3, <3>4, <3>5, <3>6 DEF StimulusInv
  <2> QED
    BY <1>1, <2>2, <2>3, <2>4 DEF RoleDetection
<1>2. ASSUME ForwardInputs, UNCHANGED <<want, idle>>
      PROVE  StimulusInv'
  <2>1. Same(Detector) /\ Same(Testbench)
    BY <1>2, OthersStay DEF ForwardInputs, Detector
  <2>2. /\ nxt'.role = nxt.role
        /\ Ports(nxt') = Ports(nxt) /\ Inner(nxt') = Ports(sig)
    BY <1>2 DEF ForwardInputs, KernelTypeOK, Signals, Ports, Inner
  <2>3. UNCHANGED <<sig, notified, roleManagerVars, want>>
    BY <1>2 DEF ForwardInputs
  <2>4. DetectorInv' /\ (Listening => Listening')
    BY <2>1, <2>2, <2>3 DEF StimulusInv, DetectorInv, Listening, roleManagerVars
  <2>5. /\ Followed => Followed'
        /\ Written => Written'
        /\ Forwarding => Forwarded'
        /\ Forwarded => Forwarded'
        /\ Requested => Requested'
        /\ Detecting => Detecting'
    <3>1. nxt'.cc = nxt.cc /\ nxt'.vbus = nxt.vbus
      BY <2>2 DEF Ports
    <3>2. Selected' = Selected
      BY <2>3 DEF Selected, roleManagerVars
    <3> QED
      BY <2>1, <2>2, <2>3, <3>1, <3>2 DEF Followed, Written, Forwarding, Forwarded,
         Requested, Detecting, InputsSettled, NoRequest, roleManagerVars
  <2> QED
    BY <2>1, <2>3, <2>4, <2>5 DEF StimulusInv, Arriving, roleManagerVars
<1>3. ASSUME RoleSwitch, UNCHANGED <<want, idle>>
      PROVE  StimulusInv'
  <2>1. Same(Detector) /\ Same("forward_inputs") /\ Same(Testbench)
    <3>1. PICK d \in Nat : Wait(Monitor, d)
      BY <1>3 DEF RoleSwitch, RoleSwitchStart, DisableControllers,
                  EnableController, Settle, Monitor
    <3> QED
      BY <3>1, OthersStay DEF Detector, Monitor, Testbench
  <2>2. /\ nxt'.role = nxt.role
        /\ nxt'.cc = nxt.cc /\ nxt'.vbus = nxt.vbus
        /\ Ports(nxt') = Ports(nxt) /\ Inner(nxt') = Inner(nxt)
    BY <1>3, MonitorWrites
  <2>3. UNCHANGED <<sig, notified, roleManagerVars, want>>
    BY <1>3 DEF RoleSwitch, RoleSwitchStart, DisableControllers, EnableController
  <2>4. Selected' = Selected
    BY <2>3 DEF Selected, roleManagerVars
  <2>5. (DetectorInv => DetectorInv') /\ (Listening => Listening')
    BY <2>1, <2>2, <2>3 DEF DetectorInv, Listening, roleManagerVars
  <2>6. /\ Followed => Followed'
        /\ Arriving => Arriving'
        /\ Detecting => Detecting'
    BY <2>1, <2>2, <2>3, <2>4 DEF Followed, Arriving, Written, Forwarding, Forwarded,
       Requested, Detecting, InputsSettled, NoRequest, roleManagerVars
  <2> QED
    BY <2>1, <2>3, <2>5, <2>6 DEF StimulusInv, roleManagerVars
<1>4. ASSUME NEW input \in Inputs, SetInputs(input[1], input[2])
      PROVE  StimulusInv'
  <2>1. /\ timer[Testbench] = 0 /\ timer'[Testbench] = IF want' = want THEN MinGap ELSE RoleGap
        /\ timer'[Detector] = timer[Detector]
    BY <1>4 DEF SetInputs, DriveInputs, CallFor, KernelTypeOK
  <2>2. Followed /\ (rm_pc = "wait" => Detector \notin ready)
    BY <2>1 DEF StimulusInv
  <2>3. UNCHANGED <<sig, notified, ready, roleManagerVars>>
    BY <1>4 DEF SetInputs, DriveInputs
  <2>4. /\ nxt'.cc = input[1] /\ nxt'.vbus = input[2]
        /\ Ports(nxt') # Ports(nxt) /\ Inner(nxt') = Inner(nxt)
        /\ nxt'.role = nxt.role
    BY <1>4 DEF SetInputs, DriveInputs, KernelTypeOK, Signals, Ports, Inner
  <2>5. Written'
    BY <1>4, <2>2, <2>3, <2>4 DEF SetInputs, DriveInputs, CallFor, Written, Followed,
       InputsSettled, NoRequest, roleManagerVars
  <2>6. timer[Detector] \in Nat
    BY DEF KernelTypeOK
  <2>7. DetectorInv' /\ Listening'
    BY <2>1, <2>2, <2>3, <2>4, <2>6 DEF StimulusInv, DetectorInv, Listening,
       roleManagerVars
  <2> QED
    BY <2>1, <2>2, <2>3, <2>5, <2>7 DEF StimulusInv, Arriving, Followed, roleManagerVars
<1>5. ASSUME NEW r \in Requests, ForceRole(r)
      PROVE  StimulusInv'
  <2>1. /\ timer[Testbench] = 0 /\ timer'[Testbench] = IF want' = want THEN MinGap ELSE RoleGap
        /\ timer'[Detector] = timer[Detector]
    BY <1>5 DEF ForceRole, AskForRole, CallFor, KernelTypeOK
  <2>2. Followed /\ (rm_pc = "wait" => Detector \notin ready)
    BY <2>1 DEF StimulusInv
  <2>3. UNCHANGED <<sig, nxt, ready, m_role, rm_pc>>
    BY <1>5 DEF ForceRole, AskForRole, WriteRoleCtrl, RequestRole
  <2>4. Requested'
    BY <1>5, <2>2, <2>3 DEF ForceRole, AskForRole, CallFor, WriteRoleCtrl, RequestRole,
       Requested, Followed, InputsSettled, NoRequest
  <2>5. timer[Detector] \in Nat
    BY DEF KernelTypeOK
  <2>6. DetectorInv' /\ Listening'
    BY <2>1, <2>2, <2>3, <2>5 DEF StimulusInv, DetectorInv, Listening
  <2> QED
    BY <2>1, <2>2, <2>3, <2>4, <2>6 DEF StimulusInv, Arriving, Followed
<1>6. CASE Update
  <2>1. /\ ready = {} /\ sig' = nxt /\ nxt' = nxt /\ notified' = {} /\ timer' = timer
        /\ ready' = Woken
        /\ UNCHANGED <<roleManagerVars, want>>
    BY <1>6 DEF Update, DeltaCycle
  <2>2. Detector \in ready' <=>
           rm_pc = "wait" /\ (Inner(sig) # Inner(nxt)
                                  \/ "m_role_request_event" \in notified)
    BY <2>1 DEF Woken, RoleDetectionWoken, Detector, Inner
  <2>3. "forward_inputs" \in ready' <=> Ports(sig) # Ports(nxt)
    BY <2>1 DEF Woken, ForwardInputsWoken, Ports
  <2>4. DetectorInv'
    BY <2>1, <2>2 DEF StimulusInv, DetectorInv, roleManagerVars
  <2>5. ASSUME Followed
        PROVE  Followed' /\ Detector \notin ready'
    BY <2>1, <2>2, <2>5 DEF Followed, InputsSettled, NoRequest, roleManagerVars
  <2>6. ASSUME Arriving, Listening
        PROVE  rm_pc = "wait" /\ rm_pc' = "wait"
    BY <2>1, <2>6 DEF StimulusInv, DetectorInv, Listening, RoleManagerTypeOK,
       roleManagerVars
  <2>7. ASSUME Written, Listening
        PROVE  Forwarding' /\ Listening'
    BY <2>1, <2>2, <2>3, <2>6, <2>7 DEF Arriving, Written, Forwarding, NoRequest,
       Listening, roleManagerVars
  <2>8. ~Forwarding /\ ~Detecting
    BY <2>1 DEF Forwarding, Detecting
  <2>9. ASSUME Forwarded, Listening
        PROVE  Detecting'
    <3>1. sig'.cc_int = nxt.cc /\ sig'.vbus_int = nxt.vbus
      BY <2>1, <2>9 DEF Forwarded, Ports, Inner
    <3>2. Selected' = want
      BY <2>1, <2>9, <3>1 DEF Forwarded, NoRequest, Selected, roleManagerVars
    <3>3. InputsSettled'
      BY <2>1, <2>9 DEF Forwarded, InputsSettled, Ports, Inner
    <3> QED
      BY <2>1, <2>2, <2>6, <2>9, <3>2, <3>3 DEF Arriving, Forwarded, Detecting
  <2>10. ASSUME Requested, Listening
         PROVE  Detecting'
    <3>1. Selected' = want
      BY <2>1, <2>10 DEF Requested, Selected, roleManagerVars, StimuliTypeOK, Role
    <3>2. InputsSettled'
      BY <2>1, <2>10 DEF Requested, InputsSettled, Ports, Inner
    <3> QED
      BY <2>1, <2>2, <2>6, <2>10, <3>1, <3>2 DEF Arriving, Requested, Detecting
  <2>11. Granted => Granted'
    BY <2>1 DEF roleManagerVars
  <2> QED
    BY <2>1, <2>4, <2>5, <2>7, <2>8, <2>9, <2>10, <2>11 DEF StimulusInv, Arriving
<1>7. CASE Tick
  <2>1. /\ ready = {} /\ nxt = sig /\ notified = {}
        /\ UNCHANGED <<sig, nxt, notified, roleManagerVars, want>>
        /\ timer' = [p \in Thread |-> IF timer[p] = 0 THEN 0 ELSE timer[p] - 1]
        /\ ready' = {p \in Process : timer[p] = 1}
    BY <1>7 DEF Tick, AdvanceTime, UpdatePending
  <2>2. ~Arriving /\ ~Detecting
    BY <2>1 DEF Arriving, Written, Forwarding, Forwarded, Requested, Detecting, Ports,
                Inner
  <2>3. Followed'
    BY <2>1, <2>2 DEF StimulusInv, Followed, InputsSettled, NoRequest, roleManagerVars
  <2>4. timer[Detector] \in Nat /\ timer[Testbench] \in Nat
    BY DEF KernelTypeOK
  <2>5. DetectorInv' /\ (rm_pc = "wait" => Detector \notin ready')
    BY <2>1, <2>4 DEF StimulusInv, DetectorInv, roleManagerVars, Detector
  <2> QED
    BY <2>1, <2>3, <2>5 DEF StimulusInv, roleManagerVars
<1>8. CASE \/ InterruptCollector /\ UNCHANGED ghosts
           \/ /\ HostPulseEnd \/ NextTransferDone \/ BulkPulseEnd \/ TransferDone
                    \/ EnumerationDone \/ BulkIrq
              /\ UNCHANGED <<roleManagerVars, drdControllerVars, want>>
           \/ Software
           \/ UNCHANGED vars
  BY <1>8, Bystanders, RoleSwitchFrame DEF ghosts
<1> QED
  BY <1>1, <1>2, <1>3, <1>4, <1>5, <1>6, <1>7, <1>8
  DEF Next, Environment, Stimulate, StartPulse, RunProcess, ghosts
\* The stages of a stimulus exclude one another.
LEMMA StagesApart ==
    Followed \/ Detecting => ~Arriving
BY DEF Followed, Detecting, Arriving, Written, Forwarding, Forwarded, Requested,
       InputsSettled, NoRequest

\* Every step keeps FollowInv, if the testbench gives role_switch_monitor the
\* time to settle as well.
LEMMA FollowInvInductive ==
    ASSUME RoleGap >= PulseTime, RoleGap >= SettleTime, MinGap > 0, TypeOK, SwitchInv,
           StimulusInv, FollowInv, [Next]_vars
    PROVE  FollowInv'
<1> USE ProcessNames DEF TypeOK
<1> DEFINE Same(t) == timer'[t] = timer[t] /\ (t \in ready' <=> t \in ready)
<1> {Detector, Monitor, Testbench} \subseteq Thread
       /\ {Detector, Monitor} \subseteq Process
       /\ Detector # Monitor /\ Detector # Testbench /\ Monitor # Testbench
       /\ Testbench \notin Process
  BY DEF Detector, Monitor, Testbench, Thread, Process
<1> timer[Detector] \in Nat /\ timer[Monitor] \in Nat /\ timer[Testbench] \in Nat
  BY DEF KernelTypeOK
<1>0. StimulusInv'
  BY StimulusInvInductive
<1>a. Followed' \/ Detecting' => ~Arriving'
  BY DEF Followed, Detecting, Arriving, Written, Forwarding, Forwarded, Requested,
         InputsSettled, NoRequest
<1>1. ASSUME RoleDetection, UNCHANGED <<drdControllerVars, want, idle>>
      PROVE  FollowInv'
  <2>1. Same(Monitor) /\ Same(Testbench)
    <3>1. PICK d \in Nat : Wait(Detector, d)
      BY <1>1 DEF RoleDetection, RoleDetectionStart, DetectRole, ApplyRole,
                  KeepRole, EndRolePulse, Detector
    <3> QED
      BY <3>1, OthersStay
  <2>2. UNCHANGED <<sig, notified, sw_pc, sw_role>> /\ Gap' = Gap
    BY <1>1, <2>1 DEF RoleDetection, RoleDetectionStart, DetectRole, EndRolePulse,
                      drdControllerVars, Gap
  <2>3. /\ nxt'.host_enable = nxt.host_enable
        /\ nxt'.dev_enable = nxt.dev_enable
        /\ Ports(nxt') = Ports(nxt) /\ Inner(nxt') = Inner(nxt)
    BY <1>1 DEF RoleDetection, RoleDetectionStart, DetectRole, ApplyRole, KeepRole,
                EndRolePulse, KernelTypeOK, Signals, Ports, Inner
  <2>4. Detector \notin ready'
    BY <1>1 DEF RoleDetection, RoleDetectionStart, DetectRole, ApplyRole, KeepRole,
                EndRolePulse, Wait, Detector
  <2>5. ~Detecting'
    BY <2>4 DEF Detecting
  <2>6. CASE RoleDetectionStart \/ EndRolePulse
    <3>1. /\ Detector \in ready /\ rm_pc # "wait" /\ rm_pc' = "wait"
          /\ UNCHANGED <<m_role, m_host_requested, m_device_requested>>
          /\ ~nxt'.role_changed
      BY <2>6 DEF RoleDetectionStart, EndRolePulse, Detector, KernelTypeOK, Signals
    <3>2. nxt'.role = nxt.role
      BY <2>6 DEF RoleDetectionStart, EndRolePulse, StimulusInv, DetectorInv,
                  KernelTypeOK, Signals
    <3>3. Followed => Followed'
      BY <1>1, <2>2, <2>3, <3>1 DEF Followed, InputsSettled, NoRequest
    <3>4. ~Detecting /\ ~Raised
      BY <3>1 DEF Detecting, Raised
    <3>5. Followed \/ Arriving
      BY <3>4 DEF StimulusInv
    <3>6. Arriving' => Arriving
      BY <1>a, <3>3, <3>5
    <3>7. /\ Served => Served'
          /\ Told => Told'
          /\ Starting => Starting'
          /\ Settling => Settling'
      BY <2>1, <2>2, <2>3, <3>1, <3>2, <3>3 DEF Served, Told, Starting, Settling,
         RoleSteady, ControllersSteady, NotYetEnabled, Enabling
    <3> QED
      BY <2>1, <2>5, <3>1, <3>4, <3>6, <3>7 DEF FollowInv
  <2>7. CASE DetectRole
    <3>1. Detecting /\ Granted
      BY <2>7 DEF DetectRole, StimulusInv, Listening, Detector
    <3>2. Served /\ ControllersSteady /\ ~sig.role_changed
      BY <3>1 DEF FollowInv
    <3>3. Followed'
      BY <2>5, <2>7, StagesApart, <1>0, <3>1, <2>2, <2>3
         DEF DetectRole, StimulusInv, Arriving, Written, Forwarding,
             Forwarded, Requested, Detecting, InputsSettled
    <3>4. CASE ApplyRole(Selected)
      <4>1. /\ nxt'.role_changed /\ rm_pc' = "pulse"
            /\ m_role' # m_role
        BY <3>4 DEF ApplyRole, KernelTypeOK, Signals
      <4>2. NotYetEnabled'
        BY <2>2, <3>2, <4>1 DEF Served, Enabling, ControllersSteady, NotYetEnabled
      <4>3. ControllersSteady'
        BY <2>2, <2>3, <3>2 DEF ControllersSteady
      <4>4. Raised'
        <5>1. Gap' = RoleGap
          BY <2>2, <2>7, <3>1, <3>4 DEF Granted, Detecting, ApplyRole
        <5> QED
          BY <2>1, <2>2, <2>4, <3>2, <3>3, <4>1, <4>2, <4>3, <5>1 DEF Served, Raised
      <4> QED
        BY <2>5, <4>1, <4>4 DEF FollowInv
    <3>5. CASE KeepRole(Selected)
      <4>1. nxt' = nxt /\ rm_pc' = rm_pc /\ m_role' = m_role
        BY <3>5 DEF KeepRole
      <4>2. Served'
        BY <2>1, <2>2, <3>2, <4>1 DEF Served, RoleSteady, Enabling
      <4> QED
        BY <2>5, <4>1, <4>2 DEF FollowInv
    <3> QED
      BY <2>7, <3>4, <3>5 DEF DetectRole
  <2> QED
    BY <1>1, <2>6, <2>7 DEF RoleDetection
<1>2. ASSUME ForwardInputs, UNCHANGED <<want, idle>>
      PROVE  FollowInv'
  <2>1. Same(Detector) /\ Same(Monitor) /\ Same(Testbench)
    BY <1>2, OthersStay DEF ForwardInputs, Detector, Monitor
  <2>2. /\ nxt'.role = nxt.role
        /\ nxt'.role_changed = nxt.role_changed
        /\ nxt'.host_enable = nxt.host_enable
        /\ nxt'.dev_enable = nxt.dev_enable
        /\ Ports(nxt') = Ports(nxt) /\ Inner(nxt') = Ports(sig)
    BY <1>2 DEF ForwardInputs, KernelTypeOK, Signals, Ports, Inner
  <2>3. UNCHANGED <<sig, notified, roleManagerVars, want, sw_pc, sw_role>> /\ Gap' = Gap
    BY <1>2, <2>1 DEF ForwardInputs, drdControllerVars, Gap
  <2>4. Selected' = Selected
    BY <2>3 DEF Selected, roleManagerVars
  <2>5. /\ Followed => Followed'
        /\ Detecting => Detecting'
        /\ Detecting' => Detecting
    BY <2>1, <2>2, <2>3, <2>4 DEF Followed, Detecting, InputsSettled, NoRequest,
       Listening, StimulusInv, roleManagerVars
  <2>6. Arriving' => Arriving
    BY <1>a, <2>5 DEF StimulusInv
  <2>7. /\ Served => Served'
        /\ Raised => Raised'
        /\ Told => Told'
        /\ Starting => Starting'
        /\ Settling => Settling'
        /\ ControllersSteady => ControllersSteady'
    BY <2>1, <2>2, <2>3, <2>5 DEF Served, Raised, Told, Starting, Settling,
       RoleSteady, ControllersSteady, NotYetEnabled, Enabling, roleManagerVars
  <2> QED
    BY <2>1, <2>2, <2>3, <2>5, <2>6, <2>7 DEF FollowInv, roleManagerVars
<1>3. ASSUME RoleSwitch, UNCHANGED <<want, idle>>
      PROVE  FollowInv'
  <2>1. Same(Detector) /\ Same(Testbench)
    <3>1. PICK d \in Nat : Wait(Monitor, d)
      BY <1>3 DEF RoleSwitch, RoleSwitchStart, DisableControllers,
                  EnableController, Settle, Monitor
    <3> QED
      BY <3>1, OthersStay
  <2>2. /\ nxt'.role = nxt.role
        /\ nxt'.role_changed = nxt.role_changed
        /\ Ports(nxt') = Ports(nxt) /\ Inner(nxt') = Inner(nxt)
    BY <1>3, MonitorWrites
  <2>3. UNCHANGED <<sig, notified, roleManagerVars, want>> /\ Gap' = Gap
    BY <1>3, <2>1 DEF RoleSwitch, RoleSwitchStart, DisableControllers,
                      EnableController, Gap
  <2>4. Monitor \in ready /\ Monitor \notin ready'
    BY <1>3 DEF RoleSwitch, RoleSwitchStart, DisableControllers, EnableController,
                Settle, Wait, Monitor
  <2>5. ~Detecting /\ ~Detecting'
    <3>1. ~Detecting
      BY <2>4 DEF FollowInv, Served
    <3> QED
      BY <2>1, <2>2, <2>3, <3>1 DEF Detecting, InputsSettled, Selected,
                                    roleManagerVars
  <2>6. Followed => Followed' /\ ~Arriving'
    BY <1>a, <2>2, <2>3 DEF Followed, InputsSettled, NoRequest, roleManagerVars
  <2>7. CASE RoleSwitchStart
    <3>1. Starting
      BY <2>4, <2>7 DEF RoleSwitchStart, FollowInv, Served, Raised, Told, Settling
    <3>2. nxt'.host_enable = FALSE /\ nxt'.dev_enable = FALSE /\ sw_pc' = "wait"
      BY <2>7 DEF RoleSwitchStart, ControllersOff, KernelTypeOK, Signals
    <3>3. Served'
      BY <2>2, <2>3, <2>4, <3>1, <3>2 DEF Starting, Served, RoleSteady, Enabling,
         SwitchInv, MonitorInv, Enabled, roleManagerVars
    <3> QED
      BY <2>2, <2>3, <2>5, <3>3 DEF FollowInv, roleManagerVars
  <2>8. CASE DisableControllers
    <3>1. Told
      BY <2>4, <2>8 DEF DisableControllers, FollowInv, Served, Raised, Starting,
         Settling
    <3>2. /\ nxt'.host_enable = FALSE /\ nxt'.dev_enable = FALSE /\ sw_pc' = "settle"
          /\ sw_role' = sig.role
      BY <2>8 DEF DisableControllers, ControllersOff, KernelTypeOK, Signals
    <3>3. timer'[Monitor] = SettleTime
      BY <2>8 DEF DisableControllers, Settle, Wait, Monitor, KernelTypeOK
    <3>4. Settling'
      <4>1. sw_role' = m_role' /\ RoleSteady'
        BY <2>2, <2>3, <3>1, <3>2 DEF Told, RoleSteady, StimulusInv, DetectorInv,
                                      roleManagerVars
      <4>2. timer'[Monitor] <= Gap' /\ timer'[Monitor] > 0
        BY <2>3, <3>1, <3>3 DEF Told
      <4>3. Enabling("NONE")' /\ NotYetEnabled'
        BY <2>3, <3>1, <3>2 DEF Told, Enabling, NotYetEnabled, roleManagerVars
      <4> QED
        BY <3>2, <4>1, <4>2, <4>3 DEF Settling
    <3>5. ~Arriving'
      BY <2>6, <3>1 DEF Told
    <3> QED
      BY <2>2, <2>3, <2>5, <3>4, <3>5 DEF FollowInv, roleManagerVars
  <2>9. CASE EnableController
    <3>1. Settling
      BY <2>4, <2>9 DEF EnableController, FollowInv, Served, Raised, Starting, Told
    <3>2. /\ nxt'.host_enable = (sw_role = "HOST")
          /\ nxt'.dev_enable = (sw_role = "DEVICE")
          /\ sw_pc' = "wait"
      BY <2>9, <3>1 DEF EnableController, RaiseIrq, Settling, Enabling, KernelTypeOK,
                        Signals
    <3>3. Served'
      BY <2>2, <2>3, <2>4, <3>1, <3>2 DEF Settling, Served, RoleSteady, Enabling,
         SwitchInv, MonitorInv, Enabled, roleManagerVars
    <3> QED
      BY <2>2, <2>3, <2>5, <3>3 DEF FollowInv, roleManagerVars
  <2> QED
    BY <1>3, <2>7, <2>8, <2>9 DEF RoleSwitch
<1>4. ASSUME Stimulate
      PROVE  FollowInv'
  <2>1. /\ timer[Testbench] = 0 /\ timer'[Testbench] = IF want' = want THEN MinGap ELSE RoleGap
        /\ timer'[Monitor] = timer[Monitor] /\ timer'[Detector] = timer[Detector]
    BY <1>4 DEF Stimulate, SetInputs, DriveInputs, ForceRole, AskForRole, CallFor,
       KernelTypeOK
  <2>2. /\ UNCHANGED <<sig, ready, m_role, rm_pc, sw_pc, sw_role>>
        /\ nxt'.role = nxt.role
        /\ nxt'.role_changed = nxt.role_changed
        /\ nxt'.host_enable = nxt.host_enable
        /\ nxt'.dev_enable = nxt.dev_enable
    BY <1>4 DEF Stimulate, SetInputs, DriveInputs, ForceRole, AskForRole, WriteRoleCtrl,
       RequestRole, roleManagerVars, drdControllerVars, KernelTypeOK, Signals
  <2>3. ~Raised /\ ~Told /\ ~Detecting
    BY <2>1 DEF Raised, Told, StimulusInv, FollowInv, Gap, Detecting, Arriving, Granted
  <2>4. ~Detecting'
    <3>1. rm_pc = "wait" => Detector \notin ready
      BY <2>1 DEF StimulusInv, Gap, Granted
    <3> QED
      BY <2>2, <3>1 DEF Detecting
  <2>5. /\ Served => Served'
        /\ Starting => Starting' /\ Monitor \in ready'
        /\ Settling => Settling' /\ Monitor \in ready'
    BY <2>1, <2>2 DEF Served, Starting, Settling, RoleSteady, NotYetEnabled, Enabling,
                      Gap
  <2> QED
    BY <2>2, <2>3, <2>4, <2>5 DEF FollowInv
<1>5. CASE Update
  <2>1. /\ ready = {} /\ sig' = nxt /\ nxt' = nxt /\ timer' = timer
        /\ ready' = Woken
        /\ UNCHANGED <<roleManagerVars, drdControllerVars, want>>
        /\ Gap' = Gap
    BY <1>5 DEF Update, DeltaCycle, Gap
  <2>2. Monitor \in ready' <=>
           sw_pc = "wait" /\ ~sig.role_changed /\ nxt.role_changed
    BY <2>1 DEF Woken, RoleSwitchWoken, Monitor
  <2>3. ControllersSteady' /\ RoleSteady'
    BY <2>1 DEF ControllersSteady, RoleSteady
  <2>4. CASE Served
    <3>1. Served'
      BY <2>1, <2>2, <2>3, <2>4 DEF Served, RoleSteady, Enabling, roleManagerVars,
                                    drdControllerVars
    <3>2. Detecting' => ~sig'.role_changed
      BY <2>1 DEF Detecting, FollowInv, roleManagerVars
    <3> QED
      BY <2>1, <2>3, <3>1, <3>2 DEF FollowInv, roleManagerVars
  <2>5. CASE Raised
    <3>1. Followed' /\ Detector \notin ready'
      BY <1>5, <2>1, <2>5 DEF Raised, Followed, InputsSettled, NoRequest, Woken,
         RoleDetectionWoken, Detector, Ports, Inner, Update, DeltaCycle,
         roleManagerVars
    <3>2. Told'
      BY <2>1, <2>2, <2>3, <2>5, <3>1 DEF Raised, Told, ControllersSteady,
         NotYetEnabled, roleManagerVars, drdControllerVars
    <3> QED
      BY <2>1, <3>1, <3>2 DEF Detecting, FollowInv, roleManagerVars
  <2>6. ~Told /\ ~Starting
    BY <2>1 DEF Told, Starting
  <2>7. CASE Settling
    <3>1. Settling'
      BY <2>1, <2>3, <2>7 DEF Settling, Enabling, NotYetEnabled, roleManagerVars,
                              drdControllerVars
    <3>2. Followed
      BY <2>1, <2>7 DEF StimulusInv, FollowInv, Served, Settling, Raised, Told, Detecting
    <3>3. Followed' /\ Detector \notin ready'
      BY <1>5, <2>1, <3>2 DEF Followed, InputsSettled, NoRequest, Woken,
         RoleDetectionWoken, Detector, Ports, Inner, Update, DeltaCycle,
         roleManagerVars
    <3> QED
      BY <1>a, <2>1, <3>1, <3>3 DEF Detecting, FollowInv, roleManagerVars
  <2> QED
    BY <2>4, <2>5, <2>6, <2>7 DEF FollowInv
<1>6. CASE Tick
  <2>1. /\ ready = {} /\ nxt = sig
        /\ UNCHANGED <<sig, nxt, notified, roleManagerVars, drdControllerVars, want>>
        /\ timer' = [p \in Thread |-> IF timer[p] = 0 THEN 0 ELSE timer[p] - 1]
        /\ ready' = {p \in Process : timer[p] = 1}
    BY <1>6 DEF Tick, AdvanceTime, UpdatePending
  <2>2. ~Raised /\ ~Told /\ ~Starting /\ ~Detecting
    BY <2>1 DEF Raised, Told, Starting, Detecting
  <2>3. Followed
    BY <1>6, <2>1, <2>2 DEF StimulusInv, Arriving, Written, Forwarding, Forwarded,
       Requested, Tick, AdvanceTime, UpdatePending, Ports, Inner
  <2>4. Followed' /\ ~Arriving'
    BY <1>a, <2>1, <2>3 DEF Followed, InputsSettled, NoRequest, roleManagerVars
  <2>5. ~Detecting'
    BY <2>1 DEF Detecting, StimulusInv, DetectorInv, roleManagerVars
  <2>6. Served => Served'
    BY <2>1 DEF Served, RoleSteady, Enabling, SwitchInv, MonitorInv, roleManagerVars,
                drdControllerVars
  <2>7. Settling => Settling'
    BY <2>1 DEF Settling, RoleSteady, Enabling, NotYetEnabled, Gap, roleManagerVars,
                drdControllerVars
  <2> QED
    BY <2>1, <2>2, <2>4, <2>5, <2>6, <2>7 DEF FollowInv, roleManagerVars
<1>7. CASE \/ InterruptCollector /\ UNCHANGED ghosts
           \/ /\ HostPulseEnd \/ NextTransferDone \/ BulkPulseEnd \/ TransferDone
                    \/ EnumerationDone \/ BulkIrq
              /\ UNCHANGED <<roleManagerVars, drdControllerVars, want>>
           \/ Software
           \/ UNCHANGED vars
  BY <1>7, Bystanders, RoleSwitchFrame DEF ghosts
<1> QED
  BY <1>1, <1>2, <1>3, <1>4, <1>5, <1>6, <1>7
  DEF Next, Environment, StartPulse, RunProcess, ghosts

-----------------------------------------------------------------------------
(***************************************************************************)
(* How far a switch has come, for a testbench that waits for it.           *)
(***************************************************************************)
\* The role that is called for has been taken, and role_switch_monitor has done
\* its work for it.
SwitchOver == Served /\ m_role = want

\* role_switch_monitor is in its pause for that role.
SwitchPaused == Settling /\ m_role = want

\* What a step does to role_switch_monitor and to what it waits for.
LEMMA MonitorMoves ==
    ASSUME TypeOK, [Next]_vars
    PROVE  \/ Update
           \/ Tick
           \/ RoleSwitch /\ UNCHANGED <<roleManagerVars, want>>
           \/ /\ UNCHANGED <<sig, sw_pc, sw_role>>
              /\ timer'[Monitor] = timer[Monitor]
              /\ Monitor \in ready' <=> Monitor \in ready
              /\ nxt'.role_changed => nxt.role_changed \/ m_role' # m_role
<1> USE ProcessNames DEF TypeOK
<1> {Detector, Monitor, Testbench, "forward_inputs"} \subseteq Thread
       /\ Detector # Monitor /\ Testbench # Monitor
  BY DEF Detector, Monitor, Testbench, Thread, Process
<1> DEFINE Left ==
              /\ UNCHANGED <<sig, sw_pc, sw_role>>
              /\ timer'[Monitor] = timer[Monitor]
              /\ Monitor \in ready' <=> Monitor \in ready
              /\ nxt'.role_changed => nxt.role_changed \/ m_role' # m_role
<1>1. ASSUME RoleDetection, UNCHANGED drdControllerVars
      PROVE  Left
  <2>1. PICK d \in Nat : Wait(Detector, d)
    BY <1>1 DEF RoleDetection, RoleDetectionStart, DetectRole, ApplyRole,
                KeepRole, EndRolePulse, Detector
  <2>2. timer'[Monitor] = timer[Monitor] /\ (Monitor \in ready' <=> Monitor \in ready)
    BY <2>1, OthersStay DEF Detector
  <2>3. nxt'.role_changed => nxt.role_changed \/ m_role' # m_role
    BY <1>1 DEF RoleDetection, RoleDetectionStart, DetectRole, ApplyRole,
                KeepRole, EndRolePulse, KernelTypeOK, Signals
  <2> QED
    BY <1>1, <2>2, <2>3 DEF RoleDetection, RoleDetectionStart, DetectRole,
       EndRolePulse, drdControllerVars
<1>2. ASSUME ForwardInputs
      PROVE  Left
  <2>1. timer'[Monitor] = timer[Monitor] /\ (Monitor \in ready' <=> Monitor \in ready)
    BY <1>2, OthersStay DEF ForwardInputs, Monitor
  <2> QED
    BY <1>2, <2>1 DEF ForwardInputs, drdControllerVars, KernelTypeOK, Signals
<1>3. ASSUME Stimulate
      PROVE  Left
  BY <1>3 DEF Stimulate, SetInputs, DriveInputs, ForceRole, AskForRole, CallFor,
     WriteRoleCtrl, RequestRole, drdControllerVars, KernelTypeOK, Signals
<1>4. ASSUME Untouched
      PROVE  Left
  BY <1>4 DEF Untouched, SwitchFieldsStay, Watched
<1>5. CASE \/ InterruptCollector /\ UNCHANGED ghosts
           \/ /\ HostPulseEnd \/ NextTransferDone \/ BulkPulseEnd \/ TransferDone
                    \/ EnumerationDone \/ BulkIrq
              /\ UNCHANGED <<roleManagerVars, drdControllerVars, want>>
           \/ Software
           \/ UNCHANGED vars
  BY <1>4, <1>5, Bystanders DEF ghosts
<1>6. RoleSwitch => UNCHANGED roleManagerVars
  BY DEF RoleSwitch, RoleSwitchStart, DisableControllers, EnableController
<1> QED
  BY <1>1, <1>2, <1>3, <1>5, <1>6 DEF Next, Environment, StartPulse, RunProcess, ghosts

\* A role that is the one called for is kept.
LEMMA RoleStays ==
    ASSUME TypeOK, StimulusInv, [Next]_vars, m_role = want, want' = want
    PROVE  m_role' = m_role
<1>1. CASE DetectRole
  <2>1. Selected = want
    BY <1>1 DEF DetectRole, StimulusInv, Listening, Detecting, Detector
  <2> QED
    BY <1>1, <2>1 DEF DetectRole, ApplyRole, KeepRole
<1>2. CASE m_role' = m_role
  BY <1>2
<1>3. DetectRole \/ m_role' = m_role
  BY DEF Next, Environment, Stimulate, SetInputs, DriveInputs, ForceRole, AskForRole,
     WriteRoleCtrl, RequestRole, Software, ClearInterrupts, WriteIntrStatus,
     MaskInterrupts, WriteIntrEnable, StartPulse, RunProcess, RoleDetection,
     RoleDetectionStart, EndRolePulse, ForwardInputs, RoleSwitch, RoleSwitchStart,
     DisableControllers, EnableController, InterruptCollector, Update, Tick, vars,
     roleManagerVars
<1> QED
  BY <1>1, <1>2, <1>3

\* While the testbench calls for nothing else, a switch that is over stays so.
LEMMA OverStays ==
    ASSUME MinGap > 0, RoleGap >= PulseTime, RoleGap >= SettleTime, TypeOK, SwitchInv,
           StimulusInv, FollowInv, [Next]_vars, SwitchOver, want' = want
    PROVE  SwitchOver'
<1>1. m_role' = want' /\ m_role' = m_role
  BY RoleStays DEF SwitchOver
<1>2. FollowInv'
  BY FollowInvInductive
<1>3. timer[Monitor] = 0 /\ sw_pc = "wait" /\ Monitor \notin ready
  BY DEF SwitchOver, Served, SwitchInv, MonitorInv
<1>4. sw_pc' = "wait" /\ Monitor \notin ready'
  <2>1. CASE Update
    BY <1>3, <2>1 DEF Update, DeltaCycle, Woken, RoleSwitchWoken, Monitor, SwitchOver,
       Served, RoleSteady, drdControllerVars
  <2>2. CASE Tick
    BY <1>3, <2>2 DEF Tick, AdvanceTime, drdControllerVars
  <2>3. ~RoleSwitch
    BY <1>3 DEF RoleSwitch, RoleSwitchStart, DisableControllers, EnableController, Monitor
  <2> QED
    BY <1>3, <2>1, <2>2, <2>3, MonitorMoves
<1>5. ~Raised'
  <2>1. CASE Update \/ Tick
    BY <2>1 DEF Update, DeltaCycle, Tick, AdvanceTime, UpdatePending, Raised
  <2>2. ~RoleSwitch
    BY <1>3 DEF RoleSwitch, RoleSwitchStart, DisableControllers, EnableController, Monitor
  <2> QED
    BY <1>1, <2>1, <2>2, MonitorMoves DEF SwitchOver, Served, RoleSteady, Raised
<1> QED
  BY <1>1, <1>2, <1>4, <1>5 DEF FollowInv, Told, Starting, Settling, SwitchOver

\* A pause goes on, or the switch is over.
LEMMA PauseStays ==
    ASSUME MinGap > 0, RoleGap >= PulseTime, RoleGap >= SettleTime, TypeOK, SwitchInv,
           StimulusInv, FollowInv, [Next]_vars, SwitchPaused, want' = want
    PROVE  SwitchOver' \/ (SwitchPaused' /\ timer'[Monitor] <= timer[Monitor])
<1>1. m_role' = want' /\ m_role' = m_role
  BY RoleStays DEF SwitchPaused
<1>2. FollowInv'
  BY FollowInvInductive
<1>3. sw_pc = "settle" /\ RoleSteady
  BY DEF SwitchPaused, Settling
<1>4. timer[Monitor] \in Nat
  BY DEF TypeOK, KernelTypeOK, Monitor, Thread, Process
<1>5. CASE RoleSwitch
  <2>1. EnableController
    BY <1>3, <1>5 DEF RoleSwitch, RoleSwitchStart, DisableControllers
  <2>2. sw_pc' = "wait" /\ Monitor \notin ready' /\ sig' = sig
    BY <2>1 DEF EnableController, Wait, Monitor
  <2>3. ~Raised'
    BY <1>3, <1>5, <2>2, MonitorWrites DEF Raised, RoleSteady, TypeOK
  <2> QED
    BY <1>1, <1>2, <2>2, <2>3 DEF FollowInv, Told, Starting, Settling, SwitchOver
<1>6. ASSUME ~RoleSwitch
      PROVE  SwitchPaused' /\ timer'[Monitor] <= timer[Monitor]
  <2>1. CASE Update \/ Tick
    BY <1>1, <1>2, <1>3, <1>4, <2>1 DEF Update, DeltaCycle, Tick, AdvanceTime,
       drdControllerVars, FollowInv, Served, Raised, Told, Starting, SwitchPaused,
       Monitor, Thread, Process
  <2>2. CASE sw_pc' = sw_pc /\ timer'[Monitor] = timer[Monitor]
    BY <1>1, <1>2, <1>3, <1>4, <2>2 DEF FollowInv, Served, Raised, Told, Starting,
       SwitchPaused
  <2> QED
    BY <1>6, <2>1, <2>2, MonitorMoves
<1> QED
  BY <1>5, <1>6

\* Before the pause, no time passes until it begins, with SettleTime to go.
LEMMA PauseBegins ==
    ASSUME MinGap > 0, RoleGap >= PulseTime, RoleGap >= SettleTime, TypeOK, SwitchInv,
           StimulusInv, FollowInv, [Next]_vars, sw_pc # "settle", want' = want
    PROVE  sw_pc' # "settle" \/ (SwitchPaused' /\ timer'[Monitor] = SettleTime)
<1>1. SUFFICES ASSUME sw_pc' = "settle"
               PROVE  SwitchPaused' /\ timer'[Monitor] = SettleTime
  OBVIOUS
<1>2. DisableControllers /\ UNCHANGED roleManagerVars
  BY <1>1, MonitorMoves DEF Update, Tick, drdControllerVars, RoleSwitch, RoleSwitchStart,
     EnableController, DisableControllers
<1>3. timer'[Monitor] = SettleTime
  BY <1>2 DEF DisableControllers, Settle, Wait, Monitor, TypeOK, KernelTypeOK, Thread,
     Process
<1>4. Told
  BY <1>2 DEF DisableControllers, FollowInv, Served, Raised, Starting, Settling, Monitor
<1>5. Settling'
  BY <1>1, FollowInvInductive DEF FollowInv, Served, Raised, Told, Starting
<1> QED
  BY <1>2, <1>3, <1>4, <1>5 DEF Told, Followed, SwitchPaused, roleManagerVars

-----------------------------------------------------------------------------
(***************************************************************************)
(* The theorems.                                                           *)
(***************************************************************************)
\* No process is runnable and nothing is to be updated: the end of an instant.
InstantOver == ready = {} /\ ~UpdatePending

\* StimulusInv holds in every reachable state.
LEMMA StimulusInvariant ==
    ASSUME MinGap > 0, RoleGap >= PulseTime
    PROVE  Spec => []StimulusInv
<1>1. Init => StimulusInv
  BY DEF Init, KernelInit, InitSignals, RoleManagerInit, StimuliInit, StimulusInv,
         DetectorInv, Followed, InputsSettled, NoRequest, Ports, Inner, Detector,
         Thread, Process
<1>2. TypeOK /\ StimulusInv /\ [Next]_vars => StimulusInv'
  BY StimulusInvInductive
<1> QED
  BY <1>1, <1>2, TypeCorrect, PTL DEF Spec

\* So does FollowInv.
LEMMA FollowInvariant ==
    ASSUME MinGap > 0, RoleGap >= PulseTime, RoleGap >= SettleTime
    PROVE  Spec => []FollowInv
<1>1. Init => FollowInv
  BY DEF Init, KernelInit, InitSignals, RoleManagerInit, DrdControllerInit, FollowInv,
         Starting, RoleSteady, Detecting, Arriving, Written, Forwarding, Forwarded,
         Requested, InputsSettled, Ports, Inner, Monitor
<1>2. TypeOK /\ SwitchInv /\ StimulusInv /\ FollowInv /\ [Next]_vars => FollowInv'
  BY FollowInvInductive
<1> QED
  BY <1>1, <1>2, TypeCorrect, SwitchInvariant, StimulusInvariant, PTL DEF Spec

\* At the end of every instant, not only at rest, the role is the one the last
\* stimulus calls for.
LEMMA InstantEnds ==
    ASSUME StimulusInv, InstantOver
    PROVE  Followed /\ sig.role = want
BY DEF InstantOver, UpdatePending, StimulusInv, DetectorInv, Followed, Arriving,
       Written, Forwarding, Forwarded, Requested, Detecting, Ports, Inner

\* And role_switch_monitor has done its work for it, or is in its pause.
LEMMA InstantSwitch ==
    ASSUME StimulusInv, FollowInv, InstantOver
    PROVE  SwitchOver \/ (SwitchPaused /\ timer[Monitor] > 0)
BY InstantEnds DEF InstantOver, UpdatePending, Followed, FollowInv, Raised, Told,
   Starting, Settling, SwitchOver, SwitchPaused

\* Before role_switch_monitor has begun there is nothing for it to do.
LEMMA StartStays ==
    ASSUME MinGap > 0, RoleGap >= PulseTime, RoleGap >= SettleTime, TypeOK, SwitchInv,
           StimulusInv, FollowInv, [Next]_vars, Starting, m_role = want, want' = want
    PROVE  SwitchOver' \/ (Starting' /\ m_role' = want')
<1>1. m_role' = want' /\ m_role' = m_role
  BY RoleStays
<1>2. FollowInv'
  BY FollowInvInductive
<1>3. sw_pc = "start" /\ Monitor \in ready /\ RoleSteady
  BY DEF Starting
<1>4. CASE RoleSwitch
  <2>1. RoleSwitchStart
    BY <1>3, <1>4 DEF RoleSwitch, DisableControllers, EnableController
  <2>2. sw_pc' = "wait" /\ Monitor \notin ready' /\ sig' = sig
    BY <2>1 DEF RoleSwitchStart, Wait, Monitor
  <2>3. ~Raised'
    BY <1>3, <1>4, <2>2, MonitorWrites DEF Raised, RoleSteady, TypeOK
  <2> QED
    BY <1>1, <1>2, <2>2, <2>3 DEF FollowInv, Told, Starting, Settling, SwitchOver
<1>5. CASE sw_pc' = sw_pc
  BY <1>1, <1>2, <1>3, <1>5 DEF FollowInv, Served, Raised, Told, Settling
<1>6. ~Update /\ ~Tick
  BY <1>3 DEF Update, DeltaCycle, Tick, AdvanceTime
<1> QED
  BY <1>4, <1>5, <1>6, MonitorMoves

\* If the pulse of role_changed ends before the next stimulus comes, the role
\* manager misses no change of CC or VBUS and no request
\* (role_detection_process, which does not listen while it pulses).
THEOREM RoleFollowsStimulus ==
    ASSUME MinGap > 0, RoleGap >= PulseTime
    PROVE  Spec => []RoleMatchesStimulus
<1>1. StimulusInv => RoleMatchesStimulus
  BY InstantEnds DEF RoleMatchesStimulus, Quiescent, InstantOver
<1> QED
  BY <1>1, StimulusInvariant, PTL

\* Nor does it leave a request behind to be carried out at some later change
\* of the inputs.
THEOREM RequestsCarriedOut ==
    ASSUME MinGap > 0, RoleGap >= PulseTime
    PROVE  Spec => []NoRequestLeft
<1>1. StimulusInv => NoRequestLeft
  BY InstantEnds DEF NoRequestLeft, Quiescent, InstantOver, Followed, NoRequest
<1> QED
  BY <1>1, StimulusInvariant, PTL

\* If role_switch_monitor has settled as well before the next stimulus comes,
\* no controller is enabled at the end of an instant but that of the role by
\* which the protocol layer routes.
THEOREM NoControllerStale ==
    ASSUME MinGap > 0, RoleGap >= PulseTime, RoleGap >= SettleTime
    PROVE  Spec => []NoStaleController
<1>1. TypeOK /\ StimulusInv /\ FollowInv => NoStaleController
  BY DEF NoStaleController, UpdatePending, StimulusInv, DetectorInv, FollowInv, Served,
         Raised, Told, Starting, Settling, Enabling, ActiveRole, TypeOK,
         RoleManagerTypeOK, Role
<1> QED
  BY <1>1, TypeCorrect, StimulusInvariant, FollowInvariant, PTL

\* And when the DRD comes to rest, the controller of the current role is the
\* one that is enabled.
THEOREM ControllerFollowsRole ==
    ASSUME MinGap > 0, RoleGap >= PulseTime, RoleGap >= SettleTime
    PROVE  Spec => []ControllerMatchesRole
<1>1. TypeOK /\ StimulusInv /\ FollowInv => ControllerMatchesRole
  <2> Monitor \in Process
    BY DEF Monitor, Process
  <2> SUFFICES ASSUME TypeOK, StimulusInv, FollowInv, Quiescent
               PROVE  ActiveRole = sig.role
    BY DEF ControllerMatchesRole
  <2>1. Served
    BY DEF Quiescent, UpdatePending, FollowInv, Raised, Told, Starting, Settling
  <2>2. nxt = sig /\ sig.role = m_role
    BY DEF Quiescent, UpdatePending, StimulusInv, DetectorInv
  <2> QED
    BY <2>1, <2>2 DEF Served, Enabling, ActiveRole, TypeOK, RoleManagerTypeOK, Role
<1> QED
  BY <1>1, TypeCorrect, StimulusInvariant, FollowInvariant, PTL

\* Every step of the role switch is one of its abstract specification: the role
\* manager takes the role that is called for, and role_switch_monitor releases
\* one controller before it engages that of the new role.  (The fairness of
\* DualRole is left to the runs.)
THEOREM SwitchImplementsDualRole ==
    ASSUME MinGap > 0, RoleGap >= PulseTime, RoleGap >= SettleTime
    PROVE  Spec => Abstract!Init /\ [][Abstract!Next]_(Abstract!vars)
<1>1. Init => Abstract!Init
  BY DEF Init, KernelInit, InitSignals, StimuliInit, Abstract!Init, ActiveRole
<1>2. /\ TypeOK /\ SwitchInv /\ StimulusInv /\ FollowInv
      /\ TypeOK' /\ [Next]_vars
      => [Abstract!Next]_(Abstract!vars)
  <2> SUFFICES ASSUME TypeOK, SwitchInv, StimulusInv, FollowInv, TypeOK', [Next]_vars
               PROVE  [Abstract!Next]_(Abstract!vars)
    OBVIOUS
  <2>1. CASE Update
    <3>1. /\ ready = {} /\ sig' = nxt /\ want' = want
      BY <2>1 DEF Update, DeltaCycle
    <3>2. CASE Raised
      <4>1. ActiveRole' = ActiveRole
        BY <3>1, <3>2 DEF Raised, ControllersSteady, ActiveRole
      <4>2. sig'.role = want
        BY <3>1, <3>2 DEF Raised, Followed, StimulusInv, DetectorInv
      <4> QED
        BY <3>1, <4>1, <4>2 DEF Abstract!Next, Abstract!Take, Abstract!vars
    <3>3. CASE Served \/ Settling
      <4>1. sig'.role = sig.role
        BY <3>1, <3>3 DEF Served, Settling, RoleSteady
      <4>2. CASE ActiveRole' = ActiveRole
        BY <3>1, <4>1, <4>2 DEF Abstract!vars
      <4>3. CASE Served /\ ActiveRole' # ActiveRole
        <5>1. ActiveRole' = sig.role
          BY <3>1, <4>3 DEF Served, RoleSteady, Enabling, ActiveRole, StimulusInv,
             DetectorInv, TypeOK, RoleManagerTypeOK, Role
        <5>2. ActiveRole = "NONE"
          BY <3>1, <4>3, <5>1 DEF Served, ActiveRole, SwitchInv, ExclusiveControllers
        <5> QED
          BY <3>1, <4>1, <5>1, <5>2 DEF Abstract!Next, Abstract!Engage, Abstract!vars
      <4>4. CASE Settling /\ ActiveRole' # ActiveRole
        <5>1. ActiveRole' = "NONE"
          BY <3>1, <4>4 DEF Settling, Enabling, ActiveRole
        <5>2. ActiveRole # sig.role
          BY <4>4, <5>1 DEF Settling, RoleSteady, NotYetEnabled, ActiveRole, StimulusInv,
             DetectorInv
        <5> QED
          BY <3>1, <4>1, <4>4, <5>1, <5>2 DEF Abstract!Next, Abstract!Release,
             Abstract!vars
      <4> QED
        BY <3>3, <4>2, <4>3, <4>4
    <3> QED
      BY <3>1, <3>2, <3>3 DEF FollowInv, Told, Starting
  <2>2. CASE sig' = sig
    <3>1. ActiveRole' = ActiveRole
      BY <2>2 DEF ActiveRole
    <3>2. want' \in Abstract!Role
      BY DEF TypeOK, StimuliTypeOK, Role, Abstract!Role
    <3> QED
      BY <2>2, <3>1, <3>2 DEF Abstract!Next, Abstract!Stimulus
  <2>3. Update \/ sig' = sig
    BY DEF Next, Environment, Stimulate, SetInputs, DriveInputs, ForceRole, AskForRole,
       WriteRoleCtrl, RequestRole, Software, ClearInterrupts, WriteIntrStatus,
       MaskInterrupts, WriteIntrEnable, StartPulse, TransferDone, EnumerationDone,
       BulkIrq, RunProcess, RoleDetection, RoleDetectionStart, DetectRole, EndRolePulse,
       ForwardInputs, RoleSwitch, RoleSwitchStart, DisableControllers, EnableController,
       InterruptCollector, HostPulseEnd, NextTransferDone, BulkPulseEnd, Tick,
       AdvanceTime, vars, kernelVars
  <2> QED
    BY <2>1, <2>2, <2>3
<1> QED
  BY <1>1, <1>2, TypeCorrect, SwitchInvariant, StimulusInvariant, FollowInvariant, PTL
  DEF Spec
=============================================================================
