------------------------------ MODULE DrdCore ------------------------------
(***************************************************************************)
(* The role switch and the interrupts of the DRD: the testbench, the role  *)
(* manager and the top-level controller run together, with the host and    *)
(* the device controller reduced to their pulses.                          *)
(***************************************************************************)
EXTENDS Stimuli, ControllerPulses

CONSTANT Pulses     \* the outputs that the two controllers pulse

ASSUME PulsesAssumption ==
    Pulses \subseteq {"transfer_done", "enumeration_done", "bulk_irq"}

vars == <<kernelVars, roleManagerVars, drdControllerVars, ghosts>>

TypeOK ==
    /\ KernelTypeOK
    /\ RoleManagerTypeOK
    /\ DrdControllerTypeOK
    /\ StimuliTypeOK

\* interrupt_collector alone has dont_initialize(); the threads of the two
\* controllers are idle until they pulse.
Init ==
    /\ KernelInit({"forward_inputs", "role_detection_process", "role_switch_monitor"})
    /\ RoleManagerInit
    /\ DrdControllerInit
    /\ StimuliInit

-----------------------------------------------------------------------------
StartPulse ==
    /\ \/ "transfer_done" \in Pulses /\ TransferDone
       \/ "enumeration_done" \in Pulses /\ EnumerationDone
       \/ "bulk_irq" \in Pulses /\ BulkIrq
    /\ UNCHANGED <<roleManagerVars, drdControllerVars, want>>

Environment == (Stimulate \/ Software \/ StartPulse) /\ UNCHANGED idle

-----------------------------------------------------------------------------
\* Each process runs its next step, an update phase, or time advances.
RunProcess ==
    /\ \/ RoleDetection /\ UNCHANGED drdControllerVars
       \/ ForwardInputs
       \/ RoleSwitch
       \/ InterruptCollector
       \/ /\ \/ HostPulseEnd
             \/ "transfer_done" \in Pulses /\ NextTransferDone
             \/ BulkPulseEnd
          /\ UNCHANGED <<roleManagerVars, drdControllerVars>>
    /\ UNCHANGED ghosts

Woken ==
    {p \in Process : \/ p = "forward_inputs" /\ ForwardInputsWoken
                     \/ p = "role_detection_process" /\ RoleDetectionWoken
                     \/ p = "role_switch_monitor" /\ RoleSwitchWoken
                     \/ p = "interrupt_collector" /\ InterruptCollectorWoken}

Update ==
    /\ DeltaCycle(Woken)
    /\ IdleAfterUpdate
    /\ UNCHANGED <<roleManagerVars, drdControllerVars, want>>

\* Time also passes while no process of this module waits for it: the
\* testbench and the threads that are left out have waits of their own.
Tick ==
    /\ AdvanceTime
    /\ IdleAfterTick
    /\ UNCHANGED <<roleManagerVars, drdControllerVars, want>>

Next == Environment \/ RunProcess \/ Update \/ Tick

Spec == Init /\ [][Next]_vars

\* The scheduler never stops while there is something for it to do: it runs
\* every runnable process, then the update phase, then the next timeout.
FairSpec == Spec /\ WF_vars(RunProcess) /\ WF_vars(Update) /\ WF_vars(Tick)

-----------------------------------------------------------------------------
(***************************************************************************)
(* Properties of every behaviour.                                          *)
(***************************************************************************)
ActiveRole ==
    CASE sig.host_enable -> "HOST"
      [] sig.dev_enable /\ ~sig.host_enable -> "DEVICE"
      [] OTHER -> "NONE"

\* The host and the device controller are never enabled together, neither now
\* nor after the writes that are still pending (role_switch_monitor).
ExclusiveControllers ==
    /\ ~(sig.host_enable /\ sig.dev_enable)
    /\ ~(nxt.host_enable /\ nxt.dev_enable)

\* A controller is enabled only after both have been disabled for SettleTime,
\* however fast the roles follow one another ("disable both controllers
\* first", role_switch_monitor).
DeadTime ==
    [][ActiveRole' \notin {ActiveRole, "NONE"} =>
          ActiveRole = "NONE" /\ idle = SettleTime]_vars

\* irq is asserted only while some interrupt is pending: a write of
\* INTR_STATUS that clears the last bit takes irq away whatever raise_irq does
\* in the same evaluation phase, in either order.
IrqHasCause == nxt.irq => m_intr_status # {}

\* As long as software leaves INTR_ENABLE at its reset value, irq is the level of
\* the enabled pending interrupts ("level-sensitive interrupt", "interrupt enable
\* mask", usb3_drd_controller.h).  Neither a write of the mask nor one of
\* INTR_STATUS under another mask sees to this.
IrqLevel == nxt.irq <=> m_intr_status \cap m_intr_enable # {}

(***************************************************************************)
(* Properties of a testbench that leaves the DRD enough time between two   *)
(* stimuli, PulseTime and SettleTime at least.                             *)
(***************************************************************************)

\* When the DRD comes to rest, the enabled controller is the one of the
\* current role ("enable the appropriate controller", role_switch_monitor).
ControllerMatchesRole == Quiescent => ActiveRole = sig.role

\* When the DRD comes to rest, its role is the one the last stimulus calls
\* for: the role manager has missed no change of CC or VBUS and no request.
RoleMatchesStimulus == Quiescent => sig.role = want

\* No request is left behind to be carried out at some later change of the
\* inputs (m_host_requested, m_device_requested).
NoRequestLeft == Quiescent => ~m_host_requested /\ ~m_device_requested

\* Between two instants, the only controller that can be enabled is that of
\* the role by which the protocol layer routes what the peer sends.
NoStaleController ==
    ready = {} /\ ~UpdatePending => ActiveRole \in {"NONE", sig.role}

\* The role switch as a whole implements its abstract specification, its
\* liveness included.
Abstract == INSTANCE DualRole WITH role <- sig.role, active <- ActiveRole

RoleSwitchSpec == Abstract!Spec
=============================================================================
