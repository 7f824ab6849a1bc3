---------------------------- MODULE StimuliProofs ----------------------------
(***************************************************************************)
(* Lemmas about the part that DrdCore and Drd have in common: the          *)
(* scheduler, the role manager, the top-level controller and the           *)
(* testbench.                                                              *)
(***************************************************************************)
EXTENDS Stimuli, TLAPS

USE PulseTimeAssumption, SettleTimeAssumption, GapAssumption, StimuliAssumption

-----------------------------------------------------------------------------
\* A wait of a process of the DRD keeps the scheduler's own state well typed.
LEMMA WaitType ==
    ASSUME NEW p \in Process, NEW d \in Nat, KernelTypeOK, Wait(p, d)
    PROVE  /\ ready' \subseteq Process
           /\ timer' \in [Thread -> Nat]
BY DEF KernelTypeOK, Wait, Thread

\* So does a stimulus of the testbench, which starts its gap.
LEMMA GapType ==
    ASSUME KernelTypeOK, NEW r, CallFor(r)
    PROVE  timer' \in [Thread -> Nat]
BY DEF KernelTypeOK, CallFor, Thread

\* The processes of this module are processes of the kernel.
LEMMA ProcessNames ==
    {"forward_inputs", "role_detection_process", "role_switch_monitor",
     "interrupt_collector", "host_main_process", "loopback_process"} \subseteq Process
BY DEF Process

\* Inputs of any kind call for some role: the detection has a default case.
LEMMA DetectedType == \A cc, vbus : Detected(cc, vbus) \in Role
BY DEF Detected, Role

\* So do inputs and requests together.
LEMMA SelectedType == Selected \in Role
BY DetectedType DEF Selected, Role

\* The pending signals stay well typed when raise_irq is called in a step that
\* makes them n.
LEMMA RaiseIrqType ==
    ASSUME NEW bits \in SUBSET IntrBit, NEW n \in Signals,
           DrdControllerTypeOK, RaiseIrq(bits, n)
    PROVE  nxt' \in Signals /\ m_intr_status' \subseteq IntrBit
BY DEF RaiseIrq, DrdControllerTypeOK, Signals

-----------------------------------------------------------------------------
\* The type invariant of this part.
ControlTypeOK ==
    /\ KernelTypeOK
    /\ RoleManagerTypeOK
    /\ DrdControllerTypeOK
    /\ StimuliTypeOK

\* The processes of this part, as RunProcess runs them.
ControlProcess ==
    /\ \/ RoleDetection /\ UNCHANGED drdControllerVars
       \/ ForwardInputs
       \/ RoleSwitch
       \/ InterruptCollector
    /\ UNCHANGED ghosts

\* Its steps keep every variable's type; the cases are its actions.
LEMMA ControlStepType ==
    ASSUME ControlTypeOK,
           ControlProcess \/ Stimulate \/ Software, UNCHANGED idle
    PROVE  ControlTypeOK'
<1> USE ProcessNames DEF ControlTypeOK, StimuliTypeOK
<1>1. ASSUME RoleDetectionStart, UNCHANGED <<drdControllerVars, want, idle>>
      PROVE  ControlTypeOK'
  <2>1. nxt' \in Signals
    BY <1>1 DEF RoleDetectionStart, KernelTypeOK, Signals, Role
  <2>2. KernelTypeOK'
    BY <1>1, <2>1, WaitType DEF RoleDetectionStart, KernelTypeOK
  <2>3. RoleManagerTypeOK'
    BY <1>1 DEF RoleDetectionStart, RoleManagerTypeOK
  <2> QED
    BY <1>1, <2>2, <2>3 DEF DrdControllerTypeOK, drdControllerVars
<1>2. ASSUME DetectRole, UNCHANGED <<drdControllerVars, want, idle>>
      PROVE  ControlTypeOK'
  <2>1. CASE ApplyRole(Selected)
    <3>1. nxt' \in Signals
      BY <2>1, SelectedType DEF ApplyRole, KernelTypeOK, Signals
    <3>2. KernelTypeOK'
      BY <1>2, <2>1, <3>1, WaitType DEF DetectRole, ApplyRole, KernelTypeOK
    <3>3. RoleManagerTypeOK'
      BY <1>2, <2>1, SelectedType DEF DetectRole, ApplyRole, RoleManagerTypeOK
    <3> QED
      BY <1>2, <3>2, <3>3 DEF DrdControllerTypeOK, drdControllerVars
  <2>2. CASE KeepRole(Selected)
    <3>1. KernelTypeOK'
      BY <1>2, <2>2, WaitType DEF DetectRole, KeepRole, KernelTypeOK
    <3>2. RoleManagerTypeOK'
      BY <1>2, <2>2 DEF DetectRole, KeepRole, RoleManagerTypeOK
    <3> QED
      BY <1>2, <3>1, <3>2 DEF DrdControllerTypeOK, drdControllerVars
  <2> QED
    BY <1>2, <2>1, <2>2 DEF DetectRole
<1>3. ASSUME EndRolePulse, UNCHANGED <<drdControllerVars, want, idle>>
      PROVE  ControlTypeOK'
  <2>1. nxt' \in Signals
    BY <1>3 DEF EndRolePulse, KernelTypeOK, Signals
  <2>2. KernelTypeOK'
    BY <1>3, <2>1, WaitType DEF EndRolePulse, KernelTypeOK
  <2>3. RoleManagerTypeOK'
    BY <1>3 DEF EndRolePulse, RoleManagerTypeOK
  <2> QED
    BY <1>3, <2>2, <2>3 DEF DrdControllerTypeOK, drdControllerVars
<1>4. ASSUME ForwardInputs, UNCHANGED <<want, idle>>
      PROVE  ControlTypeOK'
  <2>1. nxt' \in Signals
    BY <1>4 DEF ForwardInputs, KernelTypeOK, Signals
  <2>2. KernelTypeOK'
    BY <1>4, <2>1, WaitType DEF ForwardInputs, KernelTypeOK
  <2> QED
    BY <1>4, <2>2 DEF ForwardInputs, RoleManagerTypeOK, roleManagerVars,
         DrdControllerTypeOK, drdControllerVars
<1>5. ASSUME RoleSwitchStart, UNCHANGED <<want, idle>>
      PROVE  ControlTypeOK'
  <2>1. nxt' \in Signals
    BY <1>5 DEF RoleSwitchStart, ControllersOff, KernelTypeOK, Signals
  <2>2. KernelTypeOK'
    BY <1>5, <2>1, WaitType DEF RoleSwitchStart, ControllersOff, KernelTypeOK
  <2>3. DrdControllerTypeOK'
    BY <1>5 DEF RoleSwitchStart, ControllersOff, DrdControllerTypeOK
  <2> QED
    BY <1>5, <2>2, <2>3 DEF RoleSwitchStart, RoleManagerTypeOK, roleManagerVars
<1>6. ASSUME DisableControllers, UNCHANGED <<want, idle>>
      PROVE  ControlTypeOK'
  <2>1. nxt' \in Signals
    BY <1>6 DEF DisableControllers, ControllersOff, Settle, KernelTypeOK, Signals
  <2>2. KernelTypeOK'
    BY <1>6, <2>1, WaitType DEF DisableControllers, ControllersOff, Settle,
       KernelTypeOK
  <2>3. DrdControllerTypeOK'
    BY <1>6 DEF DisableControllers, ControllersOff, Settle,
       DrdControllerTypeOK, KernelTypeOK, Signals
  <2> QED
    BY <1>6, <2>2, <2>3 DEF DisableControllers, ControllersOff, Settle,
       RoleManagerTypeOK, roleManagerVars
<1>7. ASSUME EnableController, UNCHANGED <<want, idle>>
      PROVE  ControlTypeOK'
  <2> DEFINE n == [nxt EXCEPT !.host_enable = @ \/ sw_role = "HOST",
                              !.dev_enable = @ \/ sw_role = "DEVICE"]
  <2>1. n \in Signals
    BY DEF KernelTypeOK, Signals
  <2>2. nxt' \in Signals /\ m_intr_status' \subseteq IntrBit
    <3>1. RaiseIrq({"ROLE_CHANGED"}, n)
      BY <1>7 DEF EnableController
    <3>2. {"ROLE_CHANGED"} \in SUBSET IntrBit
      BY DEF IntrBit
    <3> HIDE DEF n
    <3> QED
      BY <2>1, <3>1, <3>2, RaiseIrqType
  <2> QED
    BY <1>7, <2>2, WaitType DEF EnableController, KernelTypeOK,
       RoleManagerTypeOK, DrdControllerTypeOK, roleManagerVars
<1>8. ASSUME InterruptCollector, UNCHANGED <<want, idle>>
      PROVE  ControlTypeOK'
  <2>1. nxt' \in Signals /\ m_intr_status' \subseteq IntrBit
    BY <1>8, RaiseIrqType DEF InterruptCollector, HighSources, KernelTypeOK,
       DrdControllerTypeOK
  <2> QED
    BY <1>8, <2>1, WaitType DEF InterruptCollector, KernelTypeOK,
       RoleManagerTypeOK, DrdControllerTypeOK, roleManagerVars
<1>9. ASSUME NEW input \in Inputs, SetInputs(input[1], input[2]), UNCHANGED idle
       PROVE  ControlTypeOK'
  <2>1. nxt' \in Signals
    BY <1>9 DEF SetInputs, DriveInputs, KernelTypeOK, Signals
  <2>2. KernelTypeOK'
    BY <1>9, <2>1, GapType DEF SetInputs, DriveInputs, KernelTypeOK
  <2>3. want' \in Role
    BY <1>9, DetectedType DEF SetInputs, DriveInputs, CallFor
  <2> QED
    BY <1>9, <2>2, <2>3 DEF SetInputs, DriveInputs, RoleManagerTypeOK, roleManagerVars,
       DrdControllerTypeOK, drdControllerVars
<1>10. ASSUME NEW r \in Requests, ForceRole(r), UNCHANGED idle
       PROVE  ControlTypeOK'
  <2>1. KernelTypeOK'
    BY <1>10, GapType DEF ForceRole, AskForRole, WriteRoleCtrl, RequestRole,
       KernelTypeOK, Event
  <2>2. RoleManagerTypeOK' /\ want' \in Role
    BY <1>10 DEF ForceRole, AskForRole, CallFor, WriteRoleCtrl, RequestRole,
       RoleManagerTypeOK, Role
  <2> QED
    BY <1>10, <2>1, <2>2 DEF ForceRole, AskForRole, WriteRoleCtrl, DrdControllerTypeOK,
       drdControllerVars
<1>11. ASSUME NEW ones \in Clears, ClearInterrupts(ones), UNCHANGED idle
       PROVE  ControlTypeOK'
  <2>1. nxt' \in Signals
    BY <1>11 DEF ClearInterrupts, WriteIntrStatus, KernelTypeOK, Signals
  <2>2. KernelTypeOK'
    BY <1>11, <2>1 DEF ClearInterrupts, WriteIntrStatus, KernelTypeOK
  <2> QED
    BY <1>11, <2>2 DEF ClearInterrupts, WriteIntrStatus, DrdControllerTypeOK,
       RoleManagerTypeOK, roleManagerVars
<1>12. ASSUME NEW mask \in Masks, MaskInterrupts(mask), UNCHANGED idle
       PROVE  ControlTypeOK'
  BY <1>12 DEF MaskInterrupts, WriteIntrEnable, KernelTypeOK,
       RoleManagerTypeOK, DrdControllerTypeOK, roleManagerVars
<1> QED
  BY <1>1, <1>2, <1>3, <1>4, <1>5, <1>6, <1>7, <1>8, <1>9, <1>10, <1>11, <1>12
  DEF ControlProcess, Stimulate, Software, RoleDetection, RoleSwitch, ghosts

\* What the controllers write, which the managers and the testbench only read.
Outputs(s) == <<s.xfer_done, s.enum_done, s.bulk_irq, s.dev_addr, s.configured>>

\* Nor do they make any process runnable, or touch the timers of the controllers.
LEMMA ControlWrites ==
    ASSUME ControlTypeOK, ControlProcess \/ Stimulate \/ Software
    PROVE  /\ sig' = sig
           /\ Outputs(nxt') = Outputs(nxt)
           /\ ready' \subseteq ready
           /\ \A p \in {"host_main_process", "loopback_process"} :
                  timer'[p] = timer[p] /\ (p \in ready' <=> p \in ready)
<1>1. nxt \in Signals /\ timer \in [Thread -> Nat]
  BY DEF ControlTypeOK, KernelTypeOK
<1>2. /\ sig' = sig
      /\ \/ \E p \in Process \ {"host_main_process", "loopback_process"}, d \in Nat :
                Wait(p, d)
         \/ ready' = ready /\ \E r : CallFor(r)
         \/ UNCHANGED <<ready, timer>>
  BY ProcessNames DEF ControlProcess, Stimulate, Software, RoleDetection,
     RoleDetectionStart, DetectRole, ApplyRole, KeepRole, EndRolePulse, ForwardInputs,
     RoleSwitch, RoleSwitchStart, DisableControllers, Settle, EnableController,
     InterruptCollector, SetInputs, DriveInputs, ForceRole, AskForRole, WriteRoleCtrl,
     RequestRole, ClearInterrupts, WriteIntrStatus, MaskInterrupts, WriteIntrEnable
<1>3. /\ ready' \subseteq ready
      /\ \A p \in {"host_main_process", "loopback_process"} :
             timer'[p] = timer[p] /\ (p \in ready' <=> p \in ready)
  BY <1>1, <1>2 DEF Wait, CallFor, Thread, Process, Testbench
<1>4. Outputs(nxt') = Outputs(nxt)
  <2>1. CASE RoleDetection
    BY <1>1, <2>1 DEF RoleDetection, RoleDetectionStart, DetectRole, EndRolePulse,
       ApplyRole, KeepRole, Signals, Outputs
  <2>2. CASE ForwardInputs
    BY <1>1, <2>2 DEF ForwardInputs, Signals, Outputs
  <2>3. CASE RoleSwitch
    BY <1>1, <2>3 DEF RoleSwitch, RoleSwitchStart, DisableControllers, EnableController,
       ControllersOff, RaiseIrq, Signals, Outputs
  <2>4. CASE InterruptCollector
    BY <1>1, <2>4 DEF InterruptCollector, RaiseIrq, Signals, Outputs
  <2>5. CASE Stimulate
    BY <1>1, <2>5 DEF Stimulate, SetInputs, DriveInputs, ForceRole, AskForRole,
       WriteRoleCtrl, RequestRole, Signals, Outputs
  <2>6. CASE Software
    BY <1>1, <2>6 DEF Software, ClearInterrupts, WriteIntrStatus, MaskInterrupts,
       WriteIntrEnable, Signals, Outputs
  <2> QED
    BY <2>1, <2>2, <2>3, <2>4, <2>5, <2>6 DEF ControlProcess
<1> QED
  BY <1>2, <1>3, <1>4

\* An update phase keeps them, whatever it wakes.
LEMMA UpdateType ==
    ASSUME ControlTypeOK, NEW woken \in SUBSET Process, DeltaCycle(woken),
           IdleAfterUpdate, UNCHANGED <<roleManagerVars, drdControllerVars, want>>
    PROVE  ControlTypeOK'
BY DEF ControlTypeOK, StimuliTypeOK, DeltaCycle, IdleAfterUpdate, KernelTypeOK,
       RoleManagerTypeOK, DrdControllerTypeOK, roleManagerVars, drdControllerVars

\* So does the passing of time.
LEMMA TickType ==
    ASSUME ControlTypeOK, AdvanceTime, IdleAfterTick,
           UNCHANGED <<roleManagerVars, drdControllerVars, want>>
    PROVE  ControlTypeOK'
BY DEF ControlTypeOK, StimuliTypeOK, AdvanceTime, IdleAfterTick, KernelTypeOK,
       RoleManagerTypeOK, DrdControllerTypeOK, roleManagerVars, drdControllerVars

\* And a step that leaves all of it alone.
LEMMA ControlStutterType ==
    ASSUME ControlTypeOK,
           UNCHANGED <<kernelVars, roleManagerVars, drdControllerVars, ghosts>>
    PROVE  ControlTypeOK'
BY DEF ControlTypeOK, StimuliTypeOK, kernelVars, ghosts, KernelTypeOK,
       RoleManagerTypeOK, DrdControllerTypeOK, roleManagerVars, drdControllerVars

\* The initial values have the right types.
LEMMA ControlInitType ==
    ASSUME NEW started \in SUBSET Process, KernelInit(started), RoleManagerInit,
           DrdControllerInit, StimuliInit
    PROVE  ControlTypeOK
<1>1. KernelTypeOK
  BY DEF KernelInit, KernelTypeOK, InitSignals, Signals, CcState, Role
<1>2. RoleManagerTypeOK /\ DrdControllerTypeOK
  BY DEF RoleManagerInit, DrdControllerInit, RoleManagerTypeOK, DrdControllerTypeOK,
         Role
<1>3. StimuliTypeOK
  BY DEF StimuliInit, StimuliTypeOK, Role
<1> QED
  BY <1>1, <1>2, <1>3 DEF ControlTypeOK
=============================================================================
