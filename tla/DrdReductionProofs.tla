------------------------- MODULE DrdReductionProofs -------------------------
(***************************************************************************)
(* Every step of the DRD is a step of DrdCore, or none.  With that, what   *)
(* DrdCoreProofs proves of the role switch and the interrupts holds of the *)
(* whole DRD, for every value of its constants.                            *)
(***************************************************************************)
EXTENDS DrdProofs

USE PulseTimeAssumption, SettleTimeAssumption, GapAssumption

HostPulse == host_pc \in {"enum_pulse", "xfer_pulse"}

\* What the reduction relies on: outside its pulses the host thread keeps its
\* two outputs low, and a controller that is enabled has ended the pause.
ReductionInv ==
    /\ TypeOK
    /\ ~HostPulse => nxt.xfer_done = FALSE /\ nxt.enum_done = FALSE
    /\ sig.host_enable \/ sig.dev_enable => idle = 0

-----------------------------------------------------------------------------
\* What DrdCore sees of the scheduler.
CoreReady == ready \cap (CoreProcess \cup Pulsing)

CoreTimer == [t \in Thread |-> IF t \in CoreProcess \cup Pulsing \cup {Testbench}
                               THEN timer[t] ELSE 0]

CoreNotified == notified \cap {"m_role_request_event"}

\* A wait of a process of DrdCore is one there.
LEMMA CoreWait ==
    ASSUME TypeOK, NEW p \in CoreProcess, NEW d \in Nat, Wait(p, d),
           UNCHANGED <<host_pc, loop_pc>>
    PROVE  Core!Wait(p, d)
BY DEF Core!Wait, Wait, Pulsing, CoreProcess, Thread, TypeOK, KernelTypeOK

\* So is the gap after a stimulus.
LEMMA CoreGap ==
    ASSUME TypeOK, NEW r, CallFor(r), UNCHANGED <<host_pc, loop_pc>>
    PROVE  Core!CallFor(r)
BY DEF Core!CallFor, CallFor, Pulsing, CoreProcess, Thread, TypeOK, KernelTypeOK,
       Testbench, Process, Core!Testbench

-----------------------------------------------------------------------------
(***************************************************************************)
(* The steps of the managers and of the testbench are the same in both.    *)
(***************************************************************************)
LEMMA CoreNames ==
    CoreProcess = {"forward_inputs", "role_detection_process", "role_switch_monitor",
                   "interrupt_collector"}
BY DEF CoreProcess, Process

\* A process of DrdCore is runnable in both or in neither.
LEMMA CoreRuns ==
    ASSUME NEW p \in CoreProcess, p \in ready
    PROVE  p \in CoreReady
BY DEF CoreReady

\* The signals that DrdCore looks at have the same values there.
LEMMA CoreFields ==
    ASSUME NEW s \in Signals
    PROVE  /\ CoreSignals(s).cc = s.cc /\ CoreSignals(s).vbus = s.vbus
           /\ CoreSignals(s).irq = s.irq
           /\ CoreSignals(s).cc_int = s.cc_int /\ CoreSignals(s).vbus_int = s.vbus_int
           /\ CoreSignals(s).role = s.role
           /\ CoreSignals(s).role_changed = s.role_changed
           /\ CoreSignals(s).host_enable = s.host_enable
           /\ CoreSignals(s).dev_enable = s.dev_enable
           /\ CoreSignals(s).xfer_done = s.xfer_done
           /\ CoreSignals(s).enum_done = s.enum_done
           /\ CoreSignals(s).bulk_irq = s.bulk_irq
           /\ CoreSignals(s) \in Signals
BY DEF CoreSignals, Signals

LEMMA CoreRoleDetection ==
    ASSUME TypeOK, RoleDetection, UNCHANGED <<host_pc, loop_pc>>
    PROVE  Core!RoleDetection
<1>1. /\ sig \in Signals /\ nxt \in Signals
      /\ PulseTime \in Nat
      /\ "role_detection_process" \in CoreProcess
  BY CoreNames DEF TypeOK, KernelTypeOK
<1>2. "role_detection_process" \in CoreReady
  BY <1>1, CoreRuns DEF RoleDetection, RoleDetectionStart, DetectRole, EndRolePulse
<1>3. ASSUME RoleDetectionStart PROVE Core!RoleDetectionStart
  <2>1. CoreSignals(nxt') = [CoreSignals(nxt) EXCEPT !.role = "NONE",
                                                     !.role_changed = FALSE]
    BY <1>1, <1>3 DEF RoleDetectionStart, CoreSignals, Signals
  <2>2. Core!Wait("role_detection_process", 0)
    BY <1>1, <1>3, CoreWait DEF RoleDetectionStart
  <2> QED
    BY <1>2, <1>3, <2>1, <2>2 DEF RoleDetectionStart, Core!RoleDetectionStart, CoreReady
<1>4. ASSUME EndRolePulse PROVE Core!EndRolePulse
  <2>1. CoreSignals(nxt') = [CoreSignals(nxt) EXCEPT !.role_changed = FALSE]
    BY <1>1, <1>4 DEF EndRolePulse, CoreSignals, Signals
  <2> QED
    BY <1>1, <1>2, <1>4, <2>1, CoreWait DEF EndRolePulse, Core!EndRolePulse, CoreReady
<1>5. ASSUME DetectRole PROVE Core!DetectRole
  <2>1. Core!Selected = Selected
    BY <1>1, CoreFields DEF Core!Selected, Selected, Core!Detected, Detected
  <2>2. ASSUME ApplyRole(Selected) PROVE Core!ApplyRole(Selected)
    <3>1. CoreSignals(nxt') = [CoreSignals(nxt) EXCEPT !.role = Selected,
                                                       !.role_changed = TRUE]
      BY <1>1, <2>2 DEF ApplyRole, CoreSignals, Signals
    <3>2. Core!Wait("role_detection_process", PulseTime)
      BY <1>1, <2>2, CoreWait DEF ApplyRole
    <3> QED
      BY <2>2, <3>1, <3>2 DEF ApplyRole, Core!ApplyRole
  <2>3. ASSUME KeepRole(Selected) PROVE Core!KeepRole(Selected)
    BY <1>1, <2>3, CoreWait DEF KeepRole, Core!KeepRole
  <2> QED
    BY <1>2, <1>5, <2>1, <2>2, <2>3 DEF DetectRole, Core!DetectRole, CoreReady
<1> QED
  BY <1>3, <1>4, <1>5 DEF RoleDetection, Core!RoleDetection

LEMMA CoreForwardInputs ==
    ASSUME TypeOK, ForwardInputs, UNCHANGED <<host_pc, loop_pc>>
    PROVE  Core!ForwardInputs
<1>1. /\ sig \in Signals /\ nxt \in Signals
      /\ "forward_inputs" \in CoreProcess
  BY CoreNames DEF TypeOK, KernelTypeOK
<1>2. "forward_inputs" \in CoreReady
  BY <1>1, CoreRuns DEF ForwardInputs
<1>3. CoreSignals(nxt') = [CoreSignals(nxt) EXCEPT !.cc_int = CoreSignals(sig).cc,
                                                   !.vbus_int = CoreSignals(sig).vbus]
  BY <1>1 DEF ForwardInputs, CoreSignals, Signals
<1> QED
  BY <1>1, <1>2, <1>3, CoreWait DEF ForwardInputs, Core!ForwardInputs, CoreReady,
     roleManagerVars, Core!roleManagerVars, drdControllerVars, Core!drdControllerVars

\* raise_irq, in a step that makes the pending signals n and here m.
LEMMA CoreRaiseIrq ==
    ASSUME NEW n \in Signals, NEW bits, RaiseIrq(bits, n), NEW m, m = CoreSignals(n)
    PROVE  Core!RaiseIrq(bits, m)
<1>1. CoreSignals(nxt') =
          [m EXCEPT !.irq = @ \/ (m_intr_status \cup bits) \cap m_intr_enable # {}]
  BY DEF RaiseIrq, CoreSignals, Signals
<1> QED
  BY <1>1 DEF RaiseIrq, Core!RaiseIrq

LEMMA CoreRoleSwitch ==
    ASSUME TypeOK, RoleSwitch, UNCHANGED <<host_pc, loop_pc>>
    PROVE  Core!RoleSwitch
<1>1. /\ sig \in Signals /\ nxt \in Signals
      /\ SettleTime \in Nat
      /\ "role_switch_monitor" \in CoreProcess
  BY CoreNames DEF TypeOK, KernelTypeOK
<1>2. "role_switch_monitor" \in CoreReady
  BY <1>1, CoreRuns DEF RoleSwitch, RoleSwitchStart, DisableControllers, EnableController
<1>3. CoreSignals(ControllersOff(nxt)) = Core!ControllersOff(CoreSignals(nxt))
  BY <1>1 DEF ControllersOff, Core!ControllersOff, CoreSignals, Signals
<1>4. ASSUME RoleSwitchStart PROVE Core!RoleSwitchStart
  BY <1>1, <1>2, <1>3, <1>4, CoreWait
  DEF RoleSwitchStart, Core!RoleSwitchStart, CoreReady, roleManagerVars,
      Core!roleManagerVars
<1>5. ASSUME DisableControllers PROVE Core!DisableControllers
  <2>1. CoreSignals(sig).role = sig.role
    BY <1>1, CoreFields
  <2>2. Core!Settle
    BY <1>1, <1>5, CoreWait DEF DisableControllers, Settle, Core!Settle
  <2> QED
    BY <1>2, <1>3, <1>5, <2>1, <2>2 DEF DisableControllers, Core!DisableControllers,
       CoreReady, roleManagerVars, Core!roleManagerVars
<1>6. ASSUME EnableController PROVE Core!EnableController
  <2> DEFINE n == [nxt EXCEPT !.host_enable = @ \/ sw_role = "HOST",
                              !.dev_enable = @ \/ sw_role = "DEVICE"]
             m == [CoreSignals(nxt) EXCEPT !.host_enable = @ \/ sw_role = "HOST",
                                           !.dev_enable = @ \/ sw_role = "DEVICE"]
  <2>1. n \in Signals /\ m = CoreSignals(n)
    BY <1>1 DEF CoreSignals, Signals
  <2>2. Core!RaiseIrq({"ROLE_CHANGED"}, m)
    <3>1. RaiseIrq({"ROLE_CHANGED"}, n)
      BY <1>6 DEF EnableController
    <3> HIDE DEF n, m
    <3> QED
      BY <2>1, <3>1, CoreRaiseIrq
  <2>3. Core!Wait("role_switch_monitor", 0)
    BY <1>1, <1>6, CoreWait DEF EnableController
  <2> QED
    BY <1>2, <1>6, <2>2, <2>3 DEF EnableController, Core!EnableController, CoreReady,
       roleManagerVars, Core!roleManagerVars
<1> QED
  BY <1>4, <1>5, <1>6 DEF RoleSwitch, Core!RoleSwitch

LEMMA CoreInterruptCollector ==
    ASSUME TypeOK, InterruptCollector, UNCHANGED <<host_pc, loop_pc>>
    PROVE  Core!InterruptCollector
<1>1. /\ sig \in Signals /\ nxt \in Signals
      /\ "interrupt_collector" \in CoreProcess
  BY CoreNames DEF TypeOK, KernelTypeOK
<1>2. "interrupt_collector" \in CoreReady
  BY <1>1, CoreRuns DEF InterruptCollector
<1>3. Core!HighSources = HighSources
  BY <1>1, CoreFields DEF HighSources, Core!HighSources, IntrBit, Core!IntrBit
<1>4. IF HighSources # {}
      THEN Core!RaiseIrq(HighSources, CoreSignals(nxt))
      ELSE CoreSignals(nxt') = CoreSignals(nxt) /\ m_intr_status' = m_intr_status
  BY <1>1, CoreRaiseIrq DEF InterruptCollector
<1>5. Core!Wait("interrupt_collector", 0)
  BY <1>1, CoreWait DEF InterruptCollector
<1> QED
  BY <1>2, <1>3, <1>4, <1>5 DEF InterruptCollector, Core!InterruptCollector, CoreReady,
     roleManagerVars, Core!roleManagerVars

LEMMA CoreStimulate ==
    ASSUME TypeOK, Stimulate, UNCHANGED <<host_pc, loop_pc>>
    PROVE  Core!Stimulate
<1>1. sig \in Signals /\ nxt \in Signals
  BY DEF TypeOK, KernelTypeOK
<1>2. ([t \in Thread |-> IF t \in CoreProcess \cup Pulsing \cup {Testbench}
                           THEN timer[t] ELSE 0])[Core!Testbench] = timer[Testbench]
  BY DEF Thread, Testbench, Core!Testbench
<1>3. ASSUME NEW cc, NEW vbus, SetInputs(cc, vbus)
      PROVE  Core!SetInputs(cc, vbus)
  <2>1. /\ CoreSignals(nxt') = [CoreSignals(nxt) EXCEPT !.cc = cc, !.vbus = vbus]
        /\ CoreSignals(nxt).cc = nxt.cc /\ CoreSignals(nxt).vbus = nxt.vbus
    BY <1>1, <1>3 DEF SetInputs, DriveInputs, CoreSignals, Signals
  <2>2. Core!CallFor(Detected(cc, vbus))
    BY <1>3, CoreGap DEF SetInputs, DriveInputs
  <2>3. ready' = ready
    BY <1>3 DEF SetInputs, DriveInputs
  <2>4. Core!DriveInputs(cc, vbus)
    BY <1>3, <2>1, <2>2, <2>3 DEF SetInputs, DriveInputs, Core!DriveInputs, Detected,
       Core!Detected, CoreReady, Pulsing, roleManagerVars, Core!roleManagerVars,
       drdControllerVars, Core!drdControllerVars
  <2> QED
    BY <1>2, <1>3, <2>1, <2>4 DEF SetInputs, Core!SetInputs
<1>4. ASSUME NEW r, ForceRole(r)
      PROVE  Core!ForceRole(r)
  <2>1. Core!CallFor(r)
    BY <1>4, CoreGap DEF ForceRole, AskForRole
  <2>2. Core!RequestRole(r)
    BY <1>4 DEF ForceRole, AskForRole, WriteRoleCtrl, RequestRole, Core!RequestRole,
       Pulsing
  <2>3. Core!AskForRole(r)
    BY <1>4, <2>1, <2>2 DEF ForceRole, AskForRole, Core!AskForRole, WriteRoleCtrl,
       Core!WriteRoleCtrl, drdControllerVars, Core!drdControllerVars
  <2> QED
    BY <1>2, <1>4, <2>3 DEF ForceRole, Core!ForceRole
<1> QED
  BY <1>3, <1>4 DEF Stimulate, Core!Stimulate

LEMMA CoreSoftware ==
    ASSUME TypeOK, Software, UNCHANGED <<host_pc, loop_pc>>
    PROVE  Core!Software
<1>1. sig \in Signals /\ nxt \in Signals
  BY DEF TypeOK, KernelTypeOK
<1>2. ASSUME NEW ones, ClearInterrupts(ones)
      PROVE  Core!ClearInterrupts(ones)
  <2>1. CoreSignals(nxt') =
            [CoreSignals(nxt) EXCEPT !.irq = @ /\ m_intr_status \ ones # {}]
    BY <1>1, <1>2 DEF ClearInterrupts, WriteIntrStatus, CoreSignals, Signals
  <2> QED
    BY <1>2, <2>1 DEF ClearInterrupts, Core!ClearInterrupts, WriteIntrStatus,
       Core!WriteIntrStatus, Pulsing, roleManagerVars, Core!roleManagerVars
<1>3. ASSUME NEW mask, MaskInterrupts(mask)
      PROVE  Core!MaskInterrupts(mask)
  BY <1>3 DEF MaskInterrupts, Core!MaskInterrupts, WriteIntrEnable, Core!WriteIntrEnable,
     Pulsing, roleManagerVars, Core!roleManagerVars
<1> QED
  BY <1>2, <1>3 DEF Software, Core!Software

-----------------------------------------------------------------------------
(***************************************************************************)
(* The threads of the two controllers.  DrdCore sees them in their pulses. *)
(***************************************************************************)
\* Nothing that DrdCore looks at changes.
LEMMA CoreStutter ==
    ASSUME CoreSignals(sig') = CoreSignals(sig), CoreSignals(nxt') = CoreSignals(nxt),
           CoreNotified' = CoreNotified, CoreReady' = CoreReady, CoreTimer' = CoreTimer,
           UNCHANGED <<roleManagerVars, drdControllerVars, ghosts>>
    PROVE  UNCHANGED Core!vars
BY DEF Core!vars, Core!kernelVars, CoreNotified, CoreReady, CoreTimer,
       roleManagerVars, Core!roleManagerVars, drdControllerVars,
       Core!drdControllerVars, ghosts, Core!ghosts

\* A wait outside the pulses is hidden from DrdCore.
LEMMA CoreQuietWait ==
    ASSUME TypeOK, NEW p \in Process \ CoreProcess, NEW d \in Nat, Wait(p, d),
           p \notin Pulsing, Pulsing' = Pulsing
    PROVE  CoreReady' = CoreReady /\ CoreTimer' = CoreTimer
BY DEF Wait, CoreReady, CoreTimer, Thread, TypeOK, KernelTypeOK, Testbench, Process

\* One that begins or ends a pulse is a wait there.
LEMMA CorePulseWait ==
    ASSUME TypeOK, NEW p \in Process \ CoreProcess, NEW d \in Nat, Wait(p, d),
           Pulsing' = IF d = 0 THEN Pulsing \ {p} ELSE Pulsing \cup {p}
    PROVE  Core!Wait(p, d)
BY DEF Wait, Core!Wait, Thread, TypeOK, KernelTypeOK, Testbench, Process

\* Outside its pulses a controller is idle for DrdCore.
LEMMA CoreIdle ==
    ASSUME NEW p \in Process \ CoreProcess, p \notin Pulsing
    PROVE  Core!Idle(p)
BY DEF Core!Idle, Process, Thread, Testbench

LEMMA CoreLoopback ==
    ASSUME TypeOK, Loopback, host_pc' = host_pc,
           UNCHANGED <<roleManagerVars, drdControllerVars, ghosts>>
    PROVE  [Core!Next]_(Core!vars)
<1> DEFINE p == "loopback_process"
<1>1. /\ sig \in Signals /\ nxt \in Signals
      /\ p \in Process \ CoreProcess
  BY CoreNames DEF TypeOK, KernelTypeOK, Process
<1>2. CASE LoopbackStart \/ SkipLoopback
  <2>1. Wait(p, 0) /\ Pulsing' = Pulsing /\ p \notin Pulsing
    BY <1>2 DEF LoopbackStart, SkipLoopback, LoopbackRuns, LoopbackWaits, Pulsing
  <2>2. CoreReady' = CoreReady /\ CoreTimer' = CoreTimer
    BY <1>1, <2>1, CoreQuietWait
  <2>3. UNCHANGED <<sig, nxt, notified>>
    BY <1>2 DEF LoopbackStart, SkipLoopback
  <2> QED
    BY <2>2, <2>3, CoreStutter DEF CoreNotified
<1>3. CASE CopyToEp1
  <2>1. /\ Wait(p, BulkPulseTime) /\ BulkPulseTime \in Nat \ {0}
        /\ Pulsing' = Pulsing \cup {p} /\ p \notin Pulsing
    BY <1>1, <1>3, BulkPulseAssumption DEF CopyToEp1, LoopbackRuns, LoopbackWaits, Pulsing
  <2>2. CoreSignals(nxt') = [CoreSignals(nxt) EXCEPT !.bulk_irq = TRUE]
    BY <1>1, <1>3 DEF CopyToEp1, CoreSignals, Signals
  <2>3. Core!Wait(p, BulkPulseTime)
    BY <1>1, <2>1, CorePulseWait
  <2>4. Core!BulkIrq
    BY <1>1, <1>3, <2>1, <2>2, <2>3, CoreIdle DEF Core!BulkIrq, CopyToEp1
  <2> QED
    BY <2>4 DEF Core!Next, Core!Environment,
       Core!StartPulse, ghosts,
       roleManagerVars, Core!roleManagerVars, drdControllerVars, Core!drdControllerVars
<1>4. CASE EndLoopbackPulse
  <2>1. /\ Wait(p, 0) /\ p \in ready
        /\ Pulsing' = Pulsing \ {p} /\ p \in Pulsing
    BY <1>1, <1>4 DEF EndLoopbackPulse, LoopbackRuns, LoopbackWaits, Pulsing
  <2>2. CoreSignals(nxt') = [CoreSignals(nxt) EXCEPT !.bulk_irq = FALSE]
    BY <1>1, <1>4 DEF EndLoopbackPulse, CoreSignals, Signals
  <2>3. Core!Wait(p, 0)
    BY <1>1, <2>1, CorePulseWait
  <2>4. Core!BulkPulseEnd
    BY <1>1, <1>4, <2>1, <2>2, <2>3 DEF Core!BulkPulseEnd, EndLoopbackPulse
  <2> QED
    BY <2>4 DEF Core!Next, Core!RunProcess, ghosts, Core!ghosts,
       roleManagerVars, Core!roleManagerVars, drdControllerVars, Core!drdControllerVars
<1> QED
  BY <1>2, <1>3, <1>4 DEF Loopback

\* A run of the host thread begins a pulse, ends one, lets one transfer_done
\* follow another, or is none of DrdCore's business.
HostQuiet ==
    /\ ~HostPulse /\ ~HostPulse'
    /\ CoreSignals(nxt') = CoreSignals(nxt)

HostEnds ==
    /\ HostPulse /\ ~HostPulse'
    /\ nxt' = [nxt EXCEPT !.xfer_done = FALSE, !.enum_done = FALSE]
    /\ Wait("host_main_process", 0)

HostTransfers ==
    /\ HostPulse'
    /\ nxt' = [nxt EXCEPT !.xfer_done = TRUE, !.enum_done = FALSE]
    /\ Wait("host_main_process", XferPulseTime)

HostEnumerates ==
    /\ ~HostPulse /\ HostPulse'
    /\ nxt' = [nxt EXCEPT !.enum_done = TRUE]
    /\ Wait("host_main_process", EnumPulseTime)

LEMMA HostMoves ==
    ASSUME ReductionInv, NEW reply, NEW ok, HostMain(reply, ok)
    PROVE  /\ HostQuiet \/ HostEnds \/ HostTransfers \/ HostEnumerates
           /\ sig' = sig
           /\ "host_main_process" \in ready
           /\ \E d \in Nat : Wait("host_main_process", d)
<1> DEFINE Goal == /\ HostQuiet \/ HostEnds \/ HostTransfers \/ HostEnumerates
                   /\ sig' = sig
                   /\ "host_main_process" \in ready
                   /\ \E d \in Nat : Wait("host_main_process", d)
<1>1. /\ nxt \in Signals /\ 0 \in Nat
      /\ {SetupTime, StatusTime, AddressTime, EnumPulseTime, XferPulseTime} \subseteq Nat
      /\ ~HostPulse => nxt.xfer_done = FALSE /\ nxt.enum_done = FALSE
  BY HostTimesAssumption DEF ReductionInv, TypeOK, KernelTypeOK
<1>2. ASSUME HostStart PROVE Goal
  <2>1. ~HostPulse /\ ~HostPulse'
    BY <1>2 DEF HostStart, HostRuns, HostWaits, HostPulse
  <2>2. CoreSignals(nxt') = CoreSignals(nxt)
    BY <1>1, <1>2, <2>1 DEF HostStart, CoreSignals, Signals
  <2> QED
    BY <1>1, <1>2, <2>1, <2>2 DEF HostStart, HostRuns, HostWaits, HostQuiet
<1>3. ASSUME BeginEnumeration(reply) \/ SendStatus(reply, ok)
               \/ ContinueEnumeration(reply) \/ ReadConfiguration(reply)
      PROVE  Goal
  BY <1>1, <1>3 DEF BeginEnumeration, SendStatus, ContinueEnumeration,
     ReadConfiguration, SendSetup, HostRuns, HostWaits, HostPulse, HostQuiet
<1>4. ASSUME SettleAddress PROVE Goal
  <2>1. CoreSignals(nxt') = CoreSignals(nxt)
    BY <1>1, <1>4 DEF SettleAddress, CoreSignals, Signals
  <2> QED
    BY <1>1, <1>4, <2>1 DEF SettleAddress, HostRuns, HostWaits, HostPulse, HostQuiet
<1>5. ASSUME FinishEnumeration PROVE Goal
  BY <1>1, <1>5 DEF FinishEnumeration, HostRuns, HostWaits, HostPulse, HostEnumerates
<1>6. ASSUME LeaveRing \/ AwaitTrb PROVE Goal
  <2>1. /\ ~HostPulse'
        /\ nxt' = [nxt EXCEPT !.xfer_done = FALSE, !.enum_done = FALSE]
        /\ Wait("host_main_process", 0)
        /\ sig' = sig /\ "host_main_process" \in ready
    BY <1>6 DEF LeaveRing, AwaitTrb, HostWaits, HostPulse, PulsesEnded
  <2>2. ~HostPulse => CoreSignals(nxt') = CoreSignals(nxt)
    BY <1>1, <2>1 DEF CoreSignals, Signals
  <2> QED
    BY <1>1, <2>1, <2>2 DEF HostQuiet, HostEnds
<1>7. ASSUME RunTrb(reply) PROVE Goal
  <2>1. nxt' = [nxt EXCEPT !.xfer_done = TRUE, !.enum_done = FALSE]
    BY <1>1, <1>7 DEF RunTrb, PulsesEnded, Signals
  <2> QED
    BY <1>1, <1>7, <2>1 DEF RunTrb, HostWaits, HostPulse, HostTransfers
<1> HIDE DEF Goal
<1>8. Goal
  BY <1>2, <1>3, <1>4, <1>5, <1>6, <1>7 DEF HostMain
<1> QED
  BY <1>8 DEF Goal

LEMMA CoreHost ==
    ASSUME ReductionInv, NEW reply, NEW ok, HostMain(reply, ok),
           nxt' \in Signals, CoreNotified' = CoreNotified, loop_pc' = loop_pc,
           UNCHANGED <<roleManagerVars, drdControllerVars, ghosts>>
    PROVE  /\ [Core!Next]_(Core!vars)
           /\ ~HostPulse' => nxt'.xfer_done = FALSE /\ nxt'.enum_done = FALSE
<1> DEFINE p == "host_main_process"
<1> USE HostMoves
<1>1. /\ TypeOK /\ nxt \in Signals
      /\ ~HostPulse => nxt.xfer_done = FALSE /\ nxt.enum_done = FALSE
      /\ {EnumPulseTime, XferPulseTime} \subseteq Nat \ {0}
      /\ p \in Process \ CoreProcess
  BY CoreNames, HostTimesAssumption DEF ReductionInv, TypeOK, KernelTypeOK, Process
<1>2. /\ HostPulse <=> p \in Pulsing
      /\ Pulsing' = IF HostPulse' THEN Pulsing \cup {p} ELSE Pulsing \ {p}
  BY <1>1 DEF Pulsing, HostPulse
<1>3. CASE HostQuiet
  <2>1. PICK d \in Nat : Wait(p, d)
    OBVIOUS
  <2>2. CoreReady' = CoreReady /\ CoreTimer' = CoreTimer
    BY <1>1, <1>2, <1>3, <2>1, CoreQuietWait DEF HostQuiet
  <2>3. UNCHANGED Core!vars
    BY <1>3, <2>2, CoreStutter DEF HostQuiet
  <2>4. nxt'.xfer_done = nxt.xfer_done /\ nxt'.enum_done = nxt.enum_done
    BY <1>1, <1>3 DEF HostQuiet, CoreSignals, Signals
  <2> QED
    BY <1>1, <1>3, <2>3, <2>4 DEF HostQuiet
<1>4. CASE HostEnds
  <2>1. CoreSignals(nxt') = [CoreSignals(nxt) EXCEPT !.xfer_done = FALSE,
                                                     !.enum_done = FALSE]
    BY <1>1, <1>4 DEF HostEnds, CoreSignals, Signals
  <2>2. Core!Wait(p, 0)
    BY <1>1, <1>2, <1>4, CorePulseWait DEF HostEnds
  <2>3. Core!HostPulseEnd
    BY <1>2, <1>4, <2>1, <2>2 DEF HostEnds, Core!HostPulseEnd, CoreNotified
  <2>4. nxt'.xfer_done = FALSE /\ nxt'.enum_done = FALSE
    BY <1>1, <1>4 DEF HostEnds, Signals
  <2> QED
    BY <2>3, <2>4 DEF Core!Next, Core!RunProcess, ghosts, Core!ghosts,
       roleManagerVars, Core!roleManagerVars, drdControllerVars, Core!drdControllerVars
<1>5. CASE HostTransfers
  <2>1. CoreSignals(nxt') = [CoreSignals(nxt) EXCEPT !.xfer_done = TRUE,
                                                     !.enum_done = FALSE]
    BY <1>1, <1>5 DEF HostTransfers, CoreSignals, Signals
  <2>2. Core!Wait(p, XferPulseTime)
    BY <1>1, <1>2, <1>5, CorePulseWait DEF HostTransfers
  <2>3. CASE HostPulse
    <3>1. Core!NextTransferDone
      BY <1>2, <2>1, <2>2, <2>3 DEF Core!NextTransferDone, CoreNotified
    <3> QED
      BY <1>5, <3>1 DEF HostTransfers, Core!Next, Core!RunProcess, ghosts, Core!ghosts,
         roleManagerVars, Core!roleManagerVars, drdControllerVars, Core!drdControllerVars
  <2>4. CASE ~HostPulse
    <3>1. CoreSignals(nxt') = [CoreSignals(nxt) EXCEPT !.xfer_done = TRUE]
      BY <1>1, <1>5, <2>4 DEF HostTransfers, CoreSignals, Signals
    <3>2. Core!TransferDone
      BY <1>1, <1>2, <2>2, <2>4, <3>1, CoreIdle DEF Core!TransferDone, CoreNotified
    <3> QED
      BY <1>5, <3>2 DEF HostTransfers, Core!Next, Core!Environment,
         Core!StartPulse, ghosts, roleManagerVars, Core!roleManagerVars,
         drdControllerVars, Core!drdControllerVars
  <2> QED
    BY <2>3, <2>4
<1>6. CASE HostEnumerates
  <2>1. CoreSignals(nxt') = [CoreSignals(nxt) EXCEPT !.enum_done = TRUE]
    BY <1>1, <1>6 DEF HostEnumerates, CoreSignals, Signals
  <2>2. Core!Wait(p, EnumPulseTime)
    BY <1>1, <1>2, <1>6, CorePulseWait DEF HostEnumerates
  <2>3. Core!EnumerationDone
    BY <1>1, <1>2, <1>6, <2>1, <2>2, CoreIdle DEF HostEnumerates, Core!EnumerationDone,
       CoreNotified
  <2> QED
    BY <1>6, <2>3 DEF HostEnumerates, Core!Next, Core!Environment,
       Core!StartPulse, ghosts, roleManagerVars, Core!roleManagerVars,
       drdControllerVars, Core!drdControllerVars
<1> QED
  BY <1>3, <1>4, <1>5, <1>6

-----------------------------------------------------------------------------
(***************************************************************************)
(* The scheduler's own steps, and the whole.                               *)
(***************************************************************************)
\* What is woken in an update phase that DrdCore sees: its own processes, and
\* neither controller in its pulse.
LEMMA CoreWoken ==
    ASSUME TypeOK
    PROVE  /\ Woken \cap (CoreProcess \cup Pulsing) = Core!Woken
           /\ CoreSignals(nxt) = CoreSignals(sig) /\ CoreNotified = {}
                  => Core!Woken = {}
<1>1. sig \in Signals /\ nxt \in Signals
  BY DEF TypeOK, KernelTypeOK
<1>2. /\ Core!ForwardInputsWoken = ForwardInputsWoken
      /\ Core!RoleDetectionWoken = RoleDetectionWoken
      /\ Core!RoleSwitchWoken = RoleSwitchWoken
      /\ Core!InterruptCollectorWoken = InterruptCollectorWoken
  BY <1>1, CoreFields DEF Core!ForwardInputsWoken, ForwardInputsWoken,
     Core!RoleDetectionWoken, RoleDetectionWoken, Core!RoleSwitchWoken, RoleSwitchWoken,
     Core!InterruptCollectorWoken, InterruptCollectorWoken
<1>3. "host_main_process" \in Woken => "host_main_process" \notin Pulsing
  BY DEF Woken, HostMainWoken, Pulsing
<1>4. "loopback_process" \in Woken => "loopback_process" \notin Pulsing
  BY DEF Woken, LoopbackWoken, Pulsing
<1>5. Woken \cap (CoreProcess \cup Pulsing) = Core!Woken
  BY <1>2, <1>3, <1>4, CoreNames DEF Woken, Core!Woken, Process, Core!Process, Pulsing
<1>6. ASSUME CoreSignals(nxt) = CoreSignals(sig), CoreNotified = {}
      PROVE  Core!Woken = {}
  BY <1>6 DEF Core!Woken, Core!ForwardInputsWoken, Core!RoleDetectionWoken,
     Core!RoleSwitchWoken, Core!InterruptCollectorWoken, CoreNotified
<1> QED
  BY <1>5, <1>6

LEMMA CoreUpdate ==
    ASSUME ReductionInv, Update
    PROVE  [Core!Next]_(Core!vars) /\ ReductionInv'
<1>1. /\ TypeOK /\ sig \in Signals /\ nxt \in Signals
      /\ ready = {} /\ notified' = {} /\ ready' = Woken
      /\ UNCHANGED <<nxt, timer, host_pc, loop_pc, roleManagerVars, drdControllerVars,
                     want, controllerVars>>
      /\ sig' = nxt
  BY DEF Update, DeltaCycle, ReductionInv, TypeOK, KernelTypeOK, controllerVars, hostVars,
     deviceVars
<1>2. Pulsing' = Pulsing /\ CoreReady' = Core!Woken /\ CoreTimer' = CoreTimer
  BY <1>1, CoreWoken DEF Pulsing, CoreReady, CoreTimer
<1>3. [Core!Next]_(Core!vars)
  <2>1. CASE CoreSignals(nxt) # CoreSignals(sig) \/ CoreNotified # {}
    <3>1. Core!DeltaCycle(Core!Woken)
      BY <1>1, <1>2, <2>1 DEF Core!DeltaCycle, Core!UpdatePending, CoreReady, CoreTimer,
         CoreNotified
    <3>2. Core!IdleAfterUpdate
      BY <1>1, CoreFields DEF Update, IdleAfterUpdate, Core!IdleAfterUpdate
    <3> QED
      BY <1>1, <3>1, <3>2 DEF Core!Next, Core!Update, roleManagerVars,
         Core!roleManagerVars, drdControllerVars, Core!drdControllerVars
  <2>2. CASE CoreSignals(nxt) = CoreSignals(sig) /\ CoreNotified = {}
    <3>1. CoreReady' = CoreReady /\ CoreNotified' = CoreNotified
      BY <1>1, <1>2, <2>2, CoreWoken DEF CoreReady, CoreNotified
    <3>2. idle' = idle
      <4>1. nxt.host_enable = sig.host_enable /\ nxt.dev_enable = sig.dev_enable
        BY <1>1, <2>2, CoreFields
      <4> QED
        BY <4>1 DEF Update, IdleAfterUpdate, ReductionInv
    <3> QED
      BY <1>1, <1>2, <2>2, <3>1, <3>2, CoreStutter DEF ghosts
  <2> QED
    BY <2>1, <2>2
<1>4. ReductionInv'
  <2>1. TypeOK'
    BY <1>1, DrdTypeStep DEF Next
  <2>2. sig'.host_enable \/ sig'.dev_enable => idle' = 0
    BY <1>1 DEF Update, IdleAfterUpdate
  <2>3. ~HostPulse' => nxt'.xfer_done = FALSE /\ nxt'.enum_done = FALSE
    BY <1>1 DEF ReductionInv, HostPulse
  <2> QED
    BY <2>1, <2>2, <2>3 DEF ReductionInv
<1> QED
  BY <1>3, <1>4

LEMMA CoreTick ==
    ASSUME ReductionInv, Tick
    PROVE  [Core!Next]_(Core!vars) /\ ReductionInv'
<1>1. /\ TypeOK /\ sig \in Signals /\ nxt \in Signals /\ timer \in [Thread -> Nat]
      /\ ready = {} /\ nxt = sig /\ notified = {}
      /\ timer' = [p \in Thread |-> IF timer[p] = 0 THEN 0 ELSE timer[p] - 1]
      /\ ready' = {p \in Process : timer[p] = 1}
      /\ UNCHANGED <<sig, nxt, notified, host_pc, loop_pc, roleManagerVars,
                     drdControllerVars, want, controllerVars>>
  BY DEF Tick, AdvanceTime, UpdatePending, ReductionInv, TypeOK, KernelTypeOK,
     controllerVars, hostVars, deviceVars
<1>2. Core!AdvanceTime
  <2>1. Pulsing' = Pulsing
    BY <1>1 DEF Pulsing
  <2>2. CoreTimer' = [p \in Thread |-> IF CoreTimer[p] = 0 THEN 0 ELSE CoreTimer[p] - 1]
    BY <1>1, <2>1 DEF CoreTimer
  <2>3. CoreReady' = {p \in Process : CoreTimer[p] = 1}
    BY <1>1, <2>1, CoreNames DEF CoreReady, CoreTimer, Thread, Process, Testbench, Pulsing
  <2> QED
    BY <1>1, <2>2, <2>3 DEF Core!AdvanceTime, Core!UpdatePending, CoreTimer, CoreReady,
       CoreNotified, Core!Thread, Thread, Core!Process, Process, Testbench, PeerHost,
       Driver, Core!Testbench, Core!PeerHost, Core!Driver
<1>3. Core!IdleAfterTick
  BY <1>1, CoreFields DEF Tick, IdleAfterTick, Core!IdleAfterTick
<1>4. Core!Next
  BY <1>1, <1>2, <1>3 DEF Core!Next, Core!Tick, roleManagerVars,
     Core!roleManagerVars, drdControllerVars, Core!drdControllerVars
<1>5. ReductionInv'
  <2>1. TypeOK'
    BY <1>1, DrdTypeStep DEF Next
  <2>2. sig'.host_enable \/ sig'.dev_enable => idle' = 0
    BY <1>1 DEF Tick, IdleAfterTick, ReductionInv
  <2>3. ~HostPulse' => nxt'.xfer_done = FALSE /\ nxt'.enum_done = FALSE
    BY <1>1 DEF ReductionInv, HostPulse
  <2> QED
    BY <2>1, <2>2, <2>3 DEF ReductionInv
<1> QED
  BY <1>4, <1>5

\* The steps in which packets move: of all they do, DrdCore sees the pulses.
LEMMA CoreTraffic ==
    ASSUME ReductionInv,
           \/ HostProcess /\ UNCHANGED <<roleManagerVars, drdControllerVars, ghosts>>
           \/ /\ Loopback
              /\ UNCHANGED <<roleManagerVars, drdControllerVars, hostVars, peerVars,
                             historyVars, ghosts>>
           \/ /\ \/ \E t \in Transfers : QueueTransfer(t[1], t[2])
                 \/ \E p \in Upstream : UpstreamCall(p)
              /\ UNCHANGED idle,
           nxt' \in Signals
    PROVE  /\ [Core!Next]_(Core!vars)
           /\ ~HostPulse' => nxt'.xfer_done = FALSE /\ nxt'.enum_done = FALSE
           /\ sig' = sig /\ idle' = idle
<1> DEFINE Low == nxt.xfer_done = FALSE /\ nxt.enum_done = FALSE
<1>1. /\ TypeOK /\ sig \in Signals /\ nxt \in Signals
      /\ ~HostPulse => Low
  BY DEF ReductionInv, TypeOK, KernelTypeOK
<1>2. ASSUME NEW p, DeviceSees(p)
      PROVE  CoreNotified' = CoreNotified /\ loop_pc' = loop_pc
  BY <1>2 DEF DeviceSees, DeviceReceive, deviceVars, CoreNotified
<1>3. ASSUME HostProcess, UNCHANGED <<roleManagerVars, drdControllerVars, ghosts>>
      PROVE  /\ [Core!Next]_(Core!vars) /\ (~HostPulse' => Low')
             /\ sig' = sig /\ idle' = idle
  <2>1. \E reply, ok : HostMain(reply, ok)
    BY <1>3 DEF HostProcess
  <2>2. CoreNotified' = CoreNotified /\ loop_pc' = loop_pc
    BY <1>2, <1>3 DEF HostProcess, deviceVars, CoreNotified
  <2>3. sig' = sig
    BY <2>1, HostMoves
  <2> QED
    BY <1>3, <2>1, <2>2, <2>3, CoreHost DEF ghosts
<1>4. ASSUME Loopback,
             UNCHANGED <<roleManagerVars, drdControllerVars, hostVars, ghosts>>
      PROVE  /\ [Core!Next]_(Core!vars) /\ (~HostPulse' => Low')
             /\ sig' = sig /\ idle' = idle
  <2>1. host_pc' = host_pc /\ idle' = idle
    BY <1>4 DEF hostVars, ghosts
  <2>2. [Core!Next]_(Core!vars)
    BY <1>1, <1>4, <2>1, CoreLoopback
  <2>3. sig' = sig /\ \/ nxt' = nxt
                      \/ \E b \in BOOLEAN : nxt' = [nxt EXCEPT !.bulk_irq = b]
    BY <1>4 DEF Loopback, LoopbackStart, SkipLoopback, CopyToEp1, EndLoopbackPulse
  <2>4. nxt'.xfer_done = nxt.xfer_done /\ nxt'.enum_done = nxt.enum_done
    BY <1>1, <2>3 DEF Signals
  <2> QED
    BY <1>1, <2>1, <2>2, <2>3, <2>4 DEF HostPulse
<1>5. ASSUME NEW t \in Transfers, QueueTransfer(t[1], t[2]), UNCHANGED idle
      PROVE  /\ [Core!Next]_(Core!vars) /\ (~HostPulse' => Low')
             /\ sig' = sig /\ idle' = idle
  <2>1. /\ UNCHANGED <<sig, nxt, ready, timer, host_pc, loop_pc, roleManagerVars,
                       drdControllerVars, want>>
        /\ CoreNotified' = CoreNotified
    BY <1>5 DEF QueueTransfer, Enqueue, EnqueueTrb, deviceVars, CoreNotified
  <2>2. UNCHANGED Core!vars
    BY <1>5, <2>1, CoreStutter DEF CoreReady, CoreTimer, Pulsing, ghosts
  <2> QED
    BY <1>1, <1>5, <2>1, <2>2 DEF HostPulse
<1>6. ASSUME NEW p \in Upstream, UpstreamCall(p), UNCHANGED idle
      PROVE  /\ [Core!Next]_(Core!vars) /\ (~HostPulse' => Low')
             /\ sig' = sig /\ idle' = idle
  <2>1. /\ UNCHANGED <<sig, ready, host_pc, roleManagerVars, drdControllerVars, want>>
        /\ CoreNotified' = CoreNotified /\ loop_pc' = loop_pc
    BY <1>2, <1>6 DEF UpstreamCall, HostReceive, hostVars
  <2>2. CoreSignals(nxt') = CoreSignals(nxt)
    BY <1>1, <1>6 DEF UpstreamCall, CoreSignals, Signals
  <2>3. CoreTimer' = CoreTimer /\ CoreReady' = CoreReady
    BY <1>1, <1>6, <2>1, CoreNames DEF UpstreamCall, CoreTimer, CoreReady, Pulsing,
       PeerHost, Testbench, TypeOK, KernelTypeOK
  <2>4. UNCHANGED Core!vars
    BY <1>6, <2>1, <2>2, <2>3, CoreStutter DEF ghosts
  <2>5. nxt'.xfer_done = nxt.xfer_done /\ nxt'.enum_done = nxt.enum_done
    BY <1>1, <1>6 DEF UpstreamCall, Signals
  <2> QED
    BY <1>1, <1>6, <2>1, <2>4, <2>5 DEF HostPulse
<1> QED
  BY <1>3, <1>4, <1>5, <1>6

\* The steps of the managers and of the testbench.
LEMMA CoreControl ==
    ASSUME ReductionInv,
           ControlProcess \/ Stimulate \/ Software,
           UNCHANGED <<idle, controllerVars>>, nxt' \in Signals
    PROVE  /\ Core!Next
           /\ nxt'.xfer_done = nxt.xfer_done /\ nxt'.enum_done = nxt.enum_done
           /\ sig' = sig
<1>1. /\ TypeOK /\ sig \in Signals /\ nxt \in Signals
      /\ host_pc' = host_pc /\ loop_pc' = loop_pc
  BY DEF ReductionInv, TypeOK, KernelTypeOK, controllerVars, hostVars, deviceVars
<1>2. sig' = sig /\ Outputs(nxt') = Outputs(nxt)
  BY <1>1, ControlWrites, TypeParts
<1>3. nxt'.xfer_done = nxt.xfer_done /\ nxt'.enum_done = nxt.enum_done
  BY <1>2 DEF Outputs
<1>4. Core!Next
  <2>1. CASE ControlProcess
    <3>1. Core!RunProcess
      BY <1>1, <2>1, CoreRoleDetection, CoreForwardInputs, CoreRoleSwitch,
         CoreInterruptCollector DEF ControlProcess, Core!RunProcess, ghosts, Core!ghosts,
         drdControllerVars, Core!drdControllerVars
    <3> QED
      BY <3>1 DEF Core!Next
  <2>2. CASE Stimulate \/ Software
    BY <1>1, <2>2, CoreStimulate, CoreSoftware DEF Core!Next, Core!Environment
  <2> QED
    BY <2>1, <2>2
<1> QED
  BY <1>2, <1>3, <1>4

-----------------------------------------------------------------------------
LEMMA ReductionInit == Init => ReductionInv /\ Core!Init
<1> SUFFICES ASSUME Init PROVE ReductionInv /\ Core!Init
  OBVIOUS
<1>1. TypeOK
  BY DrdTypeInit
<1>2. /\ KernelInit(Process \ {"interrupt_collector"})
      /\ host_pc = "start" /\ loop_pc = "start"
  BY DEF Init, HostInit, DeviceInit
<1>3. ReductionInv
  BY <1>1, <1>2 DEF KernelInit, ReductionInv, InitSignals
<1>4. Pulsing = {}
  BY <1>2 DEF Pulsing
<1>5. Core!KernelInit({"forward_inputs", "role_detection_process", "role_switch_monitor"})
  <2>1. CoreSignals(sig) = Core!InitSignals /\ CoreSignals(nxt) = Core!InitSignals
    <3>1. CoreSignals(InitSignals) = InitSignals
      <4>1. InitSignals \in Signals
        BY DEF InitSignals, Signals, CcState, Role
      <4>2. InitSignals.dev_addr = 0 /\ InitSignals.configured = FALSE
        BY DEF InitSignals
      <4>3. \A s \in Signals : s.dev_addr = 0 /\ s.configured = FALSE
                                   => CoreSignals(s) = s
        BY DEF CoreSignals, Signals
      <4> QED
        BY <4>1, <4>2, <4>3
    <3>2. Core!InitSignals = InitSignals
      BY DEF Core!InitSignals, InitSignals
    <3> QED
      BY <1>2, <3>1, <3>2 DEF KernelInit
  <2>2. CoreReady = {"forward_inputs", "role_detection_process", "role_switch_monitor"}
    BY <1>2, <1>4, CoreNames DEF KernelInit, CoreReady, Process
  <2>3. CoreTimer = [t \in Thread |-> 0]
    BY <1>2 DEF KernelInit, CoreTimer
  <2> QED
    BY <1>2, <2>1, <2>2, <2>3 DEF KernelInit, Core!KernelInit, CoreReady, CoreTimer,
       Thread, Core!Thread, Process, Core!Process, Testbench, PeerHost, Driver,
       Core!Testbench, Core!PeerHost, Core!Driver
<1> QED
  BY <1>3, <1>5 DEF Init, Core!Init, RoleManagerInit, Core!RoleManagerInit,
     DrdControllerInit, Core!DrdControllerInit, StimuliInit, Core!StimuliInit,
     IntrBit, Core!IntrBit

LEMMA ReductionStep ==
    ASSUME ReductionInv, [Next]_vars
    PROVE  ReductionInv' /\ [Core!Next]_(Core!vars)
<1>1. TypeOK /\ TypeOK' /\ nxt' \in Signals
  BY DrdTypeStep DEF ReductionInv, TypeOK, KernelTypeOK
<1>2. CASE \/ HostProcess /\ UNCHANGED <<roleManagerVars, drdControllerVars, ghosts>>
           \/ /\ Loopback
              /\ UNCHANGED <<roleManagerVars, drdControllerVars, hostVars, peerVars,
                             historyVars, ghosts>>
           \/ /\ \/ \E t \in Transfers : QueueTransfer(t[1], t[2])
                 \/ \E p \in Upstream : UpstreamCall(p)
              /\ UNCHANGED idle
  BY <1>1, <1>2, CoreTraffic DEF ReductionInv
<1>3. CASE /\ ControlProcess \/ Stimulate \/ Software
           /\ UNCHANGED <<idle, controllerVars>>
  BY <1>1, <1>3, CoreControl DEF ReductionInv, HostPulse, controllerVars, hostVars
<1>4. CASE Update
  BY <1>4, CoreUpdate
<1>5. CASE Tick
  BY <1>5, CoreTick
<1>6. CASE UNCHANGED vars
  <2>1. UNCHANGED Core!vars
    BY <1>6, CoreStutter DEF vars, kernelVars, controllerVars, hostVars, deviceVars,
       CoreNotified, CoreReady, CoreTimer, Pulsing
  <2>2. ReductionInv'
    BY <1>1, <1>6 DEF ReductionInv, vars, kernelVars, ghosts, controllerVars, hostVars,
       HostPulse
  <2> QED
    BY <2>1, <2>2
<1>7. CASE RunProcess
  BY <1>2, <1>3, <1>7 DEF RunProcess, ControlProcess, ghosts
<1>8. CASE Environment
  BY <1>2, <1>3, <1>8 DEF Environment
<1> QED
  BY <1>4, <1>5, <1>6, <1>7, <1>8 DEF Next

\* Whatever the host controller, the device controller and the peer do, the
\* rest of the DRD sees no more of them than the three pulses of DrdCore.
THEOREM DrdImplementsCore == Spec => CoreSpec
<1>1. Init => ReductionInv /\ Core!Init
  BY ReductionInit
<1>2. ReductionInv /\ [Next]_vars => ReductionInv' /\ [Core!Next]_(Core!vars)
  BY ReductionStep
<1> QED
  BY <1>1, <1>2, PTL DEF Spec, CoreSpec, Core!Spec

-----------------------------------------------------------------------------
(***************************************************************************)
(* What is proved of DrdCore therefore holds of the DRD.                   *)
(***************************************************************************)
Switch == INSTANCE DrdCoreProofs WITH
            Pulses <- {"transfer_done", "enumeration_done", "bulk_irq"},
            sig <- CoreSignals(sig),
            nxt <- CoreSignals(nxt),
            notified <- CoreNotified,
            ready <- CoreReady,
            timer <- CoreTimer

\* The theorems are about an instance of their own.  It is the same as Core,
\* definition by definition.
LEMMA SameCore ==
    /\ (UNCHANGED Switch!vars) <=> (UNCHANGED Core!vars)
    /\ Switch!Init <=> Core!Init
    /\ Switch!Next <=> Core!Next
<1> USE DEF CoreNotified, CoreReady, CoreTimer
<1>1. (UNCHANGED Switch!vars) <=> (UNCHANGED Core!vars)
  BY DEF Core!vars, Switch!vars, Core!kernelVars, Switch!kernelVars,
         Core!roleManagerVars, Switch!roleManagerVars,
         Core!drdControllerVars, Switch!drdControllerVars, Core!ghosts,
         Switch!ghosts
<1>2. Switch!Init <=> Core!Init
  BY DEF Core!Init, Switch!Init, Core!KernelInit, Switch!KernelInit, Core!InitSignals,
         Switch!InitSignals, Core!Thread, Switch!Thread, Core!Process,
         Switch!Process, Core!Testbench, Switch!Testbench, Core!PeerHost,
         Switch!PeerHost, Core!Driver, Switch!Driver, Core!RoleManagerInit,
         Switch!RoleManagerInit, Core!DrdControllerInit,
         Switch!DrdControllerInit, Core!IntrBit, Switch!IntrBit,
         Core!StimuliInit, Switch!StimuliInit
<1>3. Switch!Next <=> Core!Next
  BY DEF Core!Process, Switch!Process, Core!Testbench, Switch!Testbench, Core!PeerHost,
     Switch!PeerHost, Core!Driver, Switch!Driver, Core!Thread, Switch!Thread, Core!Wait,
     Switch!Wait, Core!UpdatePending, Switch!UpdatePending, Core!DeltaCycle,
     Switch!DeltaCycle, Core!AdvanceTime, Switch!AdvanceTime, Core!roleManagerVars,
     Switch!roleManagerVars, Core!Detected, Switch!Detected, Core!Selected,
     Switch!Selected, Core!RoleDetectionStart, Switch!RoleDetectionStart,
     Core!RoleDetectionWoken, Switch!RoleDetectionWoken, Core!ApplyRole,
     Switch!ApplyRole, Core!KeepRole, Switch!KeepRole, Core!DetectRole,
     Switch!DetectRole, Core!EndRolePulse, Switch!EndRolePulse, Core!RoleDetection,
     Switch!RoleDetection, Core!RequestRole, Switch!RequestRole, Core!IntrBit,
     Switch!IntrBit, Core!drdControllerVars, Switch!drdControllerVars, Core!RaiseIrq,
     Switch!RaiseIrq, Core!ForwardInputsWoken, Switch!ForwardInputsWoken,
     Core!ForwardInputs, Switch!ForwardInputs, Core!RoleSwitchWoken,
     Switch!RoleSwitchWoken, Core!ControllersOff, Switch!ControllersOff, Core!Settle,
     Switch!Settle, Core!RoleSwitchStart, Switch!RoleSwitchStart,
     Core!DisableControllers, Switch!DisableControllers, Core!EnableController,
     Switch!EnableController, Core!RoleSwitch, Switch!RoleSwitch,
     Core!InterruptCollectorWoken, Switch!InterruptCollectorWoken, Core!HighSources,
     Switch!HighSources, Core!InterruptCollector, Switch!InterruptCollector,
     Core!WriteRoleCtrl, Switch!WriteRoleCtrl, Core!WriteIntrStatus,
     Switch!WriteIntrStatus, Core!WriteIntrEnable, Switch!WriteIntrEnable, Core!ghosts,
     Switch!ghosts, Core!CallFor, Switch!CallFor, Core!SetInputs, Core!DriveInputs,
     Switch!SetInputs, Switch!DriveInputs, Core!ForceRole, Core!AskForRole,
     Switch!ForceRole, Switch!AskForRole, Core!ClearInterrupts, Switch!ClearInterrupts,
     Core!MaskInterrupts, Switch!MaskInterrupts, Core!Stimulate, Switch!Stimulate,
     Core!Software, Switch!Software, Core!IdleAfterUpdate, Switch!IdleAfterUpdate,
     Core!IdleAfterTick, Switch!IdleAfterTick, Core!Idle, Switch!Idle,
     Core!TransferDone, Switch!TransferDone, Core!EnumerationDone,
     Switch!EnumerationDone, Core!BulkIrq, Switch!BulkIrq, Core!HostPulseEnd,
     Switch!HostPulseEnd, Core!NextTransferDone, Switch!NextTransferDone,
     Core!BulkPulseEnd, Switch!BulkPulseEnd, Core!StartPulse, Switch!StartPulse,
     Core!Environment, Switch!Environment, Core!RunProcess, Switch!RunProcess,
     Core!Woken, Switch!Woken, Core!Update, Switch!Update, Core!Tick, Switch!Tick,
     Core!Next, Switch!Next
<1> QED
  BY <1>1, <1>2, <1>3

LEMMA SwitchSpec == Spec => Switch!Spec
<1>1. Core!Init => Switch!Init
  BY SameCore
<1>2. [Core!Next]_(Core!vars) => [Switch!Next]_(Switch!vars)
  BY SameCore
<1> QED
  BY <1>1, <1>2, DrdImplementsCore, PTL DEF CoreSpec, Core!Spec, Switch!Spec

\* What DrdCore assumes of its constants holds of those of the DRD.
LEMMA SwitchAssumptions ==
    /\ {XferPulseTime, EnumPulseTime, BulkPulseTime} \subseteq Nat \ {0}
    /\ {"transfer_done", "enumeration_done", "bulk_irq"}
           \subseteq {"transfer_done", "enumeration_done", "bulk_irq"}
    /\ Inputs \subseteq Switch!CcState \X BOOLEAN
    /\ Requests \subseteq {"HOST", "DEVICE"}
    /\ Clears \subseteq SUBSET Switch!IntrBit
    /\ Masks \subseteq SUBSET Switch!IntrBit
BY HostTimesAssumption, BulkPulseAssumption, StimuliAssumption
DEF Switch!CcState, CcState, Switch!IntrBit, IntrBit

\* The host and the device controller of the DRD are never enabled together,
\* whatever they do while they are enabled (role_switch_monitor).
THEOREM DrdExclusive == Spec => []Core!ExclusiveControllers
<1>1. Switch!ExclusiveControllers <=> Core!ExclusiveControllers
  BY DEF Switch!ExclusiveControllers, Core!ExclusiveControllers
<1> QED
  BY <1>1, SwitchSpec, SwitchAssumptions, Switch!Exclusive, PTL

\* No controller is enabled before both have been disabled for SettleTime,
\* whatever was going on at the one that was disabled (role_switch_monitor,
\* "disable both controllers first").
THEOREM DrdPauseBetweenRoles == Spec => Core!DeadTime
<1>1. [Switch!ActiveRole' \notin {Switch!ActiveRole, "NONE"} =>
            Switch!ActiveRole = "NONE" /\ idle = SettleTime]_(Switch!vars)
       => [Core!ActiveRole' \notin {Core!ActiveRole, "NONE"} =>
               Core!ActiveRole = "NONE" /\ idle = SettleTime]_(Core!vars)
  BY SameCore DEF Switch!ActiveRole, Core!ActiveRole
<1> QED
  BY <1>1, SwitchSpec, SwitchAssumptions, Switch!PauseBetweenRoles, PTL
  DEF Switch!DeadTime, Core!DeadTime

\* irq is never left asserted after the last pending interrupt was cleared,
\* however the completions of the two controllers fall (raise_irq).
THEOREM DrdIrqCause == Spec => []Core!IrqHasCause
<1>1. Switch!IrqHasCause <=> Core!IrqHasCause
  BY DEF Switch!IrqHasCause, Core!IrqHasCause
<1> QED
  BY <1>1, SwitchSpec, SwitchAssumptions, Switch!IrqCause, PTL

\* Between two instants no controller is enabled but that of the role by which
\* the protocol layer routes what the peer sends: packets of a new role never
\* meet the controller of the old one, if the testbench leaves the pulse and
\* the pause enough time (handle_rx, role_switch_monitor).
THEOREM DrdNoStaleController ==
    ASSUME MinGap > 0, RoleGap >= PulseTime, RoleGap >= SettleTime
    PROVE  Spec => []Core!NoStaleController
<1>1. Switch!NoStaleController <=> Core!NoStaleController
  BY DEF Switch!NoStaleController, Core!NoStaleController, Switch!UpdatePending,
     Core!UpdatePending, Switch!ActiveRole, Core!ActiveRole, CoreNotified, CoreReady
<1> QED
  BY <1>1, SwitchSpec, SwitchAssumptions, Switch!NoControllerStale, PTL

\* When the DRD comes to rest, the role is the one that the last stimulus calls
\* for (role_detection_process).
THEOREM DrdRoleFollowsStimulus ==
    ASSUME MinGap > 0, RoleGap >= PulseTime
    PROVE  Spec => []Core!RoleMatchesStimulus
<1>1. Switch!RoleMatchesStimulus <=> Core!RoleMatchesStimulus
  BY DEF Switch!RoleMatchesStimulus, Core!RoleMatchesStimulus, Switch!Quiescent,
     Core!Quiescent, Switch!UpdatePending, Core!UpdatePending, Switch!Process,
     Core!Process, CoreNotified, CoreReady, CoreTimer
<1> QED
  BY <1>1, SwitchSpec, SwitchAssumptions, Switch!RoleFollowsStimulus, PTL

\* And the controller of that role is the one that is enabled
\* (role_switch_monitor).
THEOREM DrdControllerFollowsRole ==
    ASSUME MinGap > 0, RoleGap >= PulseTime, RoleGap >= SettleTime
    PROVE  Spec => []Core!ControllerMatchesRole
<1>1. Switch!ControllerMatchesRole <=> Core!ControllerMatchesRole
  BY DEF Switch!ControllerMatchesRole, Core!ControllerMatchesRole, Switch!Quiescent,
     Core!Quiescent, Switch!UpdatePending, Core!UpdatePending, Switch!Process,
     Core!Process, Switch!ActiveRole, Core!ActiveRole, CoreNotified, CoreReady, CoreTimer
<1> QED
  BY <1>1, SwitchSpec, SwitchAssumptions, Switch!ControllerFollowsRole, PTL
=============================================================================
