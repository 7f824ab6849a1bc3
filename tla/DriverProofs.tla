---------------------------- MODULE DriverProofs ----------------------------
(***************************************************************************)
(* Theorems about the DRD under software that is driven by its interrupts: *)
(* types, and that a transfer is not taken for complete before it has run. *)
(***************************************************************************)
EXTENDS InterruptDriver, ControllerProofs

USE PulseTimeAssumption, SettleTimeAssumption, GapAssumption, StimuliAssumption,
    PayloadAssumption, HostTimesAssumption, HostSizesAssumption, BulkPulseAssumption,
    PeerFaultsAssumption, TrafficAssumption, ReactTimeAssumption

-----------------------------------------------------------------------------
(***************************************************************************)
(* Types.                                                                  *)
(***************************************************************************)
\* The driver's write of INTR_STATUS, whatever bits it writes.
LEMMA AcknowledgeType ==
    ASSUME TypeOK, Acknowledge
    PROVE  TypeOK'
<1>1. nxt \in Signals /\ nxt' = [nxt EXCEPT !.irq = @ /\ m_intr_status \ drv_seen # {}]
  BY DEF Acknowledge, ClearInterrupts, WriteIntrStatus, TypeOK, KernelTypeOK
<1>2. nxt' \in Signals
  BY <1>1 DEF Signals
<1>3. ControlTypeOK'
  BY <1>2 DEF Acknowledge, ClearInterrupts, WriteIntrStatus, TypeOK, ControlTypeOK,
     KernelTypeOK, RoleManagerTypeOK, roleManagerVars, DrdControllerTypeOK, StimuliTypeOK
<1>4. ControllersTypeOK'
  BY TypeParts, ControllersStutterType DEF Acknowledge
<1> QED
  BY <1>3, <1>4, TypeParts DEF TypeOK, ControlTypeOK, ControllersTypeOK

\* The wait that the driver begins when a transfer has been reported to it.
LEMMA ServeType ==
    ASSUME TypeOK, Serve
    PROVE  TypeOK'
<1>1. timer' \in [Thread -> Nat]
  BY DEF Serve, TypeOK, KernelTypeOK
<1>2. KernelTypeOK'
  BY <1>1 DEF Serve, TypeOK, KernelTypeOK
<1>3. ControlTypeOK'
  BY <1>2, TypeParts, ManagersStutterType DEF Serve, ControlTypeOK
<1>4. ControllersTypeOK'
  BY TypeParts, ControllersStutterType DEF Serve
<1> QED
  BY <1>3, <1>4, TypeParts DEF TypeOK, ControlTypeOK, ControllersTypeOK

\* The other steps are steps of the DRD, or change nothing of it.
LEMMA ServiceSteps ==
    ASSUME [ServiceNext]_serviceVars
    PROVE  [Next]_vars \/ Acknowledge \/ Serve
<1>1. ASSUME NEW t \in Transfers, StartTransfer(t[1], t[2]) PROVE Next
  <2>1. QueueTransfer(t[1], t[2]) /\ UNCHANGED idle
    BY <1>1 DEF StartTransfer
  <2> QED
    BY <2>1 DEF Next, Environment
<1>2. ASSUME NEW p \in Upstream, PeerActsAsHost(p) PROVE Next
  BY <1>2 DEF PeerActsAsHost, Next, Environment
<1>3. CASE UNCHANGED serviceVars
  BY <1>3 DEF serviceVars
<1>4. CASE Stimulate /\ UNCHANGED <<controllerVars, idle, driverVars, owed>>
  BY <1>4 DEF Next, Environment
<1>5. CASE ReadInterrupts
  BY <1>5 DEF ReadInterrupts
<1> QED
  BY <1>1, <1>2, <1>3, <1>4, <1>5
  DEF ServiceNext, DriverStep, ServiceTick, ServiceUpdate, Next

LEMMA ServiceTypeStep ==
    ASSUME DriverTypeOK, [ServiceNext]_serviceVars
    PROVE  DriverTypeOK'
<1>1. TypeOK'
  BY ServiceSteps, DrdTypeStep, AcknowledgeType, ServeType DEF DriverTypeOK
<1> DEFINE Own == <<drv_pc, drv_seen, drv_busy, owed>>
           Goal == /\ drv_pc' \in {"wait", "acknowledge", "serve"}
                   /\ drv_seen' \subseteq IntrBit
                   /\ drv_busy' \in BOOLEAN
                   /\ owed' \subseteq IntrBit
<1>2. UNCHANGED Own => Goal
  BY DEF DriverTypeOK
<1>3. CASE ReadInterrupts
  <2>1. drv_seen' = m_intr_status
    BY <1>3 DEF ReadInterrupts, ReadRegister
  <2> QED
    BY <1>1, <1>3, <2>1 DEF ReadInterrupts, DriverTypeOK, TypeOK, DrdControllerTypeOK
<1>4. CASE Acknowledge
  BY <1>1, <1>4 DEF Acknowledge, DriverTypeOK
<1>5. CASE Serve
  BY <1>1, <1>5 DEF Serve, DriverTypeOK
<1>6. ASSUME NEW t \in Transfers, StartTransfer(t[1], t[2]) PROVE Goal
  BY <1>6 DEF StartTransfer, DriverTypeOK
<1>7. ASSUME NEW p \in Upstream, PeerActsAsHost(p) PROVE Goal
  BY <1>2, <1>7 DEF PeerActsAsHost, driverVars
<1>8. CASE ServiceUpdate
  BY <1>1, <1>8 DEF ServiceUpdate, Rising, DriverTypeOK, driverVars
<1>9. CASE \/ Stimulate /\ UNCHANGED <<controllerVars, idle, driverVars, owed>>
           \/ RunProcess /\ UNCHANGED <<driverVars, owed>>
           \/ ServiceTick
           \/ UNCHANGED serviceVars
  BY <1>1, <1>2, <1>9 DEF ServiceTick, serviceVars, driverVars, DriverTypeOK
<1> QED
  BY <1>1, <1>3, <1>4, <1>5, <1>6, <1>7, <1>8, <1>9
  DEF ServiceNext, DriverStep, DriverTypeOK

\* The driver's variables keep their types, and so do those of the DRD, which
\* it uses in ways that Drd leaves to no testbench: it writes back whatever it
\* has read from INTR_STATUS.
THEOREM ServiceTypeCorrect == ServiceSpec => []DriverTypeOK
<1>1. ServiceInit => DriverTypeOK
  BY DrdTypeInit DEF ServiceInit, DriverTypeOK
<1> QED
  BY <1>1, ServiceTypeStep, PTL DEF ServiceSpec

-----------------------------------------------------------------------------
(***************************************************************************)
(* A transfer that is reported has run.  interrupt_collector raises        *)
(* XFER_DONE for as long as transfer_done is high, so the bit may come     *)
(* again after the driver has cleared it; it must not be there any more    *)
(* when the driver has queued its next transfer.                           *)
(***************************************************************************)
\* No interrupt but irq tells of it: every bit is enabled.
LineInv ==
    /\ m_intr_enable = IntrBit
    /\ m_intr_status # {} => nxt.irq = TRUE

\* The host thread has its wait ahead of it while it is in its pulse, and is
\* runnable when the wait is over; outside it keeps transfer_done low.
PulseInv ==
    IF host_pc = "xfer_pulse"
    THEN \/ "host_main_process" \in ready /\ timer["host_main_process"] = 0
         \/ /\ "host_main_process" \notin ready
            /\ timer["host_main_process"] \in 1 .. XferPulseTime
    ELSE nxt.xfer_done = FALSE

\* While a transfer waits in the ring, nothing says that one has completed.
RingInv ==
    /\ Len(m_transfer_ring) <= 1
    /\ m_transfer_ring # <<>> =>
           /\ drv_busy = TRUE
           /\ "XFER_DONE" \notin m_intr_status \cup drv_seen
           /\ sig.xfer_done = FALSE /\ nxt.xfer_done = FALSE

\* The pulse ends before the driver has reacted, and then all that is left of
\* it is a bit that irq tells of.
RestInv ==
    /\ drv_pc = "wait" => drv_seen = {}
    /\ drv_busy = FALSE /\ timer[Driver] > 0 /\ host_pc = "xfer_pulse" =>
           timer["host_main_process"] < timer[Driver]
    /\ drv_busy = FALSE /\ timer[Driver] = 0 =>
           /\ host_pc # "xfer_pulse" /\ sig.xfer_done = FALSE
           /\ "XFER_DONE" \in m_intr_status => sig.irq = TRUE

ReportInv == LineInv /\ PulseInv /\ RingInv /\ RestInv

\* The steps that have no part in it: at most, they raise an interrupt.
ReportFrame ==
    /\ UNCHANGED <<sig, m_transfer_ring, host_pc, driverVars, m_intr_enable>>
    /\ nxt'.xfer_done = nxt.xfer_done
    /\ m_intr_status' # {} => nxt'.irq = TRUE
    /\ "XFER_DONE" \in m_intr_status' => "XFER_DONE" \in m_intr_status \/ sig.xfer_done
    /\ UNCHANGED <<timer["host_main_process"], timer[Driver]>>
    /\ "host_main_process" \in ready' <=> "host_main_process" \in ready

LEMMA FrameKeepsReport ==
    ASSUME DriverTypeOK, ReportInv, ReportFrame
    PROVE  ReportInv'
BY DEF ReportInv, ReportFrame, LineInv, PulseInv, RingInv, RestInv, driverVars,
       DriverTypeOK, TypeOK, KernelTypeOK, Signals

\* The managers and the testbench raise XFER_DONE only while transfer_done is
\* high, and with it irq.
LEMMA ControlRaises ==
    ASSUME ControlTypeOK, LineInv, ControlProcess \/ Stimulate
    PROVE  /\ m_intr_enable' = m_intr_enable
           /\ m_intr_status' # {} => nxt'.irq = TRUE
           /\ "XFER_DONE" \in m_intr_status' =>
                  "XFER_DONE" \in m_intr_status \/ sig.xfer_done
           /\ timer'[Driver] = timer[Driver]
<1> DEFINE Goal == /\ m_intr_enable' = m_intr_enable
                   /\ m_intr_status' # {} => nxt'.irq = TRUE
                   /\ "XFER_DONE" \in m_intr_status' =>
                          "XFER_DONE" \in m_intr_status \/ sig.xfer_done
                   /\ timer'[Driver] = timer[Driver]
<1>1. /\ nxt \in Signals /\ timer \in [Thread -> Nat]
      /\ m_intr_status \subseteq IntrBit
  BY DEF ControlTypeOK, KernelTypeOK, DrdControllerTypeOK
<1>2. ASSUME NEW bits \in SUBSET IntrBit, NEW n \in Signals, RaiseIrq(bits, n)
      PROVE  m_intr_status' = m_intr_status \cup bits
             /\ (m_intr_status' # {} => nxt'.irq = TRUE)
  BY <1>1, <1>2 DEF RaiseIrq, LineInv, Signals
<1>3. \A p \in Process, d \in Nat : Wait(p, d) => timer'[Driver] = timer[Driver]
  BY <1>1 DEF Wait, Thread, Process, Driver
<1>4. \A r : CallFor(r) => timer'[Driver] = timer[Driver]
  BY <1>1 DEF CallFor, Thread, Driver, Testbench
<1>5. CASE RoleDetection /\ UNCHANGED drdControllerVars
  <2>1. nxt'.irq = nxt.irq
    BY <1>1, <1>5 DEF RoleDetection, RoleDetectionStart, DetectRole, EndRolePulse,
       ApplyRole, KeepRole, Signals
  <2>2. timer'[Driver] = timer[Driver]
    BY <1>3, <1>5, ProcessNames DEF RoleDetection, RoleDetectionStart, DetectRole,
       EndRolePulse, ApplyRole, KeepRole
  <2> QED
    BY <1>5, <2>1, <2>2 DEF LineInv, drdControllerVars
<1>6. CASE ForwardInputs
  BY <1>1, <1>3, <1>6, ProcessNames DEF ForwardInputs, LineInv, drdControllerVars, Signals
<1>7. CASE RoleSwitch
  <2>1. CASE RoleSwitchStart \/ DisableControllers
    BY <1>1, <1>3, <2>1, ProcessNames DEF RoleSwitchStart, DisableControllers, Settle,
       ControllersOff, LineInv, Signals
  <2>2. CASE EnableController
    <3> DEFINE n == [nxt EXCEPT !.host_enable = @ \/ sw_role = "HOST",
                                !.dev_enable = @ \/ sw_role = "DEVICE"]
    <3>1. n \in Signals /\ {"ROLE_CHANGED"} \in SUBSET IntrBit
      BY <1>1 DEF Signals, IntrBit
    <3>2. RaiseIrq({"ROLE_CHANGED"}, n)
      BY <2>2 DEF EnableController
    <3> HIDE DEF n
    <3>3. m_intr_status' = m_intr_status \cup {"ROLE_CHANGED"}
          /\ (m_intr_status' # {} => nxt'.irq = TRUE)
      BY <1>2, <3>1, <3>2
    <3> QED
      BY <1>3, <2>2, <3>3, ProcessNames DEF EnableController
  <2> QED
    BY <1>7, <2>1, <2>2 DEF RoleSwitch
<1>8. CASE InterruptCollector
  <2>1. HighSources \in SUBSET IntrBit
        /\ ("XFER_DONE" \in HighSources => sig.xfer_done)
    BY DEF HighSources
  <2>2. CASE HighSources # {}
    <3>1. m_intr_status' = m_intr_status \cup HighSources
          /\ (m_intr_status' # {} => nxt'.irq = TRUE)
      BY <1>1, <1>2, <1>8, <2>1, <2>2 DEF InterruptCollector
    <3> QED
      BY <1>3, <1>8, <2>1, <3>1, ProcessNames DEF InterruptCollector
  <2>3. CASE HighSources = {}
    BY <1>3, <1>8, <2>3, ProcessNames DEF InterruptCollector, LineInv
  <2> QED
    BY <2>2, <2>3
<1>9. CASE Stimulate
  BY <1>1, <1>4, <1>9 DEF Stimulate, SetInputs, DriveInputs, ForceRole, AskForRole,
     WriteRoleCtrl, RequestRole, LineInv, drdControllerVars, Signals
<1> QED
  BY <1>5, <1>6, <1>7, <1>8, <1>9 DEF ControlProcess

\* What a run of the host thread does to its pulse: it begins one with a
\* transfer, which leaves the ring, and otherwise ends whatever there is.
LEMMA HostTurns ==
    ASSUME KernelTypeOK, NEW reply, NEW ok, HostMain(reply, ok), PulseInv
    PROVE  /\ nxt'.irq = nxt.irq
           /\ timer'[Driver] = timer[Driver]
           /\ PulseInv'
           /\ \/ /\ m_transfer_ring # <<>>
                 /\ m_transfer_ring' = Tail(m_transfer_ring)
              \/ /\ m_transfer_ring' = m_transfer_ring
                 /\ host_pc' # "xfer_pulse"
<1>1. nxt \in Signals /\ timer \in [Thread -> Nat]
  BY DEF KernelTypeOK
<1>2. "host_main_process" \in Thread /\ Driver \in Thread
      /\ Driver # "host_main_process"
  BY DEF Thread, Process, Driver
<1> DEFINE Rest == /\ nxt'.irq = nxt.irq
                   /\ nxt'.xfer_done = FALSE
                   /\ m_transfer_ring' = m_transfer_ring
                   /\ host_pc' # "xfer_pulse"
<1>3. \E d \in Nat : Wait("host_main_process", d)
  BY DEF HostMain, HostStart, BeginEnumeration, SendStatus, ContinueEnumeration,
     SettleAddress, ReadConfiguration, FinishEnumeration, LeaveRing, AwaitTrb, RunTrb,
     SendSetup, HostWaits
<1>4. timer'[Driver] = timer[Driver]
  BY <1>1, <1>2, <1>3 DEF Wait
<1>5. ASSUME HostStart PROVE Rest
  BY <1>1, <1>5 DEF HostStart, HostWaits, Signals
<1>6. ASSUME \/ BeginEnumeration(reply) \/ SendStatus(reply, ok)
             \/ ContinueEnumeration(reply) \/ ReadConfiguration(reply)
      PROVE  Rest
  BY <1>6 DEF BeginEnumeration, SendStatus, ContinueEnumeration, ReadConfiguration,
     SendSetup, HostRuns, HostWaits, PulseInv
<1>7. ASSUME SettleAddress PROVE Rest
  BY <1>1, <1>7 DEF SettleAddress, HostRuns, HostWaits, PulseInv, Signals
<1>8. ASSUME FinishEnumeration PROVE Rest
  BY <1>1, <1>8 DEF FinishEnumeration, HostRuns, HostWaits, PulseInv, Signals
<1>9. ASSUME LeaveRing \/ AwaitTrb PROVE Rest
  BY <1>1, <1>9 DEF LeaveRing, AwaitTrb, PulsesEnded, HostWaits, Signals
<1>10. CASE RunTrb(reply)
  <2>1. nxt'.irq = nxt.irq
    BY <1>1, <1>10 DEF RunTrb, PulsesEnded, Signals
  <2>2. PulseInv'
    BY <1>1, <1>2, <1>10 DEF RunTrb, HostWaits, Wait, PulseInv
  <2> QED
    BY <1>4, <1>10, <2>1, <2>2 DEF RunTrb
<1>11. CASE Rest
  BY <1>4, <1>11 DEF PulseInv
<1> QED
  BY <1>5, <1>6, <1>7, <1>8, <1>9, <1>10, <1>11 DEF HostMain

LEMMA ReportStep ==
    ASSUME ReactTime > XferPulseTime, DriverTypeOK, ReportInv, [ServiceNext]_serviceVars
    PROVE  /\ ReportInv'
           /\ drv_busy /\ ~drv_busy' => m_transfer_ring = <<>>
<1> DEFINE Goal == /\ ReportInv'
                   /\ drv_busy /\ ~drv_busy' => m_transfer_ring = <<>>
<1>1. /\ sig \in Signals /\ nxt \in Signals /\ timer \in [Thread -> Nat]
      /\ m_intr_status \subseteq IntrBit
      /\ TypeOK /\ KernelTypeOK /\ ControlTypeOK
      /\ m_transfer_ring \in Seq(Trb)
      /\ drv_busy \in BOOLEAN
  BY TypeParts DEF DriverTypeOK, TypeOK, KernelTypeOK, DrdControllerTypeOK, HostTypeOK
<1>2. /\ "host_main_process" \in Thread /\ Driver \in Thread
      /\ "host_main_process" \in Process /\ Driver \notin Process
      /\ Driver # "host_main_process"
  BY DEF Thread, Process, Driver
<1>3. ReportFrame => Goal
  <2> SUFFICES ASSUME ReportFrame PROVE Goal
    OBVIOUS
  <2>1. drv_busy' = drv_busy
    BY DEF ReportFrame, driverVars
  <2> QED
    BY <2>1, FrameKeepsReport
<1> USE DEF ReportInv
<1>4. CASE ReadInterrupts
  <2>1. drv_seen' = m_intr_status
    BY <1>4 DEF ReadInterrupts, ReadRegister
  <2>2. UNCHANGED <<sig, nxt, timer, ready, m_intr_status, m_intr_enable, host_pc,
                    m_transfer_ring, drv_busy>>
    BY <1>4 DEF ReadInterrupts, vars, kernelVars, drdControllerVars, controllerVars,
       hostVars
  <2> QED
    BY <1>4, <2>1, <2>2 DEF ReadInterrupts, LineInv, PulseInv, RingInv, RestInv
<1>5. CASE Acknowledge
  <2>1. /\ UNCHANGED <<sig, timer, ready, m_intr_enable, host_pc, m_transfer_ring,
                       drv_busy, drv_seen>>
        /\ drv_pc' = "serve"
        /\ m_intr_status' = m_intr_status \ drv_seen
        /\ nxt' = [nxt EXCEPT !.irq = @ /\ m_intr_status \ drv_seen # {}]
    BY <1>5 DEF Acknowledge, ClearInterrupts, WriteIntrStatus, controllerVars, hostVars
  <2>2. nxt'.xfer_done = nxt.xfer_done
        /\ (nxt.irq = TRUE /\ m_intr_status' # {} => nxt'.irq = TRUE)
    BY <1>1, <2>1 DEF Signals
  <2> QED
    BY <2>1, <2>2 DEF LineInv, PulseInv, RingInv, RestInv
<1>6. CASE Serve
  <2>1. UNCHANGED <<sig, nxt, ready, m_intr_status, m_intr_enable, host_pc,
                    m_transfer_ring>>
    BY <1>6 DEF Serve, drdControllerVars, controllerVars, hostVars
  <2>2. CASE drv_busy /\ "XFER_DONE" \in drv_seen
    <3>1. m_transfer_ring = <<>>
      BY <2>2 DEF RingInv
    <3>2. timer' = [timer EXCEPT ![Driver] = ReactTime] /\ drv_busy' = FALSE
          /\ drv_seen' = {} /\ drv_pc' = "wait"
      BY <1>6, <2>2 DEF Serve
    <3>3. timer'["host_main_process"] = timer["host_main_process"]
          /\ timer'[Driver] = ReactTime
      BY <1>1, <1>2, <3>2
    <3>4. PulseInv' /\ LineInv' /\ RingInv'
      BY <2>1, <3>1, <3>3 DEF PulseInv, LineInv, RingInv
    <3>5. RestInv'
      <4>1. XferPulseTime \in Nat /\ ReactTime \in Nat /\ ReactTime > XferPulseTime
        OBVIOUS
      <4> QED
        BY <1>1, <1>2, <2>1, <3>2, <3>3, <4>1 DEF PulseInv, RestInv
    <3> QED
      BY <3>1, <3>4, <3>5
  <2>3. CASE ~(drv_busy /\ "XFER_DONE" \in drv_seen)
    BY <1>6, <2>1, <2>3 DEF Serve, PulseInv, LineInv, RingInv, RestInv
  <2> QED
    BY <2>2, <2>3
<1>7. ASSUME NEW t \in Transfers, StartTransfer(t[1], t[2]) PROVE Goal
  <2> DEFINE trb == [dir |-> t[1], addr |-> m_dev.addr, data |-> t[2]]
  <2>1. /\ UNCHANGED <<sig, nxt, timer, ready, m_intr_status, m_intr_enable, host_pc,
                       drv_pc, drv_seen>>
        /\ m_transfer_ring' = Append(m_transfer_ring, trb)
        /\ drv_pc = "wait" /\ sig.irq = FALSE /\ drv_busy = FALSE /\ timer[Driver] = 0
        /\ drv_busy' = TRUE
    BY <1>1, <1>7 DEF StartTransfer, QueueTransfer, Enqueue, EnqueueTrb,
       drdControllerVars, Signals
  <2> HIDE DEF trb
  <2>2. m_transfer_ring = <<>> /\ Len(m_transfer_ring') = 1
    BY <2>1 DEF RingInv
  <2>3. "XFER_DONE" \notin m_intr_status \cup drv_seen
         /\ sig.xfer_done = FALSE /\ nxt.xfer_done = FALSE
    BY <2>1 DEF RestInv, PulseInv
  <2> QED
    BY <2>1, <2>2, <2>3 DEF LineInv, PulseInv, RingInv, RestInv
<1>8. CASE Stimulate /\ UNCHANGED <<controllerVars, idle, driverVars, owed>>
  <2> QED
    BY <1>1, <1>3, <1>8, ControlRaises, ControlWrites
    DEF ReportFrame, Outputs, controllerVars, hostVars
<1>9. CASE ControlProcess /\ UNCHANGED <<controllerVars, driverVars, owed>>
  BY <1>1, <1>3, <1>9, ControlRaises, ControlWrites
  DEF ReportFrame, Outputs, controllerVars, hostVars
<1>10. ASSUME NEW p \in Upstream, PeerActsAsHost(p) PROVE Goal
  <2>1. /\ UNCHANGED <<sig, ready, m_intr_status, m_intr_enable, driverVars>>
        /\ nxt' = [nxt EXCEPT !.configured = m_configured']
        /\ timer' = timer \/ timer' = [timer EXCEPT ![PeerHost] = AddressTime]
    BY <1>10 DEF PeerActsAsHost, UpstreamCall, drdControllerVars
  <2>2. UNCHANGED <<m_transfer_ring, host_pc>>
    BY <1>10 DEF PeerActsAsHost, UpstreamCall, HostReceive, hostVars
  <2>3. nxt'.xfer_done = nxt.xfer_done /\ nxt'.irq = nxt.irq
    BY <1>1, <2>1 DEF Signals
  <2>4. UNCHANGED <<timer["host_main_process"], timer[Driver]>>
    BY <1>1, <1>2, <2>1 DEF PeerHost, Driver
  <2> QED
    BY <1>3, <2>1, <2>2, <2>3, <2>4 DEF ReportFrame, LineInv
<1>11. CASE HostProcess /\ UNCHANGED <<drdControllerVars, driverVars, owed>>
  <2>1. PICK reply, ok : HostMain(reply, ok)
    BY <1>11 DEF HostProcess
  <2>2. /\ nxt'.irq = nxt.irq /\ timer'[Driver] = timer[Driver]
        /\ PulseInv'
        /\ \/ /\ m_transfer_ring # <<>>
              /\ m_transfer_ring' = Tail(m_transfer_ring)
           \/ /\ m_transfer_ring' = m_transfer_ring
              /\ host_pc' # "xfer_pulse"
    BY <1>1, <2>1, HostTurns
  <2>3. sig' = sig
    BY <1>1, <2>1, HostWrites
  <2>4. UNCHANGED <<m_intr_status, m_intr_enable, drv_pc, drv_seen, drv_busy>>
    BY <1>11 DEF drdControllerVars, driverVars
  <2>5. CASE m_transfer_ring # <<>> /\ m_transfer_ring' = Tail(m_transfer_ring)
    <3>1. m_transfer_ring' = <<>> /\ drv_busy = TRUE
      BY <1>1, <2>5 DEF RingInv
    <3> QED
      BY <2>2, <2>3, <2>4, <3>1 DEF LineInv, RingInv, RestInv
  <2>6. CASE m_transfer_ring' = m_transfer_ring /\ host_pc' # "xfer_pulse"
    BY <2>2, <2>3, <2>4, <2>6 DEF LineInv, RingInv, RestInv, PulseInv
  <2> QED
    BY <2>2, <2>5, <2>6
<1>12. CASE Loopback /\ UNCHANGED <<drdControllerVars, hostVars, driverVars, owed>>
  <2>1. /\ sig' = sig
        /\ \E d \in Nat : Wait("loopback_process", d)
        /\ nxt' = nxt \/ \E b \in BOOLEAN : nxt' = [nxt EXCEPT !.bulk_irq = b]
    BY <1>12 DEF Loopback, LoopbackStart, SkipLoopback, CopyToEp1, EndLoopbackPulse,
       LoopbackWaits
  <2>2. nxt'.xfer_done = nxt.xfer_done /\ nxt'.irq = nxt.irq
    BY <1>1, <2>1 DEF Signals
  <2>3. /\ UNCHANGED <<timer["host_main_process"], timer[Driver]>>
        /\ "host_main_process" \in ready' <=> "host_main_process" \in ready
    BY <1>1, <1>2, <2>1 DEF Wait, Driver
  <2> QED
    BY <1>3, <1>12, <2>1, <2>2, <2>3 DEF ReportFrame, LineInv, drdControllerVars, hostVars
<1>13. CASE ServiceUpdate
  <2>1. /\ ready = {} /\ sig' = nxt /\ ready' = Woken
        /\ UNCHANGED <<nxt, timer, m_intr_status, m_intr_enable, host_pc,
                       m_transfer_ring, driverVars>>
    BY <1>13 DEF ServiceUpdate, Update, DeltaCycle, drdControllerVars, controllerVars,
       hostVars
  <2>2. host_pc = "xfer_pulse" => "host_main_process" \notin ready'
    BY <2>1 DEF Woken, HostMainWoken
  <2> QED
    BY <2>1, <2>2 DEF LineInv, PulseInv, RingInv, RestInv, driverVars
<1>14. CASE ServiceTick
  <2>1. /\ ready = {} /\ ready' = {p \in Process : timer[p] = 1}
        /\ timer' = [p \in Thread |-> IF timer[p] = 0 THEN 0 ELSE timer[p] - 1]
        /\ UNCHANGED <<sig, nxt, m_intr_status, m_intr_enable, host_pc,
                       m_transfer_ring, driverVars>>
        /\ sig = nxt
    BY <1>14 DEF ServiceTick, Tick, AdvanceTime, UpdatePending, drdControllerVars,
       controllerVars, hostVars
  <2> DEFINE h == timer["host_main_process"]
             d == timer[Driver]
  <2>2. /\ h \in Nat /\ d \in Nat
        /\ h' = (IF h = 0 THEN 0 ELSE h - 1) /\ d' = (IF d = 0 THEN 0 ELSE d - 1)
        /\ "host_main_process" \in ready' <=> h = 1
    BY <1>1, <1>2, <2>1
  <2>3. host_pc = "xfer_pulse" => h \in 1 .. XferPulseTime
    BY <2>1 DEF PulseInv
  <2>4. PulseInv'
    BY <2>1, <2>2, <2>3 DEF PulseInv
  <2>5. RestInv'
    <3>1. ASSUME drv_busy = FALSE, d' > 0, host_pc = "xfer_pulse" PROVE h' < d'
      BY <2>2, <2>3, <3>1 DEF RestInv
    <3>2. ASSUME drv_busy = FALSE, d' = 0
          PROVE  /\ host_pc # "xfer_pulse" /\ sig.xfer_done = FALSE
                 /\ "XFER_DONE" \in m_intr_status => sig.irq = TRUE
      <4>1. host_pc # "xfer_pulse"
        BY <2>2, <2>3, <3>2 DEF RestInv
      <4> QED
        BY <2>1, <4>1 DEF PulseInv, LineInv
    <3> QED
      BY <2>1, <3>1, <3>2 DEF RestInv, driverVars
  <2> QED
    BY <2>1, <2>4, <2>5 DEF LineInv, RingInv, driverVars
<1>15. CASE UNCHANGED serviceVars
  BY <1>15 DEF serviceVars, vars, kernelVars, drdControllerVars, controllerVars, hostVars,
     driverVars, LineInv, PulseInv, RingInv, RestInv
<1>16. CASE RunProcess /\ UNCHANGED <<driverVars, owed>>
  <2>1. \/ ControlProcess /\ UNCHANGED controllerVars
        \/ HostProcess /\ UNCHANGED drdControllerVars
        \/ Loopback /\ UNCHANGED <<drdControllerVars, hostVars>>
    BY <1>16 DEF RunProcess, ControlProcess
  <2> QED
    BY <1>9, <1>11, <1>12, <1>16, <2>1
<1> QED
  BY <1>4, <1>5, <1>6, <1>7, <1>8, <1>10, <1>13, <1>14, <1>15, <1>16
  DEF ServiceNext, DriverStep

\* The driver takes no transfer for complete that has not run, if it lets the
\* pulse of the one before end before it queues the next (transfer_done,
\* interrupt_collector).
THEOREM ReportsAreTrue ==
    ASSUME ReactTime > XferPulseTime
    PROVE  ServiceSpec => ReportedHasRun
<1> DEFINE Step == drv_busy /\ ~drv_busy' => m_transfer_ring = <<>>
<1>1. ServiceInit => ReportInv
  BY DEF ServiceInit, Init, KernelInit, InitSignals, DrdControllerInit, HostInit, Thread,
     ReportInv, LineInv, PulseInv, RingInv, RestInv
<1>2. DriverTypeOK /\ ReportInv /\ [ServiceNext]_serviceVars
          => ReportInv' /\ [Step]_serviceVars
  BY ReportStep
<1> QED
  BY <1>1, <1>2, ServiceTypeCorrect, PTL DEF ServiceSpec, ReportedHasRun
=============================================================================
