-------------------------- MODULE InterruptDriver --------------------------
(***************************************************************************)
(* The DRD under software that is driven by its interrupts.  A driver      *)
(* waits for irq, reads INTR_STATUS, writes back what it has read, and     *)
(* then looks after what the bits stand for.  It queues one transfer at a  *)
(* time and waits for its XFER_DONE.                                       *)
(*                                                                         *)
(* The driver is not part of the repository: it is the use for which the   *)
(* level-sensitive irq and the write-1-to-clear register are made.         *)
(***************************************************************************)
EXTENDS Drd

CONSTANT ReactTime      \* the time the driver takes after a transfer before
                        \* it queues the next

ASSUME ReactTimeAssumption == ReactTime \in Nat

VARIABLES
    drv_pc,     \* where the driver stands
    drv_seen,   \* what it has read from INTR_STATUS
    drv_busy,   \* it has queued a transfer that has not been reported to it
    owed        \* ghost: the interrupts whose cause has come since the driver
                \* last looked after them

driverVars == <<drv_pc, drv_seen, drv_busy>>

serviceVars == <<vars, driverVars, owed>>

DriverTypeOK ==
    /\ TypeOK
    /\ drv_pc \in {"wait", "acknowledge", "serve"}
    /\ drv_seen \subseteq IntrBit
    /\ drv_busy \in BOOLEAN
    /\ owed \subseteq IntrBit

ServiceInit ==
    /\ Init
    /\ drv_pc = "wait" /\ drv_seen = {} /\ drv_busy = FALSE
    /\ owed = {}

-----------------------------------------------------------------------------
ReadInterrupts ==
    /\ drv_pc = "wait"
    /\ sig.irq
    /\ drv_seen' = ReadRegister("INTR_STATUS")
    /\ drv_pc' = "acknowledge"
    /\ UNCHANGED <<vars, drv_busy, owed>>

Acknowledge ==
    /\ drv_pc = "acknowledge"
    /\ ClearInterrupts(drv_seen)
    /\ drv_pc' = "serve"
    /\ UNCHANGED <<idle, controllerVars, drv_seen, drv_busy, owed>>

\* The driver finds everything that has happened up to now.
Serve ==
    /\ drv_pc = "serve"
    /\ owed' = owed \ drv_seen
    /\ drv_pc' = "wait"
    /\ drv_seen' = {}
    /\ IF drv_busy /\ "XFER_DONE" \in drv_seen
       THEN /\ drv_busy' = FALSE
            /\ timer' = [timer EXCEPT ![Driver] = ReactTime]
       ELSE UNCHANGED <<drv_busy, timer>>
    /\ UNCHANGED <<sig, nxt, notified, ready, roleManagerVars, drdControllerVars,
                   ghosts, controllerVars>>

\* An interrupt that is asserted comes first.
StartTransfer(dir, data) ==
    /\ drv_pc = "wait"
    /\ ~sig.irq
    /\ ~drv_busy
    /\ timer[Driver] = 0
    /\ QueueTransfer(dir, data)
    /\ drv_busy' = TRUE
    /\ UNCHANGED <<idle, drv_pc, drv_seen, owed>>

DriverStep ==
    \/ ReadInterrupts
    \/ Acknowledge
    \/ Serve

\* A peer that knows its role sends requests to a device only.
PeerActsAsHost(p) ==
    /\ sig.role = "DEVICE"
    /\ UpstreamCall(p)
    /\ UNCHANGED <<idle, driverVars, owed>>

-----------------------------------------------------------------------------
\* The interrupts whose source rises in an update phase.
Rising ==
    {b \in IntrBit :
        \/ b = "ROLE_CHANGED" /\ ~sig.role_changed /\ nxt.role_changed
        \/ b = "ENUM_DONE" /\ ~sig.enum_done /\ nxt.enum_done
        \/ b = "XFER_DONE" /\ ~sig.xfer_done /\ nxt.xfer_done
        \/ b = "BULK_IRQ" /\ ~sig.bulk_irq /\ nxt.bulk_irq}

ServiceUpdate ==
    /\ Update
    /\ owed' = owed \cup Rising
    /\ UNCHANGED driverVars

\* The driver answers irq at any time later, and is then done within the same
\* instant: in one delta cycle or in several.
ServiceTick ==
    /\ Tick
    /\ drv_pc = "wait"
    /\ UNCHANGED <<driverVars, owed>>

ServiceNext ==
    \/ DriverStep
    \/ \E t \in Transfers : StartTransfer(t[1], t[2])
    \/ Stimulate /\ UNCHANGED <<controllerVars, idle, driverVars, owed>>
    \/ \E p \in Upstream : PeerActsAsHost(p)
    \/ RunProcess /\ UNCHANGED <<driverVars, owed>>
    \/ ServiceTick
    \/ ServiceUpdate

ServiceSpec == ServiceInit /\ [][ServiceNext]_serviceVars

\* The simulator runs as in FairSpec; the driver answers an interrupt.
FairServiceSpec ==
    /\ ServiceSpec
    /\ WF_serviceVars(RunProcess /\ UNCHANGED <<driverVars, owed>>)
    /\ WF_serviceVars(ServiceUpdate)
    /\ WF_serviceVars(ServiceTick)
    /\ WF_serviceVars(DriverStep)

-----------------------------------------------------------------------------
\* No interrupt is lost: whatever pulses, the driver gets to look after it
\* later on, though all sources share one register and one line, and new pulses
\* come between its read, its write and its work (raise_irq, cfg_b_transport).
EveryPulseServed == \A b \in IntrBit : (b \in owed) ~> (b \notin owed)

\* A transfer of the driver is reported to it, if the host stays enabled: one
\* that is queued after the pulse of the one before gives a pulse of its own
\* (transfer_done, process_transfer_ring).
TransferReported ==
    (drv_busy /\ sig.host_enable) ~> (~drv_busy \/ ~sig.host_enable)

\* The driver takes no transfer for complete that has not run, though
\* interrupt_collector may raise XFER_DONE again, for as long as transfer_done
\* is high, after the driver has cleared it.
ReportedHasRun ==
    [][drv_busy /\ ~drv_busy' => m_transfer_ring = <<>>]_serviceVars
=============================================================================
