-------------------------- MODULE ControllerPulses --------------------------
(***************************************************************************)
(* The host and the device controller as usb3_drd_controller_t sees them:  *)
(* two threads that pulse transfer_done, enumeration_done and bulk_irq,    *)
(* each at a time of its own choosing.  What makes them do so is left out. *)
(***************************************************************************)
EXTENDS Kernel

CONSTANTS
    XferPulseTime,      \* transfer_done stays high for 1 ns
    EnumPulseTime,      \* enumeration_done stays high for 10 ns
    BulkPulseTime       \* bulk_irq stays high for 10 ns

ASSUME PulseTimesAssumption ==
    {XferPulseTime, EnumPulseTime, BulkPulseTime} \subseteq Nat \ {0}

Idle(p) == timer[p] = 0 /\ p \notin ready

TransferDone ==
    /\ Idle("host_main_process")
    /\ nxt' = [nxt EXCEPT !.xfer_done = TRUE]
    /\ Wait("host_main_process", XferPulseTime)
    /\ UNCHANGED <<sig, notified>>

EnumerationDone ==
    /\ Idle("host_main_process")
    /\ nxt' = [nxt EXCEPT !.enum_done = TRUE]
    /\ Wait("host_main_process", EnumPulseTime)
    /\ UNCHANGED <<sig, notified>>

BulkIrq ==
    /\ Idle("loopback_process")
    /\ nxt' = [nxt EXCEPT !.bulk_irq = TRUE]
    /\ Wait("loopback_process", BulkPulseTime)
    /\ UNCHANGED <<sig, notified>>

HostPulseEnd ==
    /\ "host_main_process" \in ready
    /\ nxt' = [nxt EXCEPT !.xfer_done = FALSE, !.enum_done = FALSE]
    /\ Wait("host_main_process", 0)
    /\ UNCHANGED <<sig, notified>>

\* A transfer that completes in the step in which the pulse of the one before
\* it ends: the two writes to transfer_done leave it high.
NextTransferDone ==
    /\ "host_main_process" \in ready
    /\ nxt' = [nxt EXCEPT !.xfer_done = TRUE, !.enum_done = FALSE]
    /\ Wait("host_main_process", XferPulseTime)
    /\ UNCHANGED <<sig, notified>>

BulkPulseEnd ==
    /\ "loopback_process" \in ready
    /\ nxt' = [nxt EXCEPT !.bulk_irq = FALSE]
    /\ Wait("loopback_process", 0)
    /\ UNCHANGED <<sig, notified>>
=============================================================================
