-------------------------- MODULE DeviceController --------------------------
(***************************************************************************)
(* usb3_device_controller_t: from_proto_b_transport, which handles a       *)
(* packet in the thread of whoever sent it, and loopback_process, which    *)
(* moves what arrives on EP2 to EP1.  Each FIFO holds one transfer.        *)
(***************************************************************************)
EXTENDS ProtocolLayer

CONSTANT BulkPulseTime      \* bulk_irq stays high (10 ns)

ASSUME BulkPulseAssumption == BulkPulseTime \in Nat \ {0}

VARIABLES
    m_configured,
    m_assigned_addr,
    m_ep1_in,           \* NoData when the FIFO has no data
    m_ep2_out,
    loop_pc             \* where loopback_process stands

deviceVars == <<m_configured, m_assigned_addr, m_ep1_in, m_ep2_out, loop_pc>>

DeviceTypeOK ==
    /\ m_configured \in BOOLEAN
    /\ m_assigned_addr \in 0..(AddrRange - 1)
    /\ m_ep1_in \in Data \cup {NoData}
    /\ m_ep2_out \in Data \cup {NoData}
    /\ loop_pc \in {"start", "wait", "pulse"}

DeviceInit ==
    /\ m_configured = FALSE
    /\ m_assigned_addr = 0
    /\ m_ep1_in = NoData
    /\ m_ep2_out = NoData
    /\ loop_pc = "start"

-----------------------------------------------------------------------------
\* The packet that the device sends while it handles p, NoPacket if none.
DeviceAnswer(p) ==
    CASE p.type = "SETUP" /\ p.request \in DOMAIN Answer ->
            Packet("CTRL_DATA", m_assigned_addr, Answer[p.request])
      [] p.type = "SETUP" /\ p.request = "unknown" ->
            Packet("TP_STALL", m_assigned_addr, "stall_bytes")
      [] p.type = "CTRL_STATUS" ->
            Packet("CTRL_STATUS", m_assigned_addr, "status_bytes")
      [] p.type = "BULK_IN" /\ m_ep1_in # NoData ->
            Packet("BULK_IN", m_assigned_addr, m_ep1_in)
      [] OTHER -> NoPacket

\* Mutant: a FIFO that is full stays as it is.
WriteFifo_WhenEmpty(fifo, data) == IF fifo = NoData THEN data ELSE fifo

\* Mutant: the data stay after they have been read.
ReadFifo_Peek(fifo) == fifo

\* usb3_ep_fifo_t: a write replaces what is there, a read empties it.
WriteFifo(fifo, data) == data
ReadFifo(fifo) == NoData

\* The data of a control transfer takes the same way as that of EP2.
ToEp2(p) == p.type \in {"BULK_OUT", "CTRL_DATA"}

\* from_proto_b_transport: nothing happens while the controller is disabled.
\* The wait in handle_set_address is left to the caller, whose thread it is.
DeviceReceive(p) ==
    IF ~sig.dev_enable
    THEN UNCHANGED <<deviceVars, notified>>
    ELSE /\ m_assigned_addr' = IF IsSetup(p, "set_address")
                               THEN p.value % AddrRange ELSE m_assigned_addr
         /\ m_configured' = (m_configured \/ IsSetup(p, "set_config"))
         /\ m_ep1_in' = IF p.type = "BULK_IN" THEN ReadFifo(m_ep1_in) ELSE m_ep1_in
         /\ m_ep2_out' = IF ToEp2(p) THEN WriteFifo(m_ep2_out, p.data) ELSE m_ep2_out
         /\ notified' = IF ToEp2(p) THEN notified \cup {"m_out_ep_event"} ELSE notified
         /\ UNCHANGED loop_pc

-----------------------------------------------------------------------------
LoopbackRuns(pc) == "loopback_process" \in ready /\ loop_pc = pc

LoopbackWaits(pc, d) == loop_pc' = pc /\ Wait("loopback_process", d)

LoopbackStart ==
    /\ LoopbackRuns("start")
    /\ LoopbackWaits("wait", 0)
    /\ UNCHANGED <<sig, nxt, notified, m_configured, m_assigned_addr, m_ep1_in,
                   m_ep2_out>>

\* The data stays in EP2, and nothing wakes the thread for it again.
SkipLoopback ==
    /\ LoopbackRuns("wait")
    /\ ~m_configured \/ m_ep2_out = NoData
    /\ LoopbackWaits("wait", 0)
    /\ UNCHANGED <<sig, nxt, notified, m_configured, m_assigned_addr, m_ep1_in,
                   m_ep2_out>>

\* The TP_ERDY that is sent here changes nothing at the peer.
CopyToEp1 ==
    /\ LoopbackRuns("wait")
    /\ m_configured
    /\ m_ep2_out # NoData
    /\ m_ep1_in' = WriteFifo(m_ep1_in, m_ep2_out)
    /\ m_ep2_out' = ReadFifo(m_ep2_out)
    /\ nxt' = [nxt EXCEPT !.bulk_irq = TRUE]
    /\ LoopbackWaits("pulse", BulkPulseTime)
    /\ UNCHANGED <<sig, notified, m_configured, m_assigned_addr>>

\* Mutant: bulk_irq is not lowered.
EndLoopbackPulse_StaysHigh ==
    /\ LoopbackRuns("pulse")
    /\ LoopbackWaits("wait", 0)
    /\ UNCHANGED <<sig, nxt, notified, m_configured, m_assigned_addr, m_ep1_in,
                   m_ep2_out>>

EndLoopbackPulse ==
    /\ LoopbackRuns("pulse")
    /\ nxt' = [nxt EXCEPT !.bulk_irq = FALSE]
    /\ LoopbackWaits("wait", 0)
    /\ UNCHANGED <<sig, notified, m_configured, m_assigned_addr, m_ep1_in, m_ep2_out>>

Loopback == LoopbackStart \/ SkipLoopback \/ CopyToEp1 \/ EndLoopbackPulse

\* Mutant: a thread that waits for the end of the pulse counts as waiting.
LoopbackWoken_InPulse == loop_pc = "pulse" /\ "m_out_ep_event" \in notified

\* A packet that arrives in the pulse does not wake the thread.
LoopbackWoken == loop_pc = "wait" /\ "m_out_ep_event" \in notified
=============================================================================
