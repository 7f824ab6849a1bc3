---------------------------- MODULE PeerDevice ----------------------------
(***************************************************************************)
(* peer_device_t of the testbench: what is at the other end of the link.   *)
(* It has no thread: it acts within the call in which a packet reaches it, *)
(* and answers by a call of its own, on the upstream socket of the DRD.    *)
(* A peer with faults is a different device, one that the error paths of   *)
(* the host controller are written for.                                    *)
(***************************************************************************)
EXTENDS ProtocolLayer

CONSTANT PeerFaults     \* {} for peer_device_t

ASSUME PeerFaultsAssumption == PeerFaults \subseteq {"silent", "stall", "error"}

VARIABLES
    peer_addr,          \* m_assigned_addr of peer_device_t
    peer_configured,    \* its m_configured
    m_loopback_buf

peerVars == <<peer_addr, peer_configured, m_loopback_buf>>

PeerTypeOK ==
    /\ peer_addr \in 0..(AddrRange - 1)
    /\ peer_configured \in BOOLEAN
    /\ m_loopback_buf \in Payload \cup {NoData}

PeerInit ==
    /\ peer_addr = 0
    /\ peer_configured = FALSE
    /\ m_loopback_buf = NoData

-----------------------------------------------------------------------------
\* What peer_device_t calls upstream while it handles p.
PeerAnswer(p) ==
    CASE p.type = "SETUP" /\ p.request \in {"get_device", "get_config", "get_bos"} ->
            Packet("CTRL_DATA", peer_addr, Answer[p.request])
      [] p.type = "BULK_IN" /\ m_loopback_buf # NoData ->
            Packet("BULK_IN", peer_addr, m_loopback_buf)
      [] OTHER -> NoPacket

\* What a faulty peer calls upstream for a SETUP that it does not perform: it
\* drops the packet, as the device controller does while it is off, or stalls,
\* as the device controller does for a request that it does not know.
Refusals(p) ==
    {answer \in {NoPacket, Packet("TP_STALL", peer_addr, "stall_bytes")} :
        /\ p.type = "SETUP"
        /\ (IF answer = NoPacket THEN "silent" ELSE "stall") \in PeerFaults}

\* The answers that p can get, and whether the peer performs p.
PeerOutcomes(p) ==
    {[answer |-> PeerAnswer(p), performs |-> TRUE]}
        \cup {[answer |-> answer, performs |-> FALSE] : answer \in Refusals(p)}

\* The response status with which the call returns.
PeerResponses == IF "error" \in PeerFaults THEN BOOLEAN ELSE {TRUE}

PeerReceive(p) ==
    /\ peer_addr' = IF IsSetup(p, "set_address")
                    THEN p.value % AddrRange ELSE peer_addr
    /\ peer_configured' = (peer_configured \/ IsSetup(p, "set_config"))
    /\ m_loopback_buf' = CASE p.type = "BULK_OUT" -> p.data
                           [] p.type = "BULK_IN" -> NoData
                           [] OTHER -> m_loopback_buf
=============================================================================
