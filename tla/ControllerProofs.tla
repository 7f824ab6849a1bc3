-------------------------- MODULE ControllerProofs --------------------------
(***************************************************************************)
(* What the host and the device controller keep true of their own data and *)
(* of each other, for every value of the constants.                        *)
(***************************************************************************)
EXTENDS DrdProofs

-----------------------------------------------------------------------------
(***************************************************************************)
(* Who writes what.                                                        *)
(***************************************************************************)
\* The host thread leaves the device's outputs alone.
LEMMA HostWrites ==
    ASSUME nxt \in Signals, NEW reply, NEW ok, HostMain(reply, ok)
    PROVE  /\ sig' = sig
           /\ nxt'.bulk_irq = nxt.bulk_irq /\ nxt'.configured = nxt.configured
           /\ ready' = ready \ {"host_main_process"}
<1>1. sig' = sig /\ ready' = ready \ {"host_main_process"}
  BY DEF HostMain, HostStart, BeginEnumeration, SendStatus, ContinueEnumeration,
     SettleAddress, ReadConfiguration, FinishEnumeration, LeaveRing, AwaitTrb, RunTrb,
     SendSetup, HostWaits, Wait
<1>2. nxt'.bulk_irq = nxt.bulk_irq /\ nxt'.configured = nxt.configured
  <2>1. CASE HostStart
    BY <2>1 DEF HostStart, Signals
  <2>2. CASE SettleAddress
    BY <2>2 DEF SettleAddress, Signals
  <2>3. CASE FinishEnumeration
    BY <2>3 DEF FinishEnumeration, Signals
  <2>4. CASE LeaveRing \/ AwaitTrb
    BY <2>4 DEF LeaveRing, AwaitTrb, PulsesEnded, Signals
  <2>5. CASE RunTrb(reply)
    BY <2>5 DEF RunTrb, PulsesEnded, Signals
  <2>6. CASE BeginEnumeration(reply) \/ SendStatus(reply, ok)
               \/ ContinueEnumeration(reply) \/ ReadConfiguration(reply)
    BY <2>6 DEF BeginEnumeration, SendStatus, ContinueEnumeration, ReadConfiguration
  <2> QED
    BY <2>1, <2>2, <2>3, <2>4, <2>5, <2>6 DEF HostMain
<1> QED
  BY <1>1, <1>2

\* The steps of the DRD, those of the managers and the testbench taken together.
LEMMA DrdSteps ==
    ASSUME [Next]_vars
    PROVE  \/ HostProcess /\ UNCHANGED <<roleManagerVars, drdControllerVars, ghosts>>
           \/ /\ Loopback
              /\ UNCHANGED <<roleManagerVars, drdControllerVars, hostVars, peerVars,
                             historyVars, ghosts>>
           \/ \E t \in Transfers : QueueTransfer(t[1], t[2])
           \/ \E p \in Upstream : UpstreamCall(p)
           \/ ControlProcess /\ UNCHANGED controllerVars
           \/ (Stimulate \/ Software) /\ UNCHANGED controllerVars
           \/ Update
           \/ Tick
           \/ UNCHANGED vars
<1>1. CASE RunProcess
  BY <1>1 DEF RunProcess, ControlProcess
<1>2. CASE Environment
  BY <1>2 DEF Environment
<1> QED
  BY <1>1, <1>2 DEF Next

-----------------------------------------------------------------------------
(***************************************************************************)
(* The pulses of the loopback thread.                                      *)
(***************************************************************************)
\* Outside its pulse the thread keeps bulk_irq low, and by the time it runs
\* again the signal has followed.
CopyInv ==
    loop_pc # "pulse" =>
        /\ nxt.bulk_irq = FALSE
        /\ "loopback_process" \in ready => sig.bulk_irq = FALSE

\* bulk_irq stays as it is, and the loopback thread where it is.
CopyFrame ==
    /\ loop_pc' = loop_pc
    /\ nxt'.bulk_irq = nxt.bulk_irq
    /\ sig' = sig /\ ready' \subseteq ready

LEMMA CopyInvStep ==
    ASSUME TypeOK, CopyInv, [Next]_vars
    PROVE  /\ CopyInv'
           /\ loop_pc # "pulse" /\ loop_pc' = "pulse" => ~sig.bulk_irq /\ ~nxt.bulk_irq
<1> DEFINE Goal ==
       /\ CopyInv'
       /\ loop_pc # "pulse" /\ loop_pc' = "pulse" => ~sig.bulk_irq /\ ~nxt.bulk_irq
<1>1. sig \in Signals /\ nxt \in Signals
  BY DEF TypeOK, KernelTypeOK
<1>2. CopyFrame => Goal
  BY DEF CopyFrame, CopyInv
<1>3. ASSUME NEW p, DeviceSees(p)
      PROVE  loop_pc' = loop_pc
  BY <1>3 DEF DeviceSees, DeviceReceive, deviceVars
<1>4. CASE HostProcess
  <2>1. \E reply, ok : HostMain(reply, ok)
    BY <1>4 DEF HostProcess
  <2>2. loop_pc' = loop_pc
    BY <1>3, <1>4 DEF HostProcess, deviceVars
  <2> QED
    BY <1>1, <1>2, <2>1, <2>2, HostWrites DEF CopyFrame
<1>5. CASE Loopback
  <2>1. CASE LoopbackStart \/ SkipLoopback
    BY <1>1, <2>1 DEF LoopbackStart, SkipLoopback, LoopbackRuns, LoopbackWaits, Wait,
       CopyInv
  <2>2. CASE CopyToEp1
    BY <1>1, <2>2 DEF CopyToEp1, LoopbackRuns, LoopbackWaits, CopyInv
  <2>3. CASE EndLoopbackPulse
    BY <1>1, <2>3 DEF EndLoopbackPulse, LoopbackRuns, LoopbackWaits, Wait, CopyInv,
       Signals
  <2> QED
    BY <1>5, <2>1, <2>2, <2>3 DEF Loopback
<1>6. ASSUME NEW t \in Transfers, QueueTransfer(t[1], t[2]) PROVE Goal
  BY <1>2, <1>6 DEF QueueTransfer, Enqueue, EnqueueTrb, deviceVars, CopyFrame
<1>7. ASSUME NEW p \in Upstream, UpstreamCall(p) PROVE Goal
  BY <1>1, <1>2, <1>3, <1>7 DEF UpstreamCall, CopyFrame, Signals
<1>8. CASE (ControlProcess \/ Stimulate \/ Software) /\ UNCHANGED controllerVars
  BY <1>2, <1>8, ControlWrites, TypeParts DEF Outputs, CopyFrame, controllerVars,
     deviceVars
<1>9. CASE Update \/ Tick
  BY <1>9 DEF Update, Tick, DeltaCycle, AdvanceTime, UpdatePending, CopyInv,
     controllerVars, deviceVars
<1>10. CASE UNCHANGED vars
  BY <1>2, <1>10 DEF vars, kernelVars, controllerVars, deviceVars, CopyFrame
<1> QED
  BY <1>4, <1>5, <1>6, <1>7, <1>8, <1>9, <1>10, DrdSteps

\* Every copy to EP1 finds bulk_irq low and so gives a pulse of its own,
\* however fast the transfers follow one another (loopback_process).
THEOREM CopiesPulse == Spec => EachCopyPulses
<1> DEFINE Step ==
       loop_pc # "pulse" /\ loop_pc' = "pulse" => ~sig.bulk_irq /\ ~nxt.bulk_irq
<1>1. Init => CopyInv
  BY DEF Init, KernelInit, InitSignals, CopyInv
<1>2. TypeOK /\ CopyInv /\ [Next]_vars => CopyInv' /\ [Step]_vars
  BY CopyInvStep
<1> QED
  BY <1>1, <1>2, DrdTypeCorrect, PTL DEF Spec, EachCopyPulses

-----------------------------------------------------------------------------
(***************************************************************************)
(* What passes between the host and its peer.                              *)
(***************************************************************************)
\* The requests whose data stage the peer fills.
ReadRequests == {"get_device", "get_config", "get_bos"}

\* What the peer calls upstream for a SETUP is the data that was asked for, a
\* stall or nothing; to the other stages of a control transfer and to a
\* BULK_OUT it says nothing.
Replies(p, data) ==
    /\ p.type = "SETUP" =>
           \/ data \in {NoData, "stall_bytes"}
           \/ p.request \in ReadRequests /\ data = Answer[p.request]
    /\ p.type \notin {"SETUP", "BULK_IN"} => data = NoData

LEMMA PeerReplies ==
    ASSUME NEW p \in Packets, NEW outcome \in PeerOutcomes(p)
    PROVE  Replies(p, outcome.answer.data)
<1>1. Replies(p, PeerAnswer(p).data)
  <2>1. CASE p.type = "SETUP" /\ p.request \in ReadRequests
    <3>1. PeerAnswer(p) = Packet("CTRL_DATA", peer_addr, Answer[p.request])
      BY <2>1 DEF PeerAnswer, ReadRequests
    <3> QED
      BY <2>1, <3>1 DEF Packet, Replies
  <2>2. CASE p.type = "BULK_IN"
    BY <2>2 DEF Replies
  <2>3. CASE ~(p.type = "SETUP" /\ p.request \in ReadRequests) /\ p.type # "BULK_IN"
    <3>1. PeerAnswer(p) = NoPacket
      BY <2>3 DEF PeerAnswer, ReadRequests
    <3> QED
      BY <3>1, NoPacketIsPacket DEF Replies
  <2> QED
    BY <2>1, <2>2, <2>3
<1>2. ASSUME NEW a \in Refusals(p) PROVE Replies(p, a.data)
  BY <1>2 DEF Refusals, NoPacket, Packet, Replies
<1>3. \/ outcome = [answer |-> PeerAnswer(p), performs |-> TRUE]
      \/ \E a \in Refusals(p) : outcome = [answer |-> a, performs |-> FALSE]
  BY DEF PeerOutcomes
<1> QED
  BY <1>1, <1>2, <1>3

\* The packet that each run of the host thread sends.
LEMMA HostPackets ==
    ASSUME HostTypeOK
    PROVE  /\ host_pc = "disabled" => HostSends = HostSetup("get_device")
           /\ host_pc = "settle" => HostSends = HostSetup("get_config")
           /\ host_pc = "setup" => HostSends.type = "CTRL_STATUS"
           /\ host_pc = "status" /\ ~Failed /\ host_request \in DOMAIN Following =>
                  HostSends = HostSetup(Following[host_request])
           /\ InRing /\ sig.host_enable /\ m_transfer_ring # <<>> =>
                  HostSends.type = IF Head(m_transfer_ring).dir = "OUT"
                                   THEN "BULK_OUT" ELSE "BULK_IN"
           /\ \A request \in Request : /\ HostSetup(request).type = "SETUP"
                                       /\ HostSetup(request).request = request
<1>1. \A request : /\ HostSetup(request).type = "SETUP"
                   /\ HostSetup(request).request = request
  BY DEF HostSetup, SetupPacket
<1>2. host_pc = "disabled" => HostSends = HostSetup("get_device")
  BY DEF HostSends, InRing
<1>3. host_pc = "settle" => HostSends = HostSetup("get_config")
  BY DEF HostSends, InRing
<1>4. host_pc = "setup" => HostSends.type = "CTRL_STATUS"
  BY DEF HostSends, InRing, Packet
<1>5. host_pc = "status" /\ ~Failed /\ host_request \in DOMAIN Following =>
          HostSends = HostSetup(Following[host_request])
  BY DEF HostSends, InRing
<1>6. InRing /\ sig.host_enable /\ m_transfer_ring # <<>> =>
          HostSends.type = IF Head(m_transfer_ring).dir = "OUT"
                           THEN "BULK_OUT" ELSE "BULK_IN"
  BY DEF HostSends, InRing, Packet
<1> QED
  BY <1>1, <1>2, <1>3, <1>4, <1>5, <1>6

\* A run of the host thread and what the peer makes of its packet: the peer
\* refuses nothing but a SETUP, and only if it has faults of that kind.
LEMMA HostExchange ==
    ASSUME TypeOK, HostProcess
    PROVE  /\ \E reply \in Bytes, ok \in BOOLEAN :
                  HostMain(reply, ok) /\ Replies(HostSends, reply)
           /\ PeerFaults \subseteq {"error"} => PeerReceive(HostSends)
<1> USE DEF TypeOK
<1>1. CASE HostSends = NoPacket
  <2>1. HostMain(NoData, TRUE) /\ UNCHANGED peerVars
    BY <1>1 DEF HostProcess
  <2>2. Replies(HostSends, NoData)
    BY DEF Replies
  <2>3. PeerReceive(HostSends)
    <3>1. HostSends.type = "TP_ACK"
      BY <1>1, NoPacketIsPacket
    <3>2. peer_addr' = peer_addr /\ peer_configured' = peer_configured
           /\ m_loopback_buf' = m_loopback_buf
      BY <2>1 DEF peerVars
    <3>3. peer_configured \in BOOLEAN /\ ~IsSetup(HostSends, "set_address")
           /\ ~IsSetup(HostSends, "set_config")
      BY <3>1 DEF IsSetup, PeerTypeOK
    <3> QED
      BY <3>1, <3>2, <3>3 DEF PeerReceive
  <2> QED
    BY <2>1, <2>2, <2>3 DEF Bytes
<1>2. CASE HostSends # NoPacket
  <2>1. PICK outcome \in PeerOutcomes(HostSends), ok \in PeerResponses :
            LET answer == outcome.answer
            IN  /\ HostMain(IF Recipient(answer) = "HOST" THEN answer.data ELSE NoData, ok)
                /\ IF outcome.performs THEN PeerReceive(HostSends)
                                       ELSE UNCHANGED peerVars
    BY <1>2 DEF HostProcess
  <2> DEFINE answer == outcome.answer
             reply == IF Recipient(answer) = "HOST" THEN answer.data ELSE NoData
  <2>2. HostSends \in Packets
    BY HostSendsType
  <2>3. answer.data \in Bytes /\ reply \in Bytes /\ ok \in BOOLEAN
    BY <2>2, OutcomeType DEF Packets, Bytes, PeerResponses
  <2>4. Replies(HostSends, answer.data)
    BY <2>2, PeerReplies
  <2>5. Replies(HostSends, reply)
    BY <2>4 DEF Replies
  <2>6. HostMain(reply, ok)
    BY <2>1
  <2>7. PeerFaults \subseteq {"error"} => outcome.performs
    BY DEF PeerOutcomes, Refusals
  <2> HIDE DEF reply
  <2> QED
    BY <2>1, <2>3, <2>5, <2>6, <2>7
<1> QED
  BY <1>1, <1>2

-----------------------------------------------------------------------------
(***************************************************************************)
(* The response of the host (m_resp_data, m_resp_valid).                   *)
(***************************************************************************)
\* What the host may find in m_resp though it has not asked for it: the bytes
\* of a stall, and what a peer that acts as the host sends it.
Leftovers == {NoData, "stall_bytes"} \cup {p.data : p \in Upstream}

\* The answer to a read is there between its SETUP and its status stage only.
\* It passes through the buffer of the read: that of the device descriptor is
\* empty before.
ResponseInv ==
    /\ m_resp \in IF host_pc = "setup" /\ Reads THEN Leftovers \cup {Answer[host_request]}
                  ELSE Leftovers
    /\ host_pc \in {"start", "disabled"} => desc_buf = NoData
    /\ host_pc = "setup" /\ host_request = "get_device" => desc_buf = NoData
    /\ host_pc = "status" /\ host_request = "get_device" =>
           desc_buf \in Leftovers \cup {"device_descriptor"}
    /\ m_dev.ids \in {NoData, "device_descriptor"} \cup (Leftovers \cap AtLeast18Bytes)

\* The cases are the actions of the host thread.
LEMMA HostMainResponse ==
    ASSUME TypeOK, ResponseInv, NEW reply \in Bytes, NEW ok \in BOOLEAN,
           HostMain(reply, ok), Replies(HostSends, reply)
    PROVE  ResponseInv'
<1>1. HostTypeOK
  BY DEF TypeOK
<1>2. ASSUME HostStart PROVE ResponseInv'
  BY <1>2 DEF HostStart, HostRuns, HostWaits, ResponseInv
<1>3. ASSUME BeginEnumeration(reply) PROVE ResponseInv'
  <2>1. reply \in {NoData, "stall_bytes", Answer["get_device"]}
    BY <1>1, <1>3, HostPackets DEF BeginEnumeration, HostRuns, Replies, Request
  <2>2. m_resp' \in Leftovers \cup {Answer["get_device"]}
    BY <1>3, <2>1 DEF BeginEnumeration, SendSetup, HostRuns, Received, ResponseInv,
       Leftovers
  <2>3. desc_buf' = NoData /\ m_dev'.ids = NoData
    BY <1>3 DEF BeginEnumeration, HostRuns, ResponseInv, NoDevice
  <2> QED
    BY <1>3, <2>2, <2>3 DEF BeginEnumeration, SendSetup, HostWaits, ResponseInv, Reads
<1>4. ASSUME SendStatus(reply, ok) PROVE ResponseInv'
  <2>1. reply = NoData
    BY <1>1, <1>4, HostPackets DEF SendStatus, HostRuns, Replies
  <2>2. m_resp' \in Leftovers
    BY <1>4, <2>1 DEF SendStatus, HostRuns, Received, ResponseInv, Leftovers
  <2>3. host_request = "get_device" => desc_buf' \in Leftovers \cup {"device_descriptor"}
    BY <1>4 DEF SendStatus, HostRuns, ResponseInv, Reads, Leftovers, Answer
  <2> QED
    BY <1>4, <2>2, <2>3 DEF SendStatus, HostWaits, ResponseInv
<1>5. ASSUME ContinueEnumeration(reply) PROVE ResponseInv'
  <2> DEFINE next == Following[host_request]
  <2>1. host_request \in {"get_device", "get_config", "get_bos"}
    BY <1>5 DEF ContinueEnumeration, Following
  <2>2. next \in Request /\ next # "get_device"
    BY <2>1 DEF Following, Request
  <2>3. /\ host_pc = "status"
        /\ host_pc' = "setup" /\ host_request' = next
        /\ m_resp' = Received(m_resp, reply)
    BY <1>5 DEF ContinueEnumeration, SendSetup, HostRuns, HostWaits
  <2>4. HostSends.type = "SETUP" /\ HostSends.request = next
    BY <1>1, <1>5, <2>2, HostPackets DEF ContinueEnumeration, HostRuns
  <2> HIDE DEF next
  <2>5. \/ reply \in {NoData, "stall_bytes"}
        \/ next \in ReadRequests /\ reply = Answer[next]
    BY <2>4 DEF Replies
  <2>6. m_resp \in Leftovers
    BY <2>3 DEF ResponseInv
  <2>7. m_resp' \in IF Reads' THEN Leftovers \cup {Answer[next]} ELSE Leftovers
    BY <2>3, <2>5, <2>6 DEF Received, Leftovers, Reads, ReadRequests
  <2>8. m_dev'.ids \in {NoData, "device_descriptor"} \cup (Leftovers \cap AtLeast18Bytes)
    <3>1. CASE host_request = "get_device" /\ desc_buf \in AtLeast18Bytes
      <4>1. m_dev'.ids = desc_buf
        BY <1>1, <1>5, <3>1 DEF ContinueEnumeration, HostTypeOK
      <4> QED
        BY <2>3, <3>1, <4>1 DEF ResponseInv
    <3>2. CASE ~(host_request = "get_device" /\ desc_buf \in AtLeast18Bytes)
      BY <1>5, <3>2 DEF ContinueEnumeration, ResponseInv
    <3> QED
      BY <3>1, <3>2
  <2> QED
    BY <2>2, <2>3, <2>7, <2>8 DEF ResponseInv
<1>6. ASSUME SettleAddress PROVE ResponseInv'
  <2>1. m_dev'.ids = m_dev.ids
    BY <1>1, <1>6 DEF SettleAddress, HostTypeOK
  <2> QED
    BY <1>6, <2>1 DEF SettleAddress, HostRuns, HostWaits, ResponseInv
<1>7. ASSUME ReadConfiguration(reply) PROVE ResponseInv'
  <2>1. reply \in {NoData, "stall_bytes", Answer["get_config"]}
    BY <1>1, <1>7, HostPackets DEF ReadConfiguration, HostRuns, Replies, Request
  <2>2. m_resp' \in Leftovers \cup {Answer["get_config"]}
    BY <1>7, <2>1 DEF ReadConfiguration, SendSetup, HostRuns, Received, ResponseInv,
       Leftovers
  <2> QED
    BY <1>7, <2>2 DEF ReadConfiguration, SendSetup, HostWaits, ResponseInv, Reads
<1>8. ASSUME FinishEnumeration PROVE ResponseInv'
  <2>1. m_dev'.ids = m_dev.ids
    BY <1>1, <1>8 DEF FinishEnumeration, HostTypeOK
  <2> QED
    BY <1>8, <2>1 DEF FinishEnumeration, HostRuns, HostWaits, LocalsEnd, ResponseInv
<1>9. ASSUME LeaveRing \/ AwaitTrb PROVE ResponseInv'
  BY <1>9 DEF LeaveRing, AwaitTrb, InRing, HostWaits, LocalsEnd, ResponseInv
<1>10. ASSUME RunTrb(reply) PROVE ResponseInv'
  <2>1. m_resp \in Leftovers
    BY <1>10 DEF RunTrb, InRing, ResponseInv
  <2>2. Head(m_transfer_ring).dir = "IN" \/ reply = NoData
    <3>1. Head(m_transfer_ring) \in Trb
      BY <1>1, <1>10 DEF RunTrb, HostTypeOK
    <3>2. Head(m_transfer_ring).dir \in Direction
      BY <3>1 DEF Trb
    <3> QED
      BY <1>1, <1>10, <3>2, HostPackets DEF RunTrb, Replies, Direction
  <2>3. m_resp' \in Leftovers
    BY <1>10, <2>1, <2>2 DEF RunTrb, Received, Leftovers
  <2> QED
    BY <1>10, <2>3 DEF RunTrb, HostWaits, LocalsEnd, ResponseInv
<1> QED
  BY <1>2, <1>3, <1>4, <1>5, <1>6, <1>7, <1>8, <1>9, <1>10 DEF HostMain

LEMMA ResponseInvStep ==
    ASSUME TypeOK, ResponseInv, [Next]_vars
    PROVE  ResponseInv'
<1>1. UNCHANGED hostVars => ResponseInv'
  BY DEF hostVars, ResponseInv, Reads
<1>2. CASE HostProcess
  BY <1>2, HostExchange, HostMainResponse
<1>3. ASSUME NEW p \in Upstream, UpstreamCall(p) PROVE ResponseInv'
  <2>1. CASE HostReceive(p)
    <3>1. m_resp' \in {m_resp, p.data} /\ p.data \in Leftovers
      BY <2>1 DEF HostReceive, Received, Leftovers
    <3> QED
      BY <2>1, <3>1 DEF HostReceive, ResponseInv, Reads
  <2> QED
    BY <1>1, <1>3, <2>1 DEF UpstreamCall
<1>4. ASSUME NEW t \in Transfers, QueueTransfer(t[1], t[2]) PROVE ResponseInv'
  BY <1>4 DEF QueueTransfer, Enqueue, EnqueueTrb, ResponseInv, Reads
<1> QED
  BY <1>1, <1>2, <1>3, <1>4, DrdSteps DEF controllerVars, Update, Tick, vars

LEMMA ResponseInvariant == Spec => []ResponseInv
<1>1. Init => ResponseInv
  BY DEF Init, HostInit, NoDevice, ResponseInv, Leftovers
<1>2. TypeOK /\ ResponseInv /\ [Next]_vars => ResponseInv'
  BY ResponseInvStep
<1> QED
  BY <1>1, <1>2, DrdTypeCorrect, PTL DEF Spec

\* Whatever faults the peer has, the host knows a device by its own descriptor
\* or not at all, as long as nobody sends it upstream what looks like another
\* one (enumerate_device, from_protocol_b_transport).
THEOREM HostKnowsByDescriptor ==
    ASSUME \A p \in Upstream : p.data \notin AtLeast18Bytes \ {"device_descriptor"}
    PROVE  Spec => []KnownByDescriptor
<1>1. ResponseInv => KnownByDescriptor
  BY PayloadAssumption DEF ResponseInv, KnownByDescriptor, Leftovers, AtLeast18Bytes,
     ControlData, NoData
<1> QED
  BY <1>1, ResponseInvariant, PTL

\* No response to one request is left for the next, as long as nobody sends the
\* host data upstream (ctrl_transfer, process_transfer_ring).
THEOREM HostTakesResponse ==
    ASSUME \A p \in Upstream : p.data \in {NoData, "stall_bytes"}
    PROVE  Spec => []ResponseTaken
<1>1. ResponseInv => ResponseTaken
  BY DEF ResponseInv, ResponseTaken, Leftovers
<1> QED
  BY <1>1, ResponseInvariant, PTL

-----------------------------------------------------------------------------
(***************************************************************************)
(* The address of the device, which the host, the peer and DEV_ADDR keep   *)
(* each for themselves.                                                    *)
(***************************************************************************)
\* The host is in one of these control transfers.
InControl(requests) == host_pc \in {"setup", "status"} /\ host_request \in requests

\* The address has been given: from the end of SET_ADDRESS to the next
\* enumeration, but for an enumeration that was given up.
Addressed ==
    \/ host_pc = "settle"
    \/ InControl({"get_config", "get_bos", "set_config"})
    \/ m_dev.enumerated

PeerInv ==
    /\ m_dev.enumerated => host_pc \in {"enum_pulse", "idle", "xfer_pulse", "disabled"}
    /\ InControl({"set_address"}) => peer_addr = NewAddr % AddrRange
    /\ Addressed => peer_addr = m_dev.addr % AddrRange /\ nxt.dev_addr = m_dev.addr
    /\ InControl({"set_config"}) \/ m_dev.enumerated => peer_configured

\* new_addr is what m_next_addr was before it was incremented, the wrap of the
\* counter included.
LEMMA NewAddrIsOld ==
    ASSUME m_next_addr \in 0 .. AddrModulus - 1, m_next_addr' = NextAddr
    PROVE  NewAddr' = m_next_addr
<1> DEFINE n == m_next_addr
           M == AddrModulus
<1>1. M \in Nat \ {0, 1} /\ n \in 0 .. M - 1
  BY HostSizesAssumption
<1>2. NewAddr' = (((n + 1) % M) + M - 1) % M
  BY DEF NewAddr, NextAddr
<1> HIDE DEF n, M
<1>3. CASE n = M - 1
  <2>1. (n + 1) % M = 0
    BY <1>1, <1>3
  <2>2. (M - 1) % M = M - 1
    BY <1>1
  <2> QED
    BY <1>1, <1>2, <1>3, <2>1, <2>2 DEF n
<1>4. CASE n # M - 1
  <2>1. (n + 1) % M = n + 1
    BY <1>1, <1>4
  <2>2. (n + M) % M = n
    BY <1>1, <1>4
  <2>3. ((n + 1) + M - 1) = n + M
    BY <1>1
  <2> QED
    BY <1>1, <1>2, <2>1, <2>2, <2>3 DEF n
<1> QED
  BY <1>3, <1>4

\* Nobody but the host gives the peer an address or a configuration.
LEMMA DeviceDoesNotConfigure ==
    ASSUME TypeOK, NEW p \in Packets, PeerReceive(DeviceReply(p))
    PROVE  peer_addr' = peer_addr /\ peer_configured' = peer_configured
<1>1. DeviceReply(p).type # "SETUP"
  BY DeviceReplyType DEF TypeOK
<1> QED
  BY <1>1 DEF PeerReceive, IsSetup, TypeOK, PeerTypeOK

\* The cases are the actions of the host thread.
LEMMA HostMainPeer ==
    ASSUME TypeOK, PeerInv, NEW reply, NEW ok, HostMain(reply, ok),
           PeerReceive(HostSends)
    PROVE  PeerInv'
<1>1. HostTypeOK /\ peer_configured \in BOOLEAN /\ nxt \in Signals
  BY DEF TypeOK, PeerTypeOK, KernelTypeOK
<1> DEFINE Same == peer_addr' = peer_addr /\ peer_configured' = peer_configured
<1>2. ASSUME ~IsSetup(HostSends, "set_address"), ~IsSetup(HostSends, "set_config")
      PROVE  Same
  BY <1>1, <1>2 DEF PeerReceive
<1>3. HostSends.type # "SETUP" => Same
  BY <1>2 DEF IsSetup
<1>4. ASSUME HostStart PROVE PeerInv'
  <2>1. HostSends = NoPacket
    BY <1>4 DEF HostStart, HostRuns, HostSends, InRing
  <2>2. Same
    BY <1>3, <2>1, NoPacketIsPacket
  <2> QED
    BY <1>4, <2>2 DEF HostStart, HostRuns, HostWaits, PeerInv, InControl, Addressed
<1>5. ASSUME BeginEnumeration(reply) PROVE PeerInv'
  BY <1>5 DEF BeginEnumeration, SendSetup, HostWaits, NoDevice, PeerInv, InControl,
     Addressed
<1>6. ASSUME SendStatus(reply, ok) PROVE PeerInv'
  <2>1. Same
    BY <1>1, <1>3, <1>6, HostPackets DEF SendStatus, HostRuns
  <2> QED
    BY <1>6, <2>1 DEF SendStatus, HostRuns, HostWaits, PeerInv, InControl, Addressed,
       NewAddr
<1>7. ASSUME ContinueEnumeration(reply) PROVE PeerInv'
  <2> DEFINE next == Following[host_request]
  <2>1. host_request \in {"get_device", "get_config", "get_bos"}
    BY <1>7 DEF ContinueEnumeration, Following
  <2>2. next \in Request
    BY <2>1 DEF Following, Request
  <2>3. /\ host_pc = "status" /\ host_pc' = "setup" /\ host_request' = next
        /\ UNCHANGED nxt
    BY <1>7 DEF ContinueEnumeration, SendSetup, HostRuns, HostWaits
  <2>4. /\ HostSends = HostSetup(next)
        /\ HostSends.type = "SETUP" /\ HostSends.request = next
    BY <1>1, <1>7, <2>2, HostPackets DEF ContinueEnumeration, HostRuns
  <2>5. m_dev'.addr = m_dev.addr /\ m_dev'.enumerated = m_dev.enumerated
    BY <1>1, <1>7 DEF ContinueEnumeration, HostTypeOK
  <2>6. m_dev.enumerated = FALSE
    BY <1>1, <2>3 DEF PeerInv, HostTypeOK
  <2>7. CASE host_request = "get_device"
    <3>1. next = "set_address"
      BY <2>7 DEF Following
    <3>2. HostSends.value = m_next_addr
      BY <2>4, <3>1 DEF HostSetup, SetupPacket
    <3>3. peer_addr' = m_next_addr % AddrRange
      BY <2>4, <3>1, <3>2 DEF PeerReceive, IsSetup
    <3>4. NewAddr' = m_next_addr
      BY <1>1, <1>7, <2>7, NewAddrIsOld DEF ContinueEnumeration, HostTypeOK
    <3>5. ~Addressed' /\ ~InControl({"set_config"})'
      BY <2>3, <2>5, <2>6, <3>1 DEF Addressed, InControl
    <3> QED
      BY <2>5, <2>6, <3>3, <3>4, <3>5 DEF PeerInv
  <2>8. CASE host_request # "get_device"
    <3>1. next \in {"get_bos", "set_config"}
      BY <2>1, <2>8 DEF Following
    <3>2. peer_addr' = peer_addr
      BY <2>4, <3>1 DEF PeerReceive, IsSetup
    <3>3. next = "set_config" => peer_configured'
      BY <2>4 DEF PeerReceive, IsSetup
    <3>4. peer_addr' = m_dev'.addr % AddrRange /\ nxt'.dev_addr = m_dev'.addr
      BY <2>1, <2>3, <2>5, <2>8, <3>2 DEF PeerInv, Addressed, InControl
    <3> HIDE DEF next
    <3>5. ~InControl({"set_address"})'
      BY <2>3, <3>1 DEF InControl
    <3>6. InControl({"set_config"})' => peer_configured'
      BY <2>3, <3>3 DEF InControl
    <3> QED
      BY <2>5, <2>6, <3>4, <3>5, <3>6 DEF PeerInv
  <2> QED
    BY <2>7, <2>8
<1>8. ASSUME SettleAddress PROVE PeerInv'
  <2>1. host_pc = "status" /\ host_request = "set_address" /\ ~Failed
    BY <1>8 DEF SettleAddress, HostRuns
  <2>2. HostSends = NoPacket
    BY <2>1 DEF HostSends, InRing, Following
  <2>3. Same
    BY <1>3, <2>2, NoPacketIsPacket
  <2>4. m_dev'.addr = NewAddr /\ m_dev'.enumerated = m_dev.enumerated
         /\ nxt'.dev_addr = NewAddr
    BY <1>1, <1>8 DEF SettleAddress, HostTypeOK, Signals
  <2>5. peer_addr = NewAddr % AddrRange /\ ~m_dev.enumerated
    BY <2>1 DEF PeerInv, InControl
  <2> QED
    BY <1>8, <2>3, <2>4, <2>5 DEF SettleAddress, HostWaits, PeerInv, InControl
<1>9. ASSUME ReadConfiguration(reply) PROVE PeerInv'
  <2>1. HostSends.request = "get_config"
    BY <1>1, <1>9, HostPackets DEF ReadConfiguration, HostRuns, Request
  <2>2. Same
    BY <1>2, <2>1 DEF IsSetup
  <2> QED
    BY <1>9, <2>2 DEF ReadConfiguration, SendSetup, HostRuns, HostWaits, PeerInv,
       InControl, Addressed
<1>10. ASSUME FinishEnumeration PROVE PeerInv'
  <2>1. host_pc = "status" /\ host_request = "set_config" /\ ~Failed
    BY <1>10 DEF FinishEnumeration, HostRuns
  <2>2. HostSends = NoPacket
    BY <2>1 DEF HostSends, InRing, Following
  <2>3. Same
    BY <1>3, <2>2, NoPacketIsPacket
  <2>4. m_dev'.addr = m_dev.addr /\ nxt'.dev_addr = nxt.dev_addr
    BY <1>1, <1>10 DEF FinishEnumeration, HostTypeOK, Signals
  <2> QED
    BY <1>10, <2>1, <2>3, <2>4 DEF FinishEnumeration, HostWaits, PeerInv, InControl,
       Addressed
<1>11. ASSUME LeaveRing \/ AwaitTrb \/ RunTrb(reply) PROVE PeerInv'
  <2>1. InRing
    BY <1>11 DEF LeaveRing, AwaitTrb, RunTrb
  <2>2. HostSends.type # "SETUP"
    <3>1. CASE sig.host_enable /\ m_transfer_ring # <<>>
      BY <1>1, <2>1, <3>1, HostPackets
    <3>2. CASE ~(sig.host_enable /\ m_transfer_ring # <<>>)
      <4>1. HostSends = NoPacket
        BY <2>1, <3>2 DEF HostSends, InRing
      <4> QED
        BY <4>1, NoPacketIsPacket
    <3> QED
      BY <3>1, <3>2
  <2>3. Same
    BY <1>3, <2>2
  <2>4. m_dev' = m_dev /\ nxt'.dev_addr = nxt.dev_addr
    BY <1>1, <1>11 DEF LeaveRing, AwaitTrb, RunTrb, PulsesEnded, Signals
  <2>5. host_pc' \in {"disabled", "idle", "xfer_pulse"}
    BY <1>11 DEF LeaveRing, AwaitTrb, RunTrb, HostWaits
  <2> QED
    BY <2>3, <2>4, <2>5 DEF PeerInv, InControl, Addressed
<1> QED
  BY <1>4, <1>5, <1>6, <1>7, <1>8, <1>9, <1>10, <1>11 DEF HostMain

LEMMA PeerInvStep ==
    ASSUME PeerFaults \subseteq {"error"}, TypeOK, PeerInv, [Next]_vars
    PROVE  PeerInv'
<1> DEFINE Frame == /\ peer_addr' = peer_addr /\ peer_configured' = peer_configured
                    /\ nxt'.dev_addr = nxt.dev_addr
                    /\ UNCHANGED <<m_dev, m_next_addr, host_pc, host_request>>
<1>1. Frame => PeerInv'
  BY DEF PeerInv, InControl, Addressed, NewAddr
<1>2. nxt \in Signals
  BY DEF TypeOK, KernelTypeOK
<1>3. CASE HostProcess
  BY <1>3, HostExchange, HostMainPeer
<1>4. CASE /\ Loopback
           /\ UNCHANGED <<roleManagerVars, drdControllerVars, hostVars, peerVars,
                          historyVars, ghosts>>
  <2>1. nxt'.dev_addr = nxt.dev_addr
    BY <1>2, <1>4 DEF Loopback, LoopbackStart, SkipLoopback, CopyToEp1,
       EndLoopbackPulse, Signals
  <2> QED
    BY <1>1, <1>4, <2>1 DEF hostVars, peerVars
<1>5. ASSUME NEW t \in Transfers, QueueTransfer(t[1], t[2]) PROVE PeerInv'
  BY <1>1, <1>5 DEF QueueTransfer, Enqueue, EnqueueTrb, peerVars
<1>6. ASSUME NEW p \in Upstream, UpstreamCall(p) PROVE PeerInv'
  <2>1. p \in Packets
    BY TrafficAssumption
  <2>2. peer_addr' = peer_addr /\ peer_configured' = peer_configured
    BY <1>6, <2>1, DeviceDoesNotConfigure DEF UpstreamCall
  <2>3. nxt'.dev_addr = nxt.dev_addr
    BY <1>2, <1>6 DEF UpstreamCall, Signals
  <2> QED
    BY <1>1, <1>6, <2>2, <2>3 DEF UpstreamCall, HostReceive, hostVars
<1>7. CASE (ControlProcess \/ Stimulate \/ Software) /\ UNCHANGED controllerVars
  BY <1>1, <1>7, ControlWrites, TypeParts DEF Outputs, controllerVars, hostVars,
     peerVars
<1>8. CASE Update \/ Tick \/ UNCHANGED vars
  BY <1>1, <1>8 DEF Update, Tick, DeltaCycle, AdvanceTime, vars, kernelVars,
     controllerVars, hostVars, peerVars
<1> QED
  BY <1>3, <1>4, <1>5, <1>6, <1>7, <1>8, DrdSteps

\* Host, peer and DEV_ADDR agree on the address of an enumerated device, as far
\* as a device keeps it, and it is configured, whatever enumerations have failed
\* before it and however often the counter has wrapped, as long as the peer
\* performs what it is asked (enumerate_device, ctrl_transfer).  Of the status of
\* a response it may say what it likes.
THEOREM EnumerationAgrees ==
    ASSUME PeerFaults \subseteq {"error"}
    PROVE  Spec => []EnumeratedPeer
<1>1. Init => PeerInv
  BY DEF Init, HostInit, NoDevice, PeerInv, InControl, Addressed
<1>2. TypeOK /\ PeerInv /\ [Next]_vars => PeerInv'
  BY PeerInvStep
<1>3. TypeOK /\ PeerInv => EnumeratedPeer
  <2> SUFFICES ASSUME TypeOK, PeerInv, m_dev.enumerated
               PROVE  /\ peer_configured
                      /\ peer_addr = m_dev.addr % AddrRange
                      /\ ~UpdatePending => ReadRegister("DEV_ADDR") = m_dev.addr
    BY DEF EnumeratedPeer
  <2>1. /\ peer_configured
        /\ peer_addr = m_dev.addr % AddrRange /\ nxt.dev_addr = m_dev.addr
    BY DEF PeerInv, Addressed
  <2>2. ReadRegister("DEV_ADDR") = sig.dev_addr
    BY DEF ReadRegister
  <2> QED
    BY <2>1, <2>2 DEF UpdatePending
<1> QED
  BY <1>1, <1>2, <1>3, DrdTypeCorrect, PTL DEF Spec

-----------------------------------------------------------------------------
(***************************************************************************)
(* A DRD that is never host.                                               *)
(***************************************************************************)
\* Nothing that the testbench does calls for the role of a host.
NoHostStimulus ==
    /\ \A input \in Inputs : Detected(input[1], input[2]) # "HOST"
    /\ "HOST" \notin Requests

\* So the role is never that of a host, nor is any value on the way to it.
NeverHostRole ==
    /\ Detected(sig.cc, sig.vbus) # "HOST" /\ Detected(nxt.cc, nxt.vbus) # "HOST"
    /\ Detected(sig.cc_int, sig.vbus_int) # "HOST"
    /\ Detected(nxt.cc_int, nxt.vbus_int) # "HOST"
    /\ m_host_requested = FALSE
    /\ m_role # "HOST" /\ sig.role # "HOST" /\ nxt.role # "HOST" /\ sw_role # "HOST"
    /\ sig.host_enable = FALSE /\ nxt.host_enable = FALSE

\* And the host thread never gets past its wait for enable.
HostAsleep ==
    /\ host_pc \in {"start", "disabled"}
    /\ host_pc = "disabled" => "host_main_process" \notin ready
    /\ timer["host_main_process"] = 0

\* The cases are the actions of the managers and the stimuli.
LEMMA ControlNeverHost ==
    ASSUME NoHostStimulus, ControlTypeOK, NeverHostRole,
           ControlProcess \/ Stimulate \/ Software
    PROVE  NeverHostRole'
<1> DEFINE Kept == UNCHANGED <<sig, m_host_requested, m_role, sw_role>>
           SameInputs == /\ nxt'.cc = nxt.cc /\ nxt'.vbus = nxt.vbus
                         /\ nxt'.cc_int = nxt.cc_int /\ nxt'.vbus_int = nxt.vbus_int
           SameSignals == /\ SameInputs
                          /\ nxt'.role = nxt.role /\ nxt'.host_enable = nxt.host_enable
<1>1. nxt \in Signals /\ sig \in Signals
  BY DEF ControlTypeOK, KernelTypeOK
<1>2. Kept /\ SameSignals => NeverHostRole'
  BY DEF NeverHostRole
<1>3. Selected # "HOST"
  BY DEF Selected, NeverHostRole
<1>4. CASE RoleDetection /\ UNCHANGED drdControllerVars
  <2>1. /\ sig' = sig /\ sw_role' = sw_role /\ m_host_requested' = FALSE
        /\ m_role' # "HOST" /\ nxt'.role # "HOST"
        /\ SameInputs /\ nxt'.host_enable = nxt.host_enable
    <3>1. CASE RoleDetectionStart
      BY <1>1, <1>4, <3>1 DEF RoleDetectionStart, drdControllerVars, Signals,
         NeverHostRole
    <3>2. CASE DetectRole
      BY <1>1, <1>3, <1>4, <3>2 DEF DetectRole, ApplyRole, KeepRole, drdControllerVars,
         Signals, NeverHostRole
    <3>3. CASE EndRolePulse
      BY <1>1, <1>4, <3>3 DEF EndRolePulse, drdControllerVars, Signals, NeverHostRole
    <3> QED
      BY <1>4, <3>1, <3>2, <3>3 DEF RoleDetection
  <2> QED
    BY <2>1 DEF NeverHostRole
<1>5. CASE ForwardInputs
  <2>1. /\ Kept
        /\ nxt'.cc_int = sig.cc /\ nxt'.vbus_int = sig.vbus
        /\ nxt'.cc = nxt.cc /\ nxt'.vbus = nxt.vbus
        /\ nxt'.role = nxt.role /\ nxt'.host_enable = nxt.host_enable
    BY <1>1, <1>5 DEF ForwardInputs, Signals, roleManagerVars, drdControllerVars
  <2> QED
    BY <2>1 DEF NeverHostRole
<1>6. CASE RoleSwitch
  <2>1. /\ UNCHANGED <<sig, m_host_requested, m_role>>
        /\ sw_role' # "HOST"
        /\ SameInputs /\ nxt'.role = nxt.role /\ nxt'.host_enable = FALSE
    <3>1. CASE RoleSwitchStart \/ DisableControllers
      BY <1>1, <3>1 DEF RoleSwitchStart, DisableControllers, ControllersOff, Signals,
         roleManagerVars, NeverHostRole
    <3>2. CASE EnableController
      BY <1>1, <3>2 DEF EnableController, RaiseIrq, Signals, roleManagerVars,
         NeverHostRole
    <3> QED
      BY <1>6, <3>1, <3>2 DEF RoleSwitch
  <2> QED
    BY <2>1 DEF NeverHostRole
<1>7. CASE InterruptCollector
  <2>1. Kept /\ SameSignals
    BY <1>1, <1>7 DEF InterruptCollector, RaiseIrq, Signals, roleManagerVars
  <2> QED
    BY <1>2, <2>1
<1>8. ASSUME NEW input \in Inputs, SetInputs(input[1], input[2])
      PROVE  NeverHostRole'
  <2>1. /\ Kept
        /\ nxt'.cc = input[1] /\ nxt'.vbus = input[2]
        /\ nxt'.cc_int = nxt.cc_int /\ nxt'.vbus_int = nxt.vbus_int
        /\ nxt'.role = nxt.role /\ nxt'.host_enable = nxt.host_enable
    BY <1>1, <1>8 DEF SetInputs, DriveInputs, Signals, roleManagerVars,
       drdControllerVars
  <2>2. Detected(nxt'.cc, nxt'.vbus) # "HOST"
    BY <2>1 DEF NoHostStimulus
  <2> QED
    BY <2>1, <2>2 DEF NeverHostRole
<1>9. ASSUME NEW r \in Requests, ForceRole(r) PROVE NeverHostRole'
  <2>1. r # "HOST"
    BY DEF NoHostStimulus
  <2>2. /\ UNCHANGED <<sig, nxt, m_role, sw_role>>
        /\ m_host_requested' = (m_host_requested \/ r = "HOST")
    BY <1>9 DEF ForceRole, AskForRole, WriteRoleCtrl, RequestRole, drdControllerVars
  <2>3. m_host_requested' = FALSE
    BY <2>1, <2>2 DEF NeverHostRole
  <2> QED
    BY <2>2, <2>3 DEF NeverHostRole
<1>10. CASE Software
  <2>1. Kept /\ SameSignals
    BY <1>1, <1>10 DEF Software, ClearInterrupts, WriteIntrStatus, MaskInterrupts,
       WriteIntrEnable, Signals, roleManagerVars
  <2> QED
    BY <1>2, <2>1
<1> QED
  BY <1>4, <1>5, <1>6, <1>7, <1>8, <1>9, <1>10 DEF ControlProcess, Stimulate

\* All that the host thread ever does.
LEMMA HostOnlyStarts ==
    ASSUME TypeOK, HostAsleep, HostProcess
    PROVE  HostStart /\ UNCHANGED <<deviceVars, peerVars, historyVars, notified>>
<1>1. "host_main_process" \in ready
  BY DEF HostProcess, HostMain, HostStart, BeginEnumeration, SendStatus,
         ContinueEnumeration, SettleAddress, ReadConfiguration, FinishEnumeration,
         LeaveRing, AwaitTrb, RunTrb, HostRuns
<1>2. host_pc = "start"
  BY <1>1 DEF HostAsleep
<1>3. HostSends = NoPacket
  BY <1>2 DEF HostSends, InRing
<1>4. HostMain(NoData, TRUE) /\ UNCHANGED <<deviceVars, peerVars, historyVars, notified>>
  BY <1>3 DEF HostProcess
<1>5. HostStart
  BY <1>2, <1>4 DEF HostMain, BeginEnumeration, SendStatus, ContinueEnumeration,
     SettleAddress, ReadConfiguration, FinishEnumeration, LeaveRing, AwaitTrb, RunTrb,
     HostRuns, InRing
<1> QED
  BY <1>4, <1>5

LEMMA NeverHostStep ==
    ASSUME NoHostStimulus, TypeOK, NeverHostRole, HostAsleep, [Next]_vars
    PROVE  NeverHostRole' /\ HostAsleep'
<1> DEFINE Goal == NeverHostRole' /\ HostAsleep'
           Same == /\ UNCHANGED <<sig, m_host_requested, m_role, sw_role>>
                   /\ \A s \in {"cc", "vbus", "cc_int", "vbus_int", "role", "host_enable"} :
                          nxt'[s] = nxt[s]
           Asleep == /\ host_pc' = host_pc /\ timer'["host_main_process"] = 0
                     /\ ready' \subseteq ready
<1>1. nxt \in Signals /\ timer \in [Thread -> Nat] /\ ControlTypeOK
  BY TypeParts DEF TypeOK, KernelTypeOK
<1>2. Same => NeverHostRole'
  BY DEF NeverHostRole
<1>3. Asleep => HostAsleep'
  BY DEF HostAsleep
<1>4. {"host_main_process", "loopback_process"} \subseteq Process
       /\ Process \subseteq Thread /\ PeerHost \notin Process
  BY DEF Process, Thread, PeerHost
<1>5. ASSUME HostProcess, UNCHANGED <<roleManagerVars, drdControllerVars, ghosts>>
      PROVE  Goal
  <2>1. HostStart
    BY <1>5, HostOnlyStarts
  <2>2. Same
    BY <1>1, <1>5, <2>1 DEF HostStart, Signals, roleManagerVars, drdControllerVars
  <2>3. HostAsleep'
    BY <1>1, <1>4, <2>1 DEF HostStart, HostWaits, Wait, HostAsleep
  <2> QED
    BY <1>2, <2>2, <2>3
<1>6. ASSUME Loopback, UNCHANGED <<roleManagerVars, drdControllerVars, hostVars>>
      PROVE  Goal
  <2>1. Same
    BY <1>1, <1>6 DEF Loopback, LoopbackStart, SkipLoopback, CopyToEp1,
       EndLoopbackPulse, Signals, roleManagerVars, drdControllerVars
  <2>2. \E d \in Nat : Wait("loopback_process", d)
    BY <1>6, BulkPulseAssumption DEF Loopback, LoopbackStart, SkipLoopback, CopyToEp1,
       EndLoopbackPulse, LoopbackWaits
  <2>3. Asleep
    BY <1>1, <1>4, <1>6, <2>2 DEF Wait, hostVars, HostAsleep
  <2> QED
    BY <1>2, <1>3, <2>1, <2>3
<1>7. ASSUME NEW t \in Transfers, QueueTransfer(t[1], t[2]) PROVE Goal
  <2>1. Same /\ Asleep
    BY <1>7 DEF QueueTransfer, Enqueue, EnqueueTrb, roleManagerVars, drdControllerVars,
       HostAsleep
  <2> QED
    BY <1>2, <1>3, <2>1
<1>8. ASSUME NEW p \in Upstream, UpstreamCall(p) PROVE Goal
  <2>1. Same
    BY <1>1, <1>8 DEF UpstreamCall, Signals, roleManagerVars, drdControllerVars
  <2>2. Asleep
    BY <1>1, <1>4, <1>8 DEF UpstreamCall, HostReceive, hostVars, HostAsleep
  <2> QED
    BY <1>2, <1>3, <2>1, <2>2
<1>9. CASE (ControlProcess \/ Stimulate \/ Software) /\ UNCHANGED controllerVars
  <2>1. Asleep
    BY <1>1, <1>9, ControlWrites DEF controllerVars, hostVars, HostAsleep
  <2> QED
    BY <1>1, <1>3, <1>9, <2>1, ControlNeverHost
<1>10. CASE Update
  <2>1. /\ sig' = nxt /\ nxt' = nxt /\ timer' = timer /\ ready' = Woken
        /\ UNCHANGED <<m_host_requested, m_role, sw_role, host_pc>>
    BY <1>10 DEF Update, DeltaCycle, roleManagerVars, drdControllerVars, controllerVars,
       hostVars
  <2>2. "host_main_process" \notin Woken
    BY DEF Woken, HostMainWoken, HostAsleep, NeverHostRole
  <2> QED
    BY <2>1, <2>2 DEF NeverHostRole, HostAsleep
<1>11. CASE Tick
  <2>1. /\ Same /\ host_pc' = host_pc
        /\ timer'["host_main_process"] = 0 /\ "host_main_process" \notin ready'
    BY <1>1, <1>4, <1>11 DEF Tick, AdvanceTime, roleManagerVars, drdControllerVars,
       controllerVars, hostVars, HostAsleep
  <2> QED
    BY <1>2, <2>1 DEF HostAsleep
<1>12. CASE UNCHANGED vars
  <2>1. Same /\ Asleep
    BY <1>12 DEF vars, kernelVars, roleManagerVars, drdControllerVars, controllerVars,
       hostVars, HostAsleep
  <2> QED
    BY <1>2, <1>3, <2>1
<1> QED
  BY <1>5, <1>6, <1>7, <1>8, <1>9, <1>10, <1>11, <1>12, DrdSteps

LEMMA NeverHost ==
    ASSUME NoHostStimulus
    PROVE  Spec => [](NeverHostRole /\ HostAsleep)
<1>1. Init => NeverHostRole /\ HostAsleep
  BY DEF Init, KernelInit, InitSignals, RoleManagerInit, DrdControllerInit, HostInit,
         NeverHostRole, HostAsleep, Detected, Thread, Process
<1>2. TypeOK /\ NeverHostRole /\ HostAsleep /\ [Next]_vars
          => (NeverHostRole /\ HostAsleep)'
  BY NeverHostStep
<1> QED
  BY <1>1, <1>2, DrdTypeCorrect, PTL DEF Spec

-----------------------------------------------------------------------------
(***************************************************************************)
(* The data between EP2 and EP1.                                           *)
(***************************************************************************)
\* The data of a bulk transfer tell it from a control transfer.
ControlDataApart == \A p \in Upstream : p.type = "CTRL_DATA" => p.data \notin Payload

\* What can happen to the data: they arrive in EP2, are overwritten by those of a
\* control transfer, are moved to EP1, or are fetched from there.
Arrive(d) ==
    /\ sent' = Append(sent, d) /\ m_ep2_out' = d
    /\ UNCHANGED <<got, m_ep1_in>>

Overwrite ==
    /\ m_ep2_out' \notin Payload
    /\ UNCHANGED <<sent, got, m_ep1_in>>

Move ==
    /\ m_ep2_out # NoData
    /\ m_ep1_in' = m_ep2_out /\ m_ep2_out' = NoData
    /\ UNCHANGED <<sent, got>>

Fetch ==
    /\ m_ep1_in # NoData
    /\ got' = IF m_ep1_in \in Payload THEN Append(got, m_ep1_in) ELSE got
    /\ m_ep1_in' = NoData
    /\ UNCHANGED <<sent, m_ep2_out>>

bulkVars == <<sent, got, m_ep1_in, m_ep2_out>>

\* What a packet from the link does, whoever it is for.
LEMMA PacketMoves ==
    ASSUME NEW p, DeviceSees(p), Log(p),
           p.type = "BULK_OUT" => p.data \in Payload,
           p.type = "CTRL_DATA" => p.data \notin Payload
    PROVE  \/ \E d \in Payload : Arrive(d)
           \/ p.type = "CTRL_DATA" /\ Overwrite
           \/ Fetch
           \/ UNCHANGED bulkVars
<1>1. NoPacket.type = "TP_ACK"
  BY NoPacketIsPacket
<1>2. CASE ~(Recipient(p) = "DEVICE" /\ sig.dev_enable)
  <2>1. DeviceReply(p) = NoPacket
    BY <1>2 DEF DeviceReply
  <2> QED
    BY <1>1, <1>2, <2>1 DEF DeviceSees, DeviceReceive, deviceVars, Log, bulkVars
<1>3. CASE Recipient(p) = "DEVICE" /\ sig.dev_enable
  <2>1. /\ m_ep1_in' = IF p.type = "BULK_IN" THEN NoData ELSE m_ep1_in
        /\ m_ep2_out' = IF ToEp2(p) THEN p.data ELSE m_ep2_out
    BY <1>3 DEF DeviceSees, DeviceReceive, ReadFifo, WriteFifo
  <2>2. sent' = IF p.type = "BULK_OUT" THEN Append(sent, p.data) ELSE sent
    BY <1>3 DEF Log
  <2>3. CASE p.type = "BULK_IN" /\ m_ep1_in # NoData
    <3>1. DeviceReply(p) = Packet("BULK_IN", m_assigned_addr, m_ep1_in)
      BY <1>3, <2>3 DEF DeviceReply, DeviceAnswer
    <3>2. DeviceReply(p).type = "BULK_IN" /\ DeviceReply(p).data = m_ep1_in
      BY <3>1 DEF Packet
    <3>3. got' = IF m_ep1_in \in Payload THEN Append(got, m_ep1_in) ELSE got
      BY <3>2 DEF Log
    <3> QED
      BY <2>1, <2>2, <2>3, <3>3 DEF ToEp2, Fetch
  <2>4. CASE ~(p.type = "BULK_IN" /\ m_ep1_in # NoData)
    <3>1. DeviceReply(p).type # "BULK_IN"
      BY <1>1, <1>3, <2>4 DEF DeviceReply, DeviceAnswer, Packet
    <3>2. got' = got
      BY <3>1 DEF Log
    <3> QED
      BY <2>1, <2>2, <2>4, <3>2 DEF ToEp2, Arrive, Overwrite, bulkVars
  <2> QED
    BY <2>3, <2>4
<1> QED
  BY <1>2, <1>3

\* What the peer answers to the host is no bulk data for the device.
LEMMA AnswersNoBulkData ==
    ASSUME TypeOK, NEW outcome \in PeerOutcomes(HostSends)
    PROVE  /\ outcome.answer.type # "BULK_OUT"
           /\ outcome.answer.type = "CTRL_DATA" => outcome.answer.data \notin Payload
<1>1. HostSends \in Packets
  BY HostSendsType DEF TypeOK
<1>2. outcome.answer.type # "BULK_OUT"
  BY <1>1, OutcomeType DEF TypeOK
<1>3. PeerAnswer(HostSends).type = "CTRL_DATA"
      => PeerAnswer(HostSends).data \in ControlData
  BY NoPacketIsPacket DEF PeerAnswer, Packet, Answer, ControlData
<1>4. \A a \in Refusals(HostSends) : a.type # "CTRL_DATA"
  BY NoPacketIsPacket DEF Refusals, Packet
<1>5. \/ outcome = [answer |-> PeerAnswer(HostSends), performs |-> TRUE]
      \/ \E a \in Refusals(HostSends) : outcome = [answer |-> a, performs |-> FALSE]
  BY DEF PeerOutcomes
<1> QED
  BY <1>2, <1>3, <1>4, <1>5, PayloadAssumption

\* What the loopback thread does.
LEMMA LoopbackMoves ==
    ASSUME Loopback, UNCHANGED historyVars
    PROVE  Move \/ UNCHANGED bulkVars
BY DEF Loopback, LoopbackStart, SkipLoopback, CopyToEp1, EndLoopbackPulse,
       WriteFifo, ReadFifo, historyVars, Move, bulkVars

\* Every step does one of these, or leaves the data alone.
LEMMA DataMoves ==
    ASSUME ControlDataApart, TypeOK, [Next]_vars
    PROVE  \/ \E d \in Payload : Arrive(d)
           \/ Overwrite
           \/ Move
           \/ Fetch
           \/ UNCHANGED bulkVars
<1>1. ASSUME HostProcess
      PROVE  (\E d \in Payload : Arrive(d)) \/ Overwrite \/ Fetch \/ UNCHANGED bulkVars
  <2>1. CASE UNCHANGED <<deviceVars, historyVars>>
    BY <2>1 DEF deviceVars, historyVars, bulkVars
  <2>2. ASSUME NEW outcome \in PeerOutcomes(HostSends),
               DeviceSees(outcome.answer), Log(outcome.answer)
        PROVE  (\E d \in Payload : Arrive(d)) \/ Overwrite \/ Fetch \/ UNCHANGED bulkVars
    BY <2>2, AnswersNoBulkData, PacketMoves
  <2> QED
    BY <1>1, <2>1, <2>2 DEF HostProcess
<1>2. ASSUME NEW t \in Transfers, QueueTransfer(t[1], t[2])
      PROVE  UNCHANGED bulkVars
  BY <1>2 DEF QueueTransfer, Enqueue, deviceVars, historyVars, bulkVars
<1>3. ASSUME NEW p \in Upstream, UpstreamCall(p)
      PROVE  (\E d \in Payload : Arrive(d)) \/ Overwrite \/ Fetch \/ UNCHANGED bulkVars
  BY <1>3, PacketMoves, TrafficAssumption DEF UpstreamCall, ControlDataApart
<1> QED
  BY <1>1, <1>2, <1>3, LoopbackMoves, DrdSteps
  DEF Update, Tick, vars, controllerVars, deviceVars, historyVars, bulkVars

-----------------------------------------------------------------------------
(***************************************************************************)
(* The order of the bulk data.                                             *)
(***************************************************************************)
\* The theorems about the pipe, for the two FIFOs.
Lossy == INSTANCE LossyPipeProofs WITH
             Data <- Payload,
             pipe <- BulkData(m_ep1_in) \o BulkData(m_ep2_out)

LEMMA BulkDataType ==
    \A fifo : /\ BulkData(fifo) \in Seq(Payload) /\ Len(BulkData(fifo)) < 2
              /\ fifo \notin Payload => BulkData(fifo) = <<>>
              /\ fifo \in Payload => BulkData(fifo) = <<fifo>>
BY DEF BulkData

LEMMA InOrderStep ==
    ASSUME ControlDataApart, TypeOK, LoopbackInOrder, [Next]_vars
    PROVE  LoopbackInOrder'
<1> DEFINE one == BulkData(m_ep1_in)
           two == BulkData(m_ep2_out)
           Found(out) == Lossy!FoundIn(out, sent)
<1>1. /\ NoData \notin Payload /\ BulkData(NoData) = <<>>
      /\ sent \in Seq(Payload) /\ got \in Seq(Payload)
      /\ one \in Seq(Payload) /\ two \in Seq(Payload)
  BY PayloadAssumption, BulkDataType DEF TypeOK
<1>2. /\ LoopbackInOrder <=> Lossy!FoundIn(got \o (one \o two), sent)
      /\ LoopbackInOrder' <=> Lossy!FoundIn(got' \o (one' \o two'), sent')
  BY DEF LoopbackInOrder, Pipe!InOrder, Pipe!FoundIn, Lossy!FoundIn
<1> HIDE DEF one, two
<1>3. got \o (one \o two) = (got \o one) \o two
  BY <1>1, ConcatAssociative
<1>4. got \o one \in Seq(Payload) /\ <<>> \in Seq(Payload)
  BY <1>1, ConcatProperties, EmptySeq
<1>5. Lossy!FoundIn(got \o one, sent)
  <2>1. Lossy!FoundIn(((got \o one) \o two) \o <<>>, sent)
    BY <1>1, <1>2, <1>3, <1>4, ConcatProperties, ConcatEmptySeq
  <2>2. Lossy!FoundIn((got \o one) \o <<>>, sent)
    BY <1>1, <1>4, <2>1, Lossy!FoundInParts
  <2> QED
    BY <1>4, <2>2, ConcatEmptySeq
<1>6. Lossy!FoundIn(got \o two, sent)
  BY <1>1, <1>2, <1>3, Lossy!FoundInParts
<1>7. ASSUME NEW d \in Payload, Arrive(d) PROVE LoopbackInOrder'
  <2>1. sent' = Append(sent, d) /\ got' = got /\ one' = one /\ two' = <<d>>
    BY <1>7, BulkDataType DEF Arrive, one, two
  <2>2. got' \o (one' \o two') = Append(got \o one, d)
    <3>1. <<d>> \in Seq(Payload)
      OBVIOUS
    <3>2. got \o (one \o <<d>>) = (got \o one) \o <<d>>
      BY <1>1, <3>1, ConcatAssociative
    <3>3. (got \o one) \o <<d>> = Append(got \o one, d)
      BY <1>4, AppendIsConcat
    <3> QED
      BY <2>1, <3>2, <3>3
  <2>3. Lossy!FoundIn(Append(got \o one, d), Append(sent, d))
    BY <1>1, <1>4, <1>5, Lossy!FoundInAppend
  <2> QED
    BY <1>2, <2>1, <2>2, <2>3
<1>8. CASE Overwrite
  <2>1. sent' = sent /\ got' = got /\ one' = one /\ two' = <<>>
    BY <1>8, BulkDataType DEF Overwrite, one, two
  <2>2. got' \o (one' \o two') = got \o one
    BY <1>1, <2>1, ConcatEmptySeq
  <2> QED
    BY <1>2, <1>5, <2>1, <2>2
<1>9. CASE Move
  <2>1. sent' = sent /\ got' = got /\ one' = two /\ two' = <<>>
    BY <1>1, <1>9 DEF Move, one, two
  <2>2. got' \o (one' \o two') = got \o two
    BY <1>1, <2>1, ConcatEmptySeq
  <2> QED
    BY <1>2, <1>6, <2>1, <2>2
<1>10. CASE Fetch
  <2>1. sent' = sent /\ one' = <<>> /\ two' = two
    BY <1>1, <1>10 DEF Fetch, one, two
  <2>2. got' = got \o one
    <3>1. CASE m_ep1_in \in Payload
      BY <1>1, <1>10, <3>1, BulkDataType, AppendIsConcat DEF Fetch, one
    <3>2. CASE m_ep1_in \notin Payload
      BY <1>1, <1>10, <3>2, BulkDataType, ConcatEmptySeq DEF Fetch, one
    <3> QED
      BY <3>1, <3>2
  <2>3. got' \o (one' \o two') = (got \o one) \o two
    BY <1>1, <2>1, <2>2, ConcatEmptySeq
  <2> QED
    BY <1>2, <1>3, <2>1, <2>3
<1>11. CASE UNCHANGED bulkVars
  <2>1. sent' = sent /\ got' = got /\ one' = one /\ two' = two
    BY <1>11 DEF bulkVars, one, two
  <2> QED
    BY <1>2, <2>1
<1> QED
  BY <1>7, <1>8, <1>9, <1>10, <1>11, DataMoves

\* Whatever the stimuli, the transfers and the packets of the peer: EP1 returns
\* bulk data in the order in which EP2 got them, and no more often, and control
\* data that take the same way can only make it lose some (loopback_process,
\* from_proto_b_transport).
THEOREM LoopbackKeepsOrder ==
    ASSUME ControlDataApart
    PROVE  Spec => []LoopbackInOrder
<1>1. Init => LoopbackInOrder
  <2> SUFFICES ASSUME Init PROVE LoopbackInOrder
    OBVIOUS
  <2>1. BulkData(m_ep1_in) = <<>> /\ BulkData(m_ep2_out) = <<>>
    BY PayloadAssumption, BulkDataType DEF Init, DeviceInit
  <2>2. got \o (BulkData(m_ep1_in) \o BulkData(m_ep2_out)) = <<>> /\ sent = <<>>
    BY <2>1, EmptySeq, ConcatEmptySeq DEF Init
  <2>3. [i \in 1 .. 0 |-> i] \in [1 .. Len(<<>>) -> 1 .. Len(<<>>)]
    OBVIOUS
  <2> QED
    BY <2>2, <2>3 DEF LoopbackInOrder, Pipe!InOrder, Pipe!FoundIn
<1>2. TypeOK /\ LoopbackInOrder /\ [Next]_vars => LoopbackInOrder'
  BY InOrderStep
<1> QED
  BY <1>1, <1>2, DrdTypeCorrect, PTL DEF Spec

-----------------------------------------------------------------------------
(***************************************************************************)
(* The bulk data of a DRD that is never host.                              *)
(***************************************************************************)
\* The peer makes no control transfer with data for the device.
NoControlData == \A p \in Upstream : p.type # "CTRL_DATA"

\* EP1 holds bulk data only, and EP2 the latest that came.
BulkInv ==
    /\ m_ep1_in \in Payload \cup {NoData}
    /\ m_ep2_out # NoData => sent # <<>> /\ m_ep2_out = Last(sent)

\* No control data come to EP2.
LEMMA BulkMoves ==
    ASSUME NoControlData, TypeOK, HostAsleep, [Next]_vars
    PROVE  (\E d \in Payload : Arrive(d)) \/ Move \/ Fetch \/ UNCHANGED bulkVars
<1>1. CASE HostProcess
  BY <1>1, HostOnlyStarts DEF deviceVars, historyVars, bulkVars
<1>2. ASSUME NEW p \in Upstream, UpstreamCall(p)
      PROVE  (\E d \in Payload : Arrive(d)) \/ Fetch \/ UNCHANGED bulkVars
  BY <1>2, PacketMoves, TrafficAssumption DEF UpstreamCall, NoControlData
<1>3. ASSUME NEW t \in Transfers, QueueTransfer(t[1], t[2])
      PROVE  UNCHANGED bulkVars
  BY <1>3 DEF QueueTransfer, Enqueue, deviceVars, historyVars, bulkVars
<1> QED
  BY <1>1, <1>2, <1>3, LoopbackMoves, DrdSteps
  DEF Update, Tick, vars, controllerVars, deviceVars, historyVars, bulkVars

\* A sequence that has grown ends with, and contains, what was appended.
LEMMA Appended ==
    ASSUME NEW S, NEW s \in Seq(S), NEW d \in S
    PROVE  /\ Append(s, d) # <<>> /\ Last(Append(s, d)) = d
           /\ Contains(Append(s, d), d)
           /\ \A e : Contains(s, e) => Contains(Append(s, d), e)
<1>1. /\ Append(s, d) # <<>>
      /\ Len(Append(s, d)) = Len(s) + 1 /\ Len(s) \in Nat
      /\ Append(s, d)[Len(s) + 1] = d
      /\ \A i \in 1 .. Len(s) : Append(s, d)[i] = s[i]
  BY AppendProperties, LenProperties
<1> QED
  BY <1>1 DEF Last, Contains

LEMMA BulkInvStep ==
    ASSUME NoControlData, TypeOK, HostAsleep, BulkInv, LatestKept, [Next]_vars
    PROVE  BulkInv' /\ LatestKept'
<1>1. /\ sent \in Seq(Payload) /\ got \in Seq(Payload)
      /\ sent # <<>> => Last(sent) \in Payload
  <2>1. sent \in Seq(Payload) /\ got \in Seq(Payload)
    BY DEF TypeOK
  <2>2. sent # <<>> => Len(sent) \in 1 .. Len(sent)
    BY <2>1, EmptySeq, LenProperties
  <2> QED
    BY <2>1, <2>2, ElementOfSeq DEF Last
<1>2. NoData \notin Payload
  BY PayloadAssumption
<1>3. ASSUME NEW d \in Payload, Arrive(d) PROVE BulkInv' /\ LatestKept'
  BY <1>1, <1>3, Appended DEF Arrive, BulkInv, LatestKept
<1>4. CASE Move
  BY <1>1, <1>4 DEF Move, BulkInv, LatestKept
<1>5. CASE Fetch
  <2>1. m_ep1_in \in Payload
    BY <1>5 DEF Fetch, BulkInv
  <2>2. Contains(got', m_ep1_in) /\ \A e : Contains(got, e) => Contains(got', e)
    BY <1>1, <1>5, <2>1, Appended DEF Fetch
  <2> QED
    BY <1>5, <2>2 DEF Fetch, BulkInv, LatestKept
<1>6. CASE UNCHANGED bulkVars
  BY <1>6 DEF bulkVars, BulkInv, LatestKept
<1> QED
  BY <1>3, <1>4, <1>5, <1>6, BulkMoves

LEMMA BulkInvariant ==
    ASSUME NoHostStimulus, NoControlData
    PROVE  Spec => [](TypeOK /\ HostAsleep /\ BulkInv /\ LatestKept)
<1>1. Init => BulkInv /\ LatestKept
  BY DEF Init, DeviceInit, BulkInv, LatestKept
<1>2. TypeOK /\ HostAsleep /\ BulkInv /\ LatestKept /\ [Next]_vars
      => (BulkInv /\ LatestKept)'
  BY BulkInvStep
<1> QED
  BY <1>1, <1>2, DrdTypeCorrect, NeverHost, PTL DEF Spec

\* The latest bulk data that a peer has sent are never lost: they have been
\* fetched, or are in one of the FIFOs (loopback_process, usb3_ep_fifo_t).  This
\* takes a peer that sends no data stage in between, and a DRD that does not
\* become device while it is waiting for an answer as host.
THEOREM LatestIsKept ==
    ASSUME NoHostStimulus, NoControlData
    PROVE  Spec => []LatestKept
BY BulkInvariant, PTL

-----------------------------------------------------------------------------
(***************************************************************************)
(* The two FIFOs implement the lossy pipe.                                 *)
(***************************************************************************)
\* A sequence behind one element, and without it.
LEMMA Fetched ==
    ASSUME NEW S, NEW e \in S, NEW t \in Seq(S)
    PROVE  /\ <<e>> \o t # <<>>
           /\ Len(<<e>> \o t) = Len(t) + 1
           /\ Head(<<e>> \o t) = e
           /\ Tail(<<e>> \o t) = t
           /\ Pipe!Without(<<e>> \o t, 1) = t
<1> DEFINE s == <<e>> \o t
<1>1. <<e>> \in Seq(S) /\ Len(<<e>>) = 1 /\ <<e>>[1] = e
  OBVIOUS
<1>2. Len(t) \in Nat
  BY LenProperties
<1>3. /\ s \in Seq(S) /\ Len(s) = Len(t) + 1
      /\ s[1] = e
      /\ \A i \in 1 .. Len(t) : s[i + 1] = t[i]
  <2>1. /\ s \in Seq(S) /\ Len(s) = 1 + Len(t)
        /\ \A i \in 1 .. 1 + Len(t) : s[i] = IF i <= 1 THEN <<e>>[i] ELSE t[i - 1]
    BY <1>1, ConcatProperties
  <2>2. s[1] = e
    BY <1>1, <1>2, <2>1
  <2>3. ASSUME NEW i \in 1 .. Len(t) PROVE s[i + 1] = t[i]
    BY <1>2, <2>1
  <2> QED
    BY <1>2, <2>1, <2>2, <2>3
<1> HIDE DEF s
<1>4. s # <<>>
  BY <1>2, <1>3, EmptySeq
<1>5. Head(s) = e
  BY <1>3, <1>4
<1>6. Tail(s) = t
  <2>1. /\ Tail(s) \in Seq(S) /\ Len(Tail(s)) = Len(t)
        /\ \A i \in 1 .. Len(t) : Tail(s)[i] = s[i + 1]
    BY <1>2, <1>3, <1>4, HeadTailProperties
  <2> QED
    BY <1>3, <2>1, SeqEqual
<1>7. Pipe!Without(s, 1) = t
  <2>1. Pipe!Without(s, 1) = Lossy!Without(s, 1)
    BY DEF Pipe!Without, Lossy!Without
  <2>2. /\ Lossy!Without(s, 1) \in Seq(S) /\ Len(Lossy!Without(s, 1)) = Len(t)
        /\ \A i \in 1 .. Len(t) : Lossy!Without(s, 1)[i] = s[i + 1]
    <3>1. 1 \in 1 .. Len(s)
      BY <1>2, <1>3
    <3>2. /\ Lossy!Without(s, 1) \in Seq(S)
          /\ Len(Lossy!Without(s, 1)) = Len(s) - 1
          /\ \A i \in 1 .. Len(s) - 1 :
                 Lossy!Without(s, 1)[i] = IF i < 1 THEN s[i] ELSE s[i + 1]
      BY <1>3, <3>1, Lossy!WithoutElements
    <3> QED
      BY <1>2, <1>3, <3>2
  <2>3. Lossy!Without(s, 1) = t
    BY <1>3, <2>2, SeqEqual
  <2> QED
    BY <2>1, <2>3
<1> QED
  BY <1>3, <1>4, <1>5, <1>6, <1>7 DEF s

\* A sequence with one element behind it, and without it again.
LEMMA Overwritten ==
    ASSUME NEW S, NEW s \in Seq(S), NEW e \in S
    PROVE  Pipe!Without(Append(s, e), Len(Append(s, e))) = s
<1> DEFINE u == Append(s, e)
           w == Lossy!Without(u, Len(u))
<1>1. /\ u \in Seq(S) /\ Len(u) = Len(s) + 1 /\ Len(s) \in Nat
      /\ \A i \in 1 .. Len(s) : u[i] = s[i]
  BY AppendProperties, LenProperties
<1> HIDE DEF u
<1>2. Len(u) \in 1 .. Len(u)
  BY <1>1
<1>3. /\ w \in Seq(S) /\ Len(w) = Len(u) - 1
      /\ \A i \in 1 .. Len(u) - 1 : w[i] = IF i < Len(u) THEN u[i] ELSE u[i + 1]
  BY <1>1, <1>2, Lossy!WithoutElements
<1> HIDE DEF w
<1>4. Len(w) = Len(s) /\ \A i \in 1 .. Len(s) : w[i] = s[i]
  BY <1>1, <1>3
<1>5. w = s
  BY <1>3, <1>4, SeqEqual
<1> QED
  BY <1>5 DEF u, w, Pipe!Without, Lossy!Without

\* The steps of the pipe are those of the data; a move stutters unless it
\* overwrites.
LEMMA PipeStep ==
    ASSUME m_ep1_in \in Payload \cup {NoData}, m_ep2_out \in Payload \cup {NoData},
           (\E d \in Payload : Arrive(d)) \/ Move \/ Fetch \/ UNCHANGED bulkVars
    PROVE  [Pipe!Next]_(Pipe!vars)
<1> DEFINE one == BulkData(m_ep1_in)
           two == BulkData(m_ep2_out)
           pipe == one \o two
<1>1. NoData \notin Payload
  BY PayloadAssumption
<1>2. BulkData(NoData) = <<>> /\ \A d \in Payload : BulkData(d) = <<d>>
  BY <1>1 DEF BulkData
<1>3. /\ one \in Seq(Payload) /\ Len(one) < 2
      /\ two \in Seq(Payload)
  BY DEF BulkData
<1>4. ASSUME NEW d \in Payload, Arrive(d) PROVE Pipe!Put(d)
  <2>1. sent' = Append(sent, d) /\ got' = got /\ one' = one /\ two' = <<d>>
    BY <1>2, <1>4 DEF Arrive
  <2>2. pipe' = Append(one, d)
    BY <1>3, <2>1, AppendIsConcat
  <2>3. CASE m_ep2_out = NoData
    <3>1. pipe = one
      BY <1>2, <1>3, <2>3, ConcatEmptySeq
    <3> HIDE DEF pipe, one, two
    <3> QED
      BY <1>3, <2>1, <2>2, <3>1 DEF Pipe!Put, Pipe!Capacity, pipe, one, two
  <2>4. CASE m_ep2_out # NoData
    <3>1. m_ep2_out \in Payload /\ two = <<m_ep2_out>>
      BY <1>2, <2>4
    <3>2. pipe = Append(one, m_ep2_out)
      BY <1>3, <3>1, AppendIsConcat
    <3>3. Pipe!Without(pipe, Len(pipe)) = one /\ pipe # <<>>
      <4> HIDE DEF one, pipe
      <4>1. Pipe!Without(Append(one, m_ep2_out), Len(Append(one, m_ep2_out))) = one
        BY <1>3, <3>1, Overwritten
      <4>2. Append(one, m_ep2_out) # <<>>
        BY <1>3, <3>1, AppendProperties
      <4> QED
        BY <3>2, <4>1, <4>2
    <3> HIDE DEF pipe
    <3>4. pipe' = Append(Pipe!Without(pipe, Len(pipe)), d)
      BY <2>2, <3>3
    <3> QED
      BY <2>1, <3>3, <3>4 DEF Pipe!Put, pipe
  <2> QED
    BY <2>3, <2>4
<1>5. CASE Move
  <2>1. /\ sent' = sent /\ got' = got
        /\ m_ep2_out \in Payload /\ one' = two /\ two' = <<>>
    BY <1>2, <1>5 DEF Move
  <2>2. pipe' = two
    BY <1>3, <2>1, ConcatEmptySeq
  <2>3. CASE m_ep1_in = NoData
    <3>1. pipe = two
      BY <1>2, <1>3, <2>3, ConcatEmptySeq
    <3>2. pipe' = pipe
      BY <2>2, <3>1
    <3> QED
      BY <2>1, <3>2 DEF Pipe!vars
  <2>4. CASE m_ep1_in # NoData
    <3>1. m_ep1_in \in Payload /\ one = <<m_ep1_in>>
      BY <1>2, <2>4
    <3>2. Len(two) = 1
      BY <1>2, <2>1
    <3>3. Len(pipe) = 2 /\ Pipe!Without(pipe, 1) = two
      <4> HIDE DEF one, two
      <4>1. /\ Len(<<m_ep1_in>> \o two) = Len(two) + 1
            /\ Pipe!Without(<<m_ep1_in>> \o two, 1) = two
        BY <1>3, <3>1, Fetched
      <4> QED
        BY <3>1, <3>2, <4>1
    <3> HIDE DEF pipe
    <3>4. pipe' = Pipe!Without(pipe, 1)
      BY <2>2, <3>3
    <3> QED
      BY <2>1, <3>3, <3>4 DEF Pipe!Lose, Pipe!Next, Pipe!Capacity, pipe
  <2> QED
    BY <2>3, <2>4
<1>6. CASE Fetch
  <2>1. /\ sent' = sent /\ got' = Append(got, m_ep1_in) /\ m_ep1_in \in Payload
        /\ one = <<m_ep1_in>> /\ one' = <<>> /\ two' = two
    BY <1>2, <1>6 DEF Fetch
  <2>2. pipe' = two
    BY <1>3, <2>1, ConcatEmptySeq
  <2>3. pipe # <<>> /\ Head(pipe) = m_ep1_in /\ Tail(pipe) = two
    BY <1>3, <2>1, Fetched
  <2> HIDE DEF pipe
  <2>4. got' = Append(got, Head(pipe)) /\ pipe' = Tail(pipe)
    BY <2>1, <2>2, <2>3
  <2> QED
    BY <2>1, <2>3, <2>4 DEF Pipe!Get, Pipe!Next, pipe
<1>7. CASE UNCHANGED bulkVars
  BY <1>7 DEF bulkVars, Pipe!vars
<1> QED
  BY <1>4, <1>5, <1>6, <1>7 DEF Pipe!Next

LEMMA BulkTypes ==
    ASSUME TypeOK, BulkInv
    PROVE  m_ep1_in \in Payload \cup {NoData} /\ m_ep2_out \in Payload \cup {NoData}
<1>1. sent \in Seq(Payload)
  BY DEF TypeOK
<1>2. sent # <<>> => Len(sent) \in 1 .. Len(sent)
  BY <1>1, EmptySeq, LenProperties
<1> QED
  BY <1>1, <1>2, ElementOfSeq DEF BulkInv, Last

\* Under the same hypotheses EP2, EP1 and the thread between them are a pipe that
\* loses data at the points that LossyPipe names only, whatever the speeds of the
\* peer and of the thread, and the changes of role between DEVICE and NONE
\* (loopback_process, usb3_ep_fifo_t).
THEOREM FifosImplementPipe ==
    ASSUME NoHostStimulus, NoControlData
    PROVE  Spec => PipeSpec
<1>1. Init => Pipe!Init
  <2>1. BulkData(NoData) = <<>>
    BY PayloadAssumption DEF BulkData
  <2> QED
    BY <2>1, ConcatEmptySeq, EmptySeq DEF Init, DeviceInit, Pipe!Init
<1>2. TypeOK /\ HostAsleep /\ BulkInv /\ LatestKept /\ [Next]_vars
      => [Pipe!Next]_(Pipe!vars)
  <2> SUFFICES ASSUME TypeOK, HostAsleep, BulkInv, [Next]_vars
               PROVE  [Pipe!Next]_(Pipe!vars)
    OBVIOUS
  <2> QED
    BY BulkMoves, BulkTypes, PipeStep
<1> QED
  BY <1>1, <1>2, BulkInvariant, PTL DEF Spec, PipeSpec, Pipe!Spec
=============================================================================
