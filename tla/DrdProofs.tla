----------------------------- MODULE DrdProofs -----------------------------
(***************************************************************************)
(* Theorems about the whole DRD, for every value of its constants: types,  *)
(* and what each controller keeps true of its own data.                    *)
(***************************************************************************)
EXTENDS Drd, StimuliProofs, SequenceTheorems

USE PulseTimeAssumption, SettleTimeAssumption, GapAssumption, StimuliAssumption,
    PayloadAssumption, HostTimesAssumption, HostSizesAssumption, BulkPulseAssumption,
    PeerFaultsAssumption, TrafficAssumption

Bytes == Data \cup {NoData}

-----------------------------------------------------------------------------
(***************************************************************************)
(* The packets of the three parties.                                       *)
(***************************************************************************)
\* A packet without a request is one.
LEMMA PacketIsPacket ==
    ASSUME NEW type \in PacketType, NEW addr \in Nat, NEW data \in Bytes
    PROVE  /\ Packet(type, addr, data) \in Packets
           /\ Packet(type, addr, data).type = type
           /\ Packet(type, addr, data).data = data
           /\ Packet(type, addr, data).addr = addr
BY DEF Packet, Packets, Request, Bytes

\* And so is a SETUP.
LEMMA SetupIsPacket ==
    ASSUME NEW addr \in Nat, NEW request \in Request, NEW value \in Nat
    PROVE  /\ SetupPacket(addr, request, value) \in Packets
           /\ SetupPacket(addr, request, value).type = "SETUP"
           /\ SetupPacket(addr, request, value).request = request
           /\ SetupPacket(addr, request, value).value = value
           /\ SetupPacket(addr, request, value).addr = addr
BY DEF SetupPacket, Packets, PacketType, Data, ControlData

\* The packet that stands for none carries no data and is of a kind that nobody
\* looks at.
LEMMA NoPacketIsPacket ==
    /\ NoPacket \in Packets
    /\ NoPacket.type = "TP_ACK"
    /\ NoPacket.data = NoData
<1>1. "TP_ACK" \in PacketType /\ 0 \in Nat /\ NoData \in Bytes
  BY DEF PacketType, Bytes
<1> QED
  BY <1>1, PacketIsPacket DEF NoPacket

\* The data of control transfers are bytes.
LEMMA AnswerIsData ==
    \A request \in DOMAIN Answer : Answer[request] \in ControlData
BY DEF Answer, ControlData

\* What the host puts on the link.  A BULK_OUT carries the data of its TRB.
LEMMA HostSendsType ==
    ASSUME HostTypeOK
    PROVE  /\ HostSends \in Packets
           /\ HostSends.type = "BULK_OUT" => HostSends.data \in Payload \cup {NoData}
<1> USE DEF HostTypeOK
<1>1. m_dev.addr \in Nat /\ m_next_addr \in Nat
  OBVIOUS
<1>2. \A request \in Request : /\ HostSetup(request) \in Packets
                              /\ HostSetup(request).type = "SETUP"
  <2> SUFFICES ASSUME NEW request \in Request
               PROVE  /\ HostSetup(request) \in Packets
                      /\ HostSetup(request).type = "SETUP"
    OBVIOUS
  <2>1. \E addr, value \in Nat : HostSetup(request) = SetupPacket(addr, request, value)
    BY <1>1 DEF HostSetup
  <2> QED
    BY <2>1, SetupIsPacket
<1>3. CASE host_pc \in {"disabled", "settle"}
  <2>1. HostSends = HostSetup("get_device") \/ HostSends = HostSetup("get_config")
    BY <1>3 DEF HostSends, InRing
  <2>2. {"get_device", "get_config"} \subseteq Request
    BY DEF Request
  <2> QED
    BY <1>2, <2>1, <2>2
<1>4. CASE host_pc = "setup"
  <2> DEFINE addr == IF host_request = "set_address" THEN 0 ELSE m_dev.addr
  <2>1. HostSends = Packet("CTRL_STATUS", addr, NoData)
    BY <1>4 DEF HostSends, InRing
  <2>2. addr \in Nat /\ "CTRL_STATUS" \in PacketType /\ NoData \in Bytes
    BY <1>1 DEF PacketType, Bytes
  <2> QED
    BY <2>1, <2>2, PacketIsPacket
<1>5. CASE host_pc = "status" /\ ~Failed /\ host_request \in DOMAIN Following
  <2>1. HostSends = HostSetup(Following[host_request])
    BY <1>5 DEF HostSends, InRing
  <2>2. Following[host_request] \in Request
    BY <1>5 DEF Following, Request
  <2> QED
    BY <1>2, <2>1, <2>2
<1>6. CASE InRing /\ sig.host_enable /\ m_transfer_ring # <<>>
  <2> DEFINE trb == Head(m_transfer_ring)
             type == IF trb.dir = "OUT" THEN "BULK_OUT" ELSE "BULK_IN"
  <2>1. trb \in Trb
    BY <1>6
  <2>2. trb.addr \in Nat /\ trb.data \in Payload \cup {NoData}
    BY <2>1 DEF Trb
  <2>3. type \in PacketType /\ trb.data \in Bytes
    BY <2>2 DEF PacketType, Bytes, Data
  <2>4. HostSends = Packet(type, trb.addr, trb.data)
    BY <1>6 DEF HostSends, InRing
  <2> QED
    BY <2>2, <2>3, <2>4, PacketIsPacket
<1>7. CASE ~(\/ host_pc \in {"disabled", "settle", "setup"}
             \/ host_pc = "status" /\ ~Failed /\ host_request \in DOMAIN Following
             \/ InRing /\ sig.host_enable /\ m_transfer_ring # <<>>)
  BY <1>7, NoPacketIsPacket DEF HostSends
<1> QED
  BY <1>3, <1>4, <1>5, <1>6, <1>7

\* What the peer calls upstream while it handles a packet of the host.
LEMMA OutcomeType ==
    ASSUME PeerTypeOK, NEW p \in Packets, NEW outcome \in PeerOutcomes(p)
    PROVE  /\ outcome.answer \in Packets
           /\ outcome.answer.type \in {"CTRL_DATA", "TP_STALL", "BULK_IN", "TP_ACK"}
           /\ outcome.performs \in BOOLEAN
<1> USE DEF PeerTypeOK
<1> DEFINE Fits(a) == /\ a \in Packets
                      /\ a.type \in {"CTRL_DATA", "TP_STALL", "BULK_IN", "TP_ACK"}
<1>1. {"CTRL_DATA", "TP_STALL", "BULK_IN"} \subseteq PacketType
       /\ peer_addr \in Nat /\ "stall_bytes" \in Bytes
  BY DEF PacketType, Bytes, Data, ControlData
<1>2. Fits(NoPacket)
  BY NoPacketIsPacket
<1>3. Fits(PeerAnswer(p))
  <2>1. CASE p.type = "SETUP" /\ p.request \in {"get_device", "get_config", "get_bos"}
    <3>1. PeerAnswer(p) = Packet("CTRL_DATA", peer_addr, Answer[p.request])
      BY <2>1 DEF PeerAnswer
    <3>2. Answer[p.request] \in Bytes
      BY <2>1 DEF Answer, Bytes, Data, ControlData
    <3> QED
      BY <1>1, <3>1, <3>2, PacketIsPacket
  <2>2. CASE p.type = "BULK_IN" /\ m_loopback_buf # NoData
    <3>1. PeerAnswer(p) = Packet("BULK_IN", peer_addr, m_loopback_buf)
      BY <2>2 DEF PeerAnswer
    <3>2. m_loopback_buf \in Bytes
      BY DEF Bytes, Data
    <3> QED
      BY <1>1, <3>1, <3>2, PacketIsPacket
  <2>3. CASE ~(\/ p.type = "SETUP" /\ p.request \in {"get_device", "get_config", "get_bos"}
               \/ p.type = "BULK_IN" /\ m_loopback_buf # NoData)
    BY <1>2, <2>3 DEF PeerAnswer
  <2> QED
    BY <2>1, <2>2, <2>3
<1>4. Fits(Packet("TP_STALL", peer_addr, "stall_bytes"))
  BY <1>1, PacketIsPacket
<1>5. \A a \in Refusals(p) : Fits(a)
  BY <1>2, <1>4 DEF Refusals
<1>6. \/ outcome = [answer |-> PeerAnswer(p), performs |-> TRUE]
      \/ \E a \in Refusals(p) : outcome = [answer |-> a, performs |-> FALSE]
  BY DEF PeerOutcomes
<1>7. CASE outcome = [answer |-> PeerAnswer(p), performs |-> TRUE]
  BY <1>3, <1>7
<1>8. ASSUME NEW a \in Refusals(p), outcome = [answer |-> a, performs |-> FALSE]
      PROVE  Fits(outcome.answer) /\ outcome.performs \in BOOLEAN
  BY <1>5, <1>8
<1> QED
  BY <1>6, <1>7, <1>8

\* What the device sends while it handles a packet.  It answers a bulk transfer
\* with nothing but what is in EP1.
LEMMA DeviceReplyType ==
    ASSUME DeviceTypeOK, NEW p \in Packets
    PROVE  /\ DeviceReply(p) \in Packets
           /\ DeviceReply(p).type \in
                  {"CTRL_DATA", "TP_STALL", "CTRL_STATUS", "BULK_IN", "TP_ACK"}
<1> USE DEF DeviceTypeOK
<1> DEFINE Fits(a) == /\ a \in Packets
                      /\ a.type \in {"CTRL_DATA", "TP_STALL", "CTRL_STATUS", "BULK_IN",
                                     "TP_ACK"}
<1>1. {"CTRL_DATA", "TP_STALL", "CTRL_STATUS", "BULK_IN"} \subseteq PacketType
       /\ m_assigned_addr \in Nat /\ {"stall_bytes", "status_bytes"} \subseteq Bytes
  BY DEF PacketType, Bytes, Data, ControlData
<1>2. Fits(NoPacket)
  BY NoPacketIsPacket
<1>3. Fits(DeviceAnswer(p))
  <2>1. CASE p.type = "SETUP" /\ p.request \in DOMAIN Answer
    <3>1. DeviceAnswer(p) = Packet("CTRL_DATA", m_assigned_addr, Answer[p.request])
      BY <2>1 DEF DeviceAnswer, Answer
    <3>2. Answer[p.request] \in Bytes
      BY <2>1, AnswerIsData DEF Bytes, Data
    <3> QED
      BY <1>1, <3>1, <3>2, PacketIsPacket
  <2>2. CASE p.type = "SETUP" /\ p.request = "unknown"
    <3>1. DeviceAnswer(p) = Packet("TP_STALL", m_assigned_addr, "stall_bytes")
      BY <2>2 DEF DeviceAnswer, Answer
    <3> QED
      BY <1>1, <3>1, PacketIsPacket
  <2>3. CASE p.type = "CTRL_STATUS"
    <3>1. DeviceAnswer(p) = Packet("CTRL_STATUS", m_assigned_addr, "status_bytes")
      BY <2>3 DEF DeviceAnswer
    <3> QED
      BY <1>1, <3>1, PacketIsPacket
  <2>4. CASE p.type = "BULK_IN" /\ m_ep1_in # NoData
    <3>1. DeviceAnswer(p) = Packet("BULK_IN", m_assigned_addr, m_ep1_in)
      BY <2>4 DEF DeviceAnswer
    <3>2. m_ep1_in \in Bytes
      BY DEF Bytes
    <3> QED
      BY <1>1, <3>1, <3>2, PacketIsPacket
  <2>5. CASE ~(\/ p.type = "SETUP" /\ p.request \in DOMAIN Answer
               \/ p.type = "SETUP" /\ p.request = "unknown"
               \/ p.type = "CTRL_STATUS"
               \/ p.type = "BULK_IN" /\ m_ep1_in # NoData)
    BY <1>2, <2>5 DEF DeviceAnswer
  <2> QED
    BY <2>1, <2>2, <2>3, <2>4, <2>5
<1> QED
  BY <1>2, <1>3 DEF DeviceReply

-----------------------------------------------------------------------------
(***************************************************************************)
(* What a packet does to its recipients, and what it leaves in the logs.   *)
(***************************************************************************)
LEMMA DeviceSeesType ==
    ASSUME DeviceTypeOK, notified \subseteq Event, NEW p \in Packets, DeviceSees(p)
    PROVE  DeviceTypeOK' /\ notified' \subseteq Event /\ loop_pc' = loop_pc
<1>1. CASE UNCHANGED <<deviceVars, notified>>
  BY <1>1 DEF DeviceTypeOK, deviceVars
<1>2. CASE sig.dev_enable /\ DeviceReceive(p)
  <2>1. p.value % AddrRange \in 0 .. (AddrRange - 1) /\ p.data \in Data \cup {NoData}
    BY AddrRangeAssumption DEF Packets
  <2> QED
    BY <1>2, <2>1 DEF DeviceReceive, DeviceTypeOK, ReadFifo, WriteFifo, Event
<1> QED
  BY <1>1, <1>2 DEF DeviceSees, DeviceReceive

LEMMA LogType ==
    ASSUME sent \in Seq(Payload), got \in Seq(Payload), NEW p \in Packets, Log(p),
           p.type = "BULK_OUT" => p.data \in Payload
    PROVE  sent' \in Seq(Payload) /\ got' \in Seq(Payload)
BY DEF Log

LEMMA PeerReceiveType ==
    ASSUME PeerTypeOK, NEW p \in Packets, PeerReceive(p),
           p.type = "BULK_OUT" => p.data \in Payload \cup {NoData}
    PROVE  PeerTypeOK'
<1>1. p.value % AddrRange \in 0 .. (AddrRange - 1)
  BY AddrRangeAssumption DEF Packets
<1> QED
  BY <1>1 DEF PeerReceive, PeerTypeOK

\* Every run of the host thread leaves the host's data and the scheduler's well
\* typed, whatever it receives.
LEMMA HostMainType ==
    ASSUME KernelTypeOK, HostTypeOK, NEW reply \in Bytes, NEW ok \in BOOLEAN,
           HostMain(reply, ok)
    PROVE  /\ HostTypeOK' /\ sig' = sig /\ nxt' \in Signals
           /\ ready' \subseteq Process /\ timer' \in [Thread -> Nat]
<1>1. "host_main_process" \in Process
       /\ {SetupTime, StatusTime, AddressTime, EnumPulseTime, XferPulseTime, 0} \subseteq Nat
  BY DEF Process
<1>2. /\ sig' = sig
      /\ \E d \in Nat : Wait("host_main_process", d)
  BY <1>1 DEF HostMain, HostStart, BeginEnumeration, SendStatus, ContinueEnumeration,
     SettleAddress, ReadConfiguration, FinishEnumeration, LeaveRing, AwaitTrb, RunTrb,
     SendSetup, HostWaits
<1>3. ready' \subseteq Process /\ timer' \in [Thread -> Nat]
  BY <1>1, <1>2, WaitType
<1>4. Received(m_resp, reply) \in Data \cup {NoData}
       /\ Received(NoData, reply) \in Data \cup {NoData}
  BY DEF Received, HostTypeOK, Bytes
<1> DEFINE Goal == HostTypeOK' /\ nxt' \in Signals
<1> USE DEF KernelTypeOK
<1>5. ASSUME HostStart PROVE Goal
  <2>1. nxt' \in Signals
    BY <1>5 DEF HostStart, Signals
  <2> QED
    BY <1>5, <2>1 DEF HostStart, HostWaits, HostTypeOK
<1>6. ASSUME BeginEnumeration(reply) PROVE Goal
  BY <1>4, <1>6 DEF BeginEnumeration, SendSetup, HostWaits, HostTypeOK, NoDevice, Request
<1>7. ASSUME SendStatus(reply, ok) PROVE Goal
  BY <1>4, <1>7 DEF SendStatus, HostWaits, HostTypeOK
<1>8. ASSUME ContinueEnumeration(reply) PROVE Goal
  <2>1. Following[host_request] \in Request
    BY <1>8 DEF ContinueEnumeration, Following, Request
  <2>2. NextAddr \in 0 .. AddrModulus - 1
    BY DEF NextAddr, HostTypeOK
  <2>3. m_dev' \in [addr : 0 .. AddrModulus - 1, ids : Data \cup {NoData},
                    enumerated : BOOLEAN]
    BY <1>8 DEF ContinueEnumeration, HostTypeOK, AtLeast18Bytes, Data, ControlData
  <2> QED
    BY <1>4, <1>8, <2>1, <2>2, <2>3 DEF ContinueEnumeration, SendSetup, HostWaits,
       HostTypeOK
<1>9. ASSUME SettleAddress PROVE Goal
  <2>1. NewAddr \in 0 .. AddrModulus - 1 /\ NewAddr \in Nat
    BY DEF NewAddr, HostTypeOK
  <2>2. nxt' \in Signals
    BY <1>9, <2>1 DEF SettleAddress, Signals
  <2> QED
    BY <1>9, <2>1, <2>2 DEF SettleAddress, HostWaits, HostTypeOK
<1>10. ASSUME ReadConfiguration(reply) PROVE Goal
  BY <1>4, <1>10 DEF ReadConfiguration, SendSetup, HostWaits, HostTypeOK, Request
<1>11. ASSUME FinishEnumeration PROVE Goal
  <2>1. nxt' \in Signals
    BY <1>11 DEF FinishEnumeration, Signals
  <2> QED
    BY <1>11, <2>1 DEF FinishEnumeration, HostWaits, LocalsEnd, HostTypeOK, Request
<1>12. ASSUME LeaveRing \/ AwaitTrb PROVE Goal
  <2>1. nxt' \in Signals
    BY <1>12 DEF LeaveRing, AwaitTrb, PulsesEnded, Signals
  <2> QED
    BY <1>12, <2>1 DEF LeaveRing, AwaitTrb, HostWaits, LocalsEnd, HostTypeOK, Request
<1>13. ASSUME RunTrb(reply) PROVE Goal
  <2>1. nxt' \in Signals
    BY <1>13 DEF RunTrb, PulsesEnded, Signals
  <2>2. m_transfer_ring' \in Seq(Trb) /\ Len(m_transfer_ring') <= RingDepth
    BY <1>13 DEF RunTrb, HostTypeOK
  <2>3. m_rx_buf' \in Data \cup {NoData} /\ m_resp' \in Data \cup {NoData}
    BY <1>4, <1>13 DEF RunTrb, HostTypeOK
  <2> QED
    BY <1>13, <2>1, <2>2, <2>3 DEF RunTrb, HostWaits, LocalsEnd, HostTypeOK, Request
<1> QED
  BY <1>2, <1>3, <1>5, <1>6, <1>7, <1>8, <1>9, <1>10, <1>11, <1>12, <1>13 DEF HostMain

\* So does every step of the loopback thread.
LEMMA LoopbackType ==
    ASSUME KernelTypeOK, DeviceTypeOK, Loopback
    PROVE  /\ DeviceTypeOK' /\ UNCHANGED <<sig, notified>> /\ nxt' \in Signals
           /\ ready' \subseteq Process /\ timer' \in [Thread -> Nat]
<1>1. "loopback_process" \in Process
  BY DEF Process
<1>2. \E d \in Nat : Wait("loopback_process", d)
  BY DEF Loopback, LoopbackStart, SkipLoopback, CopyToEp1, EndLoopbackPulse,
         LoopbackWaits
<1>3. ready' \subseteq Process /\ timer' \in [Thread -> Nat]
  BY <1>1, <1>2, WaitType
<1>4. nxt' \in Signals
  <2>1. nxt' = nxt \/ \E b \in BOOLEAN : nxt' = [nxt EXCEPT !.bulk_irq = b]
    BY DEF Loopback, LoopbackStart, SkipLoopback, CopyToEp1, EndLoopbackPulse
  <2>2. \A b \in BOOLEAN : [nxt EXCEPT !.bulk_irq = b] \in Signals
    BY DEF KernelTypeOK, Signals
  <2> QED
    BY <2>1, <2>2 DEF KernelTypeOK
<1>6. UNCHANGED <<sig, notified>>
  BY DEF Loopback, LoopbackStart, SkipLoopback, CopyToEp1, EndLoopbackPulse
<1>5. DeviceTypeOK'
  BY DEF Loopback, LoopbackStart, SkipLoopback, CopyToEp1, EndLoopbackPulse,
         LoopbackWaits, DeviceTypeOK, WriteFifo, ReadFifo
<1> QED
  BY <1>3, <1>4, <1>5, <1>6

-----------------------------------------------------------------------------
\* The types of the two controllers, of the peer and of the histories.
ControllersTypeOK ==
    /\ HostTypeOK
    /\ DeviceTypeOK
    /\ PeerTypeOK
    /\ sent \in Seq(Payload) /\ got \in Seq(Payload)

LEMMA TypeParts == TypeOK <=> ControlTypeOK /\ ControllersTypeOK
BY DEF TypeOK, ControlTypeOK, ControllersTypeOK

LEMMA ControllersStutterType ==
    ASSUME ControllersTypeOK, UNCHANGED controllerVars
    PROVE  ControllersTypeOK'
BY DEF ControllersTypeOK, controllerVars, hostVars, deviceVars, peerVars, historyVars,
       HostTypeOK, DeviceTypeOK, PeerTypeOK

\* The managers' variables stay where only the controllers run.
LEMMA ManagersStutterType ==
    ASSUME ControlTypeOK, KernelTypeOK',
           UNCHANGED <<roleManagerVars, drdControllerVars, ghosts>>
    PROVE  ControlTypeOK'
BY DEF ControlTypeOK, StimuliTypeOK, RoleManagerTypeOK, DrdControllerTypeOK,
       roleManagerVars, drdControllerVars, ghosts

\* The host thread, with whatever its packet causes at the peer and the device.
LEMMA HostProcessType ==
    ASSUME TypeOK, HostProcess, UNCHANGED <<roleManagerVars, drdControllerVars, ghosts>>
    PROVE  TypeOK'
<1> USE DEF TypeOK
<1>1. CASE HostSends = NoPacket
  <2>1. /\ HostMain(NoData, TRUE)
        /\ UNCHANGED <<deviceVars, peerVars, historyVars, notified>>
    BY <1>1 DEF HostProcess
  <2>2. /\ HostTypeOK' /\ sig' = sig /\ nxt' \in Signals
        /\ ready' \subseteq Process /\ timer' \in [Thread -> Nat]
    BY <2>1, HostMainType DEF Bytes
  <2>3. ControllersTypeOK'
    BY <2>1, <2>2 DEF ControllersTypeOK, deviceVars, peerVars, historyVars, DeviceTypeOK,
       PeerTypeOK
  <2>4. KernelTypeOK'
    BY <2>1, <2>2 DEF KernelTypeOK
  <2> QED
    BY <2>3, <2>4, ManagersStutterType, TypeParts DEF ControllersTypeOK, ControlTypeOK
<1>2. CASE HostSends # NoPacket
  <2>1. PICK outcome \in PeerOutcomes(HostSends), ok \in PeerResponses :
            LET answer == outcome.answer
            IN  /\ HostMain(IF Recipient(answer) = "HOST" THEN answer.data ELSE NoData, ok)
                /\ DeviceSees(answer)
                /\ Log(answer)
                /\ IF outcome.performs THEN PeerReceive(HostSends)
                                       ELSE UNCHANGED peerVars
    BY <1>2 DEF HostProcess
  <2> DEFINE answer == outcome.answer
             reply == IF Recipient(answer) = "HOST" THEN answer.data ELSE NoData
  <2>2. HostSends \in Packets
         /\ (HostSends.type = "BULK_OUT" => HostSends.data \in Payload \cup {NoData})
    BY HostSendsType
  <2>3. answer \in Packets /\ answer.type # "BULK_OUT"
    BY <2>2, OutcomeType
  <2>4. reply \in Bytes /\ ok \in BOOLEAN
    BY <2>3 DEF Packets, Bytes, PeerResponses
  <2>5. /\ HostTypeOK' /\ sig' = sig /\ nxt' \in Signals
        /\ ready' \subseteq Process /\ timer' \in [Thread -> Nat]
    <3>1. HostMain(reply, ok)
      BY <2>1
    <3> HIDE DEF reply
    <3> QED
      BY <2>4, <3>1, HostMainType
  <2>6. DeviceTypeOK' /\ notified' \subseteq Event
    BY <2>1, <2>3, DeviceSeesType DEF KernelTypeOK
  <2>7. sent' \in Seq(Payload) /\ got' \in Seq(Payload)
    BY <2>1, <2>3, LogType
  <2>8. PeerTypeOK'
    BY <2>1, <2>2, PeerReceiveType DEF PeerTypeOK, peerVars
  <2>9. KernelTypeOK'
    BY <2>5, <2>6 DEF KernelTypeOK
  <2> QED
    BY <2>5, <2>6, <2>7, <2>8, <2>9, ManagersStutterType, TypeParts
    DEF ControllersTypeOK, ControlTypeOK
<1> QED
  BY <1>1, <1>2

\* A packet from a peer that acts as the host, in any role of the DRD.
LEMMA UpstreamCallType ==
    ASSUME TypeOK, NEW p \in Upstream, UpstreamCall(p), UNCHANGED idle
    PROVE  TypeOK'
<1> USE DEF TypeOK
<1>1. p \in Packets /\ (p.type = "BULK_OUT" => p.data \in Payload)
  OBVIOUS
<1>2. HostTypeOK'
  <2>1. Received(m_resp, p.data) \in Data \cup {NoData}
    BY <1>1 DEF Received, Packets, HostTypeOK
  <2> QED
    BY <2>1 DEF UpstreamCall, HostReceive, hostVars, HostTypeOK
<1>3. DeviceTypeOK' /\ notified' \subseteq Event
  BY <1>1, DeviceSeesType DEF UpstreamCall, KernelTypeOK
<1>4. sent' \in Seq(Payload) /\ got' \in Seq(Payload)
  BY <1>1, LogType DEF UpstreamCall
<1>5. PeerTypeOK'
  BY <1>1, DeviceReplyType, PeerReceiveType DEF UpstreamCall
<1>6. nxt' \in Signals
  <2>1. m_configured' \in BOOLEAN
    BY <1>3 DEF DeviceTypeOK
  <2> QED
    BY <2>1 DEF UpstreamCall, KernelTypeOK, Signals
<1>7. timer' \in [Thread -> Nat]
  BY DEF UpstreamCall, KernelTypeOK
<1>8. KernelTypeOK'
  BY <1>3, <1>6, <1>7 DEF UpstreamCall, KernelTypeOK
<1>9. UNCHANGED <<roleManagerVars, drdControllerVars, ghosts>>
  BY DEF UpstreamCall, ghosts
<1> QED
  BY <1>2, <1>3, <1>4, <1>5, <1>8, <1>9, ManagersStutterType, TypeParts
  DEF ControllersTypeOK, ControlTypeOK

\* A transfer that the testbench queues.
LEMMA QueueTransferType ==
    ASSUME TypeOK, NEW t \in Transfers, QueueTransfer(t[1], t[2]), UNCHANGED idle
    PROVE  TypeOK'
<1> USE DEF TypeOK
<1>1. t[1] \in Direction /\ t[2] \in Payload \cup {NoData}
  OBVIOUS
<1> DEFINE trb == [dir |-> t[1], addr |-> m_dev.addr, data |-> t[2]]
<1>2. trb \in Trb
  BY <1>1 DEF Trb, HostTypeOK
<1> HIDE DEF trb
<1>3. m_transfer_ring' = Append(m_transfer_ring, trb) /\ Len(m_transfer_ring) < RingDepth
  BY DEF QueueTransfer, Enqueue, EnqueueTrb, trb
<1>4. m_transfer_ring' \in Seq(Trb) /\ Len(m_transfer_ring') <= RingDepth
  BY <1>2, <1>3 DEF HostTypeOK
<1>5. HostTypeOK'
  BY <1>4 DEF QueueTransfer, Enqueue, EnqueueTrb, HostTypeOK
<1>6. KernelTypeOK'
  BY DEF QueueTransfer, Enqueue, EnqueueTrb, KernelTypeOK, Event
<1>7. UNCHANGED <<roleManagerVars, drdControllerVars, ghosts, deviceVars, peerVars,
                  historyVars>>
  BY DEF QueueTransfer, Enqueue, ghosts
<1> QED
  BY <1>5, <1>6, <1>7, ManagersStutterType, TypeParts
  DEF ControllersTypeOK, ControlTypeOK, deviceVars, peerVars, historyVars, DeviceTypeOK,
      PeerTypeOK

\* Every step of the DRD keeps every variable's type; the cases are its actions.
LEMMA DrdTypeStep ==
    ASSUME TypeOK, [Next]_vars
    PROVE  TypeOK'
<1> USE TypeParts
<1>0. TypeOK' <=> ControlTypeOK' /\ ControllersTypeOK'
  BY DEF TypeOK, ControlTypeOK, ControllersTypeOK
<1>1. CASE /\ ControlProcess \/ Stimulate \/ Software
           /\ UNCHANGED <<idle, controllerVars>>
  BY <1>0, <1>1, ControlStepType, ControllersStutterType
<1>2. CASE HostProcess /\ UNCHANGED <<roleManagerVars, drdControllerVars, ghosts>>
  BY <1>2, HostProcessType
<1>3. CASE /\ Loopback
           /\ UNCHANGED <<roleManagerVars, drdControllerVars, hostVars, peerVars,
                          historyVars, ghosts>>
  <2>1. /\ DeviceTypeOK' /\ UNCHANGED <<sig, notified>> /\ nxt' \in Signals
        /\ ready' \subseteq Process /\ timer' \in [Thread -> Nat]
    BY <1>3, LoopbackType DEF TypeOK
  <2>2. KernelTypeOK'
    BY <2>1 DEF TypeOK, KernelTypeOK
  <2>3. ControlTypeOK'
    BY <1>3, <2>2, ManagersStutterType
  <2>4. ControllersTypeOK'
    BY <1>3, <2>1 DEF ControllersTypeOK, hostVars, peerVars, historyVars, HostTypeOK,
       PeerTypeOK
  <2> QED
    BY <1>0, <2>3, <2>4
<1>4. ASSUME NEW t \in Transfers, QueueTransfer(t[1], t[2]), UNCHANGED idle
      PROVE  TypeOK'
  BY <1>4, QueueTransferType
<1>5. ASSUME NEW p \in Upstream, UpstreamCall(p), UNCHANGED idle
      PROVE  TypeOK'
  BY <1>5, UpstreamCallType
<1>6. CASE Update
  <2>1. Woken \in SUBSET Process
    BY DEF Woken
  <2> QED
    BY <1>0, <1>6, <2>1, UpdateType, ControllersStutterType DEF Update
<1>7. CASE Tick
  BY <1>0, <1>7, TickType, ControllersStutterType DEF Tick
<1>8. CASE UNCHANGED vars
  BY <1>0, <1>8, ControlStutterType, ControllersStutterType DEF vars
<1>9. CASE RunProcess
  <2>1. \/ ControlProcess /\ UNCHANGED controllerVars
        \/ HostProcess /\ UNCHANGED <<roleManagerVars, drdControllerVars, ghosts>>
        \/ /\ Loopback
           /\ UNCHANGED <<roleManagerVars, drdControllerVars, hostVars, peerVars,
                          historyVars, ghosts>>
    BY <1>9 DEF RunProcess, ControlProcess
  <2>2. ASSUME ControlProcess, UNCHANGED controllerVars PROVE TypeOK'
    BY <1>1, <2>2 DEF ControlProcess, ghosts
  <2>3. ASSUME HostProcess, UNCHANGED <<roleManagerVars, drdControllerVars, ghosts>>
        PROVE  TypeOK'
    BY <1>2, <2>3
  <2> QED
    BY <1>3, <2>1, <2>2, <2>3
<1>10. CASE Environment
  BY <1>1, <1>4, <1>5, <1>10 DEF Environment
<1> QED
  BY <1>6, <1>7, <1>8, <1>9, <1>10 DEF Next

\* The initial values have the right types.
LEMMA DrdTypeInit == Init => TypeOK
<1> SUFFICES ASSUME Init PROVE TypeOK
  OBVIOUS
<1>1. ControlTypeOK
  BY ControlInitType DEF Init
<1>2. HostTypeOK
  BY DEF Init, HostInit, HostTypeOK, NoDevice, Request
<1>3. DeviceTypeOK
  <2>1. DeviceInit
    BY DEF Init
  <2> QED
    <3>1. m_configured \in BOOLEAN
      BY <2>1 DEF DeviceInit
    <3> QED
      BY <2>1, <3>1, AddrRangeAssumption DEF DeviceInit, DeviceTypeOK
<1>4. PeerTypeOK
  <2>1. PeerInit
    BY DEF Init
  <2> QED
    <3>1. peer_configured \in BOOLEAN
      BY <2>1 DEF PeerInit
    <3> QED
      BY <2>1, <3>1, AddrRangeAssumption DEF PeerInit, PeerTypeOK
<1> QED
  BY <1>1, <1>2, <1>3, <1>4, TypeParts DEF Init, ControllersTypeOK

\* Every variable of the DRD keeps its type, under any stimuli, transfers and
\* packets and with any peer: among other things, no address leaves its range,
\* the ring does not overflow, and no data but those of a bulk transfer come
\* into the histories.
THEOREM DrdTypeCorrect == Spec => []TypeOK
BY DrdTypeInit, DrdTypeStep, PTL DEF Spec
=============================================================================
