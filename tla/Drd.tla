-------------------------------- MODULE Drd --------------------------------
(***************************************************************************)
(* The whole DRD between the testbench and the peer: role manager, top     *)
(* level, host controller, device controller and protocol layer, driven by *)
(* the stimuli of the testbench, by the transfers it queues at the host    *)
(* controller and by the packets of a peer that acts as the host.          *)
(***************************************************************************)
EXTENDS Stimuli, HostController, DeviceController, PeerDevice, SequencesExt

CONSTANTS
    Transfers,      \* the <<direction, data>> that the testbench queues
    Upstream        \* the packets that the peer sends when it acts as the host;
                    \* those of a bulk transfer carry data of one

ASSUME TrafficAssumption ==
    /\ Transfers \subseteq Direction \X (Payload \cup {NoData})
    /\ Upstream \subseteq Packets
    /\ \A p \in Upstream : p.type = "BULK_OUT" => p.data \in Payload

VARIABLES
    sent,       \* ghost: the data of the BULK_OUT packets that the device took
    got         \* ghost: the bulk data that it returned in BULK_IN packets

historyVars == <<sent, got>>

controllerVars == <<hostVars, deviceVars, peerVars, historyVars>>

vars == <<kernelVars, roleManagerVars, drdControllerVars, ghosts, controllerVars>>

TypeOK ==
    /\ KernelTypeOK
    /\ RoleManagerTypeOK
    /\ DrdControllerTypeOK
    /\ StimuliTypeOK
    /\ HostTypeOK
    /\ DeviceTypeOK
    /\ PeerTypeOK
    /\ sent \in Seq(Payload) /\ got \in Seq(Payload)

\* interrupt_collector alone has dont_initialize().
Init ==
    /\ KernelInit(Process \ {"interrupt_collector"})
    /\ RoleManagerInit
    /\ DrdControllerInit
    /\ StimuliInit
    /\ HostInit
    /\ DeviceInit
    /\ PeerInit
    /\ sent = <<>> /\ got = <<>>

-----------------------------------------------------------------------------
\* What a packet from the link does to the device controller, if that is where
\* it goes.  The device's answer is received by the peer as PeerReceive says.
DeviceSees(p) ==
    IF Recipient(p) = "DEVICE"
    THEN DeviceReceive(p)
    ELSE UNCHANGED <<deviceVars, notified>>

\* The packet with which the device answers p.
DeviceReply(p) ==
    IF Recipient(p) = "DEVICE" /\ sig.dev_enable THEN DeviceAnswer(p) ELSE NoPacket

Log(p) ==
    /\ sent' = IF /\ Recipient(p) = "DEVICE" /\ sig.dev_enable
                  /\ p.type = "BULK_OUT"
               THEN Append(sent, p.data) ELSE sent
    /\ got' = IF DeviceReply(p).type = "BULK_IN" /\ DeviceReply(p).data \in Payload
              THEN Append(got, DeviceReply(p).data) ELSE got

\* The host thread runs.  What it sends goes to the link in every role; what
\* the peer answers in the call goes to the controller of the current role,
\* which may be the device by now.
HostProcess ==
    \/ /\ HostSends = NoPacket
       /\ HostMain(NoData, TRUE)
       /\ UNCHANGED <<deviceVars, peerVars, historyVars, notified>>
    \/ /\ HostSends # NoPacket
       /\ \E outcome \in PeerOutcomes(HostSends), ok \in PeerResponses :
             LET answer == outcome.answer
             IN  /\ HostMain(IF Recipient(answer) = "HOST" THEN answer.data ELSE NoData, ok)
                 /\ DeviceSees(answer)
                 /\ Log(answer)
                 /\ IF outcome.performs THEN PeerReceive(HostSends)
                                        ELSE UNCHANGED peerVars

\* bulk_out and bulk_in are not bound to a role, and do not look for room.
Enqueue(dir, data) ==
    /\ EnqueueTrb(dir, data)
    /\ UNCHANGED <<timer, roleManagerVars, drdControllerVars, want, deviceVars,
                   peerVars, historyVars>>

\* A testbench that leaves room in the ring.
QueueTransfer(dir, data) ==
    /\ Len(m_transfer_ring) < RingDepth
    /\ Enqueue(dir, data)

\* upstream_b_transport, called by the thread of a peer that acts as the host.
\* SET_ADDRESS holds it for AddressTime.  Each payload is sent once, so that it
\* tells the transfers apart.
UpstreamCall(p) ==
    /\ timer[PeerHost] = 0
    /\ p.type = "BULK_OUT" => ~Contains(sent, p.data)
    /\ IF Recipient(p) = "HOST" THEN HostReceive(p) ELSE UNCHANGED hostVars
    /\ DeviceSees(p)
    /\ Log(p)
    /\ PeerReceive(DeviceReply(p))
    /\ nxt' = [nxt EXCEPT !.configured = m_configured']
    /\ timer' = IF /\ Recipient(p) = "DEVICE" /\ sig.dev_enable
                   /\ IsSetup(p, "set_address")
                THEN [timer EXCEPT ![PeerHost] = AddressTime] ELSE timer
    /\ UNCHANGED <<sig, ready, roleManagerVars, drdControllerVars, want>>

Environment ==
    /\ \/ (Stimulate \/ Software) /\ UNCHANGED controllerVars
       \/ \E t \in Transfers : QueueTransfer(t[1], t[2])
       \/ \E p \in Upstream : UpstreamCall(p)
    /\ UNCHANGED idle

-----------------------------------------------------------------------------
RunProcess ==
    /\ \/ RoleDetection /\ UNCHANGED <<drdControllerVars, controllerVars>>
       \/ (ForwardInputs \/ RoleSwitch \/ InterruptCollector)
             /\ UNCHANGED controllerVars
       \/ HostProcess /\ UNCHANGED <<roleManagerVars, drdControllerVars>>
       \/ Loopback
             /\ UNCHANGED <<roleManagerVars, drdControllerVars, hostVars, peerVars,
                            historyVars>>
    /\ UNCHANGED ghosts

Woken ==
    {p \in Process : \/ p = "forward_inputs" /\ ForwardInputsWoken
                     \/ p = "role_detection_process" /\ RoleDetectionWoken
                     \/ p = "role_switch_monitor" /\ RoleSwitchWoken
                     \/ p = "interrupt_collector" /\ InterruptCollectorWoken
                     \/ p = "host_main_process" /\ HostMainWoken
                     \/ p = "loopback_process" /\ LoopbackWoken}

Update ==
    /\ DeltaCycle(Woken)
    /\ IdleAfterUpdate
    /\ UNCHANGED <<roleManagerVars, drdControllerVars, want, controllerVars>>

\* Time also passes while nothing here waits for it: the testbench may take
\* longer than it has to.
Tick ==
    /\ AdvanceTime
    /\ IdleAfterTick
    /\ UNCHANGED <<roleManagerVars, drdControllerVars, want, controllerVars>>

Next == Environment \/ RunProcess \/ Update \/ Tick

Spec == Init /\ [][Next]_vars

FairSpec == Spec /\ WF_vars(RunProcess) /\ WF_vars(Update) /\ WF_vars(Tick)

-----------------------------------------------------------------------------
(***************************************************************************)
(* The DRD as host of a peer that may stall a control transfer, leave it   *)
(* unanswered or fail its status stage, and of a role that comes and goes. *)
(***************************************************************************)

\* Host, peer and software agree on a peer that counts as enumerated: it is
\* configured, has as much of the address that the host uses for it as a device
\* keeps, and software finds that address in DEV_ADDR.  (AddressInRange asks
\* whether the address is one that a device keeps in full.)
EnumeratedPeer ==
    m_dev.enumerated =>
        /\ peer_configured
        /\ peer_addr = m_dev.addr % AddrRange
        /\ ~UpdatePending => ReadRegister("DEV_ADDR") = m_dev.addr

\* The vendor and product that the host knows are those of a device descriptor,
\* and not of whatever else has been left in m_resp_data by a request that
\* failed, in this enumeration or in an earlier one.
KnownByDescriptor == m_dev.ids \in {NoData, "device_descriptor"}

\* A response is taken by the request that caused it: between two transfers
\* there is none left over for a later one (m_resp_valid), the bytes of a stall
\* excepted, which the host stores like data.
ResponseTaken ==
    host_pc \in {"disabled", "settle", "idle"} => m_resp \in {NoData, "stall_bytes"}

\* A host that stays enabled comes to its ring: its enumeration begins, and
\* whatever the peer does, it succeeds or is given up (the early returns of
\* enumerate_device).
EnumerationEnds ==
    sig.host_enable
        ~> (host_pc \in {"enum_pulse", "idle", "xfer_pulse"} \/ ~sig.host_enable)

\* No transfer waits in the ring for a wake-up that came too early
\* (m_trb_complete_event is notified whether or not the thread waits for it).
TransferRuns ==
    (m_transfer_ring # <<>> /\ sig.host_enable)
        ~> (host_pc = "xfer_pulse" \/ ~sig.host_enable)

(***************************************************************************)
(* The DRD as device of a peer that acts as the host.                      *)
(***************************************************************************)

\* The latest transfer is never lost: it has been returned, or is in one of the
\* two FIFOs (loopback_process, usb3_ep_fifo_t).
LatestKept ==
    sent # <<>> =>
        Last(sent) \in {m_ep1_in, m_ep2_out} \/ Contains(got, Last(sent))

\* Of the data of the two endpoints, those of the bulk transfers.
BulkData(fifo) == IF fifo \in Payload THEN <<fifo>> ELSE <<>>

\* The two FIFOs and the thread that moves data between them implement a pipe
\* that loses data at well-defined points only: when a transfer overwrites the
\* one before it in EP2, and when a copy overwrites the one before it in EP1
\* (loopback_process, usb3_ep_fifo_t).
Pipe == INSTANCE LossyPipe WITH
            Data <- Payload,
            pipe <- BulkData(m_ep1_in) \o BulkData(m_ep2_out)

PipeSpec == Pipe!Spec

\* EP1 returns the data of EP2 in the order in which they came and none of them
\* twice, and so will what the FIFOs still hold, however the packets, the
\* loopback thread and changes of the role interleave, and whatever control data
\* take the same way.
LoopbackInOrder == Pipe!InOrder

\* Two copies never share a bulk_irq pulse, however fast the transfers follow
\* one another: a copy finds the signal low (loopback_process; compare
\* EachTransferPulses).
EachCopyPulses ==
    [][loop_pc # "pulse" /\ loop_pc' = "pulse" => ~sig.bulk_irq /\ ~nxt.bulk_irq]_vars

\* Data that a configured device gets while the thread waits for them are moved
\* to EP1: neither SET_CONFIGURATION nor a role change in between makes the
\* thread miss them (wait for m_out_ep_event).
DataMoved ==
    (m_configured /\ loop_pc = "wait" /\ "m_out_ep_event" \in notified)
        ~> (m_ep2_out = NoData)

(***************************************************************************)
(* What the comments say of the host controller.                           *)
(***************************************************************************)

\* "m_resp_* is valid after return" (ctrl_transfer): a read has its data when
\* the call that sent the request returns.
RespValidAfterReturn ==
    host_pc = "setup" /\ host_request \in {"get_device", "get_config", "get_bos"} =>
        m_resp # NoData

\* "transfer_done pulses when it completes" (bulk_out, bulk_in): a transfer
\* completes with transfer_done low, so that it gives a pulse of its own.
EachTransferPulses ==
    [][Len(m_transfer_ring') < Len(m_transfer_ring) => ~sig.xfer_done]_vars

\* "usb device address (0-127)" (usb3_pkt_ext_t).
AddressInRange == HostSends.addr < AddrRange

\* "enumerate a device, then walk a simple trb ring" (host controller): a DRD
\* that becomes host again and again enumerates again and again.
Reenumerates ==
    []<>sig.host_enable /\ []<>(~sig.host_enable) => []<>sig.enum_done

-----------------------------------------------------------------------------
(***************************************************************************)
(* DrdCore is a sound reduction of the DRD: whatever the controllers do,   *)
(* it looks to the rest like their three pulses.                           *)
(***************************************************************************)
Pulsing ==
    {p \in Process : \/ p = "host_main_process" /\ host_pc \in {"enum_pulse", "xfer_pulse"}
                     \/ p = "loopback_process" /\ loop_pc = "pulse"}

CoreProcess == Process \ {"host_main_process", "loopback_process"}

CoreSignals(s) == [s EXCEPT !.dev_addr = 0, !.configured = FALSE]

Core == INSTANCE DrdCore WITH
            Pulses <- {"transfer_done", "enumeration_done", "bulk_irq"},
            sig <- CoreSignals(sig),
            nxt <- CoreSignals(nxt),
            notified <- notified \cap {"m_role_request_event"},
            ready <- ready \cap (CoreProcess \cup Pulsing),
            timer <- [t \in Thread |->
                         IF t \in CoreProcess \cup Pulsing \cup {Testbench}
                         THEN timer[t] ELSE 0]

\* Every step of the DRD is a step of DrdCore, or none: the properties of
\* DrdCore hold of the role switch and the interrupts of the whole DRD.
CoreSpec == Core!Spec
=============================================================================
