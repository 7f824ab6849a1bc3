--------------------------- MODULE HostController ---------------------------
(***************************************************************************)
(* usb3_host_controller_t: one thread that enumerates the device when the  *)
(* controller is enabled and then works through the ring of bulk transfers *)
(* for as long as it stays enabled.  Only the ring and the wait for enable *)
(* look at enable; an enumeration once begun runs to its end.              *)
(*                                                                         *)
(* Each action is one run of the thread from a wait to the next.  A packet *)
(* is sent by a nested call, so the answer arrives before the call         *)
(* returns: in every action that sends, reply is the data that             *)
(* from_protocol_b_transport gets during the call, NoData if it is not     *)
(* called, and HostSends is the packet.  Whether the call notifies an      *)
(* event elsewhere in the DRD is left to the composition.                  *)
(***************************************************************************)
EXTENDS ProtocolLayer, Sequences

CONSTANTS
    SetupTime,          \* the wait after SETUP (5 us)
    StatusTime,         \* the wait after the status stage (2 us)
    AddressTime,        \* the wait after SET_ADDRESS (2 ms)
    EnumPulseTime,      \* enumeration_done stays high (10 ns)
    XferPulseTime,      \* transfer_done stays high (1 ns)
    AddrModulus,        \* m_next_addr is a uint8_t (256)
    RingDepth           \* RING_DEPTH (256)

ASSUME HostTimesAssumption ==
    {SetupTime, StatusTime, AddressTime, EnumPulseTime, XferPulseTime}
        \subseteq Nat \ {0}
ASSUME HostSizesAssumption ==
    AddrModulus \in Nat \ {0, 1} /\ RingDepth \in Nat \ {0}

VARIABLES
    m_next_addr,
    m_dev,              \* ids stands for what the device descriptor says
    m_transfer_ring,
    m_rx_buf,
    m_resp,             \* m_resp_data when m_resp_valid, else NoData
    host_pc,            \* where host_main_process stands
    host_request,       \* the control transfer in progress
    host_ok,            \* its response status
    desc_buf            \* the local variable of enumerate_device

hostVars == <<m_next_addr, m_dev, m_transfer_ring, m_rx_buf, m_resp, host_pc,
              host_request, host_ok, desc_buf>>

Direction == {"OUT", "IN"}

Trb == [dir : Direction, addr : Nat, data : Payload \cup {NoData}]

NoDevice == [addr |-> 0, ids |-> NoData, enumerated |-> FALSE]

HostTypeOK ==
    /\ m_next_addr \in 0 .. AddrModulus - 1
    /\ m_dev \in [addr : 0 .. AddrModulus - 1, ids : Data \cup {NoData},
                  enumerated : BOOLEAN]
    /\ m_transfer_ring \in Seq(Trb) /\ Len(m_transfer_ring) <= RingDepth
    /\ m_rx_buf \in Data \cup {NoData}
    /\ m_resp \in Data \cup {NoData}
    /\ host_pc \in {"start", "disabled", "setup", "status", "settle",
                    "enum_pulse", "idle", "xfer_pulse"}
    /\ host_request \in Request
    /\ host_ok \in BOOLEAN
    /\ desc_buf \in Data \cup {NoData}

HostInit ==
    /\ m_next_addr = 1
    /\ m_dev = NoDevice
    /\ m_transfer_ring = <<>>
    /\ m_rx_buf = NoData
    /\ m_resp = NoData
    /\ host_pc = "start"
    /\ host_request = "get_device"
    /\ host_ok = TRUE
    /\ desc_buf = NoData

-----------------------------------------------------------------------------
\* Mutant: a counter wider than a byte.
NextAddr_Wide == m_next_addr + 1

\* m_next_addr++
NextAddr == (m_next_addr + 1) % AddrModulus

\* Mutant: the address after the one that the device was given.
NewAddr_Incremented == m_next_addr

\* new_addr of enumerate_device, once m_next_addr has been incremented.
NewAddr == (m_next_addr + AddrModulus - 1) % AddrModulus

\* The request that follows in the enumeration; after set_address comes a wait
\* and after set_config the end.
Following == [get_device |-> "set_address", get_config |-> "get_bos",
              get_bos |-> "set_config"]

\* Only the BOS is read with best effort.
Failed == ~host_ok /\ host_request # "get_bos"

\* The next run of the thread is in the loop of process_transfer_ring.
InRing ==
    \/ host_pc \in {"idle", "xfer_pulse", "enum_pulse"}
    \/ host_pc = "status" /\ Failed

HostSetup(request) ==
    CASE request = "get_device" -> SetupPacket(0, request, 0)
      [] request = "set_address" -> SetupPacket(0, request, m_next_addr)
      [] request = "set_config" -> SetupPacket(m_dev.addr, request, 1)
      [] OTHER -> SetupPacket(m_dev.addr, request, 0)

\* The packet that the next run of the thread sends, NoPacket if it sends none.
HostSends ==
    CASE host_pc = "disabled" -> HostSetup("get_device")
      [] host_pc = "setup" ->
            Packet("CTRL_STATUS",
                   IF host_request = "set_address" THEN 0 ELSE m_dev.addr, NoData)
      [] host_pc = "status" /\ ~Failed /\ host_request \in DOMAIN Following ->
            HostSetup(Following[host_request])
      [] host_pc = "settle" -> HostSetup("get_config")
      [] InRing /\ sig.host_enable /\ m_transfer_ring # <<>> ->
            LET trb == Head(m_transfer_ring)
            IN  Packet(IF trb.dir = "OUT" THEN "BULK_OUT" ELSE "BULK_IN",
                       trb.addr, trb.data)
      [] OTHER -> NoPacket

\* Mutant: what answers the best-effort read of the BOS is not taken.
Reads_NotBos == host_request \in {"get_device", "get_config"}

\* The control transfers with a data stage.
Reads == host_request \in {"get_device", "get_config", "get_bos"}

\* from_protocol_b_transport: the last data that arrives replaces m_resp.
Received(resp, reply) == IF reply = NoData THEN resp ELSE reply

-----------------------------------------------------------------------------
\* enumerate_device returns: its local variables and those of ctrl_transfer end.
LocalsEnd ==
    /\ host_request' = "get_device"
    /\ host_ok' = TRUE
    /\ desc_buf' = NoData

HostRuns(pc) == "host_main_process" \in ready /\ host_pc = pc

HostWaits(pc, d) == host_pc' = pc /\ Wait("host_main_process", d)

\* The first half of ctrl_transfer, up to the wait after SETUP.
SendSetup(request, reply) ==
    /\ host_request' = request
    /\ m_resp' = Received(m_resp, reply)
    /\ HostWaits("setup", SetupTime)

\* enable is low at the first look.
HostStart ==
    /\ HostRuns("start")
    /\ nxt' = [nxt EXCEPT !.xfer_done = FALSE, !.enum_done = FALSE, !.dev_addr = 0]
    /\ HostWaits("disabled", 0)
    /\ UNCHANGED <<sig, m_next_addr, m_dev, m_transfer_ring, m_rx_buf,
                   m_resp, host_request, host_ok, desc_buf>>

BeginEnumeration(reply) ==
    /\ HostRuns("disabled")
    /\ m_dev' = NoDevice
    /\ SendSetup("get_device", reply)
    /\ UNCHANGED <<sig, nxt, m_next_addr, m_transfer_ring, m_rx_buf, host_ok,
                   desc_buf>>

\* The data stage of a read is what has arrived by now; the BOS has a buffer of
\* its own.  Then the status stage, to which the device answers with ok.
SendStatus(reply, ok) ==
    /\ HostRuns("setup")
    /\ m_resp' = Received(IF Reads THEN NoData ELSE m_resp, reply)
    /\ desc_buf' = IF Reads /\ host_request # "get_bos" /\ m_resp # NoData
                   THEN m_resp ELSE desc_buf
    /\ host_ok' = ok
    /\ HostWaits("status", StatusTime)
    /\ UNCHANGED <<sig, nxt, m_next_addr, m_dev, m_transfer_ring,
                   m_rx_buf, host_request>>

\* The next control transfer follows without a wait.
ContinueEnumeration(reply) ==
    /\ HostRuns("status")
    /\ ~Failed
    /\ host_request \in DOMAIN Following
    /\ SendSetup(Following[host_request], reply)
    /\ m_dev' = IF host_request = "get_device" /\ desc_buf \in AtLeast18Bytes
                THEN [m_dev EXCEPT !.ids = desc_buf] ELSE m_dev
    /\ m_next_addr' = IF host_request = "get_device"
                      THEN NextAddr ELSE m_next_addr
    /\ UNCHANGED <<sig, nxt, m_transfer_ring, m_rx_buf, host_ok, desc_buf>>

SettleAddress ==
    /\ HostRuns("status")
    /\ ~Failed
    /\ host_request = "set_address"
    /\ m_dev' = [m_dev EXCEPT !.addr = NewAddr]
    /\ nxt' = [nxt EXCEPT !.dev_addr = NewAddr]
    /\ HostWaits("settle", AddressTime)
    /\ UNCHANGED <<sig, m_next_addr, m_transfer_ring, m_rx_buf, m_resp,
                   host_request, host_ok, desc_buf>>

ReadConfiguration(reply) ==
    /\ HostRuns("settle")
    /\ SendSetup("get_config", reply)
    /\ UNCHANGED <<sig, nxt, m_next_addr, m_dev, m_transfer_ring, m_rx_buf,
                   host_ok, desc_buf>>

FinishEnumeration ==
    /\ HostRuns("status")
    /\ ~Failed
    /\ host_request = "set_config"
    /\ m_dev' = [m_dev EXCEPT !.enumerated = TRUE]
    /\ nxt' = [nxt EXCEPT !.enum_done = TRUE]
    /\ HostWaits("enum_pulse", EnumPulseTime)
    /\ LocalsEnd
    /\ UNCHANGED <<sig, m_next_addr, m_transfer_ring, m_rx_buf, m_resp>>

-----------------------------------------------------------------------------
\* One turn of the loop of process_transfer_ring, after the end of a pulse.
\* With enable low the thread is back at its wait for enable.

\* Mutant: transfer_done is not lowered.
PulsesEnded_XferStays == [nxt EXCEPT !.enum_done = FALSE]

PulsesEnded == [nxt EXCEPT !.xfer_done = FALSE, !.enum_done = FALSE]

LeaveRing ==
    /\ "host_main_process" \in ready /\ InRing
    /\ ~sig.host_enable
    /\ nxt' = PulsesEnded
    /\ HostWaits("disabled", 0)
    /\ LocalsEnd
    /\ UNCHANGED <<sig, m_next_addr, m_dev, m_transfer_ring, m_rx_buf, m_resp>>

\* Mutant: an empty ring is polled.
AwaitTrb_Polls ==
    /\ "host_main_process" \in ready /\ InRing
    /\ sig.host_enable
    /\ m_transfer_ring = <<>>
    /\ nxt' = PulsesEnded
    /\ host_pc' = "idle"
    /\ LocalsEnd
    /\ UNCHANGED <<sig, ready, timer, m_next_addr, m_dev, m_transfer_ring, m_rx_buf,
                   m_resp>>

AwaitTrb ==
    /\ "host_main_process" \in ready /\ InRing
    /\ sig.host_enable
    /\ m_transfer_ring = <<>>
    /\ nxt' = PulsesEnded
    /\ HostWaits("idle", 0)
    /\ LocalsEnd
    /\ UNCHANGED <<sig, m_next_addr, m_dev, m_transfer_ring, m_rx_buf, m_resp>>

\* Every TRB has ioc set.
RunTrb(reply) ==
    /\ "host_main_process" \in ready /\ InRing
    /\ sig.host_enable
    /\ m_transfer_ring # <<>>
    /\ m_transfer_ring' = Tail(m_transfer_ring)
    /\ LET resp == Received(m_resp, reply)
           taken == Head(m_transfer_ring).dir = "IN" /\ resp # NoData
       IN  /\ m_rx_buf' = IF taken THEN resp ELSE m_rx_buf
           /\ m_resp' = IF taken THEN NoData ELSE resp
    /\ nxt' = [PulsesEnded EXCEPT !.xfer_done = TRUE]
    /\ HostWaits("xfer_pulse", XferPulseTime)
    /\ LocalsEnd
    /\ UNCHANGED <<sig, m_next_addr, m_dev>>

HostMain(reply, ok) ==
    \/ HostStart
    \/ BeginEnumeration(reply)
    \/ SendStatus(reply, ok)
    \/ ContinueEnumeration(reply)
    \/ SettleAddress
    \/ ReadConfiguration(reply)
    \/ FinishEnumeration
    \/ LeaveRing
    \/ AwaitTrb
    \/ RunTrb(reply)

\* Mutant: the wait is for the negedge of enable.
HostMainWoken_Negedge ==
    \/ host_pc = "disabled" /\ sig.host_enable /\ ~nxt.host_enable
    \/ host_pc = "idle" /\ "m_trb_complete_event" \in notified

HostMainWoken ==
    \/ host_pc = "disabled" /\ ~sig.host_enable /\ nxt.host_enable
    \/ host_pc = "idle" /\ "m_trb_complete_event" \in notified

\* Mutant: the thread is not told.
EnqueueTrb_NoNotify(dir, data) ==
    /\ m_transfer_ring' =
          Append(m_transfer_ring, [dir |-> dir, addr |-> m_dev.addr, data |-> data])
    /\ UNCHANGED <<sig, nxt, notified, ready, m_next_addr, m_dev, m_rx_buf, m_resp,
                   host_pc, host_request, host_ok, desc_buf>>

\* bulk_out and bulk_in, called in the thread of the testbench, which decides
\* what becomes of timer[Testbench].
EnqueueTrb(dir, data) ==
    /\ m_transfer_ring' =
          Append(m_transfer_ring, [dir |-> dir, addr |-> m_dev.addr, data |-> data])
    /\ notified' = notified \cup {"m_trb_complete_event"}
    /\ UNCHANGED <<sig, nxt, ready, m_next_addr, m_dev, m_rx_buf, m_resp, host_pc,
                   host_request, host_ok, desc_buf>>

\* A packet that reaches the host when it has sent nothing.
HostReceive(p) ==
    /\ m_resp' = Received(m_resp, p.data)
    /\ UNCHANGED <<m_next_addr, m_dev, m_transfer_ring, m_rx_buf, host_pc,
                   host_request, host_ok, desc_buf>>
=============================================================================
