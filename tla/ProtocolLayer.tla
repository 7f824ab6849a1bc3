--------------------------- MODULE ProtocolLayer ---------------------------
(***************************************************************************)
(* The packets of usb3_types.h and usb3_protocol_layer_t, which passes     *)
(* what the two controllers send to the link as it is, and what comes from *)
(* the link to the controller of the current role.  Sequence numbers are   *)
(* left out: they are assigned and logged, and nothing reads them.         *)
(***************************************************************************)
EXTENDS Kernel

CONSTANTS
    Payload,    \* the data of a bulk transfer, none of them empty
    AddrRange   \* a device address has seven bits (128)

ASSUME AddrRangeAssumption == AddrRange \in Nat \ {0}

NoData == "no_data"

\* The data of control transfers: the eight bytes of a SETUP, the descriptors,
\* the reply to GET_STATUS or to a status stage, and the buffer of a TP_STALL.
ControlData == {"setup_bytes", "device_descriptor", "config_descriptor",
                "bos_descriptor", "string_descriptor", "status_bytes",
                "stall_bytes"}

ASSUME PayloadAssumption == Payload \cap (ControlData \cup {NoData}) = {}

Data == Payload \cup ControlData

\* Mutant: the length of the response is not checked.
AtLeast18Bytes_Unchecked == Data

\* The buffers in which the host looks for the fields of a device descriptor.
\* Of the strings, manufacturer and product have 18 bytes each; the shorter
\* ones are not told apart from them.
AtLeast18Bytes ==
    Payload \cup {"device_descriptor", "config_descriptor", "string_descriptor"}

Request == {"get_device", "set_address", "get_config", "get_bos", "get_string",
            "set_config", "get_status", "unknown"}

\* The data with which a device answers a request, as far as it has any.
Answer == [get_device |-> "device_descriptor", get_config |-> "config_descriptor",
           get_bos |-> "bos_descriptor", get_string |-> "string_descriptor",
           get_status |-> "status_bytes"]

PacketType == {"TP_ACK", "TP_NRDY", "TP_ERDY", "TP_STALL", "DP_DATA", "SETUP",
               "CTRL_DATA", "CTRL_STATUS", "BULK_IN", "BULK_OUT"}

\* request and value only mean something in a SETUP packet.
Packets == [type : PacketType, addr : Nat, request : Request, value : Nat,
            data : Data \cup {NoData}]

Packet(type, addr, data) ==
    [type |-> type, addr |-> addr, request |-> "unknown", value |-> 0, data |-> data]

SetupPacket(addr, request, value) ==
    [type |-> "SETUP", addr |-> addr, request |-> request, value |-> value,
     data |-> "setup_bytes"]

IsSetup(p, request) == p.type = "SETUP" /\ p.request = request

NoPacket == Packet("TP_ACK", 0, NoData)

\* Where a packet from the link goes: handle_rx keeps three kinds for itself
\* and forwards all others by current_role, whichever controller is enabled.
Recipient(p) ==
    IF p.type \in {"TP_ACK", "TP_NRDY", "TP_ERDY"} THEN "NONE" ELSE sig.role
=============================================================================
