------------------------------- MODULE MCDrd -------------------------------
(***************************************************************************)
(* Instances of Drd for TLC.                                               *)
(***************************************************************************)
EXTENDS Drd

HostOnly == {<<"CC_UFP_ATTACHED", TRUE>>}

HostOrNone == {<<"CC_UFP_ATTACHED", TRUE>>, <<"CC_UFP_ATTACHED", FALSE>>}

DeviceOnly == {<<"CC_DFP_ATTACHED", TRUE>>}

DeviceOrNone == {<<"CC_DFP_ATTACHED", TRUE>>, <<"CC_DFP_ATTACHED", FALSE>>}

HostAndDevice == HostOnly \cup DeviceOnly

Nothing == {}

AllBits == {IntrBit}

AllFaults == {"silent", "stall", "error"}

\* The names of the payloads tell the transfers of a run apart.
Payloads == {"a", "b", "c"}

OneOut == {<<"OUT", "a">>}

OneOutOneIn == {<<"OUT", "a">>, <<"IN", NoData>>}

ConfigOnly == {SetupPacket(1, "set_config", 1)}

\* The control transfers with which a host gets to know the device, one that the
\* device does not know, and the stage that ends each of them.
ControlTraffic ==
    {SetupPacket(0, "set_address", 1), Packet("CTRL_STATUS", 1, NoData)}
        \cup {SetupPacket(1, request, 0) :
                  request \in DOMAIN Answer \cup {"unknown"}}

BulkTraffic == ConfigOnly \cup {Packet("BULK_IN", 1, NoData)}
                          \cup {Packet("BULK_OUT", 1, d) : d \in Payload}

DeviceTraffic == ControlTraffic \cup BulkTraffic
=============================================================================
