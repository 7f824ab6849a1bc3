------------------------------ MODULE MCDriver ------------------------------
(***************************************************************************)
(* Instances of InterruptDriver for TLC.                                   *)
(***************************************************************************)
EXTENDS InterruptDriver

HostAndDevice == {<<"CC_UFP_ATTACHED", TRUE>>, <<"CC_DFP_ATTACHED", TRUE>>}

Nothing == {}

OnePayload == {"a"}

OneOut == {<<"OUT", "a">>}

\* A peer that acts as the host configures the device and sends it data once.
OneLoopback == {SetupPacket(1, "set_config", 1), Packet("BULK_OUT", 1, "a")}
=============================================================================
