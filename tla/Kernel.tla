------------------------------- MODULE Kernel -------------------------------
(***************************************************************************)
(* The part of the SystemC scheduler that the DRD relies on, over the      *)
(* signals that usb3_drd_controller_t declares.                            *)
(*                                                                         *)
(* A simulation alternates three steps.  In the evaluation phase every     *)
(* runnable process runs, in any order, up to its next wait.  What it      *)
(* writes to a signal is not read back until the update phase, in which    *)
(* all writes take effect at once and the events they cause make the       *)
(* processes that wait for them runnable.  When there is nothing left to   *)
(* update, time advances.  An event that fires while nobody waits for it   *)
(* leaves no trace.                                                        *)
(***************************************************************************)
EXTENDS Naturals

\* The SC_THREADs and SC_METHODs of the DRD.
Process == {"forward_inputs", "role_detection_process",
            "role_switch_monitor", "interrupt_collector",
            "host_main_process", "loopback_process"}

\* The threads that drive the DRD from outside: run_scenarios, the peer when it
\* acts as the host and calls the upstream socket, and a driver that waits for
\* irq.
Testbench == "run_scenarios"
PeerHost == "peer_host"
Driver == "driver"

Thread == Process \cup {Testbench, PeerHost, Driver}

VARIABLES
    sig,        \* what a read() returns: the value of every signal
    nxt,        \* the value of every signal after the next update phase
    notified,   \* events with a pending notify(SC_ZERO_TIME)
    ready,      \* the runnable processes
    timer       \* time left in a wait(sc_time), 0 when there is none

kernelVars == <<sig, nxt, notified, ready, timer>>

-----------------------------------------------------------------------------
Role == {"NONE", "HOST", "DEVICE"}

CcState == {"CC_DISCONNECTED", "CC_UFP_ATTACHED", "CC_DFP_ATTACHED"}

Event == {"m_role_request_event", "m_trb_complete_event", "m_out_ep_event"}

\* The external ports (cc, vbus, irq) and the internal signals.
Signals == [cc : CcState, vbus : BOOLEAN, irq : BOOLEAN,
            cc_int : CcState, vbus_int : BOOLEAN,
            role : Role, role_changed : BOOLEAN,
            host_enable : BOOLEAN, dev_enable : BOOLEAN,
            xfer_done : BOOLEAN, enum_done : BOOLEAN, bulk_irq : BOOLEAN,
            dev_addr : Nat, configured : BOOLEAN]

\* An sc_signal starts with the default value of its type.
InitSignals == [cc |-> "CC_DISCONNECTED", vbus |-> FALSE, irq |-> FALSE,
                cc_int |-> "CC_DISCONNECTED", vbus_int |-> FALSE,
                role |-> "NONE", role_changed |-> FALSE,
                host_enable |-> FALSE, dev_enable |-> FALSE,
                xfer_done |-> FALSE, enum_done |-> FALSE, bulk_irq |-> FALSE,
                dev_addr |-> 0, configured |-> FALSE]

KernelTypeOK ==
    /\ sig \in Signals
    /\ nxt \in Signals
    /\ notified \subseteq Event
    /\ ready \subseteq Process
    /\ timer \in [Thread -> Nat]

\* Every process in started runs once when the simulation begins
\* (all of them except a method with dont_initialize()).
KernelInit(started) ==
    /\ sig = InitSignals
    /\ nxt = InitSignals
    /\ notified = {}
    /\ ready = started
    /\ timer = [p \in Thread |-> 0]

-----------------------------------------------------------------------------
\* The running process p reaches a wait: for d units of time, or, when
\* d = 0, for an event.
Wait(p, d) ==
    /\ ready' = ready \ {p}
    /\ timer' = [timer EXCEPT ![p] = d]

UpdatePending == nxt # sig \/ notified # {}

\* The update phase and the delta notifications that follow it; woken is the
\* set of processes that are waiting for one of the events that fire.
DeltaCycle(woken) ==
    /\ ready = {}
    /\ UpdatePending
    /\ sig' = nxt
    /\ notified' = {}
    /\ ready' = woken
    /\ UNCHANGED <<nxt, timer>>

\* One unit of time passes and the waits that end with it are over.
AdvanceTime ==
    /\ ready = {}
    /\ ~UpdatePending
    /\ timer' = [p \in Thread |-> IF timer[p] = 0 THEN 0 ELSE timer[p] - 1]
    /\ ready' = {p \in Process : timer[p] = 1}
    /\ UNCHANGED <<sig, nxt, notified>>

\* Nothing happens any more until something outside the DRD acts.
Quiescent ==
    /\ ready = {}
    /\ ~UpdatePending
    /\ \A p \in Process : timer[p] = 0
=============================================================================
