---------------------------- MODULE RoleManager ----------------------------
(***************************************************************************)
(* usb3_role_manager_t: one thread that turns the CC and VBUS inputs and   *)
(* the role requested by software into current_role and a role_changed     *)
(* pulse.                                                                  *)
(***************************************************************************)
EXTENDS Kernel

CONSTANT PulseTime      \* how long role_changed stays high (10 ns)

ASSUME PulseTimeAssumption == PulseTime \in Nat \ {0}

VARIABLES
    m_role,
    m_host_requested,
    m_device_requested,
    rm_pc               \* where role_detection_process stands

roleManagerVars == <<m_role, m_host_requested, m_device_requested, rm_pc>>

RoleManagerTypeOK ==
    /\ m_role \in Role
    /\ m_host_requested \in BOOLEAN
    /\ m_device_requested \in BOOLEAN
    /\ rm_pc \in {"start", "wait", "pulse"}

\* Mutant: a constructor that forgets m_role.
RoleManagerInit_NoRole ==
    /\ m_role = "UNINITIALIZED"
    /\ m_host_requested = FALSE
    /\ m_device_requested = FALSE
    /\ rm_pc = "start"

RoleManagerInit ==
    /\ m_role = "NONE"
    /\ m_host_requested = FALSE
    /\ m_device_requested = FALSE
    /\ rm_pc = "start"

\* The role that a CC state and a VBUS level call for.
Detected(cc, vbus) ==
    CASE cc = "CC_UFP_ATTACHED" /\ vbus -> "HOST"
      [] cc = "CC_DFP_ATTACHED" /\ vbus -> "DEVICE"
      [] OTHER -> "NONE"

\* A request overrides the inputs; of two requests, DEVICE wins.
Selected ==
    CASE m_device_requested -> "DEVICE"
      [] m_host_requested /\ ~m_device_requested -> "HOST"
      [] OTHER -> Detected(sig.cc_int, sig.vbus_int)

-----------------------------------------------------------------------------
RoleDetectionStart ==
    /\ "role_detection_process" \in ready
    /\ rm_pc = "start"
    /\ nxt' = [nxt EXCEPT !.role = "NONE", !.role_changed = FALSE]
    /\ rm_pc' = "wait"
    /\ Wait("role_detection_process", 0)
    /\ UNCHANGED <<sig, notified, m_role, m_host_requested, m_device_requested>>

\* Mutant: a wait that does not list vbus.
RoleDetectionWoken_NoVbus ==
    /\ rm_pc = "wait"
    /\ \/ sig.cc_int # nxt.cc_int
       \/ "m_role_request_event" \in notified

\* Only in "wait" does the thread listen: a change of an input or a request
\* that comes while it is in "pulse" does not wake it.
RoleDetectionWoken ==
    /\ rm_pc = "wait"
    /\ \/ sig.cc_int # nxt.cc_int
       \/ sig.vbus_int # nxt.vbus_int
       \/ "m_role_request_event" \in notified

\* Mutant: the pulse is one unit too long.
ApplyRole_LongPulse(new_role) ==
    /\ new_role # m_role
    /\ m_role' = new_role
    /\ nxt' = [nxt EXCEPT !.role = new_role, !.role_changed = TRUE]
    /\ rm_pc' = "pulse"
    /\ Wait("role_detection_process", PulseTime + 1)

\* apply_role() up to its wait.
ApplyRole(new_role) ==
    /\ new_role # m_role
    /\ m_role' = new_role
    /\ nxt' = [nxt EXCEPT !.role = new_role, !.role_changed = TRUE]
    /\ rm_pc' = "pulse"
    /\ Wait("role_detection_process", PulseTime)

\* apply_role() returns at once when the role does not change.
KeepRole(new_role) ==
    /\ new_role = m_role
    /\ Wait("role_detection_process", 0)
    /\ UNCHANGED <<nxt, m_role, rm_pc>>

DetectRole ==
    /\ "role_detection_process" \in ready
    /\ rm_pc = "wait"
    /\ m_host_requested' = FALSE
    /\ m_device_requested' = FALSE
    /\ ApplyRole(Selected) \/ KeepRole(Selected)
    /\ UNCHANGED <<sig, notified>>

\* Mutant: role_changed is never lowered, so it has no second posedge.
EndRolePulse_StaysHigh ==
    /\ "role_detection_process" \in ready
    /\ rm_pc = "pulse"
    /\ rm_pc' = "wait"
    /\ Wait("role_detection_process", 0)
    /\ UNCHANGED <<sig, nxt, notified, m_role, m_host_requested, m_device_requested>>

EndRolePulse ==
    /\ "role_detection_process" \in ready
    /\ rm_pc = "pulse"
    /\ nxt' = [nxt EXCEPT !.role_changed = FALSE]
    /\ rm_pc' = "wait"
    /\ Wait("role_detection_process", 0)
    /\ UNCHANGED <<sig, notified, m_role, m_host_requested, m_device_requested>>

RoleDetection == RoleDetectionStart \/ DetectRole \/ EndRolePulse

\* Mutant: the two flags are mixed up.
RequestRole_Swapped(r) ==
    /\ m_host_requested' = (m_host_requested \/ r = "DEVICE")
    /\ m_device_requested' = (m_device_requested \/ r = "HOST")
    /\ notified' = notified \cup {"m_role_request_event"}
    /\ UNCHANGED <<sig, nxt, ready, m_role, rm_pc>>

\* request_role(r), called in the thread of whoever writes ROLE_CTRL.
RequestRole(r) ==
    /\ m_host_requested' = (m_host_requested \/ r = "HOST")
    /\ m_device_requested' = (m_device_requested \/ r = "DEVICE")
    /\ notified' = notified \cup {"m_role_request_event"}
    /\ UNCHANGED <<sig, nxt, ready, m_role, rm_pc>>
=============================================================================
