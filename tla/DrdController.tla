--------------------------- MODULE DrdController ---------------------------
(***************************************************************************)
(* usb3_drd_controller_t: the top level of the DRD.  forward_inputs copies *)
(* the ports to the role manager, role_switch_monitor turns a change of    *)
(* role into the enables of the two controllers, interrupt_collector and   *)
(* raise_irq turn their completions into INTR_STATUS and irq, and          *)
(* cfg_b_transport is the software's access to the registers.              *)
(***************************************************************************)
EXTENDS RoleManager

CONSTANT SettleTime     \* both controllers stay off for this long (1 us)

ASSUME SettleTimeAssumption == SettleTime \in Nat \ {0}

IntrBit == {"ROLE_CHANGED", "ENUM_DONE", "XFER_DONE", "BULK_IRQ"}

VARIABLES
    sw_pc,              \* where role_switch_monitor stands
    sw_role,            \* its local variable role
    m_intr_status,
    m_intr_enable

drdControllerVars == <<sw_pc, sw_role, m_intr_status, m_intr_enable>>

DrdControllerTypeOK ==
    /\ sw_pc \in {"start", "wait", "settle"}
    /\ sw_role \in Role
    /\ m_intr_status \subseteq IntrBit
    /\ m_intr_enable \subseteq IntrBit

\* INTR_ENABLE starts with every bit set.
DrdControllerInit ==
    /\ sw_pc = "start"
    /\ sw_role = "NONE"
    /\ m_intr_status = {}
    /\ m_intr_enable = IntrBit

\* raise_irq(bits), in a step whose other writes make the pending signals n.
\* irq is set here, cleared in WriteIntrStatus and written nowhere else.
RaiseIrq(bits, n) ==
    /\ m_intr_status' = m_intr_status \cup bits
    /\ nxt' = [n EXCEPT !.irq = @ \/ (m_intr_status \cup bits) \cap m_intr_enable # {}]

-----------------------------------------------------------------------------
\* Mutant: a sensitivity list without vbus.
ForwardInputsWoken_NoVbus == sig.cc # nxt.cc

ForwardInputsWoken == sig.cc # nxt.cc \/ sig.vbus # nxt.vbus

ForwardInputs ==
    /\ "forward_inputs" \in ready
    /\ nxt' = [nxt EXCEPT !.cc_int = sig.cc, !.vbus_int = sig.vbus]
    /\ Wait("forward_inputs", 0)
    /\ UNCHANGED <<sig, notified, roleManagerVars, drdControllerVars>>

\* Mutant: the wait is for the end of the pulse.
RoleSwitchWoken_Negedge == sw_pc = "wait" /\ sig.role_changed /\ ~nxt.role_changed

RoleSwitchWoken == sw_pc = "wait" /\ ~sig.role_changed /\ nxt.role_changed

\* Mutant: the host controller stays enabled.
ControllersOff_HostLeftOn(n) == [n EXCEPT !.dev_enable = FALSE]

\* The writes that disable both controllers.
ControllersOff(n) == [n EXCEPT !.host_enable = FALSE, !.dev_enable = FALSE]

\* Mutant: the pause is one unit long.
Settle_Short == Wait("role_switch_monitor", 1)

\* The pause in which both controllers stay off.
Settle == Wait("role_switch_monitor", SettleTime)

RoleSwitchStart ==
    /\ "role_switch_monitor" \in ready
    /\ sw_pc = "start"
    /\ nxt' = ControllersOff(nxt)
    /\ sw_pc' = "wait"
    /\ Wait("role_switch_monitor", 0)
    /\ UNCHANGED <<sig, notified, roleManagerVars, sw_role, m_intr_status,
                   m_intr_enable>>

\* The role is read here, before the wait, and used in EnableController.
DisableControllers ==
    /\ "role_switch_monitor" \in ready
    /\ sw_pc = "wait"
    /\ sw_role' = sig.role
    /\ nxt' = ControllersOff(nxt)
    /\ sw_pc' = "settle"
    /\ Settle
    /\ UNCHANGED <<sig, notified, roleManagerVars, m_intr_status, m_intr_enable>>

EnableController ==
    /\ "role_switch_monitor" \in ready
    /\ sw_pc = "settle"
    /\ RaiseIrq({"ROLE_CHANGED"},
                [nxt EXCEPT !.host_enable = @ \/ sw_role = "HOST",
                            !.dev_enable = @ \/ sw_role = "DEVICE"])
    /\ sw_pc' = "wait"
    /\ Wait("role_switch_monitor", 0)
    /\ UNCHANGED <<sig, notified, roleManagerVars, sw_role, m_intr_enable>>

RoleSwitch == RoleSwitchStart \/ DisableControllers \/ EnableController

\* Mutant: a sensitivity list without enum_done.
InterruptCollectorWoken_NoEnum ==
    \/ sig.role_changed # nxt.role_changed
    \/ sig.xfer_done # nxt.xfer_done
    \/ ~sig.bulk_irq /\ nxt.bulk_irq

InterruptCollectorWoken ==
    \/ sig.role_changed # nxt.role_changed
    \/ sig.enum_done # nxt.enum_done
    \/ sig.xfer_done # nxt.xfer_done
    \/ ~sig.bulk_irq /\ nxt.bulk_irq

\* The bits whose source is high, whichever signal woke the method.
HighSources ==
    {b \in IntrBit : \/ b = "ENUM_DONE" /\ sig.enum_done
                     \/ b = "XFER_DONE" /\ sig.xfer_done
                     \/ b = "BULK_IRQ" /\ sig.bulk_irq}

InterruptCollector ==
    /\ "interrupt_collector" \in ready
    /\ IF HighSources # {}
       THEN RaiseIrq(HighSources, nxt)
       ELSE UNCHANGED <<nxt, m_intr_status>>
    /\ Wait("interrupt_collector", 0)
    /\ UNCHANGED <<sig, notified, roleManagerVars, sw_pc, sw_role, m_intr_enable>>

-----------------------------------------------------------------------------
\* What cfg_b_transport answers to a read.  Of STATUS only the two fields that
\* change; the other addresses return what software has written there, or 0.
ReadRegister(reg) ==
    CASE reg = "STATUS" -> [role |-> sig.role, configured |-> sig.configured]
      [] reg = "INTR_STATUS" -> m_intr_status
      [] reg = "INTR_ENABLE" -> m_intr_enable
      [] reg = "DEV_ADDR" -> sig.dev_addr
      [] reg = "SPEED" -> "SUPER_SPEED"

\* The writes of cfg_b_transport that change what software or the DRD can
\* later observe.  They run in the thread of the caller, which decides what
\* becomes of timer[Testbench].

\* ROLE_CTRL takes 1 (HOST) or 2 (DEVICE) and ignores every other value.
WriteRoleCtrl(r) ==
    /\ r \in {"HOST", "DEVICE"}
    /\ RequestRole(r)
    /\ UNCHANGED drdControllerVars

\* Mutant: irq stays high when the last interrupt is cleared.
WriteIntrStatus_IrqStays(ones) ==
    /\ m_intr_status' = m_intr_status \ ones
    /\ UNCHANGED <<sig, nxt, notified, ready, roleManagerVars, sw_pc, sw_role,
                   m_intr_enable>>

\* Mutant: irq falls though another interrupt is pending.
WriteIntrStatus_IrqFalls(ones) ==
    /\ m_intr_status' = m_intr_status \ ones
    /\ nxt' = [nxt EXCEPT !.irq = FALSE]
    /\ UNCHANGED <<sig, notified, ready, roleManagerVars, sw_pc, sw_role,
                   m_intr_enable>>

\* INTR_STATUS: the bits written as 1 are cleared.
WriteIntrStatus(ones) ==
    /\ m_intr_status' = m_intr_status \ ones
    /\ nxt' = [nxt EXCEPT !.irq = @ /\ m_intr_status \ ones # {}]
    /\ UNCHANGED <<sig, notified, ready, roleManagerVars, sw_pc, sw_role,
                   m_intr_enable>>

\* INTR_ENABLE: the mask changes, irq does not.
WriteIntrEnable(mask) ==
    /\ m_intr_enable' = mask
    /\ UNCHANGED <<sig, nxt, notified, ready, roleManagerVars, sw_pc, sw_role,
                   m_intr_status>>
=============================================================================
