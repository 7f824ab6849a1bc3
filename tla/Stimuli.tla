------------------------------ MODULE Stimuli ------------------------------
(***************************************************************************)
(* What the testbench does to the ports and the registers of the DRD: it   *)
(* drives CC and VBUS and writes ROLE_CTRL, INTR_STATUS and INTR_ENABLE,   *)
(* at any time and in any order.  run_scenarios is one of its behaviours.  *)
(***************************************************************************)
EXTENDS DrdController

CONSTANTS
    MinGap,     \* the testbench lets this much time pass between two changes
                \* of what it asks of the role manager,
    RoleGap,    \* and this much after one that calls for another role
    Inputs,     \* the values of <<cc, vbus>> it drives
    Requests,   \* the roles it writes to ROLE_CTRL
    Clears,     \* the bits it writes as 1 to INTR_STATUS
    Masks       \* the values it writes to INTR_ENABLE

ASSUME GapAssumption == MinGap \in Nat /\ RoleGap \in Nat
ASSUME StimuliAssumption ==
    /\ Inputs \subseteq CcState \X BOOLEAN
    /\ Requests \subseteq {"HOST", "DEVICE"}
    /\ Clears \subseteq SUBSET IntrBit
    /\ Masks \subseteq SUBSET IntrBit

VARIABLES
    want,       \* ghost: the role that the last change of the inputs or the
                \* last write of ROLE_CTRL calls for
    idle        \* ghost: for how long both controllers have been disabled,
                \* counted up to SettleTime

ghosts == <<want, idle>>

StimuliTypeOK == want \in Role /\ idle \in 0..SettleTime

StimuliInit == want = "NONE" /\ idle = 0

-----------------------------------------------------------------------------
\* The testbench thread runs in any evaluation phase.  Its writes, at whatever
\* time they come:

CallFor(r) ==
    /\ timer' = [timer EXCEPT ![Testbench] = IF r = want THEN MinGap ELSE RoleGap]
    /\ want' = r

DriveInputs(cc, vbus) ==
    /\ CallFor(Detected(cc, vbus))
    /\ nxt' = [nxt EXCEPT !.cc = cc, !.vbus = vbus]
    /\ UNCHANGED <<sig, notified, ready, roleManagerVars, drdControllerVars>>

AskForRole(r) == CallFor(r) /\ WriteRoleCtrl(r)

\* The same by a testbench that leaves the gap after the last one.

SetInputs(cc, vbus) ==
    /\ timer[Testbench] = 0
    /\ cc # nxt.cc \/ vbus # nxt.vbus
    /\ DriveInputs(cc, vbus)

ForceRole(r) ==
    /\ timer[Testbench] = 0
    /\ AskForRole(r)

ClearInterrupts(ones) == WriteIntrStatus(ones) /\ UNCHANGED <<timer, want>>

MaskInterrupts(mask) == WriteIntrEnable(mask) /\ UNCHANGED <<timer, want>>

Stimulate ==
    \/ \E input \in Inputs : SetInputs(input[1], input[2])
    \/ \E r \in Requests : ForceRole(r)

Software ==
    \/ \E ones \in Clears : ClearInterrupts(ones)
    \/ \E mask \in Masks : MaskInterrupts(mask)

-----------------------------------------------------------------------------
\* How idle is counted in an update phase and when time advances.
IdleAfterUpdate ==
    idle' = IF nxt.host_enable \/ nxt.dev_enable THEN 0 ELSE idle

IdleAfterTick ==
    idle' = IF sig.host_enable \/ sig.dev_enable \/ idle = SettleTime
            THEN idle ELSE idle + 1
=============================================================================
