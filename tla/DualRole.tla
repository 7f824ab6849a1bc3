------------------------------ MODULE DualRole ------------------------------
(***************************************************************************)
(* What the role switch of the DRD promises.  A stimulus calls for a role; *)
(* the DRD eventually takes it; the controller of another role is released *)
(* before the controller of the new role is engaged.                       *)
(***************************************************************************)
VARIABLES
    want,       \* the role the last stimulus calls for
    role,       \* the role the DRD has taken
    active      \* the role whose controller is enabled

vars == <<want, role, active>>

Role == {"NONE", "HOST", "DEVICE"}

Init == want = "NONE" /\ role = "NONE" /\ active = "NONE"

Stimulus ==
    /\ want' \in Role
    /\ UNCHANGED <<role, active>>

Take ==
    /\ role # want
    /\ role' = want
    /\ UNCHANGED <<want, active>>

Release ==
    /\ active \notin {role, "NONE"}
    /\ active' = "NONE"
    /\ UNCHANGED <<want, role>>

Engage ==
    /\ active = "NONE"
    /\ active' = role
    /\ UNCHANGED <<want, role>>

Next == Stimulus \/ Take \/ Release \/ Engage

Spec == Init /\ [][Next]_vars /\ WF_vars(Take) /\ WF_vars(Release) /\ WF_vars(Engage)
=============================================================================
