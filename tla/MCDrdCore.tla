----------------------------- MODULE MCDrdCore -----------------------------
(***************************************************************************)
(* Instances of DrdCore for TLC.  Of the durations in the code (1 ns,      *)
(* 10 ns, 1 us) the constants keep no ratios, and their order but for      *)
(* pulse and pause, which one run lets end at once.                        *)
(***************************************************************************)
EXTENDS DrdCore

AllInputs == CcState \X BOOLEAN

\* One value of the inputs for each role.
InputPerRole == {<<"CC_UFP_ATTACHED", FALSE>>, <<"CC_UFP_ATTACHED", TRUE>>,
                 <<"CC_DFP_ATTACHED", TRUE>>}

BothRoles == {"HOST", "DEVICE"}

AllPulses == {"transfer_done", "enumeration_done", "bulk_irq"}

BulkOnly == {"bulk_irq"}

\* Acknowledge one interrupt at a time, or all of them.
OneOrAll == {{b} : b \in IntrBit} \cup {IntrBit}

\* Mask nothing, or one source.
TwoMasks == {IntrBit, IntrBit \ {"ROLE_CHANGED"}}

Nothing == {}
=============================================================================
