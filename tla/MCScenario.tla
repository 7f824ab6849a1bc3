----------------------------- MODULE MCScenario -----------------------------
(***************************************************************************)
(* run_scenarios for TLC.  The durations keep the order that they have in  *)
(* the code (1 ns, 10 ns, 1 us, 2 us, 5 us, 200 us, 2 ms, 15 ms) and the   *)
(* sums that matter: an enumeration fits in SettleRole, and the role       *)
(* request comes at the instant in which the settling time ends.           *)
(***************************************************************************)
EXTENDS Scenario

Payloads == {"a", "b"}

Nothing == {}

\* What run_scenarios does, as the parameters of Drd name it.
ScenarioInputs == {<<"CC_UFP_ATTACHED", FALSE>>, <<"CC_UFP_ATTACHED", TRUE>>,
                   <<"CC_DFP_ATTACHED", TRUE>>}

ScenarioRequests == {"DEVICE"}

ScenarioClears == {IntrBit}

ScenarioTransfers == {<<"OUT", "a">>, <<"IN", NoData>>}
=============================================================================
