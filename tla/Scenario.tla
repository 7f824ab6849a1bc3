------------------------------ MODULE Scenario ------------------------------
(***************************************************************************)
(* run_scenarios, the test program of the repository: the DRD becomes the  *)
(* host of the peer, sends it data and reads them back, and is then        *)
(* switched to the device role, by the inputs and by ROLE_CTRL.  A         *)
(* simulator runs the processes in an order of its own; here they run in   *)
(* every order.                                                            *)
(***************************************************************************)
EXTENDS Drd

CONSTANTS
    BeforeVbus,     \* 100 ns and 500 ns
    SettleRole,     \* 15 ms
    RunBulk,        \* 200 us
    BeforeRequest,  \* 1 us
    BeforeReadback, \* 5 us
    TxData          \* tx_data

\* Its stimuli are some of those that Drd knows, and its waits between two of
\* them are as long as a testbench of Drd has to wait.
ASSUME ScenarioAssumption ==
    /\ {BeforeVbus, SettleRole, RunBulk, BeforeRequest, BeforeReadback}
          \subseteq Nat \ {0}
    /\ TxData \in Payload
    /\ {<<"CC_UFP_ATTACHED", FALSE>>, <<"CC_UFP_ATTACHED", TRUE>>,
        <<"CC_DFP_ATTACHED", TRUE>>} \subseteq Inputs
    /\ "DEVICE" \in Requests
    /\ IntrBit \in Clears
    /\ {<<"OUT", TxData>>, <<"IN", NoData>>} \subseteq Transfers
    /\ MinGap <= BeforeVbus
    /\ RoleGap <= SettleRole /\ RoleGap <= BeforeRequest
    /\ RingDepth >= 2

VARIABLES
    tb_pc,      \* where run_scenarios stands: what it does next
    tb_wait     \* time left in its wait; its gap is in timer[Testbench]

scenarioVars == <<vars, tb_pc, tb_wait>>

ScenarioInit == Init /\ tb_pc = "attach" /\ tb_wait = 0

-----------------------------------------------------------------------------
\* From one wait of the testbench to the next, of d units.
Step(from, to, d) ==
    /\ tb_wait = 0
    /\ tb_pc = from
    /\ tb_pc' = to
    /\ tb_wait' = d

\* run_scenarios writes when its wait is over, and looks at nothing before.
Drive(cc, vbus) == DriveInputs(cc, vbus) /\ UNCHANGED controllerVars

AttachDevice ==
    Step("attach", "power", BeforeVbus) /\ Drive("CC_UFP_ATTACHED", FALSE)

PowerDevice ==
    Step("power", "bulk_out", SettleRole) /\ Drive("CC_UFP_ATTACHED", TRUE)

BulkOut == Step("bulk_out", "bulk_in", RunBulk) /\ Enqueue("OUT", TxData)

BulkIn == Step("bulk_in", "verify", RunBulk) /\ Enqueue("IN", NoData)

\* Mutant: ROLE_CTRL is written without a wait after the flip.
FlipToDevice_NoWait ==
    Step("verify", "request", 0) /\ Drive("CC_DFP_ATTACHED", TRUE)

\* rx_buffer() is compared with tx_data, in the step that flips CC.
FlipToDevice ==
    Step("verify", "request", BeforeRequest) /\ Drive("CC_DFP_ATTACHED", TRUE)

RequestDevice ==
    /\ Step("request", "readback", BeforeReadback)
    /\ AskForRole("DEVICE")
    /\ UNCHANGED controllerVars

ReadStatus ==
    /\ Step("readback", "clear", SettleRole)
    /\ UNCHANGED vars

\* The interrupts are cleared and sc_stop() is called.
ClearAndStop ==
    /\ Step("clear", "stop", 0)
    /\ ClearInterrupts(IntrBit)
    /\ UNCHANGED controllerVars

RunScenarios ==
    /\ \/ AttachDevice
       \/ PowerDevice
       \/ BulkOut
       \/ BulkIn
       \/ FlipToDevice
       \/ RequestDevice
       \/ ReadStatus
       \/ ClearAndStop
    /\ UNCHANGED idle

-----------------------------------------------------------------------------
\* The testbench is one of the processes that an evaluation phase runs.
EvaluationOver == tb_wait > 0

ScenarioRun ==
    tb_pc # "stopped" /\ RunProcess /\ UNCHANGED <<tb_pc, tb_wait>>

ScenarioUpdate ==
    /\ EvaluationOver
    /\ Update
    /\ UNCHANGED <<tb_pc, tb_wait>>

\* After sc_stop() the evaluation phase runs to its end, and so does the update.
LastUpdate ==
    /\ tb_pc = "stop" /\ ready = {}
    /\ IF UpdatePending THEN Update ELSE UNCHANGED vars
    /\ tb_pc' = "stopped"
    /\ UNCHANGED tb_wait

ScenarioTick == tb_wait > 0 /\ Tick /\ tb_wait' = tb_wait - 1 /\ UNCHANGED tb_pc

ScenarioNext ==
    RunScenarios \/ ScenarioRun \/ ScenarioUpdate \/ LastUpdate \/ ScenarioTick

\* The simulator runs until sc_stop().
ScenarioSpec ==
    ScenarioInit /\ [][ScenarioNext]_scenarioVars /\ WF_scenarioVars(ScenarioNext)

-----------------------------------------------------------------------------
\* "loopback passed": when the testbench looks, the peer is enumerated and
\* rx_buffer() holds the data that was sent to it.
LoopbackPassed ==
    tb_pc = "verify" /\ tb_wait = 0 =>
        m_dev.enumerated /\ m_rx_buf = TxData

\* The role field of STATUS "says device" when the testbench reads it.
ReadbackSaysDevice ==
    tb_pc = "readback" /\ tb_wait = 0 =>
        ReadRegister("STATUS").role = "DEVICE"

\* "wait for role switch to settle": when the simulation stops, the role switch
\* is over and the device controller alone is enabled.
SwitchSettled ==
    tb_pc = "stopped" =>
        sig.role = "DEVICE" /\ sig.dev_enable /\ ~sig.host_enable

\* When the simulation stops, no interrupt has come after the testbench has
\* cleared them: INTR_STATUS is empty and irq is low.
InterruptsCleared == tb_pc = "stopped" => m_intr_status = {} /\ ~sig.irq

\* The test program comes to its end.
Stops == <>(tb_pc = "stopped")

\* run_scenarios is one of the testbenches of Drd, though it looks at nothing and
\* only waits: it changes its inputs, leaves the gap between two stimuli and does
\* not overfill the ring.  What Drd promises to all of them, it promises to the
\* test program.
IsTestbench == Spec
=============================================================================
