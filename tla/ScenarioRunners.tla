-------------------------- MODULE ScenarioRunners ---------------------------
(***************************************************************************)
(* The two ways a scenario is run: against the mock devices, headless      *)
(* (L0), and on the stage of Isaac Sim (L2).                               *)
(***************************************************************************)
EXTENDS IsaacL2, HeadlessCell

ASSUME HeadlessAssumption == AreScenarios

\* The two share no state, so that no interleaving tells more: a run is one or the other, and the
\* stage is explored beside one scenario of the mocks.
First == CHOOSE s \in Scenarios : Loadable(s)
HeadlessIdle == position = 1 /\ step = 0 /\ final = Undecided /\ scenario = First

RunnersInit == SimInit /\ HeadlessInit

RunnersNext ==
    \/ HeadlessIdle /\ SimNext /\ UNCHANGED headlessVars
    \/ SimInit /\ client.base = 0 /\ HeadlessNext /\ UNCHANGED simVars

RunnersSpec == RunnersInit /\ [][RunnersNext]_<<simVars, headlessVars>>
=============================================================================
