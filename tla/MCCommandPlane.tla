--------------------------- MODULE MCCommandPlane ---------------------------
(* The parts of the command plane, one scenario each.                      *)
EXTENDS CommandPath, ThreatResponse, AgentSession, CommanderKey

VARIABLE scenario

Init ==
    /\ scenario \in {"path", "threat", "session", "key"}
    /\ PathInit /\ ThreatInit /\ SessionInit /\ KeyInit

Path == scenario = "path" /\ PathNext /\ UNCHANGED <<scenario, threatVars, sessionVars, keyVars>>
Threat == scenario = "threat" /\ ThreatNext /\ UNCHANGED <<scenario, pathVars, sessionVars, keyVars>>
Session == scenario = "session" /\ SessionNext /\ UNCHANGED <<scenario, pathVars, threatVars, keyVars>>
Key == scenario = "key" /\ KeyNext /\ UNCHANGED <<scenario, pathVars, threatVars, sessionVars>>

Next == Path \/ Threat \/ Session \/ Key

vars == <<scenario, pathVars, threatVars, sessionVars, keyVars>>

\* The fairness of ThreatSpec and SessionSpec, in the scenario each belongs to.
Fairness ==
    /\ \A r \in Results : WF_vars(RunNext(r) /\ Threat)
    /\ WF_vars(AgentStep /\ Session) /\ WF_vars(Serve /\ Session)
    /\ WF_vars(KernelStarts /\ Session)

Spec == Init /\ [][Next]_vars /\ Fairness

\* Each part's variables have their types in every scenario.
TypeOK == PathTypeOK /\ ThreatTypeOK /\ SessionTypeOK /\ KeyTypeOK

\* Every agent that is not stopped goes on being answered (AgentSession).
AgentIsHeardInSession == scenario = "session" => AgentIsHeard

\* The agent is heard for as long as it is meant to run, and ends when told to.
SessionLives == AgentIsHeardInSession /\ SignalExits
=============================================================================
