------------------------------ MODULE Processes ------------------------------
(***************************************************************************)
(* The two processes that answer for nodes: the API server (ApiServer) and *)
(* the node agent (NodeAgent).  Each runs as if the other were not there:  *)
(* the agent reports by logging what it finds, and neither calls the       *)
(* other, so they share no variable, and a step is a step of one of them.  *)
(***************************************************************************)
EXTENDS ApiServer

CONSTANT MaxEvents
VARIABLES main, status, loop, cancelled, stopped, stream, events
Agent == INSTANCE NodeAgent

ASSUME ProcessesAssumption == Agent!AgentAssumption

agentVars     == <<main, status, loop, cancelled, stopped, stream, events>>
processesVars == <<vars, agentVars>>

ProcessesInit == Init /\ Agent!Init

ServerStep == Next /\ UNCHANGED agentVars
AgentStep  == Agent!Next /\ UNCHANGED vars

ProcessesNext == ServerStep \/ AgentStep

ProcessesSpec == ProcessesInit /\ [][ProcessesNext]_processesVars /\ Agent!Fairness

-----------------------------------------------------------------------------
(* The properties of the two processes *)

\* The type invariants of the API server and the node agent.
ProcessesTypeOK == TypeOK /\ Agent!TypeOK

\* The node agent's status and the end of its process (NodeAgent).
StatusIsTrue      == Agent!StatusIsTrue
ShutdownCompletes == Agent!ShutdownCompletes
=============================================================================
