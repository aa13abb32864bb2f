----------------------------- MODULE MCProcesses -----------------------------
(***************************************************************************)
(* Processes for TLC.  The two processes share nothing, so every behaviour *)
(* of both violates a property of one of them just when a behaviour of     *)
(* that one alone does: here the one that "which" names takes the steps.   *)
(***************************************************************************)
EXTENDS Processes

VARIABLE which

\* Two records at most, one of them an order, the kind with the fewest routes.
MCInit ==
    /\ ProcessesInit
    /\ \E i \in Ids : rows[i].kind = "order"
    /\ which \in {"server", "agent"}

MCNext ==
    \/ which = "server" /\ ServerStep /\ UNCHANGED which
    \/ which = "agent" /\ AgentStep /\ UNCHANGED which

MCSpec == MCInit /\ [][MCNext]_<<processesVars, which>> /\ Agent!Fairness
=============================================================================
