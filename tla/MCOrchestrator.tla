--------------------------- MODULE MCOrchestrator ---------------------------
(* Instances of Orchestrator for TLC. *)
EXTENDS Orchestrator, TLC

CONSTANTS t1, t2

NoNeeds == [t \in Tasks |-> {}]

\* t2 waits for t1.
Chain == [t \in Tasks |-> IF t = t2 THEN {t1} ELSE {}]

AgentSymmetry == Permutations(Agents)

=============================================================================
