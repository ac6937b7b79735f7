-------------------------- MODULE MCPipelineStatus --------------------------
(* Instances of PipelineStatus for TLC.                                    *)
EXTENDS PipelineStatus, TLC

CONSTANTS ing, kafka

Chain == [s \in Stack |-> IF s = kafka THEN {ing} ELSE {}]
Branches == [s \in Stack |-> {}]
Clients == Permutations(Client)
=============================================================================
