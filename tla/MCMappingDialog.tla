-------------------------- MODULE MCMappingDialog ---------------------------
(***************************************************************************)
(* A mouse whose name tells its back button and one whose name tells       *)
(* nothing; the second matches the device of the first as well.            *)
(***************************************************************************)
EXTENDS MappingDialog

MCMouse == {"master", "plain"}
MCButton == {"back", "extra"}
MCInferred == [m \in MCMouse |-> IF m = "master" THEN {"back"} ELSE {}]
MCNode == {"node1", "node2"}
MCCompatible == [m \in MCMouse |-> IF m = "master" THEN {"node1"} ELSE MCNode]
=============================================================================
