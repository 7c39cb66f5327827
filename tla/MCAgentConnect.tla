--------------------------- MODULE MCAgentConnect ---------------------------
(***************************************************************************)
(* Four agents and three concurrent calls: two with the same sum of ports, *)
(* two that share an agent, one from a larger to a smaller port.           *)
(***************************************************************************)
EXTENDS AgentConnect

MCPorts == 1..4
MCCalls == {<<1, 4>>, <<3, 2>>, <<2, 1>>}
=============================================================================
