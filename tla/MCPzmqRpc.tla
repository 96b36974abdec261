------------------------------ MODULE MCPzmqRpc ------------------------------
(* An instance of PzmqRpc for TLC: unit-manager ("sys") with two sessions    *)
(* that call a node, and the node's event thread that calls unit-manager.   *)
EXTENDS PzmqRpc

MCServers   == {"sys", "node"}
MCCallers   == {"session1", "session2", "events"}
MCHost      == [c \in MCCallers |-> IF c = "events" THEN "node" ELSE "sys"]
MCTarget    == [c \in MCCallers |-> IF c = "events" THEN "sys" ELSE "node"]
MCWanted    == [c \in MCCallers |-> CASE c = "events"   -> {"register_unit"}
                                   [] c = "session1" -> {"setup"}
                                   [] c = "session2" -> {"exit"}]
MCActionsOf == [s \in MCServers |-> IF s = "sys" THEN <<"sql_select", "register_unit">>
                                                 ELSE <<"setup", "exit">>]
MCMaxCalls  == [c \in MCCallers |-> IF c = "session1" THEN 2 ELSE 1]
MCMaxEnds   == [s \in MCServers |-> IF s = "node" THEN 1 ELSE 0]
==============================================================================
