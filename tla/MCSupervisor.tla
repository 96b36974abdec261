----------------------------- MODULE MCSupervisor -----------------------------
(* unit-manager, which binds a port, and one node, which does not; a start, *)
(* a stop and a start, and one fault: a service that ends by itself, or a    *)
(* signal to a supervisor.  Deadlock checking is off: after the last script *)
(* nothing need happen.                                                     *)
EXTENDS Supervisor

MCServices == <<"unit-manager", "rkllm-node">>
==============================================================================
