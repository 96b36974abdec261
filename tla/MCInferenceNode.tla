-------------------------- MODULE MCInferenceNode ---------------------------
(* Instances of InferenceNode for TLC.                                      *)
(*   MCInferenceNodeLlm.cfg      patient users that reconnect; one session, *)
(*                               one queued job; streamed results           *)
(*   MCInferenceNodeAsr.cfg      more users than the job queue holds        *)
(*   MCInferenceNodeCrash.cfg    a user that exits, asks and hangs up       *)
(*                               without waiting for its answers            *)
(* Deadlock checking is off: users may stop asking.                         *)
EXTENDS InferenceNode
==============================================================================
