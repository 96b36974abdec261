------------------------------ MODULE MCGateway ------------------------------
(* A streamed chat and a voice request over asr and rkllm, each node with   *)
(* room for one session.  Deadlock checking is off: requests end.           *)
EXTENDS Gateway

MCRequests  == {"chat", "voice"}
MCStreaming == {"chat"}
MCStages    == [chat |-> <<"rkllm">>, voice |-> <<"asr", "rkllm">>]
MCStreamed  == {"rkllm"}
MCCalls     == [rkllm |-> 1, asr |-> 2]
==============================================================================
