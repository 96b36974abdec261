---------------------------- MODULE MCTcpBridge -----------------------------
(* Instances of TcpBridge for TLC.                                          *)
(*   MCTcpBridgeStream.cfg   one session, streams of two answers            *)
(*   MCTcpBridgeSessions.cfg two sessions on one IO loop, com ids that wrap *)
(* Deadlock checking is off: clients may stop asking.                       *)
EXTENDS TcpBridge
==============================================================================
