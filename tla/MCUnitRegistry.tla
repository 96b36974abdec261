--------------------------- MODULE MCUnitRegistry ----------------------------
(* The instance of UnitRegistry for TLC: clients that wait for the answers  *)
(* to setup and exit, one node crash, and ports for every unit the bounds   *)
(* allow.                                                                   *)
(* Deadlock checking is off: clients and nodes may stop asking.             *)
EXTENDS UnitRegistry
==============================================================================
