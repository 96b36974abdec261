--------------------------- MODULE MCNodeLifecycle ---------------------------
(* An instance of NodeLifecycle for TLC.  A char has eight values, so three *)
(* is the longest first parameter.                                          *)
EXTENDS NodeLifecycle

MCUrl  == [r \in Requests |-> [i \in 1..(4 - r) |-> r]]
MCJson == [r \in Requests |-> [i \in 1..r |-> r + 3]]
==============================================================================
