------------------------------ MODULE MCBuffer -------------------------------
(* An instance of Buffer for TLC, with the sizes scaled down together.      *)
EXTENDS Buffer
==============================================================================
