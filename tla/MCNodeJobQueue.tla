--------------------------- MODULE MCNodeJobQueue ----------------------------
(* The instance of NodeJobQueue for TLC.  Deadlock checking is off: a       *)
(* stopped queue whose worker was joined has nothing left to do.            *)
EXTENDS NodeJobQueue
==============================================================================
