----------------------------- MODULE BoundedFifo -----------------------------
(***************************************************************************)
(* What a node's job queue promises to the threads that share it: a FIFO    *)
(* of at most MaxSize jobs that hands every accepted job out exactly once,  *)
(* in the order of acceptance, and that takes nothing new once it is        *)
(* closed but still hands out what it holds.                                *)
(*                                                                          *)
(* NodeJobQueue implements this specification with a mutex, a condition     *)
(* variable and three kinds of threads.  A refused put is a stuttering      *)
(* step here: it leaves the queue alone.                                    *)
(***************************************************************************)
EXTENDS Naturals, Sequences

CONSTANTS Job,      (* the jobs that can be put                             *)
          MaxSize   (* capacity                                             *)

VARIABLES queue,    (* accepted jobs that were not handed out yet           *)
          open,     (* FALSE once the queue was closed                      *)
          served    (* the jobs handed out, oldest first                    *)

vars == <<queue, open, served>>

Init ==
    /\ queue  = <<>>
    /\ open   = TRUE
    /\ served = <<>>

Put(job) ==
    /\ open
    /\ Len(queue) < MaxSize
    /\ queue' = Append(queue, job)
    /\ UNCHANGED <<open, served>>

Take ==
    /\ queue # <<>>
    /\ served' = Append(served, Head(queue))
    /\ queue'  = Tail(queue)
    /\ UNCHANGED open

Close ==
    /\ open
    /\ open' = FALSE
    /\ UNCHANGED <<queue, served>>

Next ==
    \/ \E job \in Job : Put(job)
    \/ Take
    \/ Close

Spec == Init /\ [][Next]_vars
==============================================================================
