---------------------------- MODULE RequestReply -----------------------------
(***************************************************************************)
(* What the users of an inference node see of it, whatever threads, queues  *)
(* and sockets are behind: a request is answered once, on the connection    *)
(* that sent it, under its own request_id, and only after it was asked.     *)
(***************************************************************************)
CONSTANT Request

VARIABLE status   (* how far each request has come                          *)

Init == status = [r \in Request |-> "new"]

Ask(r) ==
    /\ status[r] = "new"
    /\ status' = [status EXCEPT ![r] = "asked"]

Answer(r) ==
    /\ status[r] = "asked"
    /\ status' = [status EXCEPT ![r] = "answered"]

Next == \E r \in Request : Ask(r) \/ Answer(r)

Spec == Init /\ [][Next]_status
==============================================================================
